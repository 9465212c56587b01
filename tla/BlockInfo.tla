------------------------------ MODULE BlockInfo ------------------------------
(***************************************************************************)
(* The blocks of a file on disk: get_block_info_from_path() of src/utils.c *)
(* turns the extents that the file system reports into the block list that *)
(* the reader goes by.                                                     *)
(***************************************************************************)
EXTENDS Naturals, Sequences

CONSTANT MaxExtents     (* 255: fm_extent_count, and what count can hold     *)

ASSUME BlockInfoAssumption == MaxExtents \in Nat \ {0}

\* The file as one block: where it is on disk is its inode, or not known (0).
block_list_inode_only(inode, size) == <<[start |-> 0, len |-> size, block |-> inode]>>

(* In units of 512 bytes, and 2048 more: a block number is never 0, even when
   the file system reports 0 for a block that is not written yet. *)
BlockNumber(fe_physical) == fe_physical \div 512 + 2048

\* Mutant of BlocksOfExtents: the last block keeps the length of its extent.
LengthNotCorrected(extents, size) ==
  [i \in 1 .. Len(extents) |->
     [start |-> extents[i].fe_logical, len |-> extents[i].fe_length,
      block |-> BlockNumber(extents[i].fe_physical)]]

(* One block for each extent reported.  The last one is made to end where the
   file does: it may be larger, or be followed by a hole or by extents that
   were not asked for. *)
BlocksOfExtents(extents, size) ==
  LET count == IF Len(extents) < MaxExtents THEN Len(extents) ELSE MaxExtents
  IN  [i \in 1 .. count |->
         [start |-> extents[i].fe_logical,
          len   |-> IF i = count THEN size - extents[i].fe_logical ELSE extents[i].fe_length,
          block |-> BlockNumber(extents[i].fe_physical)]]

(* extents is what FIEMAP reports of the file; opened says whether it could be
   opened and asked. *)
get_block_info_from_path(inode, size, using_fiemap, opened, extents) ==
  CASE ~using_fiemap                                -> block_list_inode_only(inode, size)
    [] using_fiemap /\ (~opened \/ extents = << >>) -> block_list_inode_only(0, size)
    [] OTHER                                        -> BlocksOfExtents(extents, size)
=============================================================================
