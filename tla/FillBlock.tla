------------------------------ MODULE FillBlock ------------------------------
(***************************************************************************)
(* One file read to its end by fill_data_block(), and hashed a buffer at a *)
(* time by the hasher: whatever blocks the file is made of, the bytes that *)
(* reach the hash must be the bytes of the file, and each pass must hash   *)
(* as many of them as it does for the other files of that size.            *)
(***************************************************************************)
EXTENDS BlockReader, BlockInfo

CONSTANT Layouts   (* the files: their size and their extents                *)

(* What FIEMAP reports: extents in file order that start within the file. *)
ASSUME LayoutsAssumption ==
  \A l \in Layouts :
    /\ l.size \in Nat \ {0}
    /\ l.extents \in Seq([fe_logical : Nat, fe_length : Nat \ {0}, fe_physical : Nat])
    /\ \A i, j \in 1 .. Len(l.extents) :
         i < j => l.extents[i].fe_logical + l.extents[i].fe_length <= l.extents[j].fe_logical
    /\ \A i \in 1 .. Len(l.extents) : l.extents[i].fe_logical < l.size

BlocksOf(l) == get_block_info_from_path(0, l.size, TRUE, TRUE, l.extents)

(* The file's bytes.  A hole reads as zeroes, and every other byte is unlike
   the rest, so that a misplaced one shows. *)
FileContent(l) ==
  [p \in 1 .. l.size |->
     IF \E i \in 1 .. Len(l.extents) :
          /\ p > l.extents[i].fe_logical
          /\ p <= l.extents[i].fe_logical + l.extents[i].fe_length
     THEN p ELSE 0]

VARIABLES layout,          (* the file                                       *)
          blocks,          (* its block list                                 *)
          entry,           (* its path_list_entry                            *)
          wanted_bufsize,  (* of the set it belongs to                       *)
          hash_passes,
          exited           (* the check that stopped the program, or "none"  *)

fillvars == <<layout, blocks, entry, wanted_bufsize, hash_passes, exited>>

FillInit ==
  /\ layout \in Layouts
  /\ blocks = BlocksOf(layout)
  /\ entry = NewEntry
  /\ wanted_bufsize = FirstBufsize(layout.size)
  /\ hash_passes = 0
  /\ exited = "none"

(* The reader gets to the file's block in the read list. *)
Fill ==
  LET visit == fill_data_block(entry, wanted_bufsize, blocks, FileContent(layout), TRUE)
  IN  /\ exited = "none"
      /\ entry.state = "FS_NEED_DATA"
      /\ IF visit.outcome \in {"ready", "filling"}
         THEN /\ entry' = [visit.entry EXCEPT
                             !.state = IF visit.outcome = "ready" THEN "FS_BUFFER_READY" ELSE @]
              /\ UNCHANGED exited
         ELSE /\ exited' = visit.outcome
              /\ UNCHANGED entry
      /\ UNCHANGED <<layout, blocks, wanted_bufsize, hash_passes>>

(* What a pass of the hasher does to this file, as one of a set of equal
   files: published when fully read, sent back for more otherwise. *)
Hash ==
  /\ exited = "none"
  /\ entry.state = "FS_BUFFER_READY"
  /\ hash_passes' = hash_passes + 1
  /\ entry' = [entry EXCEPT
                 !.hashed = update_node_hash(entry),
                 !.buffer = << >>, !.data_in_buffer = 0,
                 !.state = IF entry.next_read_byte >= layout.size
                           THEN "FS_DONE" ELSE "FS_NEED_DATA"]
  /\ wanted_bufsize' =
       IF entry.next_read_byte >= layout.size THEN wanted_bufsize
       ELSE NextBufsize(wanted_bufsize, hash_passes + 1, layout.size)
  /\ UNCHANGED <<layout, blocks, exited>>

Finished == (entry.state = "FS_DONE" \/ exited # "none") /\ UNCHANGED fillvars

FillNext == Fill \/ Hash \/ Finished

FillSpec == FillInit /\ [][FillNext]_fillvars

(* The reader comes back to the file as long as it needs data, and the hasher
   takes up every buffer that is ready. *)
FairSpec == FillSpec /\ WF_fillvars(Fill \/ Hash)

-----------------------------------------------------------------------------
(* The bytes hashed and buffered are the file's first bytes, gaps included,
   in order and without loss: no block boundary, buffer boundary or gap ever
   makes fill_data_block() skip or repeat any. *)
DataIsFilePrefix ==
  entry.hashed \o entry.buffer = SubSeq(FileContent(layout), 1, entry.next_read_byte)

(* A ready buffer holds what its round asks for, full or up to the end of the
   file, whatever the blocks: two files of one size are always compared over
   the same bytes, which is what "inconsistent amount of data in buffers"
   of build_hash_list_round() checks. *)
RoundsAligned ==
  entry.state = "FS_BUFFER_READY" =>
    /\ entry.data_in_buffer = Len(entry.buffer)
    /\ entry.data_in_buffer = Smaller(wanted_bufsize, layout.size - Len(entry.hashed))

(* A file that needs data is at a block it has, not past the last: the reader
   indexes blocks->entry[] with next_read_block unchecked. *)
BlockInList ==
  entry.state = "FS_NEED_DATA" /\ exited = "none" => entry.next_read_block < Len(blocks)

(* "If hash block filled or file fully read: becomes FS_BUFFER_READY" (the
   outgoing state of fill_data_block()). *)
FilledIsReady ==
  entry.state = "FS_NEED_DATA" => entry.bufsize = 0 \/ Space(entry) > 0 \/ entry.buffer = << >>

(* Every file is read and hashed to its end. *)
FullyHashed == <>(entry.state = "FS_DONE" /\ entry.hashed = FileContent(layout))
=============================================================================
