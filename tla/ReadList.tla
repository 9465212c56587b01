------------------------------ MODULE ReadList ------------------------------
(***************************************************************************)
(* sort_read_list() of src/readlist.c: drops the hard links of files that  *)
(* are read already, and puts the blocks of what is left in the order in   *)
(* which the reader goes over them.  Sets are grouped so that the reader   *)
(* does not buffer many large files at a time; within a group the order is *)
(* that of the disk.                                                       *)
(***************************************************************************)
EXTENDS PathSet, SequencesExt, TLC

CONSTANTS
  IntSize,                          (* 2^32: what an int holds               *)
  SMALL_GROUP_SMALL_FILES_LIMIT,
  SMALL_GROUP_LARGE_FILES_LIMIT

ASSUME ReadListAssumption == IntSize \in {n \in Nat : n > 0 /\ n % 2 = 0}

(* What is left of a number that is returned as an int. *)
AsInt(n) == LET low == n % IntSize IN IF low >= IntSize \div 2 THEN low - IntSize ELSE low

rl_compare_i(f, s) == AsInt(f.inode - s.inode)

(* qsort() by inode, with a comparison that returns an int: neighbours in the
   result have been compared, directly or through the elements merged between.
   With a consistent comparison this is what sorting means. *)
SortedByInode(seq) ==
  {[i \in 1 .. Len(seq) |-> seq[p[i]]] :
     p \in {p \in Bijection(1 .. Len(seq), 1 .. Len(seq)) :
              \A i \in 1 .. Len(seq) - 1 : rl_compare_i(seq[p[i]], seq[p[i + 1]]) <= 0}}

\* Mutant of RemoveHardLinks: a file is compared with both of its neighbours.
RemoveBothLinks(head, sizeOfFile, sorted) ==
  LET Drop(h, i) ==
        IF \E j \in {i - 1, i + 1} \cap (1 .. Len(sorted)) : sorted[i].inode = sorted[j].inode
        THEN [h EXCEPT ![sizeOfFile[sorted[i].file]] =
                          mark_path_entry_ignore_hardlink(@, sorted[i].file)]
        ELSE h
      dropped[i \in 0 .. Len(sorted)] == IF i = 0 THEN head ELSE Drop(dropped[i - 1], i)
  IN  dropped[Len(sorted)]

(* The first loop, over the sorted inode_read_list: an entry with the inode of
   the one before it is left out of its set. *)
RemoveHardLinks(head, sizeOfFile, sorted) ==
  LET Drop(h, i) ==
        IF i > 1 /\ sorted[i].inode = sorted[i - 1].inode
        THEN [h EXCEPT ![sizeOfFile[sorted[i].file]] =
                          mark_path_entry_ignore_hardlink(@, sorted[i].file)]
        ELSE h
      dropped[i \in 0 .. Len(sorted)] == IF i = 0 THEN head ELSE Drop(dropped[i - 1], i)
  IN  dropped[Len(sorted)]

-----------------------------------------------------------------------------
(* The sizes a group of the read list is made of, with what is left of their
   sets: one group each for the small files, the medium and the large ones, but
   large sets of the latter two on their own. *)
SmallFiles(head, s)  == s <= hash_one_block_size
MediumFiles(head, s) == s > hash_one_block_size /\ s <= round1_max_bytes
LargeFiles(head, s)  == s > round1_max_bytes
SmallSet(head, s) ==
  head[s].list_size <= IF MediumFiles(head, s) THEN SMALL_GROUP_SMALL_FILES_LIMIT
                       ELSE SMALL_GROUP_LARGE_FILES_LIMIT

LargeSetsForgotten(size_list, head) ==     \* mutant of ReadGroups
  <<SelectSeq(size_list, LAMBDA s : SmallFiles(head, s))>>
  \o <<SelectSeq(size_list, LAMBDA s : ~SmallFiles(head, s) /\ SmallSet(head, s))>>

ReadGroups(size_list, head) ==
  LET Where(Test(_)) == SelectSeq(size_list, Test)
      Alone(sizes)   == [i \in 1 .. Len(sizes) |-> <<sizes[i]>>]
  IN  <<Where(LAMBDA s : SmallFiles(head, s))>>
      \o <<Where(LAMBDA s : MediumFiles(head, s) /\ SmallSet(head, s))>>
      \o Alone(Where(LAMBDA s : MediumFiles(head, s) /\ ~SmallSet(head, s)))
      \o <<Where(LAMBDA s : LargeFiles(head, s) /\ SmallSet(head, s))>>
      \o Alone(Where(LAMBDA s : LargeFiles(head, s) /\ ~SmallSet(head, s)))

(* add_all_blocks_from_group(): the blocks of the files to be read. *)
add_all_blocks_from_group(h, blocks) ==
  LET files == SetToSeq(InState(h, {"FS_NEED_DATA"}))
      Of(f) == [i \in 1 .. Len(blocks[f]) |-> [file |-> f, block |-> blocks[f][i]]]
  IN  FlattenSeq([i \in 1 .. Len(files) |-> Of(files[i])])

rl_compare_b(f, s) == f.block < s.block

(* The order of blocks with the same number is of no consequence. *)
sort_and_transfer(tmp_read_list) == SortSeq(tmp_read_list, rl_compare_b)

the_read_list(size_list, head, blocks) ==
  LET groups == ReadGroups(size_list, head)
      Of(g)  == FlattenSeq([i \in 1 .. Len(g) |->
                              add_all_blocks_from_group(head[g[i]], blocks)])
  IN  FlattenSeq([i \in 1 .. Len(groups) |-> sort_and_transfer(Of(groups[i]))])
=============================================================================
