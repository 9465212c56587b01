------------------------------ MODULE ScanSets ------------------------------
(***************************************************************************)
(* What scan() does before its threads read any file: the size tree and    *)
(* its sets, the read list with hard links left out of it, and the sets    *)
(* that the hash cache decides.  Everything that remains is what ReadHash  *)
(* begins with.                                                            *)
(***************************************************************************)
EXTENDS SizeTree, ReadList

CONSTANT contentOf       (* contentOf[i]: what inode i contains              *)

ASSUME ScanSetsAssumption ==
  \A i, j \in Inodes : contentOf[i] = contentOf[j] => sizeOf[i] = sizeOf[j]

VARIABLES
  phase,         (* how far scan() is                                        *)
  read_list,
  size_node      (* process_cached_hashes(): the position in the size list   *)

vars == <<scanvars, phase, read_list, size_node>>

Init ==
  /\ ScanInit
  /\ phase = "scan"
  /\ read_list = << >>
  /\ size_node = 1

Scan == phase = "scan" /\ AddFile /\ UNCHANGED <<phase, read_list, size_node>>
Change == phase # "ready" /\ exited = "none" /\ ChangeDisk
          /\ UNCHANGED <<phase, read_list, size_node>>

SizeOfSet == [f \in UNION {DOMAIN head[s].entry : s \in DOMAIN head} |->
                CHOOSE s \in DOMAIN head : f \in DOMAIN head[s].entry]

(* sort_read_list(), when the scan is done. *)
SortReadList ==
  /\ phase = "scan" /\ found = Cardinality(Files) /\ exited = "none"
  /\ \E sorted \in SortedByInode(inode_read_list) :
       head' = RemoveHardLinks(head, SizeOfSet, sorted)
  /\ read_list' = the_read_list(size_list, head', blocks)
  /\ phase' = IF use_hash_cache THEN "cached" ELSE "ready"
  /\ inode_read_list' = << >>
  /\ UNCHANGED <<given, disk, changes, found, treevars, size_list, have_cached_hashes,
                 blocks, read_block_counter, size_node, exited>>

(* A round of process_cached_hashes().  The hash in the cache is that of the
   file that was seen; a path is looked up again. *)
ProcessCachedSet ==
  LET s     == size_list[size_node]
      files == DOMAIN head[s].entry
  IN  /\ phase = "cached" /\ exited = "none" /\ size_node <= Len(size_list)
      /\ size_node' = size_node + 1
      /\ CASE ~have_cached_hashes[s] -> UNCHANGED <<head, exited>>
           [] have_cached_hashes[s] /\ \A f \in files : CacheHashFound(f) ->
                /\ head' = [head EXCEPT ![s] =
                              process_cached(@, [f \in files |-> contentOf[seen[f]]])]
                /\ exited' = head'[s].exited
           [] OTHER -> exited' = "cache entry disappeared" /\ UNCHANGED head
      /\ UNCHANGED <<given, disk, changes, found, treevars, size_list, have_cached_hashes,
                     blocks, read_block_counter, inode_read_list, phase, read_list>>

CachedDone ==
  /\ phase = "cached" /\ exited = "none" /\ size_node > Len(size_list)
  /\ phase' = "ready"
  /\ UNCHANGED <<scanvars, read_list, size_node>>

Finished == (phase = "ready" \/ exited # "none") /\ UNCHANGED vars

Next == Scan \/ SortReadList \/ ProcessCachedSet \/ CachedDone \/ Change \/ Finished

Spec == Init /\ [][Next]_vars

-----------------------------------------------------------------------------
(* Before reading starts: files of a set, in a state. *)
ToRead   == UNION {InState(head[s], {"FS_NEED_DATA"}) : s \in DOMAIN head}
LinksOut == UNION {InState(head[s], {"FS_IGNORE_HL"}) : s \in DOMAIN head}

(* Every file of a set has its blocks counted for the read list, once: the
   array that sort_read_list() fills has room for exactly read_block_counter
   of them. *)
BlocksCounted ==
  exited = "none" =>
    /\ DOMAIN blocks = UNION {DOMAIN head[s].entry : s \in DOMAIN head}
    /\ read_block_counter = SumFunctionOnSet([f \in DOMAIN blocks |-> Len(blocks[f])],
                                            DOMAIN blocks)
    /\ \A f \in DOMAIN blocks : blocks[f] # << >>
    /\ hardlink_is_unique /\ phase = "scan" =>
         /\ Len(inode_read_list) = Cardinality(DOMAIN blocks)
         /\ {inode_read_list[i].file : i \in 1 .. Len(inode_read_list)} = DOMAIN blocks

(* The read list has every block of every file that is still to be read, as
   often as the file has it; what it has besides are blocks of files that the
   cache has decided since.  It fits into the array allocated for it. *)
ReadListComplete ==
  phase # "scan" =>
    /\ Len(read_list) <= read_block_counter
    /\ \A f \in ToRead :
         \A b \in {blocks[f][i] : i \in 1 .. Len(blocks[f])} :
           Cardinality({i \in 1 .. Len(read_list) :
                          read_list[i].file = f /\ read_list[i].block = b})
             = Cardinality({i \in 1 .. Len(blocks[f]) : blocks[f][i] = b})
    /\ \A i \in 1 .. Len(read_list) :
         read_list[i].file \in ToRead \/ have_cached_hashes[SizeOfSet[read_list[i].file]]

(* "Now that the inode_read_list is ordered, remove any paths which are
   duplicate inodes" (readlist.c:271): of the paths to one file exactly one is
   read, and none of them is left out for good; paths that have become another
   file apart. *)
OnePathPerInode ==
  hardlink_is_unique /\ phase # "scan" /\ exited = "none" =>
    LET same == {f \in Files : disk[f] = seen[f]} IN
    /\ \A e, f \in ToRead \cap same : e # f => seen[e] # seen[f]
    /\ disk = seen =>
         \A f \in LinksOut :
           \E g \in DOMAIN head[SizeOfSet[f]].entry \ LinksOut : seen[g] = seen[f]

(* The sets that are not done when the threads start are the sets that the
   reading begins with: at least two files, all untouched, counted right. *)
ReadyToRead ==
  phase = "ready" /\ exited = "none" =>
    \A s \in DOMAIN head :
      head[s].state # "PLS_DONE" =>
        LET files == InState(head[s], {"FS_NEED_DATA"})
        IN  /\ Cardinality(files) > 1
            /\ head[s].list_size = Cardinality(files)
            /\ head[s].wanted_bufsize = FirstBufsize(s)
            /\ \A f \in files : head[s].entry[f] = NewEntry
            /\ \A f \in DOMAIN head[s].entry \ files :
                 head[s].entry[f].state = "FS_IGNORE_HL"

(* What the cache decides is right for the files that were seen: the groups
   published are those of equal content, nothing that has an equal is unique. *)
CachedVerdicts ==
  \A s \in DOMAIN head :
    LET h == head[s]
        c == [f \in DOMAIN h.entry |-> contentOf[seen[f]]]
    IN  h.processed > 0 =>
          /\ \A f, g \in InState(h, {"FS_DONE"}) :
               c[f] = c[g] <=> \E p \in h.published : {f, g} \subseteq p
          /\ UNION h.published = InState(h, {"FS_DONE"})
          /\ \A f \in InState(h, {"FS_UNIQUE"}) : \A g \in DOMAIN h.entry \ {f} : c[f] # c[g]

(* "--hardlink-is-unique: Consider hard links to the same file content as
   unique" (man/dupd.1:96): two paths of one file are not both published. *)
HardLinksLeftOut ==
  hardlink_is_unique =>
    \A s \in DOMAIN head : \A g \in head[s].published :
      \A e, f \in g : e # f => seen[e] # seen[f]

(* The scan stops only when a file it had found is gone, or changed after its
   cached hash was looked up. *)
ExitsForMissing == exited # "none" => \E f \in Files : disk[f] # seen[f]

(* The tree, and what it leads to, group the files by size: no order of sizes
   and files makes it miss that two files have the same size. *)
FilesOfSize(s) ==
  IF s \in DOMAIN head THEN DOMAIN head[s].entry
  ELSE IF s \in DOMAIN node THEN {node[s].file} ELSE {}

G == INSTANCE SizeGroups WITH group <- [s \in Sizes |-> FilesOfSize(s)], listed <- size_list
GroupsBySize == G!GroupsSpec
=============================================================================
