------------------------------ MODULE SizeTree ------------------------------
(***************************************************************************)
(* From files found to sets of files of equal size: add_file() and the     *)
(* tree of src/sizetree.c, the path lists of src/paths.c and the size list *)
(* of src/sizelist.c.  The first file of a size waits in its tree node; a  *)
(* second one makes a path list of both, which goes to the size list, and  *)
(* only then are the first one's inode, blocks and cached hash looked at.  *)
(* By then it may be gone, or be another file: the file system changes     *)
(* while it is scanned.                                                    *)
(*                                                                         *)
(* Path lists are the sets of PathSet.  The module that extends this one   *)
(* adds what happens after the scan.                                       *)
(***************************************************************************)
EXTENDS PathSet, BlockInfo

CONSTANTS
  Files,               (* the paths: 1 .. n, in the order they are found     *)
  Inodes,              (* the files, by inode number                         *)
  sizeOf,              (* sizeOf[i]: size of inode i                         *)
  extentsOf,           (* extentsOf[i]: its extents                          *)
  Instances,           (* what seen, cached, the options and changes may be  *)
  minimum_file_size,
  cache_min_size

Missing == 0           (* the path of a file that was deleted                *)
NULL    == 0

ASSUME SizeTreeAssumption ==
  /\ IsFiniteSet(Files) /\ Files = 1 .. Cardinality(Files)
  /\ Inodes \subseteq Nat \ {Missing}
  /\ sizeOf \in [Inodes -> Nat]
  /\ extentsOf \in [Inodes -> Seq([fe_logical : Nat, fe_length : Nat, fe_physical : Nat])]
  /\ \A i \in Instances :
       /\ i.seen \in [Files -> Inodes] /\ i.cached \subseteq Files
       /\ {i.hardlink_is_unique, i.using_fiemap} \subseteq BOOLEAN
       /\ i.changes \in Nat
  /\ minimum_file_size \in Nat \ {0}

VARIABLES
  seen,          (* what each path was when walk_dir() found it              *)
  disk,          (* what it is now: an inode, or Missing                     *)
  changes,       (* bound: how often the file system may still change        *)
  cached,        (* the paths whose cached hash was current when found       *)
  hardlink_is_unique, using_fiemap,      (* options                          *)
  found,         (* how many files were given to add_file()                  *)
  tip, node,     (* the tree: its root, and the node of each size in it      *)
  s_files_in_sizetree,
  size_list,     (* the sizes of the size list's nodes, in its order         *)
  head,          (* head[s]: the path list of size s                         *)
  have_cached_hashes,    (* the field of head[s]                             *)
  blocks,        (* blocks[f]: the disk blocks in entry->blocks              *)
  read_block_counter,
  inode_read_list,
  exited         (* the check that stopped the program, or "none"            *)

treevars == <<tip, node, s_files_in_sizetree>>
listvars == <<size_list, head, have_cached_hashes, blocks, read_block_counter,
              inode_read_list>>
given    == <<seen, cached, hardlink_is_unique, using_fiemap>>
scanvars == <<given, disk, changes, found, treevars, listvars, exited>>

Sizes == {sizeOf[i] : i \in Inodes}
Empty == [x \in {} |-> x]     (* the function with an empty domain           *)

(* f with the value v at x, which may be new to it. *)
With(f, x, v) == [y \in DOMAIN f \cup {x} |-> IF y = x THEN v ELSE f[y]]

ScanInit ==
  /\ \E i \in Instances :
       /\ seen = i.seen /\ cached = i.cached /\ changes = i.changes
       /\ hardlink_is_unique = i.hardlink_is_unique /\ using_fiemap = i.using_fiemap
  /\ disk = seen
  /\ found = 0
  /\ tip = NULL /\ node = Empty
  /\ s_files_in_sizetree = 0
  /\ size_list = << >>
  /\ head = Empty /\ have_cached_hashes = Empty /\ blocks = Empty
  /\ read_block_counter = 0
  /\ inode_read_list = << >>
  /\ exited = "none"

(* cache_db_check_entry(): the cached hash is current while the path's file
   is the one that was hashed.  The path must exist. *)
CacheHashFound(f) == f \in cached /\ disk[f] = seen[f]
ChecksCache(s)    == use_hash_cache /\ s > cache_min_size

(* The numbers of the blocks in the list that get_block_info_from_path()
   returns, and entry->blocks keeps. *)
BlockNumbers(f, inode, size) ==
  LET bl == get_block_info_from_path(inode, size, using_fiemap, disk[f] # Missing,
              IF disk[f] = Missing THEN << >> ELSE extentsOf[disk[f]])
  IN  [i \in 1 .. Len(bl) |-> bl[i].block]

-----------------------------------------------------------------------------
(* The tree.  Larger sizes are to the left. *)

new_node(f) == [left |-> NULL, right |-> NULL, file |-> f, has_paths |-> FALSE]

MutantToward(n, p, s) == IF s > p THEN n.right ELSE n.left    \* mutant of Toward

Toward(n, p, s) == IF s > p THEN n.left ELSE n.right

(* Where add_below() gets to with size s from the root: the node of that size,
   or the one it would be a child of. *)
Place(s) ==
  LET below[p \in DOMAIN node] ==
        IF s = p \/ Toward(node[p], p, s) = NULL THEN p
        ELSE below[Toward(node[p], p, s)]
  IN  below[tip]

-----------------------------------------------------------------------------
(* The path lists.  These functions return the records that hold what is
   changed: the lists of all sizes, and why the program stopped. *)

Lists == [size_list |-> size_list, head |-> head, cached |-> have_cached_hashes,
          blocks |-> blocks, counter |-> read_block_counter,
          inodes |-> inode_read_list, exited |-> exited]

(* insert_first_path(): a list of one file, not in the size list yet. *)
insert_first_path(l, f, s) ==
  [l EXCEPT !.head = With(@, s, [NewSet({f}, s) EXCEPT !.wanted_bufsize = 0]),
            !.cached = With(@, s, TRUE)]

(* add_to_read_list(), with the block list of f that it counts. *)
add_to_read_list(l, f, inode, s) ==
  [l EXCEPT !.blocks  = With(@, f, BlockNumbers(f, inode, s)),
            !.counter = @ + Len(BlockNumbers(f, inode, s)),
            !.inodes  = IF hardlink_is_unique THEN Append(@, [file |-> f, inode |-> inode])
                        ELSE @]

FirstNotRevisited(l, f, s) ==     \* mutant of SecondPath
  [l EXCEPT !.size_list = Append(@, s), !.head[s].wanted_bufsize = FirstBufsize(s)]

FirstNotLookedUp(l, f, s) ==      \* mutant of SecondPath
  LET prior == CHOOSE p \in DOMAIN l.head[s].entry : p # f
  IN  add_to_read_list([l EXCEPT !.size_list = Append(@, s),
                                 !.head[s].wanted_bufsize = FirstBufsize(s)],
                       prior, disk[prior], s)

(* The list has become a candidate: add_to_size_list(), and its first file is
   looked up again. *)
SecondPath(l, f, s) ==
  LET prior  == CHOOSE p \in DOMAIN l.head[s].entry : p # f
      listed == [l EXCEPT !.size_list = Append(@, s),
                          !.head[s].wanted_bufsize = FirstBufsize(s)]
  IN  IF disk[prior] = Missing
      THEN [listed EXCEPT !.exited = "unable to stat"]
      ELSE [add_to_read_list(listed, prior, disk[prior], s)
              EXCEPT !.cached[s] = @ /\ ChecksCache(s) /\ CacheHashFound(prior)]

insert_end_path(l, f, inode, s) ==
  LET added == [l EXCEPT !.head[s].entry     = With(@, f, NewEntry),
                         !.head[s].list_size = @ + 1]
      known == IF added.head[s].list_size = 2 THEN SecondPath(added, f, s) ELSE added
      last  == add_to_read_list(known, f, inode, s)
  IN  CASE known.exited # "none" -> known
        [] known.exited = "none" /\ ChecksCache(s) /\ disk[f] = Missing ->
             [last EXCEPT !.exited = "unable to stat"]
        [] OTHER -> [last EXCEPT !.cached[s] = @ /\ (ChecksCache(s) => CacheHashFound(f))]

-----------------------------------------------------------------------------
UpdateLists(l) ==
  /\ size_list' = l.size_list /\ head' = l.head
  /\ have_cached_hashes' = l.cached /\ blocks' = l.blocks
  /\ read_block_counter' = l.counter /\ inode_read_list' = l.inodes
  /\ exited' = l.exited

(* add_file() with a file it does not take: it cannot be looked up, or is too
   small. *)
SkipFile(inode) ==
  /\ inode # Missing => sizeOf[inode] < minimum_file_size
  /\ UNCHANGED <<treevars, listvars, exited>>

(* The first file of its size: it is kept in a new node. *)
KeepFirst(f, s) ==
  LET n == new_node(f)
  IN  /\ tip # NULL => Place(s) # s
      /\ IF tip = NULL
         THEN tip' = s /\ node' = With(node, s, n)
         ELSE /\ node' = With([node EXCEPT ![Place(s)] =
                                 IF s > Place(s) THEN [@ EXCEPT !.left = s]
                                 ELSE [@ EXCEPT !.right = s]], s, n)
              /\ UNCHANGED tip
      /\ UNCHANGED <<listvars, exited>>

(* add_below() got to a node of the same size. *)
AddToPaths(f, inode, s) ==
  LET n == node[s]
  IN  /\ tip # NULL /\ Place(s) = s
      /\ node' = [node EXCEPT ![s] = [@ EXCEPT !.file = NULL, !.has_paths = TRUE]]
      /\ UpdateLists(insert_end_path(IF n.has_paths THEN Lists
                                     ELSE insert_first_path(Lists, n.file, s), f, inode, s))
      /\ UNCHANGED tip

(* add_file() for the next file.  The size and inode are those that
   walk_dir() saw, or, when it did not look, those of the path now. *)
AddFile ==
  LET f == found + 1
  IN  /\ exited = "none" /\ f \in Files
      /\ \E inode \in {seen[f], disk[f]} :
           \/ SkipFile(inode)
           \/ /\ inode # Missing /\ sizeOf[inode] >= minimum_file_size
              /\ \/ KeepFirst(f, sizeOf[inode])
                 \/ AddToPaths(f, inode, sizeOf[inode])
              /\ s_files_in_sizetree' = s_files_in_sizetree + 1
      /\ found' = f
      /\ UNCHANGED <<given, disk, changes>>

(* Someone deletes a file, or puts another one in its place. *)
ChangeDisk ==
  /\ changes > 0 /\ changes' = changes - 1
  /\ \E f \in Files, i \in Inodes \cup {Missing} :
       disk[f] = seen[f] /\ i # disk[f] /\ disk' = [disk EXCEPT ![f] = i]
  /\ UNCHANGED <<given, found, treevars, listvars, exited>>

=============================================================================
