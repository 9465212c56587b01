------------------------------- MODULE Files -------------------------------
(***************************************************************************)
(* The files that the commands of dupd find, while other programs delete,  *)
(* write and create some of them.  A path leads to an inode, which is one  *)
(* of some device; two paths may lead to the same one, and inodes of two   *)
(* devices may have the same number, which is all that dupd compares.      *)
(* Data is a sequence of parts, each as large as what one read() of        *)
(* hash_fn() returns.  Time is in seconds, as st_ctime.                    *)
(***************************************************************************)
EXTENDS Integers, Sequences, FiniteSets, FiniteSetsExt, SequencesExt, TLC

CONSTANTS
  Inodes, Contents,
  st_ino,             (* the number of each inode on its device              *)
  Disks,              (* what the files may be at first                      *)
  MaxChanges, MaxTime (* bounds                                              *)

NoInode == 0

ASSUME FilesAssumption ==
  /\ NoInode \notin Inodes /\ Contents \subseteq Seq(Nat)
  /\ st_ino \in [Inodes -> Nat]
  /\ \A d \in Disks : /\ IsFiniteSet(DOMAIN d.inode) /\ DOMAIN d.inode \subseteq Seq(STRING)
                       /\ d.inode \in [DOMAIN d.inode -> Inodes \cup {NoInode}]
                       /\ d.data \in [Inodes -> Contents]
  /\ MaxChanges \in Nat /\ MaxTime \in Nat

VARIABLES
  inode,              (* of each path; NoInode when there is no such file    *)
  data, ctime,        (* of each inode                                       *)
  clock,              (* when a file last changed: no other time matters     *)
  changes,            (* to files, and ...                                   *)
  failures            (* ... reads that failed: neither is known to dupd     *)

fsvars == <<inode, data, ctime, clock, changes, failures>>

Now == [changes |-> changes, failures |-> failures]

Paths == DOMAIN inode

FilesInit ==
  /\ \E d \in Disks : inode = d.inode /\ data = d.data
  /\ ctime = [i \in Inodes |-> 0]
  /\ clock = 0 /\ changes = 0 /\ failures = 0

\* A symbolic link or a directory is no file either.
file_exists(path) == inode[path] # NoInode
Data(path) == data[inode[path]]
Number(path) == st_ino[inode[path]]

\* Time passes or not since the last change.
Changed(i) ==
  /\ changes < MaxChanges /\ changes' = changes + 1 /\ UNCHANGED failures
  /\ clock' \in {clock, clock + 1} /\ clock' <= MaxTime
  /\ ctime' = [ctime EXCEPT ![i] = clock']

\* Those of some paths that are in a set, in their order.
Only(paths, set) ==
  LET kept[i \in 0 .. Len(paths)] ==
        IF i = 0 THEN << >>
        ELSE IF paths[i] \in set THEN Append(kept[i - 1], paths[i])
        ELSE kept[i - 1]
  IN  kept[Len(paths)]

Delete(path) ==
  /\ file_exists(path)
  /\ Changed(inode[path])
  /\ inode' = [inode EXCEPT ![path] = NoInode]
  /\ UNCHANGED data

Write(path, content) ==
  /\ file_exists(path) /\ Data(path) # content
  /\ Changed(inode[path])
  /\ data' = [data EXCEPT ![inode[path]] = content]
  /\ UNCHANGED inode

Create(path, content) ==
  /\ ~file_exists(path)
  /\ \E i \in Inodes \ {inode[p] : p \in Paths} :
       /\ Changed(i)
       /\ inode' = [inode EXCEPT ![path] = i]
       /\ data' = [data EXCEPT ![i] = content]
=============================================================================
