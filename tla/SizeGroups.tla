----------------------------- MODULE SizeGroups -----------------------------
(***************************************************************************)
(* What the scan wants of the size tree: the files accepted, grouped by    *)
(* size, and for each size with at least two files a set, in the order in  *)
(* which they got to two.                                                  *)
(***************************************************************************)
EXTENDS Sequences

CONSTANTS Files, Sizes

VARIABLES group,    (* group[s]: the files of size s                         *)
          listed    (* the sizes of the sets                                 *)

GroupsInit ==
  /\ group = [s \in Sizes |-> {}]
  /\ listed = << >>

(* A file is added to the files of its size, and to no other's; when it is the
   second one, the size is listed. *)
Group(f, s) ==
  /\ \A t \in Sizes : f \notin group[t]
  /\ group' = [group EXCEPT ![s] = @ \cup {f}]
  /\ listed' = IF \E e \in Files : group[s] = {e} THEN Append(listed, s) ELSE listed

GroupsNext == \E f \in Files, s \in Sizes : Group(f, s)

GroupsSpec == GroupsInit /\ [][GroupsNext]_<<group, listed>>
=============================================================================
