----------------------------- MODULE HashGroups -----------------------------
(***************************************************************************)
(* What a pass over a set of files wants of a hash table: which of the     *)
(* files added in this pass have which hash, in the order they were added, *)
(* and whether any two of them have the same one.                          *)
(***************************************************************************)
EXTENDS Sequences

CONSTANTS Files, Hashes

VARIABLES group,     (* group[h]: the files of this pass with hash h         *)
          has_dups

groupVars == <<group, has_dups>>

GroupInit == group = [h \in Hashes |-> << >>] /\ has_dups = FALSE

GroupAdd(f, h) ==
  /\ group' = [group EXCEPT ![h] = Append(@, f)]
  /\ has_dups' = (has_dups \/ group[h] # << >>)

GroupReset == group' = [h \in Hashes |-> << >>] /\ has_dups' = FALSE

GroupNext == GroupReset \/ \E f \in Files, h \in Hashes : GroupAdd(f, h)

GroupSpec == GroupInit /\ [][GroupNext]_groupVars
=============================================================================
