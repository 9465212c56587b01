----------------------------- MODULE MCHashing -----------------------------
(***************************************************************************)
(* FillBlock and HashTable for TLC, in one run: a file of any layout that  *)
(* MCFillBlock can read is read and hashed to its end, and then its hasher *)
(* goes on to passes over other files with the one table it has.  Neither  *)
(* looks at the state of the other, so that it is enough to use the table  *)
(* after one of the layouts.                                               *)
(*                                                                         *)
(* Three hashes share a bucket, so that its chain can have a stale part of *)
(* two nodes, and a fourth is in a bucket of its own.                      *)
(***************************************************************************)
EXTENDS MCFillBlock, HashTable

MCBucket(h) == IF h < 4 THEN 0 ELSE 1

LastLayout == CHOOSE l \in Layouts : l.size = 1

HashingInit == FillInit /\ Init /\ (layout # LastLayout => unhashed = {})

OneFile   == FillNext /\ UNCHANGED vars
OtherSets == layout = LastLayout /\ entry.state = "FS_DONE" /\ Next /\ UNCHANGED fillvars

HashingNext == OneFile \/ OtherSets

(* The fairness of FillBlock; no other set has to follow. *)
HashingSpec ==
  /\ HashingInit /\ [][HashingNext]_<<fillvars, vars>>
  /\ WF_<<fillvars, vars>>((Fill \/ Hash) /\ UNCHANGED vars)
=============================================================================
