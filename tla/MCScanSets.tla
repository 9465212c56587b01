----------------------------- MODULE MCScanSets -----------------------------
(***************************************************************************)
(* ScanSets for TLC: four paths found, of seven files.  Three files are of *)
(* size 2, two of them equal; the others have sizes of their own, one is   *)
(* empty.  Up to three extents, of which two make blocks; some have none.  *)
(***************************************************************************)
EXTENDS ScanSets

MCFiles  == 1 .. 4
MCInodes == 1 .. 7
MCSizeOf == <<2, 2, 2, 3, 4, 1, 0>>
At(block) == [fe_logical |-> 0, fe_length |-> 1, fe_physical |-> 512 * block]
MCExtentsOf ==
  <<<<At(9), At(3)>>, <<At(5)>>, << >>, <<At(4)>>, <<At(7), At(7), At(2)>>, <<At(8)>>, << >>>>
MCContentOf == <<"a", "a", "b", "c", "d", "e", "f">>

Instance(disks, caches, links, fiemap, number) ==
  {[seen |-> d, cached |-> c, hardlink_is_unique |-> links, using_fiemap |-> fiemap,
    changes |-> number] : d \in disks, c \in caches}

(* Every way the paths may be files and links to them, all or most of them
   cached, or none. *)
Still == Instance([MCFiles -> MCInodes], {{}, MCFiles, MCFiles \ {1}, MCFiles \ {4}},
                  FALSE, TRUE, 0)

(* Files that change while they are scanned, with and without the cache. *)
SomeDisks == {d \in [MCFiles -> MCInodes] :
                d[1] = 1 /\ d[2] \in {1, 2, 4} /\ d[3] \in {1, 3, 5} /\ d[4] \in {1, 2, 4}}
Changing  == Instance(SomeDisks, {MCFiles, {1, 2, 3}}, FALSE, TRUE, 1)
Links     == Instance(SomeDisks, {{}}, TRUE, FALSE, 1)
ScanInstances == Still \cup Changing \cup Links

(* Hard links and the cache. *)
LinksCached == Instance(SomeDisks, {MCFiles}, TRUE, TRUE, 0)
=============================================================================
