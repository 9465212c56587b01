------------------------------ MODULE HashTable ------------------------------
(***************************************************************************)
(* The hash table of src/hashlist.c.  A thread makes one table and uses it *)
(* for all its passes, so the table has to forget the pass before: but     *)
(* reset_hash_table() invalidates only the first node of each chain, and   *)
(* add_to_hash_table() the node after one it puts to use.  What lies       *)
(* further on is stale, and must never be seen.                            *)
(*                                                                         *)
(* A chain is a sequence of nodes, linked in this order.  A node's entries *)
(* are the first next_index of its entries array.                          *)
(***************************************************************************)
EXTENDS Naturals, Sequences

CONSTANTS Files,     (* the path list entries                                *)
          Hashes,
          Buckets,   (* 0 .. 255                                             *)
          Bucket(_), (* the table index a hash selects: its last byte        *)
          NoHash     (* hash[0] = 0, in a node that was reset                *)

ASSUME HashTableAssumption ==
  /\ \A h \in Hashes : Bucket(h) \in Buckets
  /\ NoHash \notin Hashes

VARIABLES table,     (* table[b]: the chain of bucket b                      *)
          has_dups,
          unhashed   (* the files the pass has still to add                  *)

vars == <<table, has_dups, unhashed>>

Node(valid, hash, entries) == [hash_valid |-> valid, hash |-> hash, entries |-> entries]

\* Mutant of NewNode: next_index is whatever malloc() left there.
NewNodeUnset == Node(FALSE, NoHash, <<NoHash>>)

NewNode == Node(FALSE, NoHash, << >>)

\* Mutant of reset_hash_list_entry: next_index stays.
reset_valid_only(n) == [n EXCEPT !.hash_valid = FALSE, !.hash = NoHash]

reset_hash_list_entry(n) == Node(FALSE, NoHash, << >>)

(* The nodes up to the first one that is not valid: all that any loop over a
   chain gets to. *)
Live(c) == CHOOSE k \in 0 .. Len(c) :
             /\ \A i \in 1 .. k : c[i].hash_valid
             /\ k < Len(c) => ~c[k + 1].hash_valid

(* init_hash_table(): no chain has a node. *)
Init ==
  /\ table = [b \in Buckets |-> << >>]
  /\ has_dups = FALSE
  /\ unhashed \in SUBSET Files

(* reset_hash_table(), before the next pass over some set of files. *)
Reset ==
  /\ table' = [b \in Buckets |->
                 IF table[b] = << >> THEN << >>
                 ELSE [table[b] EXCEPT ![1] = reset_hash_list_entry(@)]]
  /\ has_dups' = FALSE
  /\ unhashed' \in SUBSET Files

(* The node of the hash is there: one more file in it. *)
AddToNode(f, h, c, i) ==
  /\ table' = [table EXCEPT ![Bucket(h)] = [c EXCEPT ![i].entries = Append(@, f)]]
  /\ has_dups' = (has_dups \/ c[i].entries # << >>)

(* Mutant of Populate: the node after it is left as it is. *)
PopulateOnly(c, i, f, h) == [c EXCEPT ![i] = Node(TRUE, h, Append(@.entries, f))]

(* The node after the live ones is put to use, and the next one, if there is
   one, invalidated. *)
Populate(c, i, f, h) ==
  [j \in 1 .. Len(c) |->
     CASE j = i     -> Node(TRUE, h, Append(c[i].entries, f))
       [] j = i + 1 -> reset_hash_list_entry(c[j])
       [] OTHER     -> c[j]]

AddNewHash(f, h, c) ==
  LET i      == Live(c) + 1
      longer == IF i <= Len(c) THEN c ELSE Append(c, NewNode)
  IN  /\ table' = [table EXCEPT ![Bucket(h)] = Populate(longer, i, f, h)]
      /\ UNCHANGED has_dups

(* add_to_hash_table() *)
Add(f, h) ==
  LET c    == table[Bucket(h)]
      Found(i) == c[i].hash = h
  IN  /\ f \in unhashed
      /\ unhashed' = unhashed \ {f}
      /\ \/ \E i \in 1 .. Live(c) : Found(i) /\ AddToNode(f, h, c, i)
         \/ (\A i \in 1 .. Live(c) : ~Found(i)) /\ AddNewHash(f, h, c)

Next == Reset \/ \E f \in Files, h \in Hashes : Add(f, h)

Spec == Init /\ [][Next]_vars

-----------------------------------------------------------------------------
NodeType == [hash_valid : BOOLEAN, hash : Hashes \cup {NoHash}, entries : Seq(Files)]

(* The type invariant. *)
TypeOK ==
  /\ table \in [Buckets -> Seq(NodeType)]
  /\ has_dups \in BOOLEAN
  /\ unhashed \in SUBSET Files

(* The files a loop over a chain finds with hash h. *)
Entries(c, h) ==
  IF \E i \in 1 .. Live(c) : c[i].hash = h
  THEN c[CHOOSE i \in 1 .. Live(c) : c[i].hash = h].entries
  ELSE << >>

(* Each chain is a live part, whose nodes have different hashes of this
   bucket and at least one file, and a stale part, of which the first node is
   empty and invalid: the rest of it cannot be reached. *)
ChainAt(b, c, k) ==
  /\ \A i \in 1 .. k : /\ c[i].hash_valid
                       /\ c[i].hash \in Hashes /\ Bucket(c[i].hash) = b
                       /\ c[i].entries # << >>
  /\ \A i, j \in 1 .. k : i # j => c[i].hash # c[j].hash
  /\ k < Len(c) => ~c[k + 1].hash_valid /\ c[k + 1].entries = << >>
ChainsOK == \A b \in Buckets : \E k \in 0 .. Len(table[b]) : ChainAt(b, table[b], k)

(* Whatever passes the table was used for before, a pass finds the files it
   added, each under its hash, and no others, and has_dups tells whether two
   of them have the same hash. *)
Groups == INSTANCE HashGroups WITH
  group <- [h \in Hashes |-> Entries(table[Bucket(h)], h)]
IsHashGroups == Groups!GroupSpec

(* The inductive invariant. *)
IInv == TypeOK /\ ChainsOK
=============================================================================
