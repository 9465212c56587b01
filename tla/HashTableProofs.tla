--------------------------- MODULE HashTableProofs ---------------------------
(***************************************************************************)
(* The hash table of src/hashlist.c never shows what a pass before left in *)
(* it, for any number of files, hashes and buckets: its invariant, and     *)
(* that it implements HashGroups.                                          *)
(***************************************************************************)
EXTENDS HashTable, SequenceTheorems, TLAPS

(* Names for three sequences, so that the provers need not look into them. *)
WithFile(s, f) == Append(s, f)
WithNewNode(c) == Append(c, NewNode)
WithFileAt(c, i, f) == [c EXCEPT ![i].entries = Append(@, f)]

(* c is a chain of bucket b, of which the first k nodes are live. *)
Chain(b, c, k) == c \in Seq(NodeType) /\ k \in 0 .. Len(c) /\ ChainAt(b, c, k)

(* A function on 1 .. n is a sequence of length n. *)
LEMMA FunctionIsSeq ==
  ASSUME NEW S, NEW n \in Nat, NEW s \in [1 .. n -> S]
  PROVE  s \in Seq(S) /\ Len(s) = n
  OBVIOUS

(* A list of files with one more at its end is a list of files, not empty. *)
LEMMA AppendFile ==
  ASSUME NEW s \in Seq(Files), NEW f \in Files
  PROVE  Append(s, f) \in Seq(Files) /\ Append(s, f) # << >>
  <1>1. Append(s, f) \in Seq(Files) /\ Len(Append(s, f)) = Len(s) + 1
    OBVIOUS
  <1>2. Len(s) \in Nat /\ Len(<< >>) = 0
    OBVIOUS
  <1>3. Len(Append(s, f)) # 0
    BY <1>1, <1>2
  <1> QED BY <1>1, <1>2, <1>3

(* A node with one more file in it is a node. *)
LEMMA AppendToNode ==
  ASSUME NEW n \in NodeType, NEW f \in Files, NEW m, m = [n EXCEPT !.entries = Append(@, f)]
  PROVE  /\ m \in NodeType /\ m.hash = n.hash /\ m.hash_valid = n.hash_valid
         /\ m.entries = Append(n.entries, f) /\ m.entries # << >>
  <1>1. n.entries \in Seq(Files)
    BY DEF NodeType
  <1>2. Append(n.entries, f) \in Seq(Files) /\ Append(n.entries, f) # << >>
    BY <1>1, AppendFile
  <1> QED BY <1>2 DEF NodeType

(* The loops over a chain stop where its stale part begins. *)
LEMMA LiveOfChain ==
  ASSUME NEW b, NEW c, NEW k, Chain(b, c, k)
  PROVE  Live(c) = k
  <1>0. c \in Seq(NodeType) /\ k \in 0 .. Len(c) /\ ChainAt(b, c, k)
    BY DEF Chain
  <1> DEFINE Ends(j) == /\ \A i \in 1 .. j : c[i].hash_valid
                        /\ j < Len(c) => ~c[j + 1].hash_valid
  <1>1. Ends(k)
    BY <1>0 DEF ChainAt
  <1>2. Live(c) \in 0 .. Len(c) /\ Ends(Live(c))
    BY <1>0, <1>1 DEF Live
  <1>3. ASSUME Live(c) < k PROVE FALSE
    <2>1. Live(c) + 1 \in 1 .. k /\ Live(c) < Len(c)
      BY <1>0, <1>2, <1>3
    <2> QED BY <2>1, <1>1, <1>2
  <1>4. ASSUME k < Live(c) PROVE FALSE
    <2>1. k + 1 \in 1 .. Live(c) /\ k < Len(c)
      BY <1>0, <1>2, <1>4
    <2> QED BY <2>1, <1>1, <1>2
  <1> HIDE DEF Ends
  <1> QED BY <1>0, <1>2, <1>3, <1>4

(* The hash of a live node finds that node's entries. *)
LEMMA EntriesOfNode ==
  ASSUME NEW b, NEW c, NEW k, Chain(b, c, k),
         NEW i \in 1 .. k
  PROVE  Entries(c, c[i].hash) = c[i].entries
  <1>1. Live(c) = k
    BY LiveOfChain
  <1> DEFINE j == CHOOSE j \in 1 .. Live(c) : c[j].hash = c[i].hash
  <1>2. j \in 1 .. k /\ c[j].hash = c[i].hash
    BY <1>1
  <1>3. j = i
    BY <1>2 DEF Chain, ChainAt
  <1> QED BY <1>1, <1>3 DEF Entries

(* A hash that no live node has finds nothing. *)
LEMMA EntriesOfNone ==
  ASSUME NEW b, NEW c, NEW k, Chain(b, c, k),
         NEW h, \A i \in 1 .. k : c[i].hash # h
  PROVE  Entries(c, h) = << >>
  BY LiveOfChain DEF Entries

(* Two chains whose live parts have the same entries under a hash show the
   same under it. *)
LEMMA SameEntries ==
  ASSUME NEW b, NEW c, NEW k, Chain(b, c, k),
         NEW d, NEW m, Chain(b, d, m), k <= m,
         NEW h,
         \A i \in 1 .. k : d[i].hash = c[i].hash /\ (c[i].hash = h => d[i].entries = c[i].entries),
         \A i \in k + 1 .. m : d[i].hash # h
  PROVE  Entries(d, h) = Entries(c, h)
  <1>0. k \in Nat /\ m \in Nat
    BY DEF Chain
  <1>1. CASE \E i \in 1 .. k : c[i].hash = h
    <2>1. PICK i \in 1 .. k : c[i].hash = h
      BY <1>1
    <2>2. i \in 1 .. m /\ d[i].hash = h /\ d[i].entries = c[i].entries
      BY <1>0, <2>1
    <2>3. Entries(c, h) = c[i].entries
      BY <2>1, EntriesOfNode
    <2>4. Entries(d, h) = d[i].entries
      BY <2>2, EntriesOfNode
    <2> QED BY <2>2, <2>3, <2>4
  <1>2. CASE \A i \in 1 .. k : c[i].hash # h
    <2>1. ASSUME NEW i \in 1 .. m PROVE d[i].hash # h
      <3>1. i \in 1 .. k \/ i \in k + 1 .. m
        BY <1>0
      <3> QED BY <3>1, <1>2
    <2>2. Entries(d, h) = << >>
      BY <2>1, EntriesOfNone
    <2> QED BY <1>2, <2>2, EntriesOfNone
  <1> QED BY <1>1, <1>2

(* Adding a file to a live node keeps the chain, and adds to that hash only. *)
LEMMA ChainAddToNode ==
  ASSUME NEW b, NEW c, NEW k, Chain(b, c, k),
         NEW i \in 1 .. k, NEW f \in Files, NEW d, d = WithFileAt(c, i, f)
  PROVE  /\ Chain(b, d, k)
         /\ Entries(d, c[i].hash) = WithFile(Entries(c, c[i].hash), f)
         /\ \A h \in Hashes : h # c[i].hash => Entries(d, h) = Entries(c, h)
  <1>0. c \in Seq(NodeType) /\ k \in 0 .. Len(c) /\ ChainAt(b, c, k)
    BY DEF Chain
  <1> DEFINE n == [c[i] EXCEPT !.entries = Append(@, f)]
  <1>1. c[i] \in NodeType /\ i \in 1 .. Len(c) /\ Len(c) \in Nat
    BY <1>0
  <1>2. /\ n \in NodeType /\ n.hash = c[i].hash /\ n.hash_valid = c[i].hash_valid
        /\ n.entries = Append(c[i].entries, f) /\ n.entries # << >>
    BY <1>1, AppendToNode
  <1>3. d = [c EXCEPT ![i] = n]
    BY <1>0, <1>1 DEF WithFileAt
  <1> HIDE DEF n
  <1>4. /\ d \in Seq(NodeType) /\ Len(d) = Len(c)
        /\ d[i] = n /\ \A j \in 1 .. Len(c) : j # i => d[j] = c[j]
    <2>1. c \in Seq(NodeType) /\ n \in NodeType /\ i \in 1 .. Len(c)
      BY <1>0, <1>1, <1>2
    <2>2. /\ [c EXCEPT ![i] = n] \in Seq(NodeType)
          /\ Len([c EXCEPT ![i] = n]) = Len(c)
          /\ \A j \in 1 .. Len(c) : [c EXCEPT ![i] = n][j] = IF j = i THEN n ELSE c[j]
      BY ONLY <2>1, ExceptSeq
    <2> QED BY <2>1, <2>2, <1>3
  <1>5. Chain(b, d, k)
    <2>1. ASSUME NEW j \in 1 .. k
          PROVE  /\ d[j].hash_valid /\ d[j].hash \in Hashes /\ Bucket(d[j].hash) = b
                 /\ d[j].entries # << >> /\ d[j].hash = c[j].hash
      BY <1>0, <1>2, <1>4 DEF ChainAt
    <2>2. k < Len(d) => d[k + 1] = c[k + 1]
      BY <1>0, <1>4
    <2>3. k < Len(d) => ~d[k + 1].hash_valid /\ d[k + 1].entries = << >>
      BY <1>0, <1>4, <2>2 DEF ChainAt
    <2>4. \A j, l \in 1 .. k : j # l => d[j].hash # d[l].hash
      BY <1>0, <2>1 DEF ChainAt
    <2> QED BY <1>0, <1>4, <2>1, <2>3, <2>4 DEF Chain, ChainAt
  <1>6. Entries(d, c[i].hash) = WithFile(Entries(c, c[i].hash), f)
    <2>1. Entries(c, c[i].hash) = c[i].entries
      BY EntriesOfNode
    <2>2. Entries(d, d[i].hash) = d[i].entries
      BY <1>5, EntriesOfNode
    <2> QED BY <2>1, <2>2, <1>2, <1>4 DEF WithFile
  <1>7. ASSUME NEW h \in Hashes, h # c[i].hash PROVE Entries(d, h) = Entries(c, h)
    <2>1. \A j \in 1 .. k : d[j].hash = c[j].hash /\ (c[j].hash = h => d[j].entries = c[j].entries)
      BY <1>0, <1>2, <1>4, <1>7
    <2>2. k <= k /\ \A j \in k + 1 .. k : d[j].hash # h
      BY <1>0
    <2>3. Chain(b, c, k)
      OBVIOUS
    <2> QED BY ONLY <2>1, <2>2, <2>3, <1>5, SameEntries
  <1> QED BY <1>5, <1>6, <1>7

(* Putting the node after the live ones to use makes the live part one node
   longer, and adds to the new hash only. *)
LEMMA ChainPopulate ==
  ASSUME NEW b, NEW c, NEW k, Chain(b, c, k),
         k < Len(c), NEW f \in Files, NEW h \in Hashes, Bucket(h) = b,
         \A i \in 1 .. k : c[i].hash # h,
         NEW d, d = Populate(c, k + 1, f, h)
  PROVE  /\ Chain(b, d, k + 1)
         /\ Entries(d, h) = WithFile(Entries(c, h), f)
         /\ \A g \in Hashes : g # h => Entries(d, g) = Entries(c, g)
  <1>0. c \in Seq(NodeType) /\ k \in 0 .. Len(c) /\ ChainAt(b, c, k)
    BY DEF Chain
  <1> USE <1>0
  <1>1. c[k + 1] \in NodeType /\ c[k + 1].entries = << >> /\ k + 1 \in 1 .. Len(c)
    BY DEF ChainAt
  <1>2. Append(<< >>, f) \in Seq(Files) /\ Append(<< >>, f) # << >>
    <2>1. << >> \in Seq(Files)
      OBVIOUS
    <2> QED BY <2>1, AppendFile
  <1>3. Node(TRUE, h, Append(<< >>, f)) \in NodeType
    BY <1>2 DEF Node, NodeType
  <1>4. \A j \in 1 .. Len(c) : reset_hash_list_entry(c[j]) \in NodeType
    BY DEF reset_hash_list_entry, Node, NodeType
  <1>5. /\ \A j \in 1 .. k : d[j] = c[j]
        /\ d[k + 1] = Node(TRUE, h, Append(<< >>, f))
        /\ k + 1 < Len(c) => d[k + 2] = reset_hash_list_entry(c[k + 2])
    <2>1. \A j \in 1 .. Len(c) :
             d[j] = CASE j = k + 1       -> Node(TRUE, h, Append(c[k + 1].entries, f))
                      [] j = (k + 1) + 1 -> reset_hash_list_entry(c[j])
                      [] OTHER           -> c[j]
      BY DEF Populate
    <2>2. ASSUME NEW j \in 1 .. k PROVE d[j] = c[j]
      <3>1. j \in 1 .. Len(c) /\ j # k + 1 /\ j # (k + 1) + 1
        OBVIOUS
      <3> QED BY <3>1, <2>1
    <2>3. d[k + 1] = Node(TRUE, h, Append(c[k + 1].entries, f))
      <3> DEFINE n == k + 1
      <3>1. n \in 1 .. Len(c) /\ n = k + 1 /\ n # (k + 1) + 1
        BY <1>1
      <3> HIDE DEF n
      <3>2. d[n] = Node(TRUE, h, Append(c[k + 1].entries, f))
        BY <3>1, <2>1
      <3> QED BY <3>1, <3>2
    <2>4. ASSUME k + 1 < Len(c) PROVE d[k + 2] = reset_hash_list_entry(c[k + 2])
      <3>1. k + 2 \in 1 .. Len(c) /\ k + 2 # k + 1 /\ k + 2 = (k + 1) + 1
        BY <2>4
      <3> QED BY <3>1, <2>1
    <2> QED BY <2>2, <2>3, <2>4, <1>1
  <1>6. d \in [1 .. Len(c) -> NodeType]
    <2> DEFINE D(j) == CASE j = k + 1       -> Node(TRUE, h, Append(c[k + 1].entries, f))
                         [] j = (k + 1) + 1 -> reset_hash_list_entry(c[j])
                         [] OTHER           -> c[j]
    <2>1. d = [j \in 1 .. Len(c) |-> D(j)]
      BY DEF Populate
    <2>2. ASSUME NEW j \in 1 .. Len(c) PROVE D(j) \in NodeType
      <3>1. c[j] \in NodeType
        OBVIOUS
      <3>2. CASE j = k + 1
        <4>1. j # (k + 1) + 1
          BY <3>2
        <4>2. D(j) = Node(TRUE, h, Append(<< >>, f))
          BY <3>2, <4>1, <1>1
        <4> QED BY <4>2, <1>3
      <3>3. CASE j = (k + 1) + 1
        <4>1. D(j) = reset_hash_list_entry(c[j])
          BY <3>3
        <4> QED BY <4>1, <1>4
      <3>4. CASE j # k + 1 /\ j # (k + 1) + 1
        BY <3>1, <3>4
      <3> QED BY <3>2, <3>3, <3>4
    <2> HIDE DEF D
    <2> QED BY <2>1, <2>2
  <1>7. d \in Seq(NodeType) /\ Len(d) = Len(c)
    BY <1>6, FunctionIsSeq
  <1>8. Chain(b, d, k + 1)
    <2>1. ASSUME NEW j \in 1 .. k + 1
          PROVE  /\ d[j].hash_valid /\ d[j].hash \in Hashes /\ Bucket(d[j].hash) = b
                 /\ d[j].entries # << >>
      <3>1. CASE j = k + 1
        <4>1. d[j] = Node(TRUE, h, Append(<< >>, f))
          BY <1>5, <3>1
        <4>2. d[j].hash_valid /\ d[j].hash = h /\ d[j].entries = Append(<< >>, f)
          BY <4>1 DEF Node
        <4> QED BY <1>2, <4>2
      <3>2. CASE j \in 1 .. k
        <4>1. d[j] = c[j]
          BY <1>5, <3>2
        <4> QED BY <3>2, <4>1 DEF ChainAt
      <3> QED BY <3>1, <3>2
    <2>2. ASSUME NEW i \in 1 .. k + 1, NEW j \in 1 .. k + 1, i # j
          PROVE  d[i].hash # d[j].hash
      <3>1. d[k + 1].hash = h
        BY <1>5 DEF Node
      <3>2. \A n \in 1 .. k : d[n].hash = c[n].hash
        BY <1>5
      <3>3. CASE i = k + 1
        BY <2>2, <3>1, <3>2, <3>3
      <3>4. CASE j = k + 1
        BY <2>2, <3>1, <3>2, <3>4
      <3>5. CASE i \in 1 .. k /\ j \in 1 .. k
        BY <2>2, <3>2, <3>5 DEF ChainAt
      <3> QED BY <3>3, <3>4, <3>5
    <2>3. k + 1 < Len(d) => ~d[(k + 1) + 1].hash_valid /\ d[(k + 1) + 1].entries = << >>
      BY <1>5, <1>7 DEF reset_hash_list_entry, Node
    <2> QED BY <1>1, <1>7, <2>1, <2>2, <2>3 DEF Chain, ChainAt
  <1>9. Entries(d, h) = WithFile(Entries(c, h), f)
    <2>1. Entries(c, h) = << >>
      BY EntriesOfNone
    <2>2. d[k + 1].hash = h /\ d[k + 1].entries = Append(<< >>, f)
      BY <1>5 DEF Node
    <2>3. Entries(d, d[k + 1].hash) = d[k + 1].entries
      <3>1. k + 1 \in 1 .. k + 1
        OBVIOUS
      <3> QED BY ONLY <1>8, <3>1, EntriesOfNode
    <2> QED BY <2>1, <2>2, <2>3 DEF WithFile
  <1>10. ASSUME NEW g \in Hashes, g # h PROVE Entries(d, g) = Entries(c, g)
    <2>1. \A j \in 1 .. k : d[j].hash = c[j].hash /\ (c[j].hash = g => d[j].entries = c[j].entries)
      BY <1>5
    <2> DEFINE m == k + 1
    <2>2. \A j \in k + 1 .. m : d[j].hash # g
      BY <1>5, <1>10 DEF Node
    <2>3. k <= m /\ Chain(b, c, k) /\ Chain(b, d, m)
      BY <1>0, <1>8
    <2> HIDE DEF m
    <2> QED BY ONLY <2>1, <2>2, <2>3, SameEntries
  <1> QED BY <1>8, <1>9, <1>10

(* A new node at the end of a chain that is all live is its stale part. *)
LEMMA ChainExtend ==
  ASSUME NEW b, NEW c, NEW k, Chain(b, c, k), k = Len(c), NEW d, d = WithNewNode(c)
  PROVE  /\ Chain(b, d, k) /\ k < Len(d)
         /\ \A i \in 1 .. k : d[i] = c[i]
         /\ \A h \in Hashes : Entries(d, h) = Entries(c, h)
  <1>0. c \in Seq(NodeType) /\ k \in 0 .. Len(c) /\ ChainAt(b, c, k)
    BY DEF Chain
  <1>1. NewNode \in NodeType /\ ~NewNode.hash_valid /\ NewNode.entries = << >>
    BY DEF NewNode, Node, NodeType
  <1> HIDE DEF NewNode
  <1>2. /\ d \in Seq(NodeType) /\ Len(d) = k + 1 /\ d[k + 1] = NewNode
        /\ \A i \in 1 .. k : d[i] = c[i]
    BY <1>0, <1>1 DEF WithNewNode
  <1>3. Chain(b, d, k) /\ k < Len(d)
    BY <1>0, <1>1, <1>2 DEF Chain, ChainAt
  <1>4. ASSUME NEW h \in Hashes PROVE Entries(d, h) = Entries(c, h)
    <2>1. \A i \in 1 .. k : d[i].hash = c[i].hash /\ (c[i].hash = h => d[i].entries = c[i].entries)
      BY <1>2
    <2>2. k <= k /\ \A i \in k + 1 .. k : d[i].hash # h
      BY <1>0
    <2>3. Chain(b, c, k)
      OBVIOUS
    <2> QED BY ONLY <2>1, <2>2, <2>3, <1>3, SameEntries
  <1> QED BY <1>2, <1>3, <1>4

(* Adding a file with a new hash to a chain, which grows when it has no stale
   node to put to use. *)
LEMMA ChainAddNewHash ==
  ASSUME NEW b, NEW c, NEW k, Chain(b, c, k),
         NEW f \in Files, NEW h \in Hashes, Bucket(h) = b,
         \A i \in 1 .. k : c[i].hash # h,
         NEW longer, longer = IF k + 1 <= Len(c) THEN c ELSE WithNewNode(c),
         NEW d, d = Populate(longer, k + 1, f, h)
  PROVE  /\ Chain(b, d, k + 1)
         /\ Entries(c, h) = << >> /\ Entries(d, h) = WithFile(Entries(c, h), f)
         /\ \A g \in Hashes : g # h => Entries(d, g) = Entries(c, g)
  <1>0. k \in Nat /\ Len(c) \in Nat /\ k <= Len(c)
    BY DEF Chain
  <1>1. /\ Chain(b, longer, k) /\ k < Len(longer)
        /\ \A i \in 1 .. k : longer[i].hash # h
        /\ \A g \in Hashes : Entries(longer, g) = Entries(c, g)
    <2>1. CASE k + 1 <= Len(c)
      BY <1>0, <2>1
    <2>2. CASE ~(k + 1 <= Len(c))
      <3>1. k = Len(c) /\ longer = WithNewNode(c) /\ Chain(b, c, k)
        BY <1>0, <2>2
      <3>2. /\ Chain(b, longer, k) /\ k < Len(longer)
            /\ \A i \in 1 .. k : longer[i] = c[i]
            /\ \A g \in Hashes : Entries(longer, g) = Entries(c, g)
        BY ONLY <3>1, ChainExtend
      <3> QED BY <3>2
    <2> QED BY <2>1, <2>2
  <1>2. /\ Chain(b, d, k + 1)
        /\ Entries(d, h) = WithFile(Entries(longer, h), f)
        /\ \A g \in Hashes : g # h => Entries(d, g) = Entries(longer, g)
    <2>1. f \in Files /\ h \in Hashes /\ Bucket(h) = b /\ d = Populate(longer, k + 1, f, h)
      OBVIOUS
    <2> QED BY ONLY <1>1, <2>1, ChainPopulate
  <1>3. Entries(c, h) = << >>
    <2>1. Chain(b, c, k) /\ \A i \in 1 .. k : c[i].hash # h
      OBVIOUS
    <2> QED BY ONLY <2>1, EntriesOfNone
  <1>4. Entries(longer, h) = Entries(c, h)
    BY <1>1
  <1>5. ASSUME NEW g \in Hashes, g # h PROVE Entries(d, g) = Entries(c, g)
    BY ONLY <1>1, <1>2, <1>5
  <1> QED BY ONLY <1>2, <1>3, <1>4, <1>5

(* A chain whose first node was reset shows no file, whatever its other nodes
   still hold. *)
LEMMA ChainReset ==
  ASSUME NEW b, NEW c \in Seq(NodeType), NEW d,
         d = IF c = << >> THEN << >> ELSE [c EXCEPT ![1] = reset_hash_list_entry(@)]
  PROVE  /\ Chain(b, d, 0)
         /\ \A h \in Hashes : Entries(d, h) = << >>
  <1> DEFINE n == reset_hash_list_entry(c[1])
  <1>1. n \in NodeType /\ ~n.hash_valid /\ n.entries = << >>
    BY DEF reset_hash_list_entry, Node, NodeType
  <1>2. d \in Seq(NodeType) /\ (0 < Len(d) => d[1] = n)
    <2>1. CASE c = << >>
      BY <2>1
    <2>2. CASE c # << >>
      <3>1. c \in Seq(NodeType) /\ n \in NodeType /\ 1 \in 1 .. Len(c)
        BY <1>1, <2>2
      <3>2. d = [c EXCEPT ![1] = n]
        BY <2>2
      <3> HIDE DEF n
      <3>3. /\ [c EXCEPT ![1] = n] \in Seq(NodeType)
            /\ \A j \in 1 .. Len(c) : [c EXCEPT ![1] = n][j] = IF j = 1 THEN n ELSE c[j]
        BY ONLY <3>1, ExceptSeq
      <3> QED BY <3>1, <3>2, <3>3
    <2> QED BY <2>1, <2>2
  <1> HIDE DEF n
  <1>3. Chain(b, d, 0)
    BY <1>1, <1>2 DEF Chain, ChainAt
  <1>4. ASSUME NEW h \in Hashes PROVE Entries(d, h) = << >>
    <2>1. \A i \in 1 .. 0 : d[i].hash # h
      OBVIOUS
    <2> QED BY ONLY <1>3, <2>1, EntriesOfNone
  <1> QED BY <1>3, <1>4

-----------------------------------------------------------------------------
(* The table's chains, in a state of the invariant. *)
LEMMA ChainOf ==
  ASSUME TypeOK, ChainsOK, NEW b \in Buckets
  PROVE  \E k : Chain(b, table[b], k)
  BY DEF TypeOK, ChainsOK, Chain

(* add_to_hash_table() replaces one chain by one that is in order too, and that
   has one more file under one hash. *)
LEMMA AddStep ==
  ASSUME TypeOK, ChainsOK, NEW f \in Files, NEW h \in Hashes, Add(f, h),
         NEW b, b = Bucket(h), NEW c, c = table[b]
  PROVE  \E d : /\ table' = [table EXCEPT ![b] = d]
                /\ \E m : Chain(b, d, m)
                /\ Entries(d, h) = WithFile(Entries(c, h), f)
                /\ \A g \in Hashes : g # h => Entries(d, g) = Entries(c, g)
                /\ has_dups' = (has_dups \/ Entries(c, h) # << >>)
  <1>1. b \in Buckets
    BY HashTableAssumption
  <1>2. PICK k : Chain(b, c, k)
    BY <1>1, ChainOf
  <1>3. Live(c) = k
    BY ONLY <1>2, LiveOfChain
  <1>4. ASSUME NEW i \in 1 .. k, c[i].hash = h, AddToNode(f, h, c, i)
        PROVE  \E d : /\ table' = [table EXCEPT ![b] = d]
                      /\ \E m : Chain(b, d, m)
                      /\ Entries(d, h) = WithFile(Entries(c, h), f)
                      /\ \A g \in Hashes : g # h => Entries(d, g) = Entries(c, g)
                      /\ has_dups' = (has_dups \/ Entries(c, h) # << >>)
    <2> DEFINE d == WithFileAt(c, i, f)
    <2>1. table' = [table EXCEPT ![b] = d] /\ has_dups' = (has_dups \/ c[i].entries # << >>)
      BY <1>4 DEF AddToNode, WithFileAt
    <2>2. d = WithFileAt(c, i, f) /\ f \in Files /\ i \in 1 .. k
      OBVIOUS
    <2> HIDE DEF d
    <2>3. /\ Chain(b, d, k)
          /\ Entries(d, c[i].hash) = WithFile(Entries(c, c[i].hash), f)
          /\ \A g \in Hashes : g # c[i].hash => Entries(d, g) = Entries(c, g)
      BY ONLY <1>2, <2>2, ChainAddToNode
    <2>4. Entries(c, c[i].hash) = c[i].entries
      BY ONLY <1>2, <2>2, EntriesOfNode
    <2> QED BY ONLY <1>4, <2>1, <2>3, <2>4
  <1>5. ASSUME \A i \in 1 .. k : c[i].hash # h, AddNewHash(f, h, c)
        PROVE  \E d : /\ table' = [table EXCEPT ![b] = d]
                      /\ \E m : Chain(b, d, m)
                      /\ Entries(d, h) = WithFile(Entries(c, h), f)
                      /\ \A g \in Hashes : g # h => Entries(d, g) = Entries(c, g)
                      /\ has_dups' = (has_dups \/ Entries(c, h) # << >>)
    <2> DEFINE longer == IF k + 1 <= Len(c) THEN c ELSE WithNewNode(c)
               d == Populate(longer, k + 1, f, h)
    <2>1. table' = [table EXCEPT ![b] = d] /\ has_dups' = has_dups
      BY <1>3, <1>5 DEF AddNewHash, WithNewNode
    <2>2. /\ longer = IF k + 1 <= Len(c) THEN c ELSE WithNewNode(c)
          /\ d = Populate(longer, k + 1, f, h)
          /\ f \in Files /\ h \in Hashes /\ Bucket(h) = b
      OBVIOUS
    <2> HIDE DEF longer, d
    <2>3. /\ Chain(b, d, k + 1)
          /\ Entries(c, h) = << >> /\ Entries(d, h) = WithFile(Entries(c, h), f)
          /\ \A g \in Hashes : g # h => Entries(d, g) = Entries(c, g)
      BY ONLY <1>2, <1>5, <2>2, ChainAddNewHash
    <2>4. has_dups' = (has_dups \/ Entries(c, h) # << >>)
      BY TypeOK, <2>1, <2>3 DEF TypeOK
    <2> QED BY ONLY <2>1, <2>3, <2>4
  <1>6. \/ \E i \in 1 .. k : c[i].hash = h /\ AddToNode(f, h, c, i)
        \/ (\A i \in 1 .. k : c[i].hash # h) /\ AddNewHash(f, h, c)
    BY <1>3 DEF Add
  <1> QED BY <1>4, <1>5, <1>6

(* The table of init_hash_table() is in order. *)
LEMMA InitInv == Init => IInv
  <1> SUFFICES ASSUME Init PROVE IInv
    OBVIOUS
  <1>1. \A b \in Buckets : table[b] = << >>
    BY DEF Init
  <1>2. TypeOK
    <2>1. << >> \in Seq(NodeType)
      OBVIOUS
    <2> HIDE DEF NodeType
    <2> QED BY <2>1 DEF Init, TypeOK
  <1>3. ASSUME NEW b \in Buckets PROVE \E k \in 0 .. Len(table[b]) : ChainAt(b, table[b], k)
    <2>1. Len(table[b]) = 0
      BY <1>1
    <2>2. ChainAt(b, table[b], 0)
      BY <2>1 DEF ChainAt
    <2> QED BY <2>1, <2>2
  <1> QED BY <1>2, <1>3 DEF IInv, ChainsOK

(* Every call keeps the table in order. *)
LEMMA NextInv == IInv /\ [Next]_vars => IInv'
  <1> SUFFICES ASSUME IInv, [Next]_vars PROVE IInv'
    OBVIOUS
  <1> USE DEF IInv
  <1>1. CASE Reset
    <2>1. ASSUME NEW b \in Buckets
          PROVE  Chain(b, table'[b], 0)
      <3>1. table'[b] = IF table[b] = << >> THEN << >>
                        ELSE [table[b] EXCEPT ![1] = reset_hash_list_entry(@)]
        BY <1>1 DEF Reset
      <3>2. table[b] \in Seq(NodeType)
        BY DEF TypeOK
      <3> QED BY ONLY <3>1, <3>2, ChainReset
    <2>2. table' = [b \in Buckets |-> table'[b]] /\ has_dups' \in BOOLEAN /\ unhashed' \in SUBSET Files
      BY <1>1 DEF Reset
    <2>3. TypeOK'
      BY <2>1, <2>2 DEF TypeOK, Chain
    <2> QED BY <2>1, <2>3 DEF ChainsOK, Chain
  <1>2. ASSUME NEW f \in Files, NEW h \in Hashes, Add(f, h) PROVE IInv'
    <2>1. PICK d : /\ table' = [table EXCEPT ![Bucket(h)] = d]
                   /\ \E m : Chain(Bucket(h), d, m)
                   /\ has_dups' = (has_dups \/ Entries(table[Bucket(h)], h) # << >>)
      BY <1>2, AddStep
    <2>2. Bucket(h) \in Buckets
      BY HashTableAssumption
    <2>3. has_dups' \in BOOLEAN
      BY <2>1
    <2>4. TypeOK'
      BY <1>2, <2>1, <2>2, <2>3 DEF TypeOK, Add, Chain
    <2>5. ASSUME NEW b \in Buckets PROVE \E k \in 0 .. Len(table'[b]) : ChainAt(b, table'[b], k)
      <3>1. CASE b = Bucket(h)
        BY <2>1, <2>2, <3>1 DEF TypeOK, Chain
      <3>2. CASE b # Bucket(h)
        <4>1. table'[b] = table[b]
          BY <2>1, <3>2 DEF TypeOK
        <4> QED BY <4>1 DEF ChainsOK
      <3> QED BY <3>1, <3>2
    <2> QED BY <2>4, <2>5 DEF ChainsOK
  <1>3. CASE UNCHANGED vars
    BY <1>3 DEF vars, TypeOK, ChainsOK
  <1> QED BY <1>1, <1>2, <1>3 DEF Next

(* The invariant holds however many passes the table is used for. *)
THEOREM Invariance == Spec => []IInv
  BY InitInv, NextInv, PTL DEF Spec

(* The type invariant of the table. *)
THEOREM TypeCorrect == Spec => []TypeOK
  BY Invariance, PTL DEF IInv

(* Every chain is a live part and a stale part that no loop enters. *)
THEOREM ChainsInOrder == Spec => []ChainsOK
  BY Invariance, PTL DEF IInv

(* A pass finds the files it added, each under its hash, and no file of an
   earlier pass; has_dups tells whether two of them have the same hash. *)
THEOREM Refinement == Spec => IsHashGroups
  <1> DEFINE g == [h \in Hashes |-> Entries(table[Bucket(h)], h)]
  <1>1. Init => Groups!GroupInit
    <2> SUFFICES ASSUME Init PROVE Groups!GroupInit
      OBVIOUS
    <2>1. ASSUME NEW h \in Hashes PROVE Entries(table[Bucket(h)], h) = << >>
      <3>1. table[Bucket(h)] = << >>
        BY HashTableAssumption DEF Init
      <3>2. Chain(Bucket(h), << >>, 0)
        BY DEF Chain, ChainAt
      <3>3. \A i \in 1 .. 0 : << >>[i].hash # h
        OBVIOUS
      <3>4. Entries(<< >>, h) = << >>
        BY ONLY <3>2, <3>3, EntriesOfNone
      <3> QED BY <3>1, <3>4
    <2> QED BY <2>1 DEF Init, Groups!GroupInit
  <1>2. IInv /\ [Next]_vars => [Groups!GroupNext]_(Groups!groupVars)
    <2> SUFFICES ASSUME IInv, [Next]_vars
                 PROVE  [Groups!GroupNext]_(Groups!groupVars)
      OBVIOUS
    <2> USE DEF IInv
    <2>1. CASE Reset
      <3>1. ASSUME NEW h \in Hashes PROVE Entries(table'[Bucket(h)], h) = << >>
        <4>1. Bucket(h) \in Buckets
          BY HashTableAssumption
        <4>2. table[Bucket(h)] \in Seq(NodeType)
          BY <4>1 DEF TypeOK
        <4>3. table'[Bucket(h)] = IF table[Bucket(h)] = << >> THEN << >>
                                  ELSE [table[Bucket(h)] EXCEPT ![1] = reset_hash_list_entry(@)]
          BY <2>1, <4>1 DEF Reset
        <4> QED BY ONLY <4>2, <4>3, h \in Hashes, ChainReset
      <3>2. Groups!GroupReset
        BY <2>1, <3>1 DEF Reset, Groups!GroupReset
      <3> QED BY <3>2 DEF Groups!GroupNext
    <2>2. ASSUME NEW f \in Files, NEW h \in Hashes, Add(f, h)
          PROVE  Groups!GroupAdd(f, h)
      <3>1. PICK d :
              /\ table' = [table EXCEPT ![Bucket(h)] = d]
              /\ Entries(d, h) = WithFile(Entries(table[Bucket(h)], h), f)
              /\ \A e \in Hashes : e # h => Entries(d, e) = Entries(table[Bucket(h)], e)
              /\ has_dups' = (has_dups \/ Entries(table[Bucket(h)], h) # << >>)
        BY <2>2, AddStep
      <3>2. ASSUME NEW e \in Hashes
            PROVE  Entries(table'[Bucket(e)], e)
                     = IF e = h THEN WithFile(Entries(table[Bucket(h)], h), f)
                       ELSE Entries(table[Bucket(e)], e)
        <4>1. Bucket(e) \in Buckets /\ Bucket(h) \in Buckets
          BY HashTableAssumption
        <4>2. table'[Bucket(e)] = IF Bucket(e) = Bucket(h) THEN d ELSE table[Bucket(e)]
          BY <3>1, <4>1 DEF TypeOK
        <4>3. CASE e = h
          BY <3>1, <4>2, <4>3
        <4>4. CASE e # h /\ Bucket(e) = Bucket(h)
          BY <3>1, <4>2, <4>4
        <4>5. CASE e # h /\ Bucket(e) # Bucket(h)
          BY <4>2, <4>5
        <4> QED BY <4>3, <4>4, <4>5
      <3>3. g' = [g EXCEPT ![h] = Append(@, f)]
        BY <3>2 DEF WithFile
      <3> QED BY <3>1, <3>3 DEF Groups!GroupAdd
    <2>3. CASE UNCHANGED vars
      BY <2>3 DEF vars, Groups!groupVars
    <2> QED BY <2>1, <2>2, <2>3 DEF Next, Groups!GroupNext
  <1> QED BY <1>1, <1>2, Invariance, PTL DEF Spec, IsHashGroups, Groups!GroupSpec
=============================================================================
