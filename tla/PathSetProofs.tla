---------------------------- MODULE PathSetProofs ----------------------------
(***************************************************************************)
(* What one visit of the reader and one pass of the hasher make of the     *)
(* entry of a file, whatever its blocks and the sizes of the buffers: the  *)
(* bytes hashed and buffered are the first bytes of the file.              *)
(*                                                                         *)
(* Then what the operations of PathSet do to a set of any number of files: *)
(* list_size and the states agree, the counters agree with what the files  *)
(* hold, and each file gets the one verdict that is right.  Sums and       *)
(* skim_uniques() are folds over finite sets, so there is induction over   *)
(* finite sets first: by the least counterexample.                         *)
(***************************************************************************)
EXTENDS PathSet, FiniteSetTheorems, SequenceTheorems, WellFoundedInduction, TLAPS

FileStates == {"FS_NEED_DATA", "FS_BUFFER_READY", "FS_CACHE_DONE",
               "FS_DONE", "FS_UNIQUE", "FS_IGNORE", "FS_IGNORE_HL"}

EntryType ==
  [state : FileStates, buffer : Seq(Nat), bufsize : Nat,
   data_in_buffer : Nat, next_read_block : Nat, next_read_byte : Nat, hashed : Seq(Nat),
   fd : BOOLEAN]

(* The first n bytes of c, and the k that follow: names, so that the provers
   need not look into them. *)
First(c, n)   == SubSeq(c, 1, n)
Part(c, n, k) == SubSeq(c, n + 1, n + k)

(* The k bytes after the first n are not on disk. *)
Hole(c, n, k) == \A p \in n + 1 .. n + k : c[p] = 0

(* What is hashed and buffered are the first n bytes of c. *)
IsPrefixOf(h, b, c, n) == h \o b = First(c, n)

(* The bytes that an entry has are the first of c, and its buffer is not
   larger than it should be; an empty one may be of another size. *)
Data(e, c, wanted) ==
  /\ e \in EntryType
  /\ e.next_read_byte <= Len(c)
  /\ IsPrefixOf(e.hashed, e.buffer, c, e.next_read_byte)
  /\ Len(e.buffer) <= e.bufsize
  /\ e.buffer # << >> => e.bufsize = wanted

(* The entry is past the blocks before its own. *)
AtBlock(e, bl) ==
  /\ e.next_read_block \in 0 .. Len(bl)
  /\ e.next_read_block > 0 => e.next_read_byte >= End(bl, e.next_read_block)

(* A buffer that is hashed is full, or has the end of the file. *)
Ready(e, c, wanted) ==
  /\ e.data_in_buffer = Len(e.buffer) /\ e.bufsize = wanted
  /\ Len(e.buffer) = wanted \/ e.next_read_byte = Len(c)

EntrySound(e, c, wanted, bl) ==
  /\ Data(e, c, wanted) /\ AtBlock(e, bl)
  /\ e.state = "FS_NEED_DATA" => e.next_read_byte < Len(c)
  /\ e.state = "FS_BUFFER_READY" => Ready(e, c, wanted)

-----------------------------------------------------------------------------
\* A function on 1 .. n is a sequence of length n.
LEMMA FunctionIsSeq ==
  ASSUME NEW S, NEW n \in Nat, NEW s \in [1 .. n -> S]
  PROVE  s \in Seq(S) /\ Len(s) = n
  OBVIOUS

(* An entry that gets more bytes. *)

(* Putting three sequences together. *)
LEMMA Together ==
  ASSUME NEW h \in Seq(Nat), NEW b \in Seq(Nat), NEW x \in Seq(Nat)
  PROVE  /\ (h \o b) \o x = h \o (b \o x) /\ Len(h \o b) = Len(h) + Len(b)
         /\ b \o x \in Seq(Nat) /\ Len(b \o x) = Len(b) + Len(x)
  <1>1. (h \o b) \o x = h \o (b \o x)
    BY ConcatAssociative
  <1>2. Len(h \o b) = Len(h) + Len(b)
    OBVIOUS
  <1>3. b \o x \in Seq(Nat) /\ Len(b \o x) = Len(b) + Len(x)
    OBVIOUS
  <1> QED BY <1>1, <1>2, <1>3

(* The first n bytes of c, and the k that follow. *)
LEMMA FirstAndPart ==
  ASSUME NEW c \in Seq(Nat), NEW n \in Nat, NEW k \in Nat, n + k <= Len(c)
  PROVE  /\ First(c, n) \in Seq(Nat) /\ Len(First(c, n)) = n
         /\ Part(c, n, k) \in Seq(Nat) /\ Len(Part(c, n, k)) = k
         /\ First(c, n) \o Part(c, n, k) = First(c, n + k)
  <1>0. Len(c) \in Nat /\ n \in 0 .. Len(c) /\ n + k \in n .. Len(c)
    BY LenProperties
  <1>1. \A i \in n + 1 .. n + k : c[i] \in Nat
    BY <1>0, ElementOfSeq
  <1>2. SubSeq(c, n + 1, n + k) \in Seq(Nat) /\ Len(SubSeq(c, n + 1, n + k)) = k
    BY <1>0, <1>1, SubSeqProperties
  <1>3. \A i \in 1 .. n : c[i] \in Nat
    BY <1>0, ElementOfSeq
  <1>4. SubSeq(c, 1, n) \in Seq(Nat) /\ Len(SubSeq(c, 1, n)) = n
    BY <1>0, <1>3, SubSeqProperties
  <1>5. SubSeq(c, 1, n) \o SubSeq(c, n + 1, n + k) = SubSeq(c, 1, n + k)
    <2>1. 1 \in 1 .. Len(c) + 1 /\ n \in 1 - 1 .. Len(c) /\ n + k \in n .. Len(c)
      BY <1>0
    <2> QED BY <2>1, ConcatAdjacentSubSeq
  <1> QED BY <1>2, <1>4, <1>5 DEF First, Part

(* What is hashed, what is buffered, and k more bytes of the file. *)
LEMMA MoreOfFile ==
  ASSUME NEW c \in Seq(Nat), NEW n \in Nat, NEW k \in Nat, n + k <= Len(c),
         NEW h \in Seq(Nat), NEW b \in Seq(Nat), IsPrefixOf(h, b, c, n)
  PROVE  /\ Len(h) + Len(b) = n
         /\ b \o Part(c, n, k) \in Seq(Nat) /\ Len(b \o Part(c, n, k)) = Len(b) + k
         /\ IsPrefixOf(h, b \o Part(c, n, k), c, n + k)
  <1> DEFINE x == Part(c, n, k)
  <1>1. /\ Len(First(c, n)) = n /\ x \in Seq(Nat) /\ Len(x) = k
        /\ First(c, n) \o x = First(c, n + k)
    BY FirstAndPart
  <1>2. h \o b = First(c, n)
    BY DEF IsPrefixOf
  <1> HIDE DEF x
  <1>3. /\ (h \o b) \o x = h \o (b \o x) /\ Len(h \o b) = Len(h) + Len(b)
        /\ b \o x \in Seq(Nat) /\ Len(b \o x) = Len(b) + Len(x)
    BY <1>1, Together
  <1>4. h \o (b \o x) = First(c, n + k)
    BY <1>1, <1>2, <1>3
  <1>5. IsPrefixOf(h, b \o x, c, n + k)
    BY <1>4 DEF IsPrefixOf
  <1> QED BY <1>1, <1>2, <1>3, <1>5 DEF x

\* What is hashed and what is buffered are n bytes.
LEMMA LengthsAddUp ==
  ASSUME NEW c \in Seq(Nat), NEW n \in Nat, n <= Len(c),
         NEW h \in Seq(Nat), NEW b \in Seq(Nat), IsPrefixOf(h, b, c, n)
  PROVE  Len(h) + Len(b) = n
  <1>1. \A k \in Nat : n + k <= Len(c) => Len(First(c, n)) = n
    BY FirstAndPart
  <1>2. n + 0 <= Len(c)
    BY LenProperties
  <1>3. Len(First(c, n)) = n
    BY <1>1, <1>2
  <1>4. Len(h \o b) = Len(h) + Len(b)
    OBVIOUS
  <1> QED BY <1>3, <1>4 DEF IsPrefixOf

(* Zeroes are the bytes of a hole. *)
LEMMA HoleIsZeroes ==
  ASSUME NEW c \in Seq(Nat), NEW n \in Nat, NEW k \in Nat, n + k <= Len(c), Hole(c, n, k)
  PROVE  Zeroes(k) = Part(c, n, k)
  <1> DEFINE x == SubSeq(c, n + 1, n + k)
             z == Zeroes(k)
  <1>1. z \in Seq(Nat) /\ Len(z) = k
    <2>1. z \in [1 .. k -> Nat]
      BY DEF Zeroes
    <2> QED BY <2>1, FunctionIsSeq
  <1>2. \A i \in n + 1 .. n + k : c[i] \in Nat
    OBVIOUS
  <1>3. /\ x \in Seq(Nat) /\ Len(x) = IF n + 1 <= n + k THEN n + k - (n + 1) + 1 ELSE 0
        /\ \A i \in 1 .. n + k - (n + 1) + 1 : x[i] = c[n + 1 + i - 1]
    BY <1>2, SubSeqProperties
  <1>3a. \A p \in n + 1 .. n + k : c[p] = 0
    BY DEF Hole
  <1>4. ASSUME NEW i \in 1 .. k PROVE z[i] = x[i]
    <2>1. z[i] = 0
      BY DEF Zeroes
    <2>2. x[i] = c[n + i] /\ n + i \in n + 1 .. n + k
      BY <1>3
    <2> QED BY <1>3a, <2>1, <2>2
  <1> HIDE DEF x, z
  <1>5. Len(x) = k
    <2>1. n + k - (n + 1) + 1 = k /\ (n + 1 <= n + k <=> k > 0)
      OBVIOUS
    <2> QED BY <1>3, <2>1
  <1>6. z = x
    BY <1>1, <1>3, <1>4, <1>5, SeqEqual
  <1> QED BY <1>6 DEF x, z, Part

(* Which fields of an entry differ when it got some bytes. *)
Keeps(e, g) == /\ g.state = e.state /\ g.bufsize = e.bufsize /\ g.hashed = e.hashed
               /\ g.data_in_buffer = e.data_in_buffer /\ g.fd = e.fd

More(e, c, k, j) ==
  [e EXCEPT !.buffer = @ \o Part(c, e.next_read_byte, k),
            !.next_read_byte = @ + k, !.next_read_block = j]

(* k more bytes of the file in a buffer that has room for them. *)
LEMMA DataGrows ==
  ASSUME NEW c \in Seq(Nat), NEW w \in Nat, NEW e, Data(e, c, w), e.bufsize = w,
         NEW k \in Nat, e.next_read_byte + k <= Len(c), Len(e.buffer) + k <= w,
         NEW j \in Nat, NEW g, g = More(e, c, k, j)
  PROVE  /\ Data(g, c, w) /\ Keeps(e, g)
         /\ g.next_read_byte = e.next_read_byte + k /\ g.next_read_block = j
         /\ Len(g.buffer) = Len(e.buffer) + k
  <1> DEFINE n == e.next_read_byte
             b == e.buffer
             h == e.hashed
             x == Part(c, n, k)
  <1>1. e \in EntryType /\ n <= Len(c) /\ Len(b) <= e.bufsize /\ IsPrefixOf(h, b, c, n)
    BY DEF Data
  <1>2. n \in Nat /\ h \in Seq(Nat) /\ b \in Seq(Nat) /\ n + k <= Len(c) /\ Len(b) + k <= w
    BY <1>1 DEF EntryType
  <1>3. g = [e EXCEPT !.buffer = b \o x, !.next_read_byte = n + k, !.next_read_block = j]
    BY DEF More
  <1> HIDE DEF n, b, h
  <1>4. b \o x \in Seq(Nat) /\ Len(b \o x) = Len(b) + k /\ IsPrefixOf(h, b \o x, c, n + k)
    BY <1>1, <1>2, MoreOfFile
  <1> HIDE DEF x
  <1>5. n + k \in Nat
    BY <1>2
  <1>6. g \in EntryType
    BY <1>1, <1>3, <1>4, <1>5, Zenon DEF EntryType
  <1>7. /\ Keeps(e, g) /\ g.next_read_block = j /\ g.next_read_byte = n + k
        /\ g.buffer = b \o x /\ g.hashed = h /\ g.bufsize = w
    BY <1>1, <1>3 DEF EntryType, Keeps, h
  <1>8. Data(g, c, w)
    BY <1>2, <1>4, <1>6, <1>7 DEF Data
  <1> QED BY <1>4, <1>7, <1>8 DEF n, b

(* A buffer that is allocated anew had nothing in it. *)
LEMMA AllocateKeeps ==
  ASSUME NEW c \in Seq(Nat), NEW w \in Nat, NEW e, Data(e, c, w), NEW a, a = Allocate(e, w)
  PROVE  /\ Data(a, c, w) /\ a.bufsize = w /\ a.state = e.state
         /\ a.next_read_byte = e.next_read_byte /\ a.next_read_block = e.next_read_block
         /\ a.buffer = e.buffer /\ a.hashed = e.hashed
  <1>1. CASE e.bufsize = w
    BY <1>1 DEF Allocate
  <1>2. CASE e.bufsize # w
    <2>1. /\ e \in EntryType /\ e.buffer = << >> /\ e.next_read_byte <= Len(c)
          /\ IsPrefixOf(e.hashed, e.buffer, c, e.next_read_byte)
      BY <1>2 DEF Data
    <2>2. a = [e EXCEPT !.bufsize = w, !.buffer = << >>]
      BY <1>2 DEF Allocate
    <2>3. << >> \in Seq(Nat) /\ Len(<< >>) = 0
      BY EmptySeq
    <2>4. a \in EntryType
      BY <2>1, <2>2, <2>3, Zenon DEF EntryType
    <2>5. /\ a.bufsize = w /\ a.state = e.state /\ a.hashed = e.hashed /\ a.buffer = << >>
          /\ a.next_read_byte = e.next_read_byte /\ a.next_read_block = e.next_read_block
      BY <2>1, <2>2 DEF EntryType
    <2> QED BY <2>1, <2>3, <2>4, <2>5 DEF Data
  <1> QED BY <1>1, <1>2

\* Smaller is the smaller one.
LEMMA SmallerOfTwo ==
  ASSUME NEW m \in Nat, NEW n \in Nat
  PROVE  /\ Smaller(m, n) \in Nat /\ Smaller(m, n) <= m /\ Smaller(m, n) <= n
         /\ m <= n => Smaller(m, n) = m
         /\ Smaller(m, n) \in {m, n}
  BY DEF Smaller

(* As many zeroes as fit of the size bytes of a hole that come next. *)
LEMMA PadKeeps ==
  ASSUME NEW c \in Seq(Nat), NEW w \in Nat, NEW e, Data(e, c, w), e.bufsize = w,
         NEW size \in Nat, e.next_read_byte + size <= Len(c),
         Hole(c, e.next_read_byte, size),
         NEW g, g = Pad(e, size)
  PROVE  /\ Data(g, c, w) /\ Keeps(e, g) /\ g.next_read_block = e.next_read_block
         /\ g.next_read_byte \in e.next_read_byte .. e.next_read_byte + size
         /\ Space(e) <= size => Len(g.buffer) = w
  <1> DEFINE k == Smaller(Space(e), size)
  <1>1. e \in EntryType /\ Len(e.buffer) <= w
    BY DEF Data
  <1>2. /\ e.next_read_byte \in Nat /\ e.next_read_block \in Nat /\ e.buffer \in Seq(Nat)
        /\ Len(e.buffer) \in Nat
    BY <1>1 DEF EntryType
  <1>3. Space(e) = w - Len(e.buffer) /\ Space(e) \in Nat
    BY <1>1, <1>2 DEF Space
  <1>4. /\ k \in Nat /\ k <= size /\ Len(e.buffer) + k <= w
        /\ Space(e) <= size => Len(e.buffer) + k = w
    <2> DEFINE used == Len(e.buffer)
    <2>1. k = Smaller(w - used, size)
      BY <1>3
    <2>2. used \in Nat /\ used <= w /\ Space(e) = w - used
      BY <1>1, <1>2, <1>3
    <2> HIDE DEF k, used
    <2>3. /\ k \in Nat /\ k <= size /\ used + k <= w
          /\ w - used <= size => used + k = w
      BY <2>1, <2>2 DEF Smaller
    <2> QED BY <2>2, <2>3 DEF used
  <1>6. g = [e EXCEPT !.buffer = @ \o Zeroes(k), !.next_read_byte = @ + k]
    BY DEF Pad
  <1> HIDE DEF k
  <1>7. e.next_read_byte + k <= Len(c)
    BY <1>2, <1>4
  <1>8. Zeroes(k) = Part(c, e.next_read_byte, k)
    <2>1. Hole(c, e.next_read_byte, k)
      BY <1>2, <1>4 DEF Hole
    <2> QED BY <2>1, <1>2, <1>4, <1>7, HoleIsZeroes
  <1>9. g = More(e, c, k, e.next_read_block)
    BY <1>1, <1>6, <1>8 DEF More, EntryType
  <1>10. /\ Data(g, c, w) /\ Keeps(e, g) /\ g.next_read_block = e.next_read_block
         /\ g.next_read_byte = e.next_read_byte + k /\ Len(g.buffer) = Len(e.buffer) + k
    BY <1>2, <1>4, <1>7, <1>9, DataGrows
  <1> QED BY <1>2, <1>4, <1>10

(* What is computed in a word is no more than the number. *)
LEMMA WordIsLess ==
  ASSUME NEW n \in Nat
  PROVE  Word(n) \in Nat /\ Word(n) <= n
  <1>1. WordSize \in Nat \ {0}
    BY BufferSizesAssumption
  <1> QED BY <1>1 DEF Word

(* The gap before block i + 1, with an entry that is past block i. *)
LEMMA GapKeeps ==
  ASSUME NEW c \in Seq(Nat), NEW w \in Nat, NEW e, Data(e, c, w), e.bufsize = w,
         NEW bl, BlockList(bl, c), AtBlock(e, bl),
         e.next_read_block < Len(bl),
         e.next_read_byte < bl[e.next_read_block + 1].start,
         NEW g, g = Pad(e, GapTo(e, bl[e.next_read_block + 1].start))
  PROVE  /\ Data(g, c, w) /\ Keeps(e, g) /\ g.next_read_block = e.next_read_block
         /\ g.next_read_byte \in e.next_read_byte .. bl[e.next_read_block + 1].start
         /\ AtBlock(g, bl)
         /\ Space(e) <= GapTo(e, bl[e.next_read_block + 1].start) => Len(g.buffer) = w
  <1> DEFINE n == e.next_read_byte
             i == e.next_read_block + 1
             size == GapTo(e, bl[i].start)
  <1>1. n \in Nat /\ e.next_read_block \in Nat
    BY DEF Data, EntryType
  <1>2. bl \in Seq(BlockType) /\ Len(bl) \in Nat
    BY LenProperties DEF BlockList
  <1>3. i \in 1 .. Len(bl)
    BY <1>1, <1>2
  <1>4. bl[i] \in BlockType
    BY <1>2, <1>3, ElementOfSeq
  <1>5. bl[i].start \in Nat /\ bl[i].start <= Len(c) /\ Len(c) \in Nat
    BY <1>3, <1>4, LenProperties DEF BlockType, BlockList
  <1>6. size \in Nat /\ size <= bl[i].start - n
    <2>1. bl[i].start - n \in Nat
      BY <1>1, <1>5
    <2>2. size = Word(bl[i].start - n)
      BY DEF GapTo
    <2> HIDE DEF size, i, n
    <2> QED BY <2>1, <2>2, WordIsLess
  <1>7. Hole(c, n, size)
    <2> SUFFICES ASSUME NEW p \in n + 1 .. n + size PROVE c[p] = 0
      BY DEF Hole
    <2>1. p \in 1 .. Len(c) /\ p <= bl[i].start
      <3> HIDE DEF size, i, n
      <3> QED BY <1>1, <1>5, <1>6
    <2>2. i > 1 => n >= End(bl, i - 1)
      BY <1>1 DEF AtBlock
    <2>3. i > 1 => End(bl, i - 1) \in Nat
      <3>1. i > 1 => i - 1 \in 1 .. Len(bl)
        BY <1>3
      <3>2. i > 1 => bl[i - 1] \in BlockType
        BY <1>2, <3>1, ElementOfSeq
      <3> QED BY <3>2 DEF BlockType, End
    <2>4. i > 1 => p > End(bl, i - 1)
      BY <1>1, <2>2, <2>3
    <2> HIDE DEF i, n, size
    <2> QED BY <1>3, <2>1, <2>4 DEF BlockList
  <1>8. n + size <= Len(c)
    BY <1>1, <1>5, <1>6
  <1> HIDE DEF size
  <1>9. /\ Data(g, c, w) /\ Keeps(e, g) /\ g.next_read_block = e.next_read_block
        /\ g.next_read_byte \in n .. n + size
        /\ Space(e) <= size => Len(g.buffer) = w
    <2>1. g = Pad(e, size)
      BY DEF size
    <2> QED BY <1>6, <1>7, <1>8, <2>1, PadKeeps
  <1>10. g.next_read_byte \in n .. bl[i].start
    BY <1>1, <1>5, <1>6, <1>9
  <1>11. AtBlock(g, bl)
    <2>1. e.next_read_block > 0 => e.next_read_byte >= End(bl, e.next_read_block)
      BY DEF AtBlock
    <2>2. e.next_read_block > 0 => End(bl, e.next_read_block) \in Nat
      <3>1. e.next_read_block > 0 => e.next_read_block \in 1 .. Len(bl)
        BY <1>1, <1>3
      <3>2. e.next_read_block > 0 => bl[e.next_read_block] \in BlockType
        BY <1>2, <3>1, ElementOfSeq
      <3> QED BY <3>2 DEF BlockType, End
    <2> QED BY <1>1, <1>9, <1>10, <2>1, <2>2 DEF AtBlock
  <1> QED BY <1>9, <1>10, <1>11 DEF size

(* The gap before the block of the entry, if it is not past it. *)
LEMMA PositionedKeeps ==
  ASSUME NEW c \in Seq(Nat), NEW w \in Nat, NEW e, Data(e, c, w),
         NEW bl, BlockList(bl, c), AtBlock(e, bl), e.next_read_block < Len(bl),
         NEW p, p = Positioned(e, w, bl)
  PROVE  /\ Data(p, c, w) /\ AtBlock(p, bl) /\ p.bufsize = w /\ p.state = e.state
         /\ p.next_read_block = e.next_read_block /\ p.hashed = e.hashed
         /\ GapFills(e, w, bl) => Len(p.buffer) = w
  <1> DEFINE a == Allocate(e, w)
             start == bl[e.next_read_block + 1].start
  <1>1. /\ Data(a, c, w) /\ a.bufsize = w /\ a.state = e.state
        /\ a.next_read_byte = e.next_read_byte /\ a.next_read_block = e.next_read_block
        /\ a.hashed = e.hashed
    BY AllocateKeeps
  <1>2. AtBlock(a, bl)
    BY <1>1 DEF AtBlock
  <1>3. /\ p = IF a.next_read_byte < start THEN Pad(a, GapTo(a, start)) ELSE a
        /\ GapFills(e, w, bl) <=> a.next_read_byte < start /\ Space(a) <= GapTo(a, start)
    BY DEF Positioned, GapFills
  <1>4. a.next_read_block < Len(bl) /\ start = bl[a.next_read_block + 1].start
    BY <1>1
  <1> HIDE DEF a, start
  <1>5. CASE a.next_read_byte < start
    <2>1. p = Pad(a, GapTo(a, bl[a.next_read_block + 1].start))
      BY <1>3, <1>4, <1>5
    <2>2. /\ Data(p, c, w) /\ Keeps(a, p) /\ p.next_read_block = a.next_read_block
          /\ AtBlock(p, bl)
          /\ Space(a) <= GapTo(a, bl[a.next_read_block + 1].start) => Len(p.buffer) = w
      BY <1>1, <1>2, <1>4, <1>5, <2>1, GapKeeps
    <2> QED BY <1>1, <1>3, <1>4, <2>2 DEF Keeps
  <1>6. CASE ~(a.next_read_byte < start)
    BY <1>1, <1>2, <1>3, <1>6
  <1> QED BY <1>5, <1>6

(* The length given to an entry that is to be hashed. *)
LEMMA LengthKeeps ==
  ASSUME NEW c \in Seq(Nat), NEW w \in Nat, NEW e, Data(e, c, w), NEW bl, AtBlock(e, bl),
         NEW d \in Nat,
         NEW g, g = [e EXCEPT !.data_in_buffer = d]
  PROVE  /\ Data(g, c, w) /\ AtBlock(g, bl) /\ g.state = e.state /\ g.data_in_buffer = d
         /\ g.bufsize = e.bufsize /\ g.buffer = e.buffer /\ g.hashed = e.hashed
         /\ g.next_read_byte = e.next_read_byte /\ g.next_read_block = e.next_read_block
  <1>1. e \in EntryType
    BY DEF Data
  <1>2. g \in EntryType
    BY <1>1, Zenon DEF EntryType
  <1>3. /\ g.state = e.state /\ g.data_in_buffer = d
        /\ g.bufsize = e.bufsize /\ g.buffer = e.buffer /\ g.hashed = e.hashed
        /\ g.next_read_byte = e.next_read_byte /\ g.next_read_block = e.next_read_block
    BY <1>1 DEF EntryType
  <1> QED BY <1>2, <1>3 DEF Data, AtBlock

(* A new state of an entry. *)
LEMMA StateKeeps ==
  ASSUME NEW c \in Seq(Nat), NEW w \in Nat, NEW e, Data(e, c, w), NEW bl, AtBlock(e, bl),
         NEW s \in FileStates,
         NEW g, g = [e EXCEPT !.state = s]
  PROVE  /\ Data(g, c, w) /\ AtBlock(g, bl) /\ g.state = s /\ g.data_in_buffer = e.data_in_buffer
         /\ g.bufsize = e.bufsize /\ g.buffer = e.buffer /\ g.hashed = e.hashed
         /\ g.next_read_byte = e.next_read_byte /\ g.next_read_block = e.next_read_block
  <1>1. e \in EntryType
    BY DEF Data
  <1>2. g \in EntryType
    BY <1>1, Zenon DEF EntryType
  <1>3. /\ g.state = s /\ g.data_in_buffer = e.data_in_buffer
        /\ g.bufsize = e.bufsize /\ g.buffer = e.buffer /\ g.hashed = e.hashed
        /\ g.next_read_byte = e.next_read_byte /\ g.next_read_block = e.next_read_block
    BY <1>1 DEF EntryType
  <1> QED BY <1>2, <1>3 DEF Data, AtBlock

(* What a visit leaves of an entry that needed data. *)
VisitSound(r, c, w, bl) ==
  /\ Data(r.entry, c, w) /\ AtBlock(r.entry, bl) /\ r.entry.state = "FS_NEED_DATA"
  /\ r.entry.bufsize = w
  /\ r.outcome \in {"ready", "filling"}
  /\ r.outcome = "ready" => Ready(r.entry, c, w)
  /\ r.outcome = "filling" => r.entry.next_read_byte < Len(c)

(* How AfterRead ends a visit that left the entry g. *)
Outcome(g, c, filling, consumed) ==
  IF g.next_read_byte >= Len(c)
  THEN Visited([g EXCEPT !.data_in_buffer = Len(g.buffer)], TRUE, consumed)
  ELSE IF filling
  THEN Visited([g EXCEPT !.data_in_buffer = g.bufsize], TRUE, consumed)
  ELSE Visited(g, FALSE, consumed)

(* The end of a visit: g has all that could be had, and is full if the code
   takes it for full. *)
LEMMA VisitEnds ==
  ASSUME NEW c \in Seq(Nat), NEW w \in Nat, NEW g, Data(g, c, w), g.bufsize = w,
         g.state = "FS_NEED_DATA", NEW bl, AtBlock(g, bl),
         NEW filling \in BOOLEAN, filling => Len(g.buffer) = w, NEW consumed, NEW r,
         r = Outcome(g, c, filling, consumed)
  PROVE  /\ VisitSound(r, c, w, bl) /\ r.entry.next_read_block = g.next_read_block
         /\ r.entry.hashed = g.hashed
  <1>1. g \in EntryType /\ g.next_read_byte <= Len(c)
    BY DEF Data
  <1>2. Len(g.buffer) \in Nat /\ g.next_read_byte \in Nat /\ Len(c) \in Nat
    BY <1>1, LenProperties DEF EntryType
  <1>4. CASE g.next_read_byte >= Len(c)
    <2>1. r.entry = [g EXCEPT !.data_in_buffer = Len(g.buffer)] /\ r.outcome = "ready"
      BY <1>4 DEF Outcome, Visited
    <2>2. /\ Data(r.entry, c, w) /\ AtBlock(r.entry, bl) /\ r.entry.state = "FS_NEED_DATA"
          /\ r.entry.data_in_buffer = Len(g.buffer) /\ r.entry.bufsize = w
          /\ r.entry.buffer = g.buffer /\ r.entry.next_read_byte = g.next_read_byte
          /\ r.entry.next_read_block = g.next_read_block /\ r.entry.hashed = g.hashed
      BY <1>2, <2>1, LengthKeeps
    <2>3. g.next_read_byte = Len(c)
      BY <1>1, <1>2, <1>4
    <2> QED BY <2>1, <2>2, <2>3 DEF VisitSound, Ready
  <1>5. CASE ~(g.next_read_byte >= Len(c)) /\ filling
    <2>1. r.entry = [g EXCEPT !.data_in_buffer = w] /\ r.outcome = "ready"
      BY <1>5 DEF Outcome, Visited
    <2>2. /\ Data(r.entry, c, w) /\ AtBlock(r.entry, bl) /\ r.entry.state = "FS_NEED_DATA"
          /\ r.entry.data_in_buffer = w /\ r.entry.buffer = g.buffer /\ r.entry.bufsize = w
          /\ r.entry.next_read_block = g.next_read_block /\ r.entry.hashed = g.hashed
      BY <2>1, LengthKeeps
    <2>3. Len(r.entry.buffer) = w
      BY <1>5, <2>2
    <2> QED BY <2>1, <2>2, <2>3 DEF VisitSound, Ready
  <1>6. CASE ~(g.next_read_byte >= Len(c)) /\ ~filling
    <2>1. r.entry = g /\ r.outcome = "filling"
      BY <1>6 DEF Outcome, Visited
    <2>2. g.next_read_byte < Len(c)
      BY <1>2, <1>6
    <2> QED BY <2>1, <2>2 DEF VisitSound
  <1> QED BY <1>4, <1>5, <1>6
-----------------------------------------------------------------------------
(* A visit that reads. *)

\* How much is read of a block, and whether that is all of it.
LEMMA ReadSizes ==
  ASSUME NEW e, NEW block \in BlockType, NEW n \in Nat, n = e.next_read_byte,
         NEW end, end = block.start + block.len
  PROVE  /\ WantBytes(e, block) = Smaller(Space(e), end - n)
         /\ Consumes(e, block) => Space(e) >= end - n
  <1>1. block.start + block.len - e.next_read_byte = end - n
    BY DEF BlockType
  <1> QED BY <1>1 DEF WantBytes, Consumes

(* What is read of its block leaves the entry at that block, or past it. *)
LEMMA GotKeeps ==
  ASSUME NEW c \in Seq(Nat), NEW w \in Nat, NEW e, Data(e, c, w), e.bufsize = w,
         NEW bl, BlockList(bl, c), AtBlock(e, bl), e.next_read_block < Len(bl),
         e.next_read_byte <= End(bl, e.next_read_block + 1),
         NEW want, want = WantBytes(e, bl[e.next_read_block + 1]),
         NEW consumed \in BOOLEAN, consumed <=> Consumes(e, bl[e.next_read_block + 1]),
         NEW j, j = (IF consumed THEN e.next_read_block + 1 ELSE e.next_read_block),
         NEW g, g = More(e, c, want, j)
  PROVE  /\ Data(g, c, w) /\ Keeps(e, g) /\ AtBlock(g, bl) /\ Space(e) \in Nat
         /\ g.next_read_block = j
         /\ want = Space(e) => Len(g.buffer) = w
         /\ want # Space(e) => Space(g) > 0
  <1> DEFINE n == e.next_read_byte
             b == e.next_read_block
             used == Len(e.buffer)
             end == End(bl, b + 1)
  <1>1. e \in EntryType /\ used <= w
    BY DEF Data
  <1>2. n \in Nat /\ b \in Nat /\ used \in Nat
    BY <1>1, LenProperties DEF EntryType
  <1>3. bl \in Seq(BlockType) /\ Len(bl) \in Nat
    BY LenProperties DEF BlockList
  <1>4. b + 1 \in 1 .. Len(bl)
    BY <1>2, <1>3
  <1>5. bl[b + 1] \in BlockType
    BY <1>3, <1>4, ElementOfSeq
  <1>6. end \in Nat /\ end = bl[b + 1].start + bl[b + 1].len
    BY <1>5 DEF BlockType, End
  <1>7. end <= Len(c) /\ Len(c) \in Nat
    BY <1>4, LenProperties DEF BlockList
  <1>8. Space(e) = w - used
    BY DEF Space
  <1>9. want = Smaller(w - used, end - n) /\ (consumed => w - used >= end - n)
    <2> DEFINE block == bl[b + 1]
    <2>1. /\ n = e.next_read_byte /\ n \in Nat
          /\ end = block.start + block.len /\ block \in BlockType
      BY <1>2, <1>5, <1>6
    <2>2. want = WantBytes(e, block) /\ (consumed => Consumes(e, block))
      OBVIOUS
    <2> HIDE DEF n, b, used, end, block
    <2>3. want = Smaller(Space(e), end - n) /\ (consumed => Space(e) >= end - n)
      BY <2>1, <2>2, ReadSizes
    <2> QED BY <1>8, <2>3
  <1>10. n <= end /\ b < Len(bl) /\ j = IF consumed THEN b + 1 ELSE b
    OBVIOUS
  <1>11. Data(e, c, w) /\ g = More(e, c, want, j)
    OBVIOUS
  <1> HIDE DEF n, b, used, end
  <1>12. /\ want \in Nat /\ n + want <= end /\ used + want <= w
         /\ consumed => n + want = end
         /\ want = w - used => used + want = w
    <2>1. w - used \in Nat /\ end - n \in Nat
      BY <1>1, <1>2, <1>6, <1>10
    <2>2. /\ want \in Nat /\ want <= w - used /\ want <= end - n
          /\ end - n <= w - used => want = end - n
      <3> DEFINE x == w - used
                 y == end - n
      <3> HIDE DEF x, y
      <3>1. want \in Nat /\ want <= x /\ want <= y /\ (y <= x => want = y)
        BY <1>9, <2>1 DEF Smaller, x, y
      <3> QED BY <3>1 DEF x, y
    <2>3. want \in Nat /\ n + want <= end /\ used + want <= w
      BY <1>1, <1>2, <1>6, <2>2
    <2>4. ASSUME consumed PROVE n + want = end
      <3>1. w - used >= end - n
        BY <1>9, <2>4
      <3> QED BY <1>1, <1>2, <1>6, <2>2, <3>1
    <2>5. want = w - used => used + want = w
      BY <1>1, <1>2
    <2> QED BY <2>3, <2>4, <2>5
  <1>13. j \in Nat
    BY <1>2, <1>10
  <1>14. /\ Data(g, c, w) /\ Keeps(e, g) /\ g.next_read_byte = n + want
         /\ g.next_read_block = j /\ Len(g.buffer) = used + want
    <2>1. n + want <= Len(c)
      BY <1>2, <1>6, <1>7, <1>12
    <2> QED BY <1>11, <1>12, <1>13, <2>1, DataGrows DEF n, used
  <1>15. AtBlock(g, bl)
    <2>1. CASE consumed
      <3>1. j = b + 1 /\ n + want = end
        BY <1>10, <1>12, <2>1
      <3>2. j \in 0 .. Len(bl) /\ n + want >= End(bl, j)
        BY <1>4, <1>6, <3>1 DEF end
      <3> QED BY <1>14, <3>2 DEF AtBlock
    <2>2. CASE ~consumed
      <3>1. j = b
        BY <1>10, <2>2
      <3>2. b \in 0 .. Len(bl) /\ (b > 0 => n >= End(bl, b))
        BY DEF AtBlock, b, n
      <3>3. b > 0 => End(bl, b) \in Nat
        <4>1. b > 0 => b \in 1 .. Len(bl)
          BY <3>2
        <4>2. b > 0 => bl[b] \in BlockType
          BY <1>3, <4>1, ElementOfSeq
        <4> QED BY <4>2 DEF BlockType, End
      <3>4. b > 0 => n + want >= End(bl, b)
        BY <1>2, <1>12, <3>2, <3>3
      <3> QED BY <1>14, <3>1, <3>2, <3>4 DEF AtBlock
    <2> QED BY <2>1, <2>2
  <1>16. Space(e) \in Nat
    BY <1>1, <1>2, <1>8
  <1>17. want # Space(e) => Space(g) > 0
    <2>1. Space(g) = w - (used + want)
      BY <1>14 DEF Space, Keeps
    <2>2. PICK a \in Nat, u \in Nat, z \in Nat : a = want /\ u = used /\ z = w
      BY <1>2, <1>12
    <2>3. u + a <= z
      BY <1>12, <2>2
    <2>4. a # z - u => z - (u + a) > 0
      BY <2>3
    <2> QED BY <1>8, <2>1, <2>2, <2>4
  <1> QED BY <1>8, <1>12, <1>14, <1>15, <1>16, <1>17

(* The gap after a block that was read to its end. *)
LEMMA PadAfterKeeps ==
  ASSUME NEW c \in Seq(Nat), NEW w \in Nat, NEW e, Data(e, c, w), e.bufsize = w,
         NEW bl, BlockList(bl, c), AtBlock(e, bl), NEW g, g = PadAfter(e, bl)
  PROVE  /\ Data(g, c, w) /\ AtBlock(g, bl) /\ g.bufsize = w /\ g.state = e.state
         /\ g.next_read_block = e.next_read_block /\ g.hashed = e.hashed
         /\ CutByGap(e, bl) \/ Len(e.buffer) = w => Len(g.buffer) = w
  <1> DEFINE start == bl[e.next_read_block + 1].start
  <1>0. e.next_read_block \in Nat /\ Len(bl) \in Nat /\ e.next_read_byte \in Nat
    BY LenProperties DEF Data, EntryType, BlockList
  <1>1. CASE e.next_read_block < Len(bl) /\ start > e.next_read_byte
    <2>1. g = Pad(e, GapTo(e, start))
      BY <1>1 DEF PadAfter
    <2>2. start \in Nat
      <3>1. e.next_read_block + 1 \in 1 .. Len(bl) /\ bl \in Seq(BlockType)
        BY <1>0, <1>1 DEF BlockList
      <3>2. bl[e.next_read_block + 1] \in BlockType
        BY <3>1, ElementOfSeq
      <3> QED BY <3>2 DEF BlockType
    <2>3. e.next_read_byte < start
      BY <1>0, <1>1, <2>2
    <2>4. /\ Data(g, c, w) /\ Keeps(e, g) /\ AtBlock(g, bl)
          /\ g.next_read_block = e.next_read_block
          /\ Space(e) <= GapTo(e, start) => Len(g.buffer) = w
      BY <1>1, <2>1, <2>3, GapKeeps
    <2>5. GapTo(e, start) \in Nat
      <3>1. start - e.next_read_byte \in Nat
        BY <1>0, <2>2, <2>3
      <3> HIDE DEF start
      <3> QED BY <3>1, WordIsLess DEF GapTo
    <2>6. Space(e) = w - Len(e.buffer) /\ Len(e.buffer) \in Nat
      BY LenProperties DEF Space, Data, EntryType
    <2>7. CutByGap(e, bl) \/ Len(e.buffer) = w => Space(e) <= GapTo(e, start)
      <3>1. CutByGap(e, bl) => Space(e) < GapTo(e, start)
        BY DEF CutByGap
      <3>2. Space(e) \in Int
        BY <2>6
      <3> HIDE DEF start
      <3> QED BY <2>5, <2>6, <3>1, <3>2
    <2> QED BY <2>4, <2>7 DEF Keeps
  <1>2. CASE ~(e.next_read_block < Len(bl) /\ start > e.next_read_byte)
    <2>1. g = e /\ ~CutByGap(e, bl)
      BY <1>2 DEF PadAfter, CutByGap
    <2> QED BY <2>1
  <1> QED BY <1>1, <1>2

(* A read of the block that the entry is in. *)
LEMMA ReadKeeps ==
  ASSUME NEW c \in Seq(Nat), NEW w \in Nat, NEW e, Data(e, c, w), e.bufsize = w,
         e.state = "FS_NEED_DATA",
         NEW bl, BlockList(bl, c), AtBlock(e, bl), e.next_read_block < Len(bl),
         e.next_read_byte <= End(bl, e.next_read_block + 1),
         NEW r, r = AfterRead(e, bl, c)
  PROVE  /\ VisitSound(r, c, w, bl)
         /\ r.entry.next_read_block \in {e.next_read_block, e.next_read_block + 1}
         /\ r.entry.hashed = e.hashed
  <1> DEFINE block    == bl[e.next_read_block + 1]
             want     == WantBytes(e, block)
             consumed == Consumes(e, block)
             j        == IF consumed THEN e.next_read_block + 1 ELSE e.next_read_block
             got      == More(e, c, want, j)
             padded   == IF consumed THEN PadAfter(got, bl) ELSE got
             filling  == want = Space(e) \/ (consumed /\ CutByGap(got, bl))
  <1>1. r = Outcome(padded, c, filling, consumed)
    BY DEF AfterRead, Outcome, More, Part
  <1>2. consumed \in BOOLEAN
    BY DEF Consumes
  <1>3. /\ Data(got, c, w) /\ Keeps(e, got) /\ AtBlock(got, bl)
        /\ want = Space(e) => Len(got.buffer) = w
        /\ got.next_read_block = j
    BY <1>2, GotKeeps
  <1>4. got.bufsize = w /\ got.state = "FS_NEED_DATA" /\ got.hashed = e.hashed
    BY <1>3 DEF Keeps
  <1> HIDE DEF got, want, consumed
  <1>5. /\ Data(padded, c, w) /\ AtBlock(padded, bl) /\ padded.bufsize = w
        /\ padded.state = "FS_NEED_DATA" /\ (filling => Len(padded.buffer) = w)
    <2>1. CASE consumed
      <3>1. padded = PadAfter(got, bl)
        BY <2>1
      <3>2. /\ Data(padded, c, w) /\ AtBlock(padded, bl) /\ padded.bufsize = w
            /\ padded.state = got.state
            /\ CutByGap(got, bl) \/ Len(got.buffer) = w => Len(padded.buffer) = w
        BY <1>3, <1>4, <3>1, PadAfterKeeps
      <3> QED BY <1>3, <1>4, <3>2
    <2>2. CASE ~consumed
      BY <1>3, <1>4, <2>2
    <2> QED BY <2>1, <2>2
  <1>6. filling \in BOOLEAN
    BY <1>2 DEF CutByGap
  <1>7. padded.next_read_block = j /\ padded.hashed = e.hashed
    BY <1>3, <1>4, PadAfterKeeps
  <1> HIDE DEF padded, filling
  <1>8. /\ VisitSound(r, c, w, bl) /\ r.entry.next_read_block = padded.next_read_block
        /\ r.entry.hashed = padded.hashed
    BY <1>1, <1>5, <1>6, VisitEnds
  <1> QED BY <1>7, <1>8

\* What a visit reports.
LEMMA ReadyReported ==
  ASSUME NEW e
  PROVE  Visited(e, TRUE, FALSE).outcome = "ready" /\ Visited(e, TRUE, FALSE).entry = e
  BY Zenon DEF Visited

\* What a stop says is the outcome it was made for.
LEMMA StopReported ==
  ASSUME NEW e, NEW o
  PROVE  Stopped(e, o).outcome = o
  BY Zenon DEF Stopped

Filled(e) == [e EXCEPT !.data_in_buffer = e.bufsize]

\* A visit to a file that can be read.
Visit(e, w, bl, c) == fill_data_block(e, w, bl, c, TRUE)

(* A visit of the reader to a file that needs data, if nothing stops it. *)
LEMMA FillDataKeeps ==
  ASSUME NEW c \in Seq(Nat), NEW w \in Nat, NEW e, Data(e, c, w), e.state = "FS_NEED_DATA",
         NEW bl, BlockList(bl, c), AtBlock(e, bl), e.next_read_block < Len(bl),
         NEW r, r = Visit(e, w, bl, c), r.outcome \in {"ready", "filling"}
  PROVE  /\ VisitSound(r, c, w, bl)
         /\ r.entry.next_read_block \in {e.next_read_block, e.next_read_block + 1}
         /\ r.entry.hashed = e.hashed
  <1> DEFINE p == Positioned(e, w, bl)
             block == bl[p.next_read_block + 1]
  <1>1. /\ Data(p, c, w) /\ AtBlock(p, bl) /\ p.bufsize = w /\ p.state = "FS_NEED_DATA"
        /\ p.next_read_block = e.next_read_block /\ p.hashed = e.hashed
        /\ GapFills(e, w, bl) => Len(p.buffer) = w
    BY PositionedKeeps
  <1>2. r = IF GapFills(e, w, bl) THEN Visited(Filled(p), TRUE, FALSE)
            ELSE ReadBlock(p, bl, c, TRUE)
    BY Zenon DEF Visit, fill_data_block, Filled
  <1>3. p.next_read_block < Len(bl)
    BY <1>1
  <1> HIDE DEF p
  <1>4. CASE GapFills(e, w, bl)
    <2>0. r = Visited(Filled(p), TRUE, FALSE)
      BY <1>2, <1>4
    <2>1. r.entry = Filled(p) /\ r.outcome = "ready"
      BY <2>0, ReadyReported, Zenon
    <2>2. /\ Data(r.entry, c, w) /\ AtBlock(r.entry, bl) /\ r.entry.state = "FS_NEED_DATA"
          /\ r.entry.data_in_buffer = w /\ r.entry.buffer = p.buffer /\ r.entry.bufsize = w
          /\ r.entry.next_read_block = p.next_read_block /\ r.entry.hashed = p.hashed
      <3>1. Filled(p) = [p EXCEPT !.data_in_buffer = w]
        BY <1>1 DEF Filled
      <3> QED BY <1>1, <2>1, <3>1, LengthKeeps
    <2>3. Len(r.entry.buffer) = w
      BY <1>1, <1>4, <2>2
    <2> QED BY <1>1, <2>1, <2>2, <2>3 DEF VisitSound, Ready
  <1>5. CASE ~GapFills(e, w, bl)
    <2>1. r = ReadBlock(p, bl, c, TRUE)
      BY <1>2, <1>5
    <2>2. /\ r # Stopped(p, "position_outside_block")
          /\ r # Stopped(p, "requested_zero_bytes")
      BY StopReported
    <2>3. r = AfterRead(p, bl, c) /\ ~(p.next_read_byte > block.start + block.len)
      BY <2>1, <2>2, Zenon DEF ReadBlock
    <2>4. p.next_read_byte <= End(bl, p.next_read_block + 1)
      <3>1. p.next_read_byte \in Nat /\ p.next_read_block \in Nat
        BY <1>1 DEF Data, EntryType
      <3>2. p.next_read_block + 1 \in 1 .. Len(bl) /\ bl \in Seq(BlockType)
        BY <1>3, <3>1, LenProperties DEF BlockList
      <3>3. block \in BlockType
        BY <3>2, ElementOfSeq
      <3>4. block.start + block.len \in Nat
        BY <3>3 DEF BlockType
      <3> QED BY <2>3, <3>1, <3>4 DEF End
    <2> QED BY <1>1, <1>3, <2>3, <2>4, ReadKeeps
  <1> QED BY <1>4, <1>5

(* Any visit of the reader to a file that needs data: what stops one, if
   anything does, leaves the entry with its buffer. *)
LEMMA VisitKeeps ==
  ASSUME NEW c \in Seq(Nat), NEW w \in Nat, NEW e, Data(e, c, w), e.state = "FS_NEED_DATA",
         NEW bl, BlockList(bl, c), AtBlock(e, bl), e.next_read_block < Len(bl),
         NEW readable \in BOOLEAN, NEW r, r = fill_data_block(e, w, bl, c, readable)
  PROVE  /\ r.entry \in EntryType /\ r.entry.state = "FS_NEED_DATA" /\ r.entry.bufsize = w
         /\ r.entry.hashed = e.hashed
         /\ \/ /\ VisitSound(r, c, w, bl)
               /\ r.entry.next_read_block \in {e.next_read_block, e.next_read_block + 1}
            \/ /\ r.entry.next_read_block = e.next_read_block
               /\ \/ r.outcome = "unreadable" /\ ~readable
                  \/ r.outcome \in {"position_outside_block", "requested_zero_bytes"}
  <1> DEFINE p == Positioned(e, w, bl)
  <1>1. /\ Data(p, c, w) /\ p.bufsize = w /\ p.state = "FS_NEED_DATA"
        /\ p.next_read_block = e.next_read_block /\ p.hashed = e.hashed
    BY PositionedKeeps
  <1>2. CASE \E o \in {"position_outside_block", "requested_zero_bytes"} : r = Stopped(p, o)
    <2>1. r.entry = p /\ r.outcome \in {"position_outside_block", "requested_zero_bytes"}
      <3> HIDE DEF p
      <3> QED BY <1>2 DEF Stopped
    <2> QED BY <1>1, <2>1 DEF Data
  <1>3. CASE r = Stopped(p, "unreadable") /\ ~readable
    <2>1. r.entry = p /\ r.outcome = "unreadable"
      <3> HIDE DEF p
      <3> QED BY <1>3 DEF Stopped
    <2> QED BY <1>1, <1>3, <2>1 DEF Data
  <1>4. CASE r = Visit(e, w, bl, c) /\ r.outcome \in {"ready", "filling"}
    BY <1>4, FillDataKeeps DEF VisitSound, Data
  <1>5. CASE GapFills(e, w, bl)
    <2>1. r = Visited(Filled(p), TRUE, FALSE) /\ r = Visit(e, w, bl, c)
      BY <1>5, Zenon DEF fill_data_block, Visit, Filled
    <2>2. r.outcome = "ready"
      BY <2>1, ReadyReported, Zenon
    <2> QED BY <1>4, <2>1, <2>2
  <1>6. CASE ~GapFills(e, w, bl)
    <2>1. r = ReadBlock(p, bl, c, readable) /\ Visit(e, w, bl, c) = ReadBlock(p, bl, c, TRUE)
      BY <1>6, Zenon DEF fill_data_block, Visit
    <2>2. \/ \E o \in {"position_outside_block", "requested_zero_bytes"} : r = Stopped(p, o)
          \/ r = Stopped(p, "unreadable") /\ ~readable
          \/ r = AfterRead(p, bl, c) /\ ReadBlock(p, bl, c, TRUE) = AfterRead(p, bl, c)
      <3> HIDE DEF p
      <3> QED BY <2>1, Zenon DEF ReadBlock
    <2>3. AfterRead(p, bl, c).outcome \in {"ready", "filling"}
      <3> HIDE DEF p
      <3> QED BY DEF AfterRead, Visited
    <2> QED BY <1>2, <1>3, <1>4, <2>1, <2>2, <2>3
  <1> QED BY <1>5, <1>6

-----------------------------------------------------------------------------
(* The steps. *)

\* Buffer sizes are numbers.
LEMMA BufsizesTyped ==
  ASSUME NEW size \in Nat
  PROVE  /\ FirstBufsize(size) \in Nat
         /\ \A w \in Nat, passes \in Nat : NextBufsize(w, passes, size) \in Nat
  <1>1. /\ hash_one_block_size \in Nat /\ K512 \in Nat /\ MB2 \in Nat /\ MB16 \in Nat
        /\ use_hash_cache \in BOOLEAN
    BY BufferSizesAssumption
  <1>2. FirstBufsize(size) \in Nat
    BY <1>1 DEF FirstBufsize
  <1>3. ASSUME NEW w \in Nat, NEW passes \in Nat PROVE NextBufsize(w, passes, size) \in Nat
    <2> DEFINE m == CASE use_hash_cache                -> K512
                      [] ~use_hash_cache /\ passes = 1 -> MB2
                      [] ~use_hash_cache /\ passes > 2 -> MB16
                      [] OTHER                         -> w
    <2>1. m \in Nat
      BY <1>1
    <2>2. NextBufsize(w, passes, size) = Smaller(size, m)
      BY DEF NextBufsize
    <2> HIDE DEF m
    <2> QED BY <2>1, <2>2, SmallerOfTwo
  <1> QED BY <1>2, <1>3

\* An entry that is not at the end of the file is at a block.
LEMMA WithinList ==
  ASSUME NEW c \in Seq(Nat), NEW w \in Nat, NEW e, Data(e, c, w),
         NEW bl, BlockList(bl, c), AtBlock(e, bl), e.next_read_byte < Len(c)
  PROVE  e.next_read_block < Len(bl)
  <1>1. e.next_read_block \in 0 .. Len(bl) /\ Len(bl) \in Nat
    BY LenProperties DEF AtBlock, BlockList
  <1>2. e.next_read_byte \in Nat /\ Len(c) \in Nat
    BY LenProperties DEF Data, EntryType
  <1>3. Len(bl) > 0
    BY LenProperties, EmptySeq DEF BlockList
  <1>4. ASSUME e.next_read_block = Len(bl) PROVE FALSE
    <2>1. e.next_read_byte >= End(bl, Len(bl))
      BY <1>3, <1>4 DEF AtBlock
    <2>2. End(bl, Len(bl)) = Len(c)
      BY DEF BlockList
    <2> QED BY <1>2, <2>1, <2>2
  <1> QED BY <1>1, <1>4
(* A visit that the reader is content with. *)
LEMMA FillSound ==
  ASSUME NEW c \in Seq(Nat), NEW w \in Nat, NEW bl, BlockList(bl, c),
         NEW e, EntrySound(e, c, w, bl), e.state = "FS_NEED_DATA",
         NEW r, r = Visit(e, w, bl, c), r.outcome \in {"ready", "filling"},
         NEW s, s = (IF r.outcome = "ready" THEN "FS_BUFFER_READY" ELSE r.entry.state),
         NEW g, g = [r.entry EXCEPT !.state = s]
  PROVE  EntrySound(g, c, w, bl)
  <1>1. Data(e, c, w) /\ AtBlock(e, bl) /\ e.next_read_byte < Len(c)
    BY DEF EntrySound
  <1>2. e.next_read_block < Len(bl)
    BY <1>1, WithinList
  <1>3. VisitSound(r, c, w, bl)
    BY <1>1, <1>2, FillDataKeeps
  <1>4. /\ Data(r.entry, c, w) /\ AtBlock(r.entry, bl) /\ r.entry.state = "FS_NEED_DATA"
        /\ r.outcome = "ready" => Ready(r.entry, c, w)
        /\ r.outcome = "filling" => r.entry.next_read_byte < Len(c)
    BY <1>3 DEF VisitSound
  <1>5. s = IF r.outcome = "ready" THEN "FS_BUFFER_READY" ELSE "FS_NEED_DATA"
    BY <1>4
  <1>6. /\ Data(g, c, w) /\ AtBlock(g, bl) /\ g.state = s
        /\ g.data_in_buffer = r.entry.data_in_buffer /\ g.bufsize = r.entry.bufsize
        /\ g.buffer = r.entry.buffer /\ g.next_read_byte = r.entry.next_read_byte
    <2>1. s \in FileStates
      BY <1>5 DEF FileStates
    <2> QED BY <2>1, <1>4, <1>5, StateKeeps
  <1> QED BY <1>4, <1>5, <1>6 DEF EntrySound, Ready

(* An entry whose buffer was hashed. *)
WithHashed(e, h, s) ==
  [e EXCEPT !.hashed = h, !.buffer = << >>, !.data_in_buffer = 0, !.state = s]

(* What the hasher makes of an entry whose buffer is ready. *)
LEMMA HashKeeps ==
  ASSUME NEW c \in Seq(Nat), NEW w \in Nat, NEW bl,
         NEW e, Data(e, c, w), AtBlock(e, bl), Ready(e, c, w),
         NEW h, h = update_node_hash(e), NEW w2 \in Nat, NEW s \in FileStates,
         NEW g, g = WithHashed(e, h, s)
  PROVE  /\ Data(g, c, w2) /\ AtBlock(g, bl)
         /\ g.state = s /\ g.buffer = << >> /\ g.bufsize = e.bufsize /\ g.fd = e.fd
         /\ g.hashed = First(c, e.next_read_byte)
         /\ g.next_read_byte = e.next_read_byte /\ g.next_read_block = e.next_read_block
  <1>2. e \in EntryType /\ e.next_read_byte <= Len(c)
    BY DEF Data
  <1>3. e.hashed \in Seq(Nat) /\ e.buffer \in Seq(Nat) /\ e.next_read_byte \in Nat
    BY <1>2 DEF EntryType
  <1>4. h = e.hashed \o e.buffer
    <2>1. SubSeq(e.buffer, 1, e.data_in_buffer) = e.buffer
      BY <1>3, SubSeqFull DEF Ready
    <2>2. h = e.hashed \o SubSeq(e.buffer, 1, e.data_in_buffer)
      BY DEF update_node_hash, hash_fn_buf_update
    <2> QED BY <2>1, <2>2
  <1>5. h \in Seq(Nat) /\ h \o << >> = h /\ << >> \in Seq(Nat) /\ Len(<< >>) = 0
    BY <1>3, <1>4, ConcatProperties, ConcatEmptySeq, EmptySeq
  <1>6. h = First(c, e.next_read_byte) /\ IsPrefixOf(h, << >>, c, e.next_read_byte)
    BY <1>4, <1>5 DEF IsPrefixOf, Data
  <1>7. g \in EntryType
    BY <1>2, <1>5, Zenon DEF EntryType, WithHashed
  <1>8. /\ g.hashed = h /\ g.buffer = << >> /\ g.state = s /\ g.bufsize = e.bufsize
        /\ g.next_read_byte = e.next_read_byte /\ g.next_read_block = e.next_read_block
        /\ g.fd = e.fd
    BY <1>2 DEF EntryType, WithHashed
  <1>9. e.bufsize \in Nat
    BY <1>2 DEF EntryType
  <1>10. Data(g, c, w2) /\ AtBlock(g, bl)
    BY <1>2, <1>5, <1>6, <1>7, <1>8, <1>9 DEF Data, AtBlock
  <1> QED BY <1>6, <1>8, <1>10

(* A pass of the hasher over a buffer that is ready. *)
LEMMA HashSound ==
  ASSUME NEW c \in Seq(Nat), NEW w \in Nat, NEW bl,
         NEW e, EntrySound(e, c, w, bl), e.state = "FS_BUFFER_READY",
         NEW h, h = update_node_hash(e), NEW w2 \in Nat,
         NEW s, s = (IF e.next_read_byte >= Len(c) THEN "FS_DONE" ELSE "FS_NEED_DATA"),
         NEW g, g = WithHashed(e, h, s)
  PROVE  EntrySound(g, c, w2, bl)
  <1>1. Data(e, c, w) /\ AtBlock(e, bl) /\ Ready(e, c, w)
    BY DEF EntrySound
  <1>2. s \in FileStates
    BY DEF FileStates
  <1>3. /\ Data(g, c, w2) /\ AtBlock(g, bl) /\ g.state = s
        /\ g.next_read_byte = e.next_read_byte
    BY <1>1, <1>2, HashKeeps
  <1>4. e.next_read_byte \in Nat
    BY <1>1 DEF Data, EntryType
  <1>5. g.state = "FS_NEED_DATA" => g.next_read_byte < Len(c)
    BY <1>3, <1>4, LenProperties
  <1>6. g.state # "FS_BUFFER_READY"
    BY <1>3
  <1> QED BY <1>3, <1>5, <1>6 DEF EntrySound

-----------------------------------------------------------------------------
(* Why a visit goes on. *)

(* The blocks of a file follow each other, none is empty, and the gaps between
   them are not too long for a word. *)
InOrder(bl) ==
  /\ \A i \in 1 .. Len(bl) : bl[i].len > 0
  /\ \A i \in 1 .. Len(bl) - 1 : End(bl, i) <= bl[i + 1].start
ShortGaps(bl) ==
  /\ bl[1].start < WordSize
  /\ \A i \in 1 .. Len(bl) - 1 : bl[i + 1].start - End(bl, i) < WordSize

(* There are no gaps between them. *)
Joined(bl) == \A i \in 1 .. Len(bl) - 1 : End(bl, i) = bl[i + 1].start

(* The entry is before the end of its block, and its buffer is not full. *)
InPlace(e, bl) ==
  e.next_read_block < Len(bl) => e.next_read_byte < End(bl, e.next_read_block + 1)
Roomy(e) == e.bufsize = 0 \/ Space(e) > 0

\* The block of an entry.
BlockOf(e, bl) == bl[e.next_read_block + 1]

\* Where a block starts and ends, and the one after it.
LEMMA BlocksAre ==
  ASSUME NEW c \in Seq(Nat), NEW bl, BlockList(bl, c), InOrder(bl), ShortGaps(bl)
  PROVE  /\ bl \in Seq(BlockType) /\ Len(bl) \in Nat
         /\ \A i \in 1 .. Len(bl) :
              /\ bl[i] \in BlockType /\ bl[i].start \in Nat /\ End(bl, i) \in Nat
              /\ End(bl, i) = bl[i].start + bl[i].len /\ bl[i].start < End(bl, i)
              /\ End(bl, i) <= Len(c)
              /\ i = 1 => bl[i].start < WordSize
              /\ i > 1 => /\ End(bl, i - 1) \in Nat /\ End(bl, i - 1) <= bl[i].start
                          /\ bl[i].start - End(bl, i - 1) < WordSize
  <1>1. bl \in Seq(BlockType) /\ Len(bl) \in Nat
    BY LenProperties DEF BlockList
  <1>2. ASSUME NEW i \in 1 .. Len(bl)
        PROVE  /\ bl[i] \in BlockType /\ bl[i].start \in Nat /\ End(bl, i) \in Nat
               /\ End(bl, i) = bl[i].start + bl[i].len /\ bl[i].start < End(bl, i)
               /\ End(bl, i) <= Len(c)
    <2>1. bl[i] \in BlockType
      BY <1>1, ElementOfSeq
    <2>2. bl[i].len > 0
      BY DEF InOrder
    <2>3. bl[i].start \in Nat /\ bl[i].len \in Nat /\ End(bl, i) = bl[i].start + bl[i].len
      BY <2>1 DEF BlockType, End
    <2>4. End(bl, i) <= Len(c)
      BY DEF BlockList
    <2>5. End(bl, i) \in Nat /\ bl[i].start < End(bl, i)
      BY <2>2, <2>3
    <2> QED BY <2>1, <2>3, <2>4, <2>5
  <1>3. ASSUME NEW i \in 1 .. Len(bl), i > 1
        PROVE  /\ End(bl, i - 1) \in Nat /\ End(bl, i - 1) <= bl[i].start
               /\ bl[i].start - End(bl, i - 1) < WordSize
    <2>1. PICK j \in 1 .. Len(bl) - 1 : i = j + 1 /\ j = i - 1
      BY <1>1, <1>3
    <2>2. j \in 1 .. Len(bl)
      BY <1>1, <2>1
    <2>3. End(bl, j) \in Nat
      BY <1>2, <2>2
    <2>4. End(bl, j) <= bl[j + 1].start /\ bl[j + 1].start - End(bl, j) < WordSize
      BY <2>1 DEF InOrder, ShortGaps
    <2> QED BY <2>1, <2>3, <2>4
  <1>4. \A i \in 1 .. Len(bl) : i = 1 => bl[i].start < WordSize
    BY DEF ShortGaps
  <1> QED BY <1>1, <1>2, <1>3, <1>4

\* The gap before the block of an entry is as long as the code takes it to be.
LEMMA GapIsExact ==
  ASSUME NEW c \in Seq(Nat), NEW bl, BlockList(bl, c), InOrder(bl), ShortGaps(bl),
         NEW e \in EntryType, AtBlock(e, bl), e.next_read_block < Len(bl),
         NEW start, start = BlockOf(e, bl).start, e.next_read_byte < start
  PROVE  GapTo(e, start) = start - e.next_read_byte /\ start \in Nat
  <1>1. PICK n \in Nat, b \in Nat : n = e.next_read_byte /\ b = e.next_read_block
    BY DEF EntryType
  <1>2. PICK i : i = b + 1
    OBVIOUS
  <1>3. i \in 1 .. Len(bl) /\ bl[i].start = start
    <2>1. Len(bl) \in Nat
      BY BlocksAre
    <2> QED BY <1>1, <1>2, <2>1 DEF BlockOf
  <1>4. start \in Nat /\ WordSize \in Nat \ {0}
    BY <1>3, BlocksAre, BufferSizesAssumption
  <1>5. start - n < WordSize
    <2>1. CASE i = 1
      <3>1. start < WordSize
        BY <1>3, <2>1, BlocksAre
      <3> QED BY <1>4, <3>1
    <2>2. CASE i # 1
      <3>1. i > 1
        BY <1>2, <2>2
      <3>2. /\ End(bl, i - 1) \in Nat /\ start - End(bl, i - 1) < WordSize
        BY <1>3, <3>1, BlocksAre
      <3>3. n >= End(bl, i - 1)
        <4>1. i - 1 = b /\ b > 0
          BY <1>2, <2>2
        <4> QED BY <1>1, <4>1 DEF AtBlock
      <3> QED BY <1>4, <3>2, <3>3
    <2> QED BY <2>1, <2>2
  <1>6. PICK k \in Nat : k = start - n
    BY <1>1, <1>4
  <1>7. k % WordSize = k
    <2>1. PICK ws \in Nat \ {0} : ws = WordSize
      BY <1>4
    <2>2. k < ws
      BY <1>5, <1>6, <2>1
    <2>3. k % ws = k
      BY <2>2
    <2> QED BY <2>1, <2>3
  <1> QED BY <1>1, <1>4, <1>6, <1>7 DEF GapTo, Word

\* Where padding gets to.
LEMMA PadIs ==
  ASSUME NEW e \in EntryType, NEW size \in Nat, Space(e) > size, NEW g, g = Pad(e, size)
  PROVE  /\ g.next_read_byte = e.next_read_byte + size /\ Space(g) > 0
         /\ g.next_read_block = e.next_read_block
  <1> DEFINE k == Smaller(Space(e), size)
  <1>1. /\ e.buffer \in Seq(Nat) /\ Len(e.buffer) \in Nat /\ e.bufsize \in Nat
        /\ e.next_read_byte \in Nat
    BY LenProperties DEF EntryType
  <1>2. Space(e) \in Int /\ Space(e) = e.bufsize - Len(e.buffer)
    BY <1>1 DEF Space
  <1>3. k = size
    BY <1>2 DEF Smaller
  <1>4. g = [e EXCEPT !.buffer = @ \o Zeroes(size), !.next_read_byte = @ + size]
    BY <1>3 DEF Pad
  <1>5. /\ g.next_read_byte = e.next_read_byte + size /\ g.next_read_block = e.next_read_block
        /\ g.bufsize = e.bufsize /\ g.buffer = e.buffer \o Zeroes(size)
    BY <1>4 DEF EntryType
  <1>6. Len(g.buffer) = Len(e.buffer) + size
    <2>1. Zeroes(size) \in Seq(Nat) /\ Len(Zeroes(size)) = size
      BY FunctionIsSeq DEF Zeroes
    <2>2. PICK z \in Seq(Nat) : z = Zeroes(size) /\ Len(z) = size
      BY <2>1
    <2>3. PICK b \in Seq(Nat) : b = e.buffer
      BY <1>1
    <2>4. Len(b \o z) = Len(b) + Len(z)
      BY ConcatProperties
    <2> QED BY <1>5, <2>2, <2>3, <2>4
  <1> QED BY <1>1, <1>2, <1>5, <1>6 DEF Space

\* With room in its buffer, the entry gets to its block, or fills the buffer before.
LEMMA PositionedIn ==
  ASSUME NEW c \in Seq(Nat), NEW w \in Nat, w > 0, NEW e, Data(e, c, w), Roomy(e),
         NEW bl, BlockList(bl, c), InOrder(bl), ShortGaps(bl),
         AtBlock(e, bl), e.next_read_block < Len(bl), InPlace(e, bl),
         NEW p, p = Positioned(e, w, bl)
  PROVE  /\ InPlace(p, bl)
         /\ ~GapFills(e, w, bl) => p.next_read_byte >= BlockOf(p, bl).start /\ Space(p) > 0
  <1> DEFINE a == Allocate(e, w)
             start == bl[e.next_read_block + 1].start
             end == End(bl, e.next_read_block + 1)
  <1>1. /\ Data(a, c, w) /\ a.bufsize = w /\ a.buffer = e.buffer
        /\ a.next_read_byte = e.next_read_byte /\ a.next_read_block = e.next_read_block
    BY AllocateKeeps
  <1>2. /\ p = IF a.next_read_byte < start THEN Pad(a, GapTo(a, start)) ELSE a
        /\ GapFills(e, w, bl) <=> a.next_read_byte < start /\ Space(a) <= GapTo(a, start)
    BY DEF Positioned, GapFills
  <1>3. /\ a \in EntryType /\ a.next_read_byte \in Nat /\ a.next_read_block \in Nat
        /\ Space(a) \in Int
    <2>1. a \in EntryType
      BY <1>1 DEF Data
    <2>2. /\ a.next_read_byte \in Nat /\ a.next_read_block \in Nat /\ Len(a.buffer) \in Nat
          /\ a.bufsize \in Nat
      BY <2>1, LenProperties DEF EntryType
    <2> QED BY <2>1, <2>2 DEF Space
  <1>4. Space(a) > 0
    <2>1. CASE e.bufsize = w
      <3>1. Space(e) > 0
        BY <2>1 DEF Roomy
      <3>2. Space(a) = Space(e)
        BY <1>1, <2>1 DEF Space
      <3> QED BY <3>1, <3>2
    <2>2. CASE e.bufsize # w
      <3>1. a.buffer = << >>
        BY <1>1, <2>2 DEF Data
      <3> QED BY <1>1, <3>1 DEF Space
    <2> QED BY <2>1, <2>2
  <1>5. /\ start \in Nat /\ end \in Nat /\ start < end /\ e.next_read_byte < end
    <2>1. e.next_read_block + 1 \in 1 .. Len(bl)
      BY <1>1, <1>3, BlocksAre
    <2> QED BY <2>1, BlocksAre DEF InPlace
  <1>6. AtBlock(a, bl)
    BY <1>1 DEF AtBlock
  <1>7. start = BlockOf(a, bl).start /\ end = End(bl, a.next_read_block + 1)
    BY <1>1 DEF BlockOf
  <1> HIDE DEF a, start, end
  <1>8. CASE a.next_read_byte < start
    <2>1. GapTo(a, start) = start - a.next_read_byte
      BY <1>1, <1>3, <1>6, <1>7, <1>8, GapIsExact
    <2>2. PICK size \in Nat : size = start - a.next_read_byte
      BY <1>3, <1>5, <1>8
    <2>3. p = Pad(a, size)
      BY <1>2, <1>8, <2>1, <2>2
    <2>4. /\ p.next_read_byte <= start /\ p.next_read_block = a.next_read_block
          /\ p.next_read_byte \in Nat
      <3>1. p = Pad(a, GapTo(a, bl[a.next_read_block + 1].start))
        BY <1>7, <2>1, <2>2, <2>3 DEF BlockOf
      <3>2. a.next_read_byte < bl[a.next_read_block + 1].start
        BY <1>7, <1>8 DEF BlockOf
      <3>3. /\ p.next_read_block = a.next_read_block
            /\ p.next_read_byte \in a.next_read_byte .. bl[a.next_read_block + 1].start
        BY <1>1, <1>6, <3>1, <3>2, GapKeeps
      <3> QED BY <1>3, <1>5, <1>7, <3>3 DEF BlockOf
    <2>5. InPlace(p, bl)
      BY <1>5, <1>7, <2>4 DEF InPlace
    <2>6. ASSUME ~GapFills(e, w, bl)
          PROVE  p.next_read_byte >= BlockOf(p, bl).start /\ Space(p) > 0
      <3>1. Space(a) > size
        BY <1>2, <1>3, <1>8, <2>1, <2>2, <2>6
      <3>2. p.next_read_byte = a.next_read_byte + size /\ Space(p) > 0
        BY <1>3, <2>3, <3>1, PadIs
      <3>3. p.next_read_byte = start
        BY <1>3, <1>5, <2>2, <3>2
      <3>4. BlockOf(p, bl) = BlockOf(a, bl)
        BY <2>4 DEF BlockOf
      <3> QED BY <1>5, <1>7, <3>2, <3>3, <3>4
    <2> QED BY <2>5, <2>6
  <1>9. CASE ~(a.next_read_byte < start)
    <2>1. p = a
      BY <1>2, <1>9
    <2>2. InPlace(p, bl)
      BY <1>1, <1>5, <1>7, <2>1 DEF InPlace
    <2> QED BY <1>3, <1>4, <1>5, <1>7, <1>9, <2>1, <2>2
  <1> QED BY <1>8, <1>9

\* The gap after a block leaves the entry before the end of the next one.
LEMMA PadAfterIn ==
  ASSUME NEW c \in Seq(Nat), NEW w \in Nat, NEW e, Data(e, c, w), e.bufsize = w,
         NEW bl, BlockList(bl, c), InOrder(bl), ShortGaps(bl), AtBlock(e, bl),
         e.next_read_block > 0, e.next_read_byte = End(bl, e.next_read_block),
         NEW g, g = PadAfter(e, bl)
  PROVE  InPlace(g, bl)
  <1> DEFINE start == bl[e.next_read_block + 1].start
  <1>1. e.next_read_block \in 0 .. Len(bl) /\ Len(bl) \in Nat /\ e.next_read_byte \in Nat
    BY BlocksAre DEF AtBlock, Data, EntryType
  <1>2. CASE e.next_read_block < Len(bl)
    <2>1. PICK i : i = e.next_read_block + 1
      OBVIOUS
    <2>2. i \in 1 .. Len(bl) /\ i > 1 /\ i - 1 = e.next_read_block
      BY <1>1, <1>2, <2>1
    <2>3. /\ bl[i].start \in Nat /\ End(bl, i) \in Nat /\ bl[i].start < End(bl, i)
          /\ End(bl, i - 1) <= bl[i].start /\ End(bl, i - 1) \in Nat
      BY <2>2, BlocksAre
    <2>4. CASE start > e.next_read_byte
      <3>1. g = Pad(e, GapTo(e, start))
        BY <1>2, <2>4 DEF PadAfter
      <3>2. e.next_read_byte < start
        BY <1>1, <2>1, <2>3, <2>4
      <3>3. /\ g.next_read_block = e.next_read_block
            /\ g.next_read_byte \in e.next_read_byte .. start
        BY <1>2, <3>1, <3>2, GapKeeps
      <3>4. g.next_read_byte <= bl[i].start /\ g.next_read_byte \in Nat
        BY <1>1, <2>1, <2>3, <3>3
      <3>5. g.next_read_byte < End(bl, i)
        BY <2>3, <3>4
      <3> QED BY <2>1, <3>3, <3>5 DEF InPlace
    <2>5. CASE ~(start > e.next_read_byte)
      <3>1. g = e
        BY <2>5 DEF PadAfter
      <3>2. e.next_read_byte < End(bl, i)
        BY <2>1, <2>2, <2>3
      <3> QED BY <2>1, <3>1, <3>2 DEF InPlace
    <2> QED BY <2>4, <2>5
  <1>3. CASE ~(e.next_read_block < Len(bl))
    BY <1>3 DEF PadAfter, InPlace
  <1> QED BY <1>2, <1>3

\* What a visit that reads leaves of an entry is what it read, and the gap after it.
LEMMA EndsAt ==
  ASSUME NEW g \in EntryType, NEW c, NEW filling, NEW consumed, NEW r,
         r = Outcome(g, c, filling, consumed)
  PROVE  /\ r.entry.next_read_byte = g.next_read_byte
         /\ r.entry.next_read_block = g.next_read_block
         /\ r.outcome \in {"ready", "filling"}
  <1>1. CASE g.next_read_byte >= Len(c)
    BY <1>1 DEF Outcome, Visited, EntryType
  <1>2. CASE ~(g.next_read_byte >= Len(c)) /\ filling
    BY <1>2 DEF Outcome, Visited, EntryType
  <1>3. CASE ~(g.next_read_byte >= Len(c)) /\ ~filling
    BY <1>3 DEF Outcome, Visited, EntryType
  <1> QED BY <1>1, <1>2, <1>3

\* When the visit leaves the file to be filled further, it took the buffer for not full.
LEMMA FillingIs ==
  ASSUME NEW g, NEW c, NEW filling, NEW consumed, NEW r,
         r = Outcome(g, c, filling, consumed), r.outcome = "filling"
  PROVE  r.entry = g /\ ~filling
  BY DEF Outcome, Visited

\* There is nothing to fill in after a block when there is no gap.
LEMMA NothingAfter ==
  ASSUME NEW c \in Seq(Nat), NEW w \in Nat, NEW e, Data(e, c, w),
         NEW bl, BlockList(bl, c), InOrder(bl), ShortGaps(bl), Joined(bl), AtBlock(e, bl),
         e.next_read_block > 0, e.next_read_byte = End(bl, e.next_read_block)
  PROVE  PadAfter(e, bl) = e
  <1>1. e.next_read_block \in 0 .. Len(bl) /\ Len(bl) \in Nat /\ e.next_read_byte \in Nat
    BY BlocksAre DEF AtBlock, Data, EntryType
  <1>2. CASE e.next_read_block < Len(bl)
    <2>1. PICK i : i = e.next_read_block /\ i \in 1 .. Len(bl) - 1
      BY <1>1, <1>2
    <2>2. End(bl, i) = bl[i + 1].start
      BY <2>1 DEF Joined
    <2>3. ~(bl[e.next_read_block + 1].start > e.next_read_byte)
      BY <1>1, <2>1, <2>2
    <2> QED BY <2>3 DEF PadAfter
  <1>3. CASE ~(e.next_read_block < Len(bl))
    BY <1>3 DEF PadAfter
  <1> QED BY <1>2, <1>3

\* How far a read gets.
LEMMA ReadGets ==
  ASSUME NEW e \in EntryType, NEW block \in BlockType, Space(e) > 0,
         NEW end, end = block.start + block.len, e.next_read_byte < end
  PROVE  /\ WantBytes(e, block) \in Nat \ {0}
         /\ Consumes(e, block) => e.next_read_byte + WantBytes(e, block) = end
         /\ ~Consumes(e, block) => e.next_read_byte + WantBytes(e, block) < end
  <1>1. PICK n \in Nat : n = e.next_read_byte
    BY DEF EntryType
  <1>2. end \in Nat
    BY DEF BlockType
  <1>3. PICK k \in Nat : k = Space(e)
    <2>1. Len(e.buffer) \in Nat /\ e.bufsize \in Nat
      BY LenProperties DEF EntryType
    <2> QED BY <2>1 DEF Space
  <1>4. PICK m \in Nat : m = end - n /\ m > 0
    BY <1>1, <1>2
  <1>5. block.start + block.len - e.next_read_byte = m
    BY <1>1, <1>4 DEF BlockType
  <1>6. WantBytes(e, block) = Smaller(k, m) /\ (Consumes(e, block) <=> k >= m)
    BY <1>3, <1>5 DEF WantBytes, Consumes
  <1>7. Smaller(k, m) \in Nat \ {0} /\ (k >= m => Smaller(k, m) = m)
        /\ (~(k >= m) => Smaller(k, m) < m)
    BY <1>3, <1>4 DEF Smaller
  <1> QED BY <1>1, <1>2, <1>4, <1>6, <1>7

\* A read leaves the entry before the end of its block, or at the next.
LEMMA ReadIn ==
  ASSUME NEW c \in Seq(Nat), NEW w \in Nat, NEW e, Data(e, c, w), e.bufsize = w,
         NEW bl, BlockList(bl, c), InOrder(bl), ShortGaps(bl),
         AtBlock(e, bl), e.next_read_block < Len(bl), InPlace(e, bl), Space(e) > 0,
         NEW r, r = AfterRead(e, bl, c)
  PROVE  /\ InPlace(r.entry, bl) /\ r.outcome \in {"ready", "filling"}
         /\ Joined(bl) /\ r.outcome = "filling" => Space(r.entry) > 0
  <1> DEFINE block    == bl[e.next_read_block + 1]
             want     == WantBytes(e, block)
             consumed == Consumes(e, block)
             j        == IF consumed THEN e.next_read_block + 1 ELSE e.next_read_block
             got      == More(e, c, want, j)
             padded   == IF consumed THEN PadAfter(got, bl) ELSE got
             filling  == want = Space(e) \/ (consumed /\ CutByGap(got, bl))
             end      == End(bl, e.next_read_block + 1)
  <1>1. r = Outcome(padded, c, filling, consumed)
    BY DEF AfterRead, Outcome, More, Part
  <1>2. consumed \in BOOLEAN
    BY DEF Consumes
  <1>3. e \in EntryType /\ e.next_read_byte \in Nat /\ e.next_read_block \in Nat
    BY DEF Data, EntryType
  <1>4. /\ block \in BlockType /\ end = block.start + block.len /\ end \in Nat
        /\ e.next_read_byte < end
    <2>1. e.next_read_block + 1 \in 1 .. Len(bl)
      BY <1>3, BlocksAre
    <2> QED BY <2>1, BlocksAre DEF InPlace
  <1>5. /\ want \in Nat \ {0}
        /\ consumed => e.next_read_byte + want = end
        /\ ~consumed => e.next_read_byte + want < end
    <2> HIDE DEF block, end
    <2> QED BY <1>3, <1>4, ReadGets
  <1>6. /\ Data(got, c, w) /\ Keeps(e, got) /\ AtBlock(got, bl)
        /\ want # Space(e) => Space(got) > 0
    <2>1. e.next_read_byte <= End(bl, e.next_read_block + 1)
      BY <1>3, <1>4
    <2> QED BY <1>2, <2>1, GotKeeps
  <1>7. got.next_read_block = j /\ got.next_read_byte = e.next_read_byte + want
        /\ got.bufsize = w
    BY <1>3, <1>6 DEF More, EntryType, Keeps
  <1> HIDE DEF got, want, consumed, end, block
  <1>8. InPlace(padded, bl) /\ padded \in EntryType
    <2>1. CASE consumed
      <3>1. /\ padded = PadAfter(got, bl) /\ got.next_read_block = e.next_read_block + 1
            /\ got.next_read_block > 0
        BY <1>3, <1>7, <2>1
      <3>2. got.next_read_byte = End(bl, got.next_read_block)
        BY <1>5, <1>7, <2>1, <3>1 DEF end
      <3>3. InPlace(padded, bl)
        BY <1>6, <1>7, <3>1, <3>2, PadAfterIn
      <3>4. Data(padded, c, w)
        BY <1>6, <1>7, <3>1, PadAfterKeeps
      <3> QED BY <3>3, <3>4 DEF Data
    <2>2. CASE ~consumed
      <3>1. padded = got /\ got.next_read_block = e.next_read_block /\ got.next_read_byte < end
        BY <1>5, <1>7, <2>2
      <3>2. InPlace(got, bl)
        BY <3>1 DEF InPlace, end
      <3> QED BY <1>6, <3>1, <3>2 DEF Data
    <2> QED BY <2>1, <2>2
  <1>10. ASSUME Joined(bl) PROVE padded = got
    <2>1. CASE consumed
      <3>1. /\ padded = PadAfter(got, bl) /\ got.next_read_block = e.next_read_block + 1
            /\ got.next_read_block > 0
        BY <1>3, <1>7, <2>1
      <3>2. got.next_read_byte = End(bl, got.next_read_block)
        BY <1>5, <1>7, <2>1, <3>1 DEF end
      <3> QED BY <1>6, <1>10, <3>1, <3>2, NothingAfter
    <2>2. CASE ~consumed
      BY <2>2
    <2> QED BY <2>1, <2>2
  <1>11. ~filling => want # Space(e)
    OBVIOUS
  <1> HIDE DEF padded, filling
  <1>12. Joined(bl) /\ r.outcome = "filling" => Space(r.entry) > 0
    <2> SUFFICES ASSUME Joined(bl), r.outcome = "filling" PROVE Space(r.entry) > 0
      OBVIOUS
    <2>1. r.entry = padded /\ ~filling
      BY <1>1, FillingIs
    <2> QED BY <1>6, <1>10, <1>11, <2>1
  <1>9. /\ r.entry.next_read_byte = padded.next_read_byte
        /\ r.entry.next_read_block = padded.next_read_block
        /\ r.outcome \in {"ready", "filling"}
    BY <1>1, <1>8, EndsAt
  <1> QED BY <1>8, <1>9, <1>12 DEF InPlace

(* So the checks of fill_data_block() and of read_entry_bytes() do not stop the
   program: only a read that fails keeps a visit from giving the file more
   bytes, or the buffer to a hasher.  Without gaps between its blocks the buffer
   is left with room. *)
LEMMA VisitProceeds ==
  ASSUME NEW c \in Seq(Nat), NEW w \in Nat, w > 0, NEW e, Data(e, c, w),
         e.state = "FS_NEED_DATA", Roomy(e),
         NEW bl, BlockList(bl, c), InOrder(bl), ShortGaps(bl),
         AtBlock(e, bl), e.next_read_block < Len(bl), InPlace(e, bl),
         NEW readable \in BOOLEAN, NEW r, r = fill_data_block(e, w, bl, c, readable)
  PROVE  /\ InPlace(r.entry, bl)
         /\ r.outcome \in {"ready", "filling"} \/ (r.outcome = "unreadable" /\ ~readable)
         /\ Joined(bl) /\ r.outcome = "filling" => Space(r.entry) > 0
  <1> DEFINE p == Positioned(e, w, bl)
             block == BlockOf(p, bl)
  <1>1. /\ Data(p, c, w) /\ AtBlock(p, bl) /\ p.bufsize = w
        /\ p.next_read_block = e.next_read_block
    BY PositionedKeeps
  <1>2. /\ InPlace(p, bl)
        /\ ~GapFills(e, w, bl) => p.next_read_byte >= BlockOf(p, bl).start /\ Space(p) > 0
    BY PositionedIn
  <1>3. r = IF GapFills(e, w, bl) THEN Visited(Filled(p), TRUE, FALSE)
            ELSE ReadBlock(p, bl, c, readable)
    BY Zenon DEF fill_data_block, Filled
  <1> HIDE DEF p
  <1>4. p \in EntryType /\ p.next_read_byte \in Nat /\ p.next_read_block \in Nat
    BY <1>1 DEF Data, EntryType
  <1>5. CASE GapFills(e, w, bl)
    <2>1. r = Visited(Filled(p), TRUE, FALSE)
      BY <1>3, <1>5
    <2>2. r.entry = Filled(p) /\ r.outcome = "ready"
      BY <2>1, ReadyReported, Zenon
    <2>3. /\ Filled(p).next_read_byte = p.next_read_byte
          /\ Filled(p).next_read_block = p.next_read_block
      BY <1>4 DEF Filled, EntryType
    <2> QED BY <1>2, <2>2, <2>3 DEF InPlace
  <1>6. CASE ~GapFills(e, w, bl)
    <2>1. r = ReadBlock(p, bl, c, readable)
      BY <1>3, <1>6
    <2>2. /\ block \in BlockType /\ End(bl, p.next_read_block + 1) = block.start + block.len
          /\ End(bl, p.next_read_block + 1) \in Nat
      <3>1. p.next_read_block + 1 \in 1 .. Len(bl)
        BY <1>1, <1>4, BlocksAre
      <3> QED BY <3>1, BlocksAre DEF BlockOf
    <2>3. /\ p.next_read_byte >= block.start /\ p.next_read_byte < block.start + block.len
          /\ Space(p) > 0
      BY <1>1, <1>2, <1>6, <2>2 DEF InPlace
    <2>4. ~(p.next_read_byte < block.start \/ p.next_read_byte > block.start + block.len)
      BY <1>4, <2>2, <2>3 DEF BlockType
    <2>5. WantBytes(p, block) # 0
      <3> HIDE DEF block
      <3> QED BY <1>4, <2>2, <2>3, ReadGets
    <2>6. r = IF ~readable THEN Stopped(p, "unreadable") ELSE AfterRead(p, bl, c)
      BY <2>1, <2>4, <2>5, Zenon DEF ReadBlock, BlockOf
    <2>7. CASE readable
      BY <1>1, <1>2, <2>3, <2>6, <2>7, ReadIn
    <2>8. CASE ~readable
      <3>1. r.entry = p /\ r.outcome = "unreadable"
        BY <2>6, <2>8 DEF Stopped
      <3> QED BY <1>2, <2>8, <3>1
    <2> QED BY <2>7, <2>8
  <1> QED BY <1>5, <1>6

-----------------------------------------------------------------------------
(* A set and what holds of it between any two operations. *)

ListStates == {"PLS_NEED_DATA", "PLS_ALL_BUFFERS_READY", "PLS_DONE"}

(* The checks that stop the program. *)
Checks ==
  {"none", "invalid state in clear_remaining_entry", "FS_UNIQUE from a wrong state",
   "FS_UNIQUE but list size is zero", "expected one remaining entry", "list_size=-1",
   "FS_IGNORE from a wrong state", "FS_IGNORE but list size is zero",
   "FS_IGNORE_HL from a wrong state", "mark_path_entry_ready: head->state",
   "inconsistent amount of data in buffers", "flusher bad state",
   "position_outside_block", "requested_zero_bytes", "That's not right..."}

PathListType(F) ==
  [state : ListStates, list_size : Nat, buffer_ready : Nat, wanted_bufsize : Nat,
   hash_passes : Nat, fully_read : BOOLEAN, entry : [F -> EntryType],
   allocated : Int, open : Int, dups : Int, unique : Int, processed : Nat,
   published : SUBSET SUBSET F, exited : Checks]

(* What none of the marking functions changes. *)
Kept(h, r) ==
  /\ r.buffer_ready = h.buffer_ready /\ r.wanted_bufsize = h.wanted_bufsize
  /\ r.hash_passes = h.hash_passes /\ r.fully_read = h.fully_read
  /\ r.dups = h.dups /\ r.processed = h.processed /\ r.published = h.published

(* Files with their final state. *)
Retired(entry, files, state) ==
  [f \in DOMAIN entry |-> IF f \in files THEN Freed(entry[f], state) ELSE entry[f]]

Bufsizes(h) == [f \in DOMAIN h.entry |-> h.entry[f].bufsize]
Opened(h, files) == {f \in files : h.entry[f].fd}

ReadyFiles(h) == InState(h, {"FS_BUFFER_READY"})

(* list_size and buffer_ready count the files of a set that is not done. *)
Counted(h) ==
  /\ InState(h, {"FS_CACHE_DONE", "FS_IGNORE_HL"}) = {}
  /\ h.state = "PLS_DONE" => Active(h) = {}
  /\ h.state # "PLS_DONE" =>
       /\ InState(h, {"FS_DONE"}) = {}
       /\ h.list_size > 1
       /\ h.list_size = Cardinality(Active(h))
       /\ h.buffer_ready = Cardinality(ReadyFiles(h))
       /\ h.state = "PLS_ALL_BUFFERS_READY" <=> h.buffer_ready = h.list_size

(* What the counters of memory and of open files count that the files do not
   hold: nothing. *)
Unaccounted(h) ==
  <<h.allocated - SumFunctionOnSet(Bufsizes(h), DOMAIN h.entry),
    h.open - Cardinality(Opened(h, DOMAIN h.entry))>>
Balanced(h) == Unaccounted(h) = <<0, 0>>

(* Only the files still compared hold anything. *)
Released(h) ==
  \A f \in DOMAIN h.entry \ Active(h) : h.entry[f].bufsize = 0 /\ ~h.entry[f].fd

(* Every verdict was counted, and every set that got done by its hashes. *)
Tallied(h) ==
  /\ h.dups = Cardinality(InState(h, {"FS_DONE"}))
  /\ h.unique = Cardinality(InState(h, {"FS_UNIQUE"}))
  /\ h.processed \in {0, 1}
  /\ h.processed = 1 => h.state = "PLS_DONE"
  /\ h.state = "PLS_DONE" => h.processed = 1 \/ InState(h, {"FS_IGNORE"}) # {}

(* Files with the contents c and blocks bl are read as far as each other, and
   the equals of one that is still compared are too, but for unreadable ones. *)
ReadSoFar(h, c, bl) ==
  /\ \A f \in Active(h) : EntrySound(h.entry[f], c[f], h.wanted_bufsize, bl[f])
  /\ \A f, g \in Active(h) : Len(h.entry[f].hashed) = Len(h.entry[g].hashed)
  /\ h.fully_read =>
       \A f \in Active(h) : Len(c[f]) - Len(h.entry[f].hashed) <= h.wanted_bufsize
  /\ ~h.fully_read => \A f \in ReadyFiles(h) : h.entry[f].next_read_byte < Len(c[f])
  /\ \A f \in Active(h), g \in DOMAIN h.entry :
       c[g] = c[f] => g \in Active(h) \cup InState(h, {"FS_IGNORE"})

(* What was published is done. *)
Settled(h) == UNION h.published \subseteq InState(h, {"FS_DONE"})

-----------------------------------------------------------------------------

(* Induction over the subsets of a finite set: a family of them has a least
   one, which is the smallest counterexample of what is to be shown. *)
LEMMA MinimalSubset ==
  ASSUME NEW S, IsFiniteSet(S), NEW F, F \subseteq SUBSET S, F # {}
  PROVE  \E U \in F : \A V \in F : V \subseteq U => V = U
  <1>1. IsWellFoundedOn(StrictSubsetOrdering(S), FiniteSubsetsOf(S))
    BY FS_StrictSubsetOrderingWellFounded
  <1>2. FiniteSubsetsOf(S) = SUBSET S
    BY FS_FiniteSubsetsOfFinite
  <1>3. PICK U \in F : \A V \in F : ~(<<V, U>> \in StrictSubsetOrdering(S))
    BY <1>1, <1>2, WFMin
  <1>4. ASSUME NEW V \in F, V \subseteq U PROVE V = U
    BY <1>3, <1>4 DEF StrictSubsetOrdering
  <1> QED BY <1>4

One(s) == CHOOSE x \in s : TRUE

(* The sums of PathSet and skim_uniques() are values of functions defined by
   recursion over finite sets.  What there is to say of such functions is the
   same for both: Combined() and Start() are all they differ in. *)
Combined(op, f, x, v) == IF op = "sum" THEN f[x] + v ELSE Skim(x, v)
Start(op, f) == IF op = "sum" THEN 0 ELSE f

FoldStep(op, f, s, g) ==
  IF s = {} THEN Start(op, f) ELSE Combined(op, f, One(s), g[s \ {One(s)}])
IsFold(op, f, S, g) == g = [s \in SUBSET S |-> FoldStep(op, f, s, g)]
TheFold(op, f, S) == (CHOOSE g : IsFold(op, f, S, g))[S]

\* There is only one such function, whatever the set it is defined on.
LEMMA FoldUnique ==
  ASSUME NEW op, NEW f, NEW S, NEW T, IsFiniteSet(S), T \subseteq S,
         NEW g, IsFold(op, f, S, g), NEW k, IsFold(op, f, T, k)
  PROVE  \A U \in SUBSET T : g[U] = k[U]
  <1> DEFINE Bad == {U \in SUBSET T : g[U] # k[U]}
  <1>1. SUFFICES ASSUME Bad # {} PROVE FALSE
    OBVIOUS
  <1>2. Bad \subseteq SUBSET S
    OBVIOUS
  <1>3. PICK U \in Bad : \A V \in Bad : V \subseteq U => V = U
    <2> HIDE DEF Bad
    <2> QED BY <1>1, <1>2, MinimalSubset
  <1>4. U # {}
    BY DEF IsFold, FoldStep
  <1>5. One(U) \in U
    BY <1>4 DEF One
  <1>6. g[U \ {One(U)}] = k[U \ {One(U)}]
    BY <1>3, <1>5
  <1>7. g[U] = Combined(op, f, One(U), g[U \ {One(U)}]) /\ k[U] = Combined(op, f, One(U), k[U \ {One(U)}])
    <2>1. U \in SUBSET S /\ U \in SUBSET T
      OBVIOUS
    <2>2. g[U] = FoldStep(op, f, U, g) /\ k[U] = FoldStep(op, f, U, k)
      BY <2>1, Zenon DEF IsFold
    <2> QED BY <1>4, <2>2 DEF FoldStep
  <1> QED BY <1>6, <1>7

\* There is one.
LEMMA FoldExists ==
  ASSUME NEW op, NEW f, NEW S, IsFiniteSet(S)
  PROVE  \A T \in SUBSET S : \E g : IsFold(op, f, T, g)
  <1> DEFINE Bad == {U \in SUBSET S : ~ \E g : IsFold(op, f, U, g)}
  <1>1. SUFFICES ASSUME Bad # {} PROVE FALSE
    OBVIOUS
  <1>2. PICK T \in Bad : \A V \in Bad : V \subseteq T => V = T
    <2>1. Bad \subseteq SUBSET S
      OBVIOUS
    <2> HIDE DEF Bad
    <2> QED BY <1>1, <2>1, MinimalSubset
  <1> DEFINE G(U) == CHOOSE g : IsFold(op, f, U, g)
             g0 == [U \in SUBSET T |-> IF U = {} THEN Start(op, f)
                      ELSE Combined(op, f, One(U), G(U \ {One(U)})[U \ {One(U)}])]
  <1>3. ASSUME NEW V \in SUBSET T, V # T PROVE IsFold(op, f, V, G(V))
    <2>1. \E g : IsFold(op, f, V, g)
      BY <1>2, <1>3
    <2> QED BY <2>1
  <1>4. ASSUME NEW U \in SUBSET T, U # {}
        PROVE  /\ One(U) \in U
               /\ g0[U \ {One(U)}] = G(U \ {One(U)})[U \ {One(U)}]
    <2>1. One(U) \in U
      BY <1>4 DEF One
    <2> DEFINE V == U \ {One(U)}
    <2>2. V \in SUBSET T /\ V # T
      BY <2>1
    <2>3. IsFold(op, f, V, G(V))
      BY <1>3, <2>2
    <2> HIDE DEF V
    <2>4. G(V)[V] = FoldStep(op, f, V, G(V))
      <3>1. V \in SUBSET V OBVIOUS
      <3> HIDE DEF G
      <3> QED BY <2>3, <3>1, Zenon DEF IsFold
    <2>5. CASE V = {}
      <3>1. g0[V] = Start(op, f)
        BY <2>2, <2>5
      <3> QED BY <3>1, <2>1, <2>4, <2>5 DEF FoldStep, V
    <2>6. CASE V # {}
      <3>1. One(V) \in V
        BY <2>6 DEF One
      <3> DEFINE W == V \ {One(V)}
      <3>2. g0[V] = Combined(op, f, One(V), G(W)[W])
        BY <2>2, <2>6
      <3>3. G(V)[V] = Combined(op, f, One(V), G(V)[W])
        BY <2>4, <2>6 DEF FoldStep
      <3>4. W \in SUBSET T /\ W # T /\ W \subseteq V
        BY <2>2, <3>1
      <3>5. IsFold(op, f, W, G(W))
        BY <1>3, <3>4
      <3>6. G(V)[W] = G(W)[W]
        <4>1. IsFiniteSet(V)
          BY <2>2, FS_Subset
        <4>2. W \in SUBSET W OBVIOUS
        <4> HIDE DEF G, W
        <4> QED BY <4>1, <4>2, <2>3, <3>4, <3>5, FoldUnique
      <3> QED BY <3>2, <3>3, <3>6, <2>1 DEF V
    <2> QED BY <2>5, <2>6
  <1>5. IsFold(op, f, T, g0)
    <2>1. \A U \in SUBSET T : g0[U] = FoldStep(op, f, U, g0)
      <3> SUFFICES ASSUME NEW U \in SUBSET T PROVE g0[U] = FoldStep(op, f, U, g0)
        OBVIOUS
      <3>1. CASE U = {}
        BY <3>1 DEF FoldStep
      <3>2. CASE U # {}
        <4>1. g0[U] = Combined(op, f, One(U), G(U \ {One(U)})[U \ {One(U)}])
          BY <3>2
        <4>2. g0[U \ {One(U)}] = G(U \ {One(U)})[U \ {One(U)}]
          BY <1>4, <3>2
        <4> HIDE DEF g0, G
        <4> QED BY <4>1, <4>2, <3>2 DEF FoldStep
      <3> QED BY <3>1, <3>2
    <2>2. g0 = [U \in SUBSET T |-> g0[U]]
      OBVIOUS
    <2> HIDE DEF g0
    <2> QED BY <2>1, <2>2 DEF IsFold
  <1> QED BY <1>2, <1>5

\* It is made of one element and the fold of the others.
LEMMA FoldUnfolds ==
  ASSUME NEW op, NEW f, NEW S, IsFiniteSet(S)
  PROVE  /\ S = {} => TheFold(op, f, S) = Start(op, f)
         /\ S # {} => \E x \in S :
               TheFold(op, f, S) = Combined(op, f, x, TheFold(op, f, S \ {x}))
  <1> DEFINE G(U) == CHOOSE g : IsFold(op, f, U, g)
  <1>1. ASSUME NEW U \in SUBSET S PROVE IsFold(op, f, U, G(U)) /\ TheFold(op, f, U) = G(U)[U]
    <2>1. \E g : IsFold(op, f, U, g)
      BY FoldExists
    <2> QED BY <2>1 DEF TheFold
  <1>2. S \in SUBSET S OBVIOUS
  <1> HIDE DEF G
  <1>3. G(S)[S] = FoldStep(op, f, S, G(S))
    BY <1>1, <1>2, Zenon DEF IsFold
  <1>4. CASE S = {}
    BY <1>1, <1>2, <1>3, <1>4 DEF FoldStep
  <1>5. CASE S # {}
    <2>1. One(S) \in S
      BY <1>5 DEF One
    <2> DEFINE V == S \ {One(S)}
    <2>2. V \in SUBSET S /\ V \in SUBSET V /\ V \subseteq S OBVIOUS
    <2>3. G(S)[S] = Combined(op, f, One(S), G(S)[V])
      BY <1>3, <1>5 DEF FoldStep
    <2> HIDE DEF V
    <2>4. G(S)[V] = G(V)[V]
      <3>1. IsFold(op, f, S, G(S)) /\ IsFold(op, f, V, G(V))
        BY <1>1, <1>2, <2>2
      <3>2. PICK g, k : g = G(S) /\ k = G(V)
        OBVIOUS
      <3>3. IsFold(op, f, S, g) /\ IsFold(op, f, V, k)
        BY <3>1, <3>2
      <3>4. \A U \in SUBSET V : g[U] = k[U]
        BY <3>3, <2>2, FoldUnique
      <3> QED BY <3>2, <3>4, <2>2
    <2> QED BY <1>1, <1>2, <2>1, <2>2, <2>3, <2>4 DEF V
  <1> QED BY <1>4, <1>5

\* A sum is a value and the sum of the others.
LEMMA SumUnfolds ==
  ASSUME NEW f, NEW S, IsFiniteSet(S)
  PROVE  /\ S = {} => SumFunctionOnSet(f, S) = 0
         /\ S # {} => \E x \in S :
               SumFunctionOnSet(f, S) = f[x] + SumFunctionOnSet(f, S \ {x})
  <1>1. ASSUME NEW T PROVE SumFunctionOnSet(f, T) = TheFold("sum", f, T)
    BY DEF SumFunctionOnSet, FoldFunctionOnSet, MapThenFoldSet, TheFold, IsFold, FoldStep,
           Start, Combined, One
  <1>2. /\ S = {} => TheFold("sum", f, S) = 0
        /\ S # {} => \E x \in S : TheFold("sum", f, S) = f[x] + TheFold("sum", f, S \ {x})
    <2>1. /\ S = {} => TheFold("sum", f, S) = Start("sum", f)
          /\ S # {} => \E x \in S :
                TheFold("sum", f, S) = Combined("sum", f, x, TheFold("sum", f, S \ {x}))
      BY FoldUnfolds
    <2> QED BY <2>1 DEF Start, Combined
  <1> QED BY <1>1, <1>2

\* skim_uniques() goes on from what it made of the others.
LEMMA SkimUnfolds ==
  ASSUME NEW h, NEW S, IsFiniteSet(S)
  PROVE  /\ S = {} => FoldSet(Skim, h, S) = h
         /\ S # {} => \E x \in S : FoldSet(Skim, h, S) = Skim(x, FoldSet(Skim, h, S \ {x}))
  <1>1. ASSUME NEW T PROVE FoldSet(Skim, h, T) = TheFold("skim", h, T)
    BY DEF FoldSet, MapThenFoldSet, TheFold, IsFold, FoldStep, Start, Combined, One
  <1>2. /\ S = {} => TheFold("skim", h, S) = h
        /\ S # {} => \E x \in S : TheFold("skim", h, S) = Skim(x, TheFold("skim", h, S \ {x}))
    <2>1. /\ S = {} => TheFold("skim", h, S) = Start("skim", h)
          /\ S # {} => \E x \in S :
                TheFold("skim", h, S) = Combined("skim", h, x, TheFold("skim", h, S \ {x}))
      BY FoldUnfolds
    <2>2. "skim" # "sum"
      OBVIOUS
    <2> QED BY <2>1, <2>2, Zenon DEF Start, Combined
  <1> QED BY <1>1, <1>2

\* A sum of integers is an integer.
LEMMA SumTyped ==
  ASSUME NEW S, IsFiniteSet(S), NEW f, \A x \in S : f[x] \in Int
  PROVE  SumFunctionOnSet(f, S) \in Int
  <1> DEFINE Bad == {U \in SUBSET S : SumFunctionOnSet(f, U) \notin Int}
  <1>1. SUFFICES ASSUME Bad # {} PROVE FALSE
    OBVIOUS
  <1>2. PICK U \in Bad : \A V \in Bad : V \subseteq U => V = U
    <2>1. Bad \subseteq SUBSET S
      OBVIOUS
    <2> HIDE DEF Bad
    <2> QED BY <1>1, <2>1, MinimalSubset
  <1>3. IsFiniteSet(U) /\ U \in SUBSET S
    BY FS_Subset
  <1>4. U # {}
    BY <1>3, SumUnfolds
  <1>5. PICK x \in U : SumFunctionOnSet(f, U) = f[x] + SumFunctionOnSet(f, U \ {x})
    BY <1>3, <1>4, SumUnfolds
  <1>6. U \ {x} \notin Bad
    BY <1>2
  <1>7. SumFunctionOnSet(f, U \ {x}) \in Int /\ f[x] \in Int
    BY <1>3, <1>6
  <1> QED BY <1>5, <1>7

\* A sum of numbers that are not negative is not negative.
LEMMA SumNatural ==
  ASSUME NEW S, IsFiniteSet(S), NEW f, \A x \in S : f[x] \in Nat
  PROVE  SumFunctionOnSet(f, S) \in Nat
  <1> DEFINE Bad == {U \in SUBSET S : SumFunctionOnSet(f, U) \notin Nat}
  <1>1. SUFFICES ASSUME Bad # {} PROVE FALSE
    OBVIOUS
  <1>2. PICK U \in Bad : \A V \in Bad : V \subseteq U => V = U
    <2>1. Bad \subseteq SUBSET S
      OBVIOUS
    <2> HIDE DEF Bad
    <2> QED BY <1>1, <2>1, MinimalSubset
  <1>3. IsFiniteSet(U) /\ U \in SUBSET S
    BY FS_Subset
  <1>4. U # {}
    BY <1>3, SumUnfolds
  <1>5. PICK x \in U : SumFunctionOnSet(f, U) = f[x] + SumFunctionOnSet(f, U \ {x})
    BY <1>3, <1>4, SumUnfolds
  <1>6. U \ {x} \notin Bad
    BY <1>2
  <1>7. SumFunctionOnSet(f, U \ {x}) \in Nat /\ f[x] \in Nat
    BY <1>3, <1>6
  <1> QED BY <1>5, <1>7

(* Any value can be taken out of a sum first: the order does not matter. *)
LEMMA SumRemove ==
  ASSUME NEW S, IsFiniteSet(S), NEW f, \A x \in S : f[x] \in Int, NEW y \in S
  PROVE  SumFunctionOnSet(f, S) = f[y] + SumFunctionOnSet(f, S \ {y})
  <1> DEFINE Sum(U) == SumFunctionOnSet(f, U)
             Bad == {U \in SUBSET S : \E z \in U : Sum(U) # f[z] + Sum(U \ {z})}
  <1>1. SUFFICES ASSUME Bad # {} PROVE FALSE
    OBVIOUS
  <1>2. PICK U \in Bad : \A V \in Bad : V \subseteq U => V = U
    <2>1. Bad \subseteq SUBSET S
      OBVIOUS
    <2> HIDE DEF Bad
    <2> QED BY <1>1, <2>1, MinimalSubset
  <1>3. IsFiniteSet(U) /\ U \in SUBSET S /\ \A V \in SUBSET U : IsFiniteSet(V) /\ Sum(V) \in Int
    <2>1. IsFiniteSet(U) /\ U \in SUBSET S
      BY FS_Subset
    <2>2. \A V \in SUBSET U : IsFiniteSet(V)
      BY <2>1, FS_Subset
    <2>3. \A V \in SUBSET U : Sum(V) \in Int
      BY <2>1, <2>2, SumTyped
    <2> QED BY <2>1, <2>2, <2>3
  <1>4. PICK z \in U : Sum(U) # f[z] + Sum(U \ {z})
    OBVIOUS
  <1>5. PICK x \in U : Sum(U) = f[x] + Sum(U \ {x})
    BY <1>3, <1>4, SumUnfolds
  <1> HIDE DEF Sum
  <1>6. x # z
    BY <1>4, <1>5
  <1> DEFINE Vx == U \ {x}  Vz == U \ {z}
  <1>7. Vx \notin Bad /\ Vz \notin Bad
    BY <1>2
  <1>8. Sum(Vx) = f[z] + Sum(Vx \ {z}) /\ Sum(Vz) = f[x] + Sum(Vz \ {x})
    BY <1>3, <1>6, <1>7
  <1>9. Vx \ {z} = Vz \ {x}
    OBVIOUS
  <1>10. f[x] \in Int /\ f[z] \in Int /\ Sum(Vx \ {z}) \in Int
    BY <1>3
  <1> QED BY <1>4, <1>5, <1>8, <1>9, <1>10

\* Sums of equal values are equal.
LEMMA SumSame ==
  ASSUME NEW S, IsFiniteSet(S), NEW f, NEW g, \A x \in S : f[x] = g[x] /\ f[x] \in Int
  PROVE  SumFunctionOnSet(f, S) = SumFunctionOnSet(g, S)
  <1> DEFINE Bad == {U \in SUBSET S : SumFunctionOnSet(f, U) # SumFunctionOnSet(g, U)}
  <1>1. SUFFICES ASSUME Bad # {} PROVE FALSE
    OBVIOUS
  <1>2. PICK U \in Bad : \A V \in Bad : V \subseteq U => V = U
    <2>1. Bad \subseteq SUBSET S
      OBVIOUS
    <2> HIDE DEF Bad
    <2> QED BY <1>1, <2>1, MinimalSubset
  <1>3. IsFiniteSet(U) /\ U \in SUBSET S
    BY FS_Subset
  <1>4. U # {}
    <2>1. U = {} => SumFunctionOnSet(f, U) = 0
      BY <1>3, SumUnfolds
    <2>2. U = {} => SumFunctionOnSet(g, U) = 0
      BY <1>3, SumUnfolds
    <2> QED BY <2>1, <2>2
  <1>5. PICK x \in U : TRUE
    BY <1>4
  <1>6. SumFunctionOnSet(f, U) = f[x] + SumFunctionOnSet(f, U \ {x})
    BY <1>3, SumRemove
  <1>6a. SumFunctionOnSet(g, U) = g[x] + SumFunctionOnSet(g, U \ {x})
    <2>1. \A y \in U : g[y] \in Int
      BY <1>3
    <2> QED BY <1>3, <2>1, SumRemove
  <1>7. U \ {x} \notin Bad
    BY <1>2
  <1> QED BY <1>3, <1>6, <1>6a, <1>7

\* Two functions that differ at most at y.
DifferAt(S, f, g, y) ==
  /\ \A x \in S : f[x] \in Int /\ g[x] \in Int
  /\ \A x \in S \ {y} : f[x] = g[x]

\* The sum when one value changes.
LEMMA SumChanges ==
  ASSUME NEW S, IsFiniteSet(S), NEW f, NEW g, NEW y \in S, DifferAt(S, f, g, y)
  PROVE  SumFunctionOnSet(g, S) = (SumFunctionOnSet(f, S) - f[y]) + g[y]
  <1> USE DEF DifferAt
  <1>1. IsFiniteSet(S \ {y})
    BY FS_Subset
  <1>2. SumFunctionOnSet(f, S) = f[y] + SumFunctionOnSet(f, S \ {y})
    BY SumRemove
  <1>3. SumFunctionOnSet(g, S) = g[y] + SumFunctionOnSet(g, S \ {y})
    BY SumRemove
  <1>4. SumFunctionOnSet(f, S \ {y}) = SumFunctionOnSet(g, S \ {y})
    BY <1>1, SumSame
  <1>5. SumFunctionOnSet(f, S \ {y}) \in Int /\ f[y] \in Int /\ g[y] \in Int
    BY <1>1, SumTyped
  <1> QED BY <1>2, <1>3, <1>4, <1>5

\* The sum when some of the values become zero.
LEMMA SumZeroed ==
  ASSUME NEW S, IsFiniteSet(S), NEW T \in SUBSET S, NEW f, \A x \in S : f[x] \in Int,
         NEW g, \A x \in S : g[x] = IF x \in T THEN 0 ELSE f[x]
  PROVE  SumFunctionOnSet(g, S) = SumFunctionOnSet(f, S) - SumFunctionOnSet(f, T)
  <1> DEFINE Bad == {U \in SUBSET S : SumFunctionOnSet(g, U)
                        # SumFunctionOnSet(f, U) - SumFunctionOnSet(f, T \cap U)}
  <1>1. SUFFICES ASSUME Bad # {} PROVE FALSE
    <2>1. T \cap S = T OBVIOUS
    <2> QED BY <2>1
  <1>2. PICK U \in Bad : \A V \in Bad : V \subseteq U => V = U
    <2>1. Bad \subseteq SUBSET S
      OBVIOUS
    <2> HIDE DEF Bad
    <2> QED BY <1>1, <2>1, MinimalSubset
  <1>3. /\ IsFiniteSet(U) /\ U \in SUBSET S
        /\ \A V \in SUBSET U : IsFiniteSet(V)
    <2>1. IsFiniteSet(U) /\ U \in SUBSET S
      BY FS_Subset
    <2> QED BY <2>1, FS_Subset
  <1>3a. \A V \in SUBSET U : SumFunctionOnSet(f, V) \in Int
    <2> SUFFICES ASSUME NEW V \in SUBSET U PROVE SumFunctionOnSet(f, V) \in Int
      OBVIOUS
    <2>1. IsFiniteSet(V) /\ \A x \in V : f[x] \in Int
      BY <1>3
    <2> QED BY <2>1, SumTyped
  <1>3b. \A x \in S : g[x] \in Int
    OBVIOUS
  <1>4. U # {}
    <2>1. IsFiniteSet({})
      BY FS_EmptySet
    <2>2. SumFunctionOnSet(f, {}) = 0
      BY <2>1, SumUnfolds
    <2>3. SumFunctionOnSet(g, {}) = 0
      BY <2>1, SumUnfolds
    <2>4. T \cap {} = {} OBVIOUS
    <2>5. {} \notin Bad
      BY <2>2, <2>3, <2>4
    <2> QED BY <2>5
  <1>5. PICK x \in U : TRUE
    BY <1>4
  <1>6. SumFunctionOnSet(f, U) = f[x] + SumFunctionOnSet(f, U \ {x})
    BY <1>3, SumRemove
  <1>7. SumFunctionOnSet(g, U) = g[x] + SumFunctionOnSet(g, U \ {x})
    BY <1>3, <1>3b, SumRemove
  <1>8. U \ {x} \notin Bad
    BY <1>2
  <1> DEFINE V == U \ {x}
  <1>9. SumFunctionOnSet(g, V) = SumFunctionOnSet(f, V) - SumFunctionOnSet(f, T \cap V)
    BY <1>3, <1>8
  <1>10. V \in SUBSET U /\ T \cap V \in SUBSET U /\ T \cap U \in SUBSET U /\ x \in S
    BY <1>3
  <1>11. /\ SumFunctionOnSet(f, V) \in Int /\ SumFunctionOnSet(f, T \cap V) \in Int
         /\ f[x] \in Int
    BY <1>3a, <1>10
  <1>12. CASE x \in T
    <2>1. SumFunctionOnSet(f, T \cap U) = f[x] + SumFunctionOnSet(f, (T \cap U) \ {x})
      <3>1. IsFiniteSet(T \cap U) /\ x \in T \cap U /\ \A y \in T \cap U : f[y] \in Int
        BY <1>3, <1>10, <1>12
      <3> QED BY <3>1, SumRemove
    <2>2. (T \cap U) \ {x} = T \cap V
      OBVIOUS
    <2>3. g[x] = 0
      BY <1>12, <1>10
    <2> HIDE DEF V
    <2> QED BY <1>6, <1>7, <1>9, <1>11, <2>1, <2>2, <2>3 DEF V
  <1>13. CASE x \notin T
    <2>1. T \cap U = T \cap V
      BY <1>13
    <2>2. g[x] = f[x]
      BY <1>13, <1>10
    <2> HIDE DEF V
    <2> QED BY <1>6, <1>7, <1>9, <1>11, <2>1, <2>2 DEF V
  <1> QED BY <1>12, <1>13

\* No value is larger than the sum.
LEMMA SumBounds ==
  ASSUME NEW S, IsFiniteSet(S), NEW f, \A x \in S : f[x] \in Nat
  PROVE  \A y \in S : f[y] <= SumFunctionOnSet(f, S)
  <1> SUFFICES ASSUME NEW y \in S PROVE f[y] <= SumFunctionOnSet(f, S)
    OBVIOUS
  <1>1. IsFiniteSet(S \ {y})
    BY FS_Subset
  <1>2. SumFunctionOnSet(f, S) = f[y] + SumFunctionOnSet(f, S \ {y})
    BY SumRemove
  <1>3. SumFunctionOnSet(f, S \ {y}) \in Nat
    BY <1>1, SumNatural
  <1> QED BY <1>2, <1>3

\* A sum of zeros and ones is at most the number of them.
LEMMA SumOfBits ==
  ASSUME NEW S, IsFiniteSet(S), NEW f, \A x \in S : f[x] \in {0, 1}
  PROVE  SumFunctionOnSet(f, S) <= Cardinality(S)
  <1> DEFINE Bad == {U \in SUBSET S : ~(SumFunctionOnSet(f, U) <= Cardinality(U))}
  <1>1. SUFFICES ASSUME Bad # {} PROVE FALSE
    OBVIOUS
  <1>2. PICK U \in Bad : \A V \in Bad : V \subseteq U => V = U
    <2>1. Bad \subseteq SUBSET S
      OBVIOUS
    <2> HIDE DEF Bad
    <2> QED BY <1>1, <2>1, MinimalSubset
  <1>3. IsFiniteSet(U) /\ U \in SUBSET S
    BY FS_Subset
  <1>4. U # {}
    <2> SUFFICES ASSUME U = {} PROVE FALSE
      OBVIOUS
    <2>1. Cardinality(U) = 0
      BY FS_EmptySet
    <2>2. SumFunctionOnSet(f, U) = 0
      BY <1>3, SumUnfolds
    <2>3. ~(SumFunctionOnSet(f, U) <= Cardinality(U))
      BY <1>2
    <2> QED BY <2>1, <2>2, <2>3
  <1>5. PICK x \in U : SumFunctionOnSet(f, U) = f[x] + SumFunctionOnSet(f, U \ {x})
    BY <1>3, <1>4, SumUnfolds
  <1>6. PICK V : V = U \ {x}
    OBVIOUS
  <1>7. SumFunctionOnSet(f, V) <= Cardinality(V)
    <2>1. V \notin Bad /\ V \in SUBSET S
      BY <1>2, <1>6
    <2> QED BY <2>1
  <1>8. IsFiniteSet(V) /\ Cardinality(V) = Cardinality(U) - 1
    BY <1>3, <1>6, FS_RemoveElement
  <1>9. Cardinality(U) \in Nat /\ SumFunctionOnSet(f, V) \in Int
    <2>1. \A y \in V : f[y] \in Int
      BY <1>3, <1>6
    <2> QED BY <1>3, <1>8, <2>1, FS_CardinalityType, SumTyped
  <1>10. SumFunctionOnSet(f, U) <= Cardinality(U)
    <2>1. f[x] \in {0, 1}
      BY <1>3
    <2> QED BY <1>5, <1>6, <1>7, <1>8, <1>9, <2>1
  <1> QED BY <1>2, <1>10

\* And less, when one is zero.
LEMMA SumOfFewerBits ==
  ASSUME NEW S, IsFiniteSet(S), NEW f, \A x \in S : f[x] \in {0, 1}, NEW y \in S, f[y] = 0
  PROVE  SumFunctionOnSet(f, S) \in Int /\ SumFunctionOnSet(f, S) + 1 <= Cardinality(S)
  <1>1. PICK T : T = S \ {y}
    OBVIOUS
  <1>2. /\ IsFiniteSet(T) /\ Cardinality(T) = Cardinality(S) - 1
        /\ Cardinality(S) \in Nat
    BY <1>1, FS_RemoveElement, FS_CardinalityType
  <1>3. SumFunctionOnSet(f, T) <= Cardinality(T)
    <2>1. \A x \in T : f[x] \in {0, 1}
      BY <1>1
    <2> QED BY <1>2, <2>1, SumOfBits
  <1>4. \A x \in S : f[x] \in Int
    OBVIOUS
  <1>5. SumFunctionOnSet(f, S) = f[y] + SumFunctionOnSet(f, T)
    BY <1>1, <1>4, SumRemove
  <1>6. SumFunctionOnSet(f, T) \in Int
    BY <1>1, <1>2, <1>4, SumTyped
  <1> QED BY <1>2, <1>3, <1>5, <1>6

-----------------------------------------------------------------------------
(* Marking. *)

\* A file that was given its final state holds nothing.
LEMMA FreedIs ==
  ASSUME NEW e \in EntryType, NEW st \in FileStates, NEW g, g = Freed(e, st)
  PROVE  g \in EntryType /\ g.state = st /\ g.bufsize = 0 /\ g.buffer = << >> /\ ~g.fd
  <1>1. << >> \in Seq(Nat)
    BY EmptySeq
  <1>2. g \in EntryType
    BY <1>1, Zenon DEF Freed, EntryType, hash_fn_buf_init
  <1>3. g.state = st /\ g.bufsize = 0 /\ g.buffer = << >> /\ g.fd = FALSE
    BY DEF Freed, EntryType
  <1> QED BY <1>2, <1>3

\* Retiring files changes their states and takes what they hold.
LEMMA RetiredIs ==
  ASSUME NEW F, NEW en \in [F -> EntryType], NEW T \in SUBSET F, NEW st \in FileStates,
         NEW r, r = Retired(en, T, st)
  PROVE  /\ r \in [F -> EntryType]
         /\ \A f \in T : r[f].state = st /\ r[f].bufsize = 0 /\ ~r[f].fd
         /\ \A f \in F \ T : r[f] = en[f]
  <1>1. r = [f \in F |-> IF f \in T THEN Freed(en[f], st) ELSE en[f]]
    BY DEF Retired
  <1>2. \A f \in F : Freed(en[f], st) \in EntryType
    BY FreedIs
  <1>3. \A f \in T : r[f] = Freed(en[f], st) /\ en[f] \in EntryType
    BY <1>1
  <1>4. ASSUME NEW f \in T PROVE r[f].state = st /\ r[f].bufsize = 0 /\ ~r[f].fd
    BY <1>3, FreedIs
  <1> QED BY <1>1, <1>2, <1>4

\* What Retire() leaves of the counters.
LEMMA RetiredBalance ==
  ASSUME NEW F, IsFiniteSet(F), NEW h, h.entry \in [F -> EntryType],
         h.allocated \in Int, h.open \in Int,
         NEW T \in SUBSET F, NEW st \in FileStates,
         NEW r, r.entry = Retired(h.entry, T, st),
         r.allocated = h.allocated - SumFunctionOnSet(Bufsizes(h), T),
         r.open = h.open - Cardinality(Opened(h, T))
  PROVE  r.allocated \in Int /\ r.open \in Int /\ Unaccounted(r) = Unaccounted(h)
  <1> DEFINE B == Bufsizes(h)
             C == Bufsizes(r)
             O == Opened(h, F)
             P == Opened(h, T)
  <1>1. /\ r.entry \in [F -> EntryType] /\ DOMAIN h.entry = F /\ DOMAIN r.entry = F
        /\ \A f \in T : r.entry[f].bufsize = 0 /\ ~r.entry[f].fd
        /\ \A f \in F \ T : r.entry[f] = h.entry[f]
    BY RetiredIs
  <1>2. \A f \in F : B[f] \in Nat /\ C[f] = IF f \in T THEN 0 ELSE B[f]
    BY <1>1 DEF Bufsizes, EntryType
  <1>3. IsFiniteSet(T)
    BY FS_Subset
  <1>4. SumFunctionOnSet(B, T) \in Int /\ SumFunctionOnSet(B, F) \in Int
    <2> HIDE DEF B, C
    <2> QED BY <1>2, <1>3, SumTyped
  <1>5. SumFunctionOnSet(C, F) = SumFunctionOnSet(B, F) - SumFunctionOnSet(B, T)
    <2>1. \A f \in F : B[f] \in Int /\ C[f] = IF f \in T THEN 0 ELSE B[f]
      BY <1>2
    <2> HIDE DEF B, C
    <2> QED BY <2>1, SumZeroed
  <1>6. Opened(r, F) = O \ P /\ P \subseteq O
    BY <1>1 DEF Opened
  <1>7. /\ IsFiniteSet(O) /\ IsFiniteSet(P) /\ Cardinality(P) \in Nat /\ Cardinality(O) \in Nat
        /\ Cardinality(O \ P) = Cardinality(O) - Cardinality(P)
    <2>1. O \subseteq F /\ P \subseteq O
      BY <1>6 DEF Opened
    <2> HIDE DEF O, P
    <2>2. IsFiniteSet(O) /\ IsFiniteSet(P)
      BY <2>1, FS_Subset
    <2>3. Cardinality(O \ P) = Cardinality(O) - Cardinality(O \cap P)
      BY <2>2, FS_Difference
    <2>4. O \cap P = P
      BY <2>1
    <2> QED BY <2>2, <2>3, <2>4, FS_CardinalityType
  <1>8. /\ Unaccounted(r) = <<r.allocated - SumFunctionOnSet(C, F), r.open - Cardinality(O \ P)>>
        /\ Unaccounted(h) = <<h.allocated - SumFunctionOnSet(B, F), h.open - Cardinality(O)>>
    BY <1>1, <1>6, Zenon DEF Unaccounted
  <1> HIDE DEF B, C, O, P
  <1>9. /\ r.allocated - SumFunctionOnSet(C, F) = h.allocated - SumFunctionOnSet(B, F)
        /\ r.open - Cardinality(O \ P) = h.open - Cardinality(O)
        /\ r.allocated \in Int /\ r.open \in Int
    BY <1>4, <1>5, <1>7 DEF B, P
  <1> QED BY <1>8, <1>9

\* Retiring files of a set leaves its accounts in balance.
LEMMA RetireIs ==
  ASSUME NEW F, IsFiniteSet(F), NEW h \in PathListType(F), NEW T \in SUBSET F,
         NEW st \in FileStates, NEW r, r = Retire(h, T, st)
  PROVE  /\ r \in PathListType(F) /\ Kept(h, r) /\ Unaccounted(r) = Unaccounted(h)
         /\ r.state = h.state /\ r.list_size = h.list_size
         /\ r.unique = h.unique /\ r.exited = h.exited
         /\ r.entry = Retired(h.entry, T, st)
  <1> DEFINE en == Retired(h.entry, T, st)
             al == h.allocated - SumFunctionOnSet(Bufsizes(h), T)
             op == h.open - Cardinality(Opened(h, T))
  <1>1. h.entry \in [F -> EntryType] /\ DOMAIN h.entry = F /\ h.allocated \in Int /\ h.open \in Int
    BY Zenon DEF PathListType
  <1>2. r = [h EXCEPT !.entry = en, !.allocated = al, !.open = op]
    BY <1>1, Zenon DEF Retire, Bufsizes, Opened, Retired
  <1>3. en \in [F -> EntryType]
    BY <1>1, RetiredIs
  <1> HIDE DEF en, al, op
  <1>4. /\ Kept(h, r) /\ r.entry = en /\ r.allocated = al /\ r.open = op
        /\ r.state = h.state /\ r.list_size = h.list_size
        /\ r.unique = h.unique /\ r.exited = h.exited
    BY <1>2 DEF PathListType, Kept
  <1>5. al \in Int /\ op \in Int /\ Unaccounted(r) = Unaccounted(h)
    BY <1>1, <1>4, RetiredBalance DEF en, al, op
  <1>6. r \in PathListType(F)
    BY <1>2, <1>3, <1>5, Zenon DEF PathListType
  <1> QED BY <1>4, <1>5, <1>6 DEF en

\* What is not accounted for depends on entries and counters only.
LEMMA SameUnaccounted ==
  ASSUME NEW h, NEW r, r.entry = h.entry, r.allocated = h.allocated, r.open = h.open
  PROVE  Unaccounted(r) = Unaccounted(h)
  BY Zenon DEF Unaccounted, Bufsizes, Opened

Less(h, x, st) == [Retire(h, {x}, st) EXCEPT !.list_size = @ - 1]

\* A file leaves those that are compared.
LessBy(F, h, x, st, r) ==
  /\ r \in PathListType(F) /\ Kept(h, r) /\ Unaccounted(r) = Unaccounted(h)
  /\ r.state = h.state /\ r.list_size = h.list_size - 1
  /\ r.unique = h.unique /\ r.exited = h.exited
  /\ r.entry = Retired(h.entry, {x}, st)

\* It does when it gets its final state.
LEMMA MarkedIs ==
  ASSUME NEW F, IsFiniteSet(F), NEW h \in PathListType(F), NEW x \in F, h.list_size > 0,
         NEW st \in FileStates, NEW r, r = Less(h, x, st)
  PROVE  LessBy(F, h, x, st, r)
  <1>n. h.list_size \in Nat
    BY Zenon DEF PathListType
  <1>m. PICK n \in Nat : h.list_size = n + 1
    <2>1. h.list_size - 1 \in Nat /\ h.list_size = (h.list_size - 1) + 1
      BY <1>n
    <2> QED BY <2>1
  <1> DEFINE g == Retire(h, {x}, st)
  <1>1. /\ g \in PathListType(F) /\ Kept(h, g) /\ Unaccounted(g) = Unaccounted(h)
        /\ g.state = h.state /\ g.list_size = h.list_size
        /\ g.unique = h.unique /\ g.exited = h.exited
        /\ g.entry = Retired(h.entry, {x}, st)
    BY RetireIs
  <1>3. h.list_size - 1 = n
    BY <1>m
  <1> HIDE DEF g
  <1>4. r = [g EXCEPT !.list_size = n]
    BY <1>1, <1>3 DEF g, Less
  <1>5. r \in PathListType(F)
    BY <1>1, <1>3, <1>4, Zenon DEF PathListType
  <1>6. /\ r.state = g.state /\ r.list_size = n /\ r.unique = g.unique /\ r.exited = g.exited
        /\ r.entry = g.entry /\ r.allocated = g.allocated /\ r.open = g.open
        /\ Kept(g, r)
    BY <1>1, <1>4 DEF PathListType, Kept
  <1>7. Unaccounted(r) = Unaccounted(g)
    BY <1>6, SameUnaccounted
  <1> QED BY <1>1, <1>3, <1>5, <1>6, <1>7 DEF Kept, LessBy

\* Only the state of the list changes.
LEMMA MarkIfReadyIs ==
  ASSUME NEW F, NEW h \in PathListType(F), NEW r, r = MarkIfReady(h)
  PROVE  /\ r \in PathListType(F) /\ Kept(h, r) /\ Unaccounted(r) = Unaccounted(h)
         /\ r.list_size = h.list_size /\ r.unique = h.unique /\ r.exited = h.exited
         /\ r.entry = h.entry
         /\ r.state = IF h.list_size = h.buffer_ready THEN "PLS_ALL_BUFFERS_READY"
                      ELSE h.state
  <1>1. CASE h.list_size # h.buffer_ready
    BY <1>1, Zenon DEF MarkIfReady, Kept
  <1>2. CASE h.list_size = h.buffer_ready
    <2> DEFINE st == "PLS_ALL_BUFFERS_READY"
    <2>1. r = [h EXCEPT !.state = st] /\ st \in ListStates
      BY <1>2, Zenon DEF MarkIfReady, ListStates
    <2> HIDE DEF st
    <2>2. r \in PathListType(F)
      BY <2>1, Zenon DEF PathListType
    <2>3. /\ r.state = st /\ r.list_size = h.list_size /\ r.unique = h.unique
          /\ r.exited = h.exited /\ r.entry = h.entry /\ r.allocated = h.allocated
          /\ r.open = h.open /\ Kept(h, r)
      BY <2>1 DEF PathListType, Kept
    <2>4. Unaccounted(r) = Unaccounted(h)
      BY <2>3, SameUnaccounted
    <2> QED BY <1>2, <2>2, <2>3, <2>4 DEF st
  <1> QED BY <1>1, <1>2

\* What is left of a set becomes unique, and the set is done.
LEMMA ClearedIs ==
  ASSUME NEW F, IsFiniteSet(F), NEW h \in PathListType(F), InState(h, {"FS_DONE"}) = {},
         NEW r, r = clear_remaining_entry(h)
  PROVE  /\ r \in PathListType(F) /\ Kept(h, r) /\ Unaccounted(r) = Unaccounted(h)
         /\ r.state = "PLS_DONE" /\ r.list_size = 0
         /\ r.unique = h.unique /\ r.exited = h.exited
         /\ r.entry = Retired(h.entry, Remaining(h), "FS_UNIQUE")
  <1> DEFINE g == Retire(h, Remaining(h), "FS_UNIQUE")
             st == "PLS_DONE"
  <1>0. Remaining(h) \in SUBSET F /\ "FS_UNIQUE" \in FileStates /\ st \in ListStates
    <2>1. DOMAIN h.entry = F
      BY Zenon DEF PathListType
    <2> QED BY <2>1 DEF Remaining, InState, FileStates, ListStates
  <1>1. /\ g \in PathListType(F) /\ Kept(h, g) /\ Unaccounted(g) = Unaccounted(h)
        /\ g.unique = h.unique /\ g.exited = h.exited
        /\ g.entry = Retired(h.entry, Remaining(h), "FS_UNIQUE")
    BY <1>0, RetireIs
  <1>2. r = [g EXCEPT !.state = st, !.list_size = 0]
    BY Zenon DEF clear_remaining_entry
  <1> HIDE DEF g, st
  <1>3. r \in PathListType(F)
    <2>1. 0 \in Nat
      OBVIOUS
    <2> QED BY <1>0, <1>1, <1>2, <2>1, Zenon DEF PathListType
  <1>4. /\ r.state = st /\ r.list_size = 0 /\ r.unique = g.unique /\ r.exited = g.exited
        /\ r.entry = g.entry /\ r.allocated = g.allocated /\ r.open = g.open
        /\ Kept(g, r)
    BY <1>1, <1>2 DEF PathListType, Kept
  <1>5. Unaccounted(r) = Unaccounted(g)
    BY <1>4, SameUnaccounted
  <1> QED BY <1>1, <1>3, <1>4, <1>5 DEF Kept, st

-----------------------------------------------------------------------------
(* skim_uniques(). *)

\* Which files are in which state after some got their final one.
LEMMA InStateAfter ==
  ASSUME NEW F, NEW h \in PathListType(F), NEW T, T \subseteq F,
         NEW st \in FileStates, NEW r, r.entry = Retired(h.entry, T, st), NEW S
  PROVE  InState(r, S) = IF st \in S THEN InState(h, S) \cup T ELSE InState(h, S) \ T
  <1>0. h.entry \in [F -> EntryType]
    BY Zenon DEF PathListType
  <1>1. /\ DOMAIN r.entry = F /\ DOMAIN h.entry = F
        /\ \A f \in T : r.entry[f].state = st
        /\ \A f \in F \ T : r.entry[f] = h.entry[f]
    <2>1. PICK en, new : en = h.entry /\ new = Retired(en, T, st)
      OBVIOUS
    <2>2. /\ new \in [F -> EntryType]
          /\ \A f \in T : new[f].state = st /\ new[f].bufsize = 0 /\ ~new[f].fd
          /\ \A f \in F \ T : new[f] = en[f]
      BY <1>0, <2>1, RetiredIs
    <2> QED BY <1>0, <2>1, <2>2
  <1>2. /\ InState(r, S) = {f \in F : r.entry[f].state \in S}
        /\ InState(h, S) = {f \in F : h.entry[f].state \in S}
    BY <1>1, Zenon DEF InState
  <1> QED BY <1>1, <1>2

FinalStates == {"FS_UNIQUE", "FS_DONE", "FS_IGNORE"}
WithoutDups == {"FS_UNIQUE", "FS_IGNORE"}

Leave(h, T, r) ==
  /\ Remaining(r) = Remaining(h) \ T /\ Active(r) = Active(h) \ T
  /\ ReadyFiles(r) = ReadyFiles(h) \ T
  /\ InState(r, {"FS_CACHE_DONE", "FS_IGNORE_HL"})
       = InState(h, {"FS_CACHE_DONE", "FS_IGNORE_HL"}) \ T

\* They are not compared any more.
LEMMA RetiredLeave ==
  ASSUME NEW F, NEW h \in PathListType(F), NEW T, T \subseteq F,
         NEW st \in FinalStates, NEW r, r.entry = Retired(h.entry, T, st)
  PROVE  Leave(h, T, r)
  <1>1. st \in FileStates
    BY DEF FinalStates, FileStates
  <1>2. ASSUME NEW S, st \notin S PROVE InState(r, S) = InState(h, S) \ T
    BY <1>1, <1>2, InStateAfter
  <1>3. /\ st \notin {"FS_NEED_DATA", "FS_BUFFER_READY", "FS_CACHE_DONE"}
        /\ st \notin {"FS_NEED_DATA", "FS_BUFFER_READY"} /\ st \notin {"FS_BUFFER_READY"}
        /\ st \notin {"FS_CACHE_DONE", "FS_IGNORE_HL"}
    BY DEF FinalStates
  <1>4. Remaining(r) = Remaining(h) \ T
    BY <1>2, <1>3 DEF Remaining
  <1>5. Active(r) = Active(h) \ T
    BY <1>2, <1>3 DEF Active
  <1>6. ReadyFiles(r) = ReadyFiles(h) \ T
    BY <1>2, <1>3 DEF ReadyFiles
  <1>7. InState(r, {"FS_CACHE_DONE", "FS_IGNORE_HL"})
          = InState(h, {"FS_CACHE_DONE", "FS_IGNORE_HL"}) \ T
    BY <1>2, <1>3
  <1> QED BY <1>4, <1>5, <1>6, <1>7 DEF Leave

\* Nor are they duplicates.
LEMMA RetiredWithout ==
  ASSUME NEW F, NEW h \in PathListType(F), NEW T, T \subseteq F,
         NEW st \in WithoutDups, NEW r, r.entry = Retired(h.entry, T, st)
  PROVE  InState(r, {"FS_DONE"}) = InState(h, {"FS_DONE"}) \ T
  <1>1. st \in FileStates /\ st \notin {"FS_DONE"}
    BY DEF WithoutDups, FileStates
  <1>2. ASSUME NEW S, st \notin S PROVE InState(r, S) = InState(h, S) \ T
    BY <1>1, <1>2, InStateAfter
  <1> QED BY <1>1, <1>2

\* Files that get their final state one after the other, and together.
LEMMA RetiredTwice ==
  ASSUME NEW F, NEW en \in [F -> EntryType], NEW T \in SUBSET F, NEW U \in SUBSET F,
         NEW st \in FileStates, T \cap U = {}
  PROVE  Retired(Retired(en, T, st), U, st) = Retired(en, T \cup U, st)
  <1> DEFINE g == Retired(en, T, st)
  <1>1. g = [f \in F |-> IF f \in T THEN Freed(en[f], st) ELSE en[f]]
    BY DEF Retired
  <1>2. DOMAIN g = F /\ \A f \in F : g[f] = IF f \in T THEN Freed(en[f], st) ELSE en[f]
    BY <1>1
  <1> HIDE DEF g
  <1>3. Retired(g, U, st) = [f \in F |-> IF f \in U THEN Freed(g[f], st) ELSE g[f]]
    BY <1>2 DEF Retired
  <1>4. Retired(en, T \cup U, st) =
          [f \in F |-> IF f \in T \cup U THEN Freed(en[f], st) ELSE en[f]]
    BY DEF Retired
  <1>5. \A f \in F : (IF f \in U THEN Freed(g[f], st) ELSE g[f])
                       = IF f \in T \cup U THEN Freed(en[f], st) ELSE en[f]
    BY <1>2
  <1> QED BY <1>3, <1>4, <1>5 DEF g

\* File x needs data, and there are others to compare it with.
Compared(h, x) ==
  /\ h.entry[x].state = "FS_NEED_DATA" /\ h.list_size > 1 /\ InState(h, {"FS_DONE"}) = {}

(* What it makes of the set when x is unique. *)
WithUnique(h, x, r) ==
  /\ h.list_size # 2 =>
       /\ r.list_size = h.list_size - 1
       /\ r.entry = Retired(h.entry, {x}, "FS_UNIQUE")
       /\ r.state = IF r.list_size = h.buffer_ready THEN "PLS_ALL_BUFFERS_READY" ELSE h.state
  /\ h.list_size = 2 =>
       /\ r.list_size = 0 /\ r.state = "PLS_DONE"
       /\ r.entry = Retired(h.entry, Remaining(h) \cup {x}, "FS_UNIQUE")

\* mark_path_entry_unique() of a file that is compared with others.
LEMMA UniqueIs ==
  ASSUME NEW F, IsFiniteSet(F), NEW h \in PathListType(F), NEW x \in F,
         Compared(h, x), NEW r, r = mark_path_entry_unique(h, x)
  PROVE  /\ r \in PathListType(F) /\ Kept(h, r) /\ Unaccounted(r) = Unaccounted(h)
         /\ r.unique = h.unique /\ r.exited = h.exited
         /\ WithUnique(h, x, r)
  <1> DEFINE less == Less(h, x, "FS_UNIQUE")
             marked == MarkIfReady(less)
  <1>0. "FS_UNIQUE" \in FileStates
    BY Zenon DEF FileStates
  <1>1. h.list_size \in Nat /\ h.list_size > 1
    BY Zenon DEF PathListType, Compared
  <1>1a. h.entry \in [F -> EntryType]
    BY Zenon DEF PathListType
  <1>2. /\ less \in PathListType(F) /\ Kept(h, less) /\ Unaccounted(less) = Unaccounted(h)
        /\ less.state = h.state /\ less.list_size = h.list_size - 1
        /\ less.unique = h.unique /\ less.exited = h.exited
        /\ less.entry = Retired(h.entry, {x}, "FS_UNIQUE")
    <2>1. PICK st : st = "FS_UNIQUE"
      OBVIOUS
    <2>2. st \in FileStates /\ less = Less(h, x, st)
      BY <1>0, <2>1
    <2> HIDE DEF less, marked
    <2>3. LessBy(F, h, x, st, less)
      <3>1. h.list_size > 0
        BY <1>1
      <3> QED BY <2>2, <3>1, MarkedIs
    <2> QED BY <2>1, <2>3 DEF LessBy
  <1>3. r = IF marked.list_size = 1 THEN clear_remaining_entry(marked) ELSE marked
    <2>1. ~(h.list_size = 0)
      BY <1>1
    <2> HIDE DEF marked
    <2>2. mark_path_entry_unique(h, x)
            = IF marked.list_size = 1 THEN clear_remaining_entry(marked) ELSE marked
      BY <2>1, Zenon DEF Compared, mark_path_entry_unique, marked, less, Less
    <2> QED BY <2>2
  <1> HIDE DEF less
  <1>4. /\ marked \in PathListType(F) /\ Kept(less, marked)
        /\ Unaccounted(marked) = Unaccounted(less)
        /\ marked.list_size = less.list_size /\ marked.unique = less.unique
        /\ marked.exited = less.exited /\ marked.entry = less.entry
        /\ marked.state = IF less.list_size = less.buffer_ready THEN "PLS_ALL_BUFFERS_READY"
                          ELSE less.state
    BY <1>2, MarkIfReadyIs
  <1> HIDE DEF marked
  <1>5. CASE h.list_size # 2
    <2>1. r = marked
      BY <1>1, <1>2, <1>3, <1>4, <1>5
    <2> QED BY <1>2, <1>4, <1>5, <2>1 DEF Kept, WithUnique
  <1>6. CASE h.list_size = 2
    <2>1. r = clear_remaining_entry(marked)
      BY <1>1, <1>2, <1>3, <1>4, <1>6
    <2>2. marked.entry = Retired(h.entry, {x}, "FS_UNIQUE")
      BY <1>2, <1>4
    <2>3. InState(marked, {"FS_DONE"}) = {} /\ Remaining(marked) = Remaining(h) \ {x}
      <3>1. PICK st, T : st = "FS_UNIQUE" /\ T = {x}
        OBVIOUS
      <3>2. st \in FinalStates /\ st \in WithoutDups
        BY <3>1 DEF FinalStates, WithoutDups
      <3>3. marked.entry = Retired(h.entry, T, st) /\ T \subseteq F
        BY <2>2, <3>1
      <3>4. Remaining(marked) = Remaining(h) \ T
        BY <3>2, <3>3, RetiredLeave DEF Leave
      <3>5. InState(marked, {"FS_DONE"}) = InState(h, {"FS_DONE"}) \ T
        BY <3>2, <3>3, RetiredWithout
      <3> QED BY <3>1, <3>4, <3>5 DEF Compared
    <2>5. /\ r \in PathListType(F) /\ Kept(marked, r) /\ Unaccounted(r) = Unaccounted(marked)
          /\ r.state = "PLS_DONE" /\ r.list_size = 0
          /\ r.unique = marked.unique /\ r.exited = marked.exited
          /\ r.entry = Retired(marked.entry, Remaining(marked), "FS_UNIQUE")
      BY <1>4, <2>1, <2>3, ClearedIs
    <2>6. r.entry = Retired(h.entry, Remaining(h) \cup {x}, "FS_UNIQUE")
      <3>1. Remaining(h) \ {x} \in SUBSET F
        BY <1>1a DEF Remaining, InState
      <3>2. {x} \cap (Remaining(h) \ {x}) = {} /\ {x} \cup (Remaining(h) \ {x}) = Remaining(h) \cup {x}
        OBVIOUS
      <3>3. Retired(Retired(h.entry, {x}, "FS_UNIQUE"), Remaining(h) \ {x}, "FS_UNIQUE")
              = Retired(h.entry, {x} \cup (Remaining(h) \ {x}), "FS_UNIQUE")
        <4>1. {x} \in SUBSET F
          OBVIOUS
        <4> QED BY <1>0, <1>1a, <3>1, <3>2, <4>1, RetiredTwice
      <3> QED BY <2>2, <2>3, <2>5, <3>2, <3>3
    <2> QED BY <1>2, <1>4, <1>6, <2>5, <2>6 DEF Kept, WithUnique
  <1> QED BY <1>5, <1>6

(* The files D are compared, and skim_uniques() has got through those in U:
   what it keeps, what it made of a set of which at least two others are left,
   and what of a smaller one. *)
Skimmable(h, D) ==
  /\ D = Remaining(h) /\ \A f \in D : h.entry[f].state = "FS_NEED_DATA"
  /\ InState(h, {"FS_DONE"}) = {} /\ h.list_size = Cardinality(D) /\ h.list_size > 1

SkimKeeps(F, h, U, r) ==
  /\ r \in PathListType(F) /\ Kept(h, r) /\ Unaccounted(r) = Unaccounted(h)
  /\ r.exited = h.exited /\ r.unique = h.unique + Cardinality(U)

Running(h, D, U, r) ==
  /\ Cardinality(U) < Cardinality(D) - 1
  /\ r.list_size = Cardinality(D) - Cardinality(U)
  /\ r.entry = Retired(h.entry, U, "FS_UNIQUE")
  /\ r.state = h.state \/ (h.buffer_ready # 0 /\ r.state = "PLS_ALL_BUFFERS_READY")

Cleared(h, D, U, r) ==
  /\ Cardinality(U) >= Cardinality(D) - 1
  /\ r.list_size = 0 /\ r.state = "PLS_DONE"
  /\ r.entry = Retired(h.entry, D, "FS_UNIQUE")

\* One more is counted as unique.
LEMMA CountedUnique ==
  ASSUME NEW F, NEW h \in PathListType(F), NEW r, r = [h EXCEPT !.unique = @ + 1]
  PROVE  /\ r \in PathListType(F) /\ Kept(h, r) /\ Unaccounted(r) = Unaccounted(h)
         /\ r.exited = h.exited /\ r.unique = h.unique + 1 /\ r.list_size = h.list_size
         /\ r.state = h.state /\ r.entry = h.entry
  <1> DEFINE n == h.unique + 1
  <1>1. n \in Int
    <2>1. h.unique \in Int
      BY Zenon DEF PathListType
    <2> QED BY <2>1
  <1>2. r = [h EXCEPT !.unique = n]
    OBVIOUS
  <1> HIDE DEF n
  <1>3. r \in PathListType(F)
    BY <1>1, <1>2, Zenon DEF PathListType
  <1>4. /\ Kept(h, r) /\ r.exited = h.exited /\ r.unique = n /\ r.list_size = h.list_size
        /\ r.state = h.state /\ r.entry = h.entry /\ r.allocated = h.allocated
        /\ r.open = h.open
    BY <1>2 DEF PathListType, Kept
  <1>5. Unaccounted(r) = Unaccounted(h)
    BY <1>4, SameUnaccounted
  <1> QED BY <1>3, <1>4, <1>5 DEF n

\* One more file skimmed, and the set is what skimming that far makes it.
LEMMA SkimStep ==
  ASSUME NEW F, IsFiniteSet(F), NEW h \in PathListType(F), NEW D, Skimmable(h, D),
         NEW U \in SUBSET D, NEW x \in U, NEW g, SkimKeeps(F, h, U \ {x}, g),
         Running(h, D, U \ {x}, g) \/ Cleared(h, D, U \ {x}, g),
         NEW r, r = Skim(x, g)
  PROVE  SkimKeeps(F, h, U, r) /\ (Running(h, D, U, r) \/ Cleared(h, D, U, r))
  <1> DEFINE W == U \ {x}
             m == mark_path_entry_unique(g, x)
  <1>1. DOMAIN h.entry = F /\ h.entry \in [F -> EntryType] /\ h.unique \in Int
    BY Zenon DEF PathListType
  <1>2. D \subseteq F
    BY <1>1 DEF Skimmable, Remaining, InState
  <1>3. /\ IsFiniteSet(D) /\ IsFiniteSet(U)
        /\ Cardinality(D) \in Nat /\ Cardinality(U) \in Nat /\ Cardinality(W) \in Nat
        /\ Cardinality(W) = Cardinality(U) - 1 /\ Cardinality(U) <= Cardinality(D)
    <2>1. IsFiniteSet(D) /\ IsFiniteSet(U)
      BY <1>2, FS_Subset
    <2>2. Cardinality(U \ {x}) = Cardinality(U) - 1 /\ IsFiniteSet(U \ {x})
      BY <2>1, FS_RemoveElement
    <2> QED BY <2>1, <2>2, FS_CardinalityType, FS_Subset
  <1>4. /\ g \in PathListType(F) /\ Kept(h, g) /\ Unaccounted(g) = Unaccounted(h)
        /\ g.exited = h.exited /\ g.unique = h.unique + Cardinality(W)
    BY DEF SkimKeeps
  <1>5. Running(h, D, W, g) \/ Cleared(h, D, W, g)
    OBVIOUS
  <1>6. r = [m EXCEPT !.unique = @ + 1]
    BY DEF Skim
  <1> HIDE DEF W, m
  <1>7. ASSUME m \in PathListType(F), Kept(g, m), Unaccounted(m) = Unaccounted(g),
               m.unique = g.unique, m.exited = g.exited
        PROVE  SkimKeeps(F, h, U, r) /\ r.list_size = m.list_size /\ r.state = m.state
               /\ r.entry = m.entry
    <2>1. /\ r \in PathListType(F) /\ Kept(m, r) /\ Unaccounted(r) = Unaccounted(m)
          /\ r.exited = m.exited /\ r.unique = m.unique + 1 /\ r.list_size = m.list_size
          /\ r.state = m.state /\ r.entry = m.entry
      BY <1>6, <1>7, CountedUnique
    <2>2. r.unique = h.unique + Cardinality(U)
      BY <1>1, <1>3, <1>4, <1>7, <2>1
    <2> QED BY <1>4, <1>7, <2>1, <2>2 DEF SkimKeeps, Kept
  <1>8. CASE Cleared(h, D, W, g)
    <2>1. g.entry = Retired(h.entry, D, "FS_UNIQUE") /\ Cardinality(W) >= Cardinality(D) - 1
          /\ g.list_size = 0 /\ g.state = "PLS_DONE"
      BY <1>8 DEF Cleared
    <2>2. g.entry[x].state = "FS_UNIQUE"
      <3>1. PICK en, new : en = h.entry /\ new = Retired(en, D, "FS_UNIQUE")
        OBVIOUS
      <3>2. \A f \in D : new[f].state = "FS_UNIQUE"
        BY <1>1, <1>2, <3>1, RetiredIs DEF FileStates
      <3> QED BY <2>1, <3>1, <3>2
    <2>3. m = g
      BY <2>2, Zenon DEF m, mark_path_entry_unique
    <2>4. SkimKeeps(F, h, U, r) /\ r.list_size = m.list_size /\ r.state = m.state
               /\ r.entry = m.entry
      BY <1>4, <1>7, <2>3 DEF Kept
    <2>5. Cardinality(U) >= Cardinality(D) - 1
      BY <1>3, <2>1
    <2> QED BY <2>1, <2>3, <2>4, <2>5 DEF Cleared
  <1>9. CASE Running(h, D, W, g)
    <2>1. /\ g.entry = Retired(h.entry, W, "FS_UNIQUE") /\ Cardinality(W) < Cardinality(D) - 1
          /\ g.list_size = Cardinality(D) - Cardinality(W)
          /\ g.state = h.state \/ (h.buffer_ready # 0 /\ g.state = "PLS_ALL_BUFFERS_READY")
      BY <1>9 DEF Running
    <2>2. PICK st : st = "FS_UNIQUE"
      OBVIOUS
    <2>3. st \in FinalStates /\ st \in WithoutDups /\ st \in FileStates
      BY <2>2 DEF FinalStates, WithoutDups, FileStates
    <2>4. g.entry = Retired(h.entry, W, st) /\ W \subseteq F
      BY <1>2, <2>1, <2>2 DEF W
    <2>5. Remaining(g) = D \ W
      <3>1. Remaining(g) = Remaining(h) \ W
        <4>1. Leave(h, W, g)
          BY <2>3, <2>4, RetiredLeave
        <4> QED BY <4>1 DEF Leave
      <3> QED BY <3>1 DEF Skimmable
    <2>6. InState(g, {"FS_DONE"}) = {}
      <3>1. InState(g, {"FS_DONE"}) = InState(h, {"FS_DONE"}) \ W
        BY <2>3, <2>4, RetiredWithout
      <3> QED BY <3>1 DEF Skimmable
    <2>7. g.entry[x].state = "FS_NEED_DATA"
      <3>1. PICK en, new : en = h.entry /\ new = Retired(en, W, st)
        OBVIOUS
      <3>2. \A f \in F \ W : new[f] = en[f]
        BY <1>1, <2>3, <2>4, <3>1, RetiredIs
      <3>3. g.entry[x] = h.entry[x]
        BY <1>2, <2>4, <3>1, <3>2 DEF W
      <3> QED BY <3>3 DEF Skimmable
    <2>8. g.list_size > 1
      BY <1>3, <2>1
    <2>9. Compared(g, x) /\ x \in F
      BY <1>2, <2>6, <2>7, <2>8 DEF Compared
    <2>10. /\ m \in PathListType(F) /\ Kept(g, m) /\ Unaccounted(m) = Unaccounted(g)
           /\ m.unique = g.unique /\ m.exited = g.exited
           /\ WithUnique(g, x, m)
      BY <1>4, <2>9, UniqueIs DEF m
    <2>11. SkimKeeps(F, h, U, r) /\ r.list_size = m.list_size /\ r.state = m.state
               /\ r.entry = m.entry
      BY <1>7, <2>10
    <2>12. ASSUME NEW T, T \subseteq F, W \cap T = {}
           PROVE  Retired(g.entry, T, "FS_UNIQUE") = Retired(h.entry, W \cup T, "FS_UNIQUE")
      <3>1. PICK en : en = h.entry
        OBVIOUS
      <3>2. Retired(Retired(en, W, st), T, st) = Retired(en, W \cup T, st)
        BY <1>1, <2>3, <2>4, <2>12, <3>1, RetiredTwice
      <3> QED BY <2>2, <2>4, <3>1, <3>2
    <2>13. CASE g.list_size = 2
      <3>1. r.entry = Retired(h.entry, W \cup ((D \ W) \cup {x}), "FS_UNIQUE")
        <4>1. PICK T : T = (D \ W) \cup {x}
          OBVIOUS
        <4>2. W \cap T = {} /\ T \subseteq F
          BY <1>2, <4>1 DEF W
        <4> QED BY <2>5, <2>10, <2>11, <2>12, <2>13, <4>1, <4>2 DEF WithUnique
      <3>2. W \cup ((D \ W) \cup {x}) = D
        BY DEF W
      <3>3. Cardinality(U) >= Cardinality(D) - 1
        BY <1>3, <2>1, <2>13
      <3> QED BY <2>10, <2>11, <2>13, <3>1, <3>2, <3>3 DEF Cleared, WithUnique
    <2>14. CASE g.list_size # 2
      <3>1. r.entry = Retired(h.entry, W \cup {x}, "FS_UNIQUE")
        <4>1. W \cap {x} = {} /\ {x} \subseteq F
          BY <1>2 DEF W
        <4> QED BY <2>10, <2>11, <2>12, <2>14, <4>1 DEF WithUnique
      <3>2. W \cup {x} = U
        BY DEF W
      <3>3. Cardinality(U) < Cardinality(D) - 1 /\ r.list_size = Cardinality(D) - Cardinality(U)
        BY <1>3, <2>1, <2>10, <2>11, <2>14 DEF WithUnique
      <3>4. r.state = h.state \/ (h.buffer_ready # 0 /\ r.state = "PLS_ALL_BUFFERS_READY")
        <4>1. g.buffer_ready = h.buffer_ready
          BY <1>4 DEF Kept
        <4>2. m.list_size # 0
          BY <1>3, <2>11, <3>3
        <4> QED BY <2>1, <2>10, <2>11, <2>14, <4>1, <4>2 DEF WithUnique
      <3> QED BY <2>11, <3>1, <3>2, <3>3, <3>4 DEF Running
    <2> QED BY <2>13, <2>14
  <1> QED BY <1>5, <1>8, <1>9

\* skim_uniques(), whatever the order it takes the files in.
LEMMA Skims ==
  ASSUME NEW F, IsFiniteSet(F), NEW h \in PathListType(F), NEW D, Skimmable(h, D),
         NEW V \in SUBSET D, NEW r, r = FoldSet(Skim, h, V)
  PROVE  SkimKeeps(F, h, V, r) /\ (Running(h, D, V, r) \/ Cleared(h, D, V, r))
  <1> DEFINE R(U) == FoldSet(Skim, h, U)
             Sound(U) == SkimKeeps(F, h, U, R(U)) /\ (Running(h, D, U, R(U)) \/ Cleared(h, D, U, R(U)))
             Bad == {U \in SUBSET D : ~Sound(U)}
  <1>1. IsFiniteSet(D)
    <2>1. DOMAIN h.entry = F
      BY Zenon DEF PathListType
    <2>2. D \subseteq F
      BY <2>1 DEF Skimmable, Remaining, InState
    <2> QED BY <2>2, FS_Subset
  <1>2. SUFFICES ASSUME Bad # {} PROVE FALSE
    <2> HIDE DEF Sound, R
    <2>1. Sound(V)
      BY <1>2
    <2> QED BY <2>1 DEF Sound, R
  <1>3. PICK U \in Bad : \A W \in Bad : W \subseteq U => W = U
    <2>1. Bad \subseteq SUBSET D
      OBVIOUS
    <2> HIDE DEF Bad
    <2> QED BY <1>1, <1>2, <2>1, MinimalSubset
  <1>4. IsFiniteSet(U)
    BY <1>1, FS_Subset
  <1>5. CASE U = {}
    <2>1. R(U) = h
      BY <1>4, <1>5, SkimUnfolds
    <2>2. Cardinality(U) = 0
      BY <1>5, FS_EmptySet
    <2>3. /\ h.unique \in Int /\ h.list_size \in Nat /\ h.entry \in [F -> EntryType]
      BY Zenon DEF PathListType
    <2>4. SkimKeeps(F, h, U, h)
      BY <2>2, <2>3 DEF SkimKeeps, Kept
    <2>5. Retired(h.entry, U, "FS_UNIQUE") = h.entry
      BY <1>5, <2>3 DEF Retired
    <2>6. Running(h, D, U, h)
      BY <2>2, <2>3, <2>5 DEF Running, Skimmable
    <2> HIDE DEF R
    <2> QED BY <1>3, <2>1, <2>4, <2>6
  <1>6. CASE U # {}
    <2>1. PICK x \in U : R(U) = Skim(x, R(U \ {x}))
      BY <1>4, <1>6, SkimUnfolds
    <2>2. U \ {x} \in SUBSET D /\ U \ {x} # U
      OBVIOUS
    <2> HIDE DEF R
    <2>3. Sound(U \ {x})
      BY <1>3, <2>2
    <2>4. PICK g, k : g = R(U \ {x}) /\ k = R(U)
      OBVIOUS
    <2>5. /\ SkimKeeps(F, h, U \ {x}, g)
          /\ Running(h, D, U \ {x}, g) \/ Cleared(h, D, U \ {x}, g)
      BY <2>3, <2>4
    <2>6. SkimKeeps(F, h, U, k) /\ (Running(h, D, U, k) \/ Cleared(h, D, U, k))
      BY <2>1, <2>4, <2>5, SkimStep
    <2> QED BY <1>3, <2>4, <2>6
  <1> QED BY <1>5, <1>6

-----------------------------------------------------------------------------
(* Sorting out the files of a pass by their hashes. *)

Class(hash, f) == {g \in DOMAIN hash : hash[g] = hash[f]}
Alone(hash)    == UNION {g \in Groups(hash) : Cardinality(g) = 1}
Shared(hash)   == {g \in Groups(hash) : Cardinality(g) > 1}

(* A file is alone with its hash or in the group of all files that have it,
   and it is not one file alone that is in groups. *)
GroupedBy(hash, D, A, P) ==
  /\ A \subseteq D /\ UNION P = D \ A
  /\ HasDups(Groups(hash)) <=> A # D
  /\ Cardinality(A) # Cardinality(D) - 1
  /\ \A f \in A, g \in D : hash[g] = hash[f] => g = f
  /\ \A p \in P : /\ Cardinality(p) > 1 /\ p \subseteq D
                  /\ \A f, g \in p : hash[f] = hash[g]
                  /\ \A f \in p, g \in D : hash[g] = hash[f] => g \in p

\* The groups of equal hashes are the classes of a partition.
LEMMA GroupsAre ==
  ASSUME NEW hash, NEW D, D = DOMAIN hash, IsFiniteSet(D),
         NEW A, A = Alone(hash), NEW P, P = Shared(hash)
  PROVE  GroupedBy(hash, D, A, P)
  <1>1. \A f \in D : /\ f \in Class(hash, f) /\ Class(hash, f) \in Groups(hash)
                     /\ Class(hash, f) \subseteq D
                     /\ IsFiniteSet(Class(hash, f)) /\ Cardinality(Class(hash, f)) \in Nat
                     /\ Cardinality(Class(hash, f)) # 0
    <2> SUFFICES ASSUME NEW f \in D
                 PROVE  /\ f \in Class(hash, f) /\ Class(hash, f) \in Groups(hash)
                        /\ Class(hash, f) \subseteq D
                        /\ IsFiniteSet(Class(hash, f)) /\ Cardinality(Class(hash, f)) \in Nat
                        /\ Cardinality(Class(hash, f)) # 0
      OBVIOUS
    <2>1. /\ f \in Class(hash, f) /\ Class(hash, f) \in Groups(hash)
          /\ Class(hash, f) \subseteq D
      BY DEF Class, Groups
    <2>2. IsFiniteSet(Class(hash, f))
      BY <2>1, FS_Subset
    <2> QED BY <2>1, <2>2, FS_CardinalityType, FS_EmptySet
  <1>2. \A g \in Groups(hash) : \E f \in D : g = Class(hash, f)
    BY DEF Class, Groups
  <1>3. \A f \in D : Cardinality(Class(hash, f)) = 1 => Class(hash, f) = {f}
    BY <1>1, FS_Singleton
  <1>4. \A g \in Groups(hash) : \A f \in g : f \in D /\ g = Class(hash, f)
    BY <1>2 DEF Class
  <1>5. \A f \in D : (f \in A) <=> Cardinality(Class(hash, f)) = 1
    BY <1>1, <1>4 DEF Alone
  <1>6. A \subseteq D
    BY <1>4 DEF Alone
  <1>7. \A f \in D : f \notin A => Class(hash, f) \in P
    BY <1>1, <1>5 DEF Shared
  <1>8. \A p \in P : /\ Cardinality(p) > 1 /\ p \in Groups(hash)
                     /\ \A f \in p : f \in D /\ p = Class(hash, f) /\ f \notin A
    BY <1>4, <1>5 DEF Shared
  <1>9. UNION P = D \ A
    BY <1>1, <1>7, <1>8
  <1>10. HasDups(Groups(hash)) <=> A # D
    <2>1. HasDups(Groups(hash)) <=> P # {}
      BY DEF HasDups, Shared
    <2>2. ASSUME NEW p \in P PROVE p # {}
      <3>1. Cardinality(p) > 1
        BY <1>8
      <3>2. Cardinality({}) = 0
        BY FS_EmptySet
      <3> QED BY <3>1, <3>2
    <2> QED BY <1>6, <1>9, <2>1, <2>2
  <1>11. Cardinality(A) # Cardinality(D) - 1
    <2>1. SUFFICES ASSUME Cardinality(A) = Cardinality(D) - 1 PROVE FALSE
      OBVIOUS
    <2>2. IsFiniteSet(A) /\ IsFiniteSet(D \ A) /\ Cardinality(A) \in Nat /\ Cardinality(D) \in Nat
      BY <1>6, FS_Subset, FS_CardinalityType
    <2>3. Cardinality(D \ A) = 1
      <3>1. Cardinality(D \ A) = Cardinality(D) - Cardinality(D \cap A)
        BY FS_Difference
      <3>2. D \cap A = A
        BY <1>6
      <3>3. PICK a, d \in Nat : a = Cardinality(A) /\ d = Cardinality(D)
        BY <2>2
      <3>4. Cardinality(D \ A) = d - a /\ a = d - 1
        BY <2>1, <3>1, <3>2, <3>3
      <3> QED BY <3>3, <3>4
    <2>4. PICK x : D \ A = {x}
      BY <2>2, <2>3, FS_Singleton
    <2>5. x \in D /\ x \notin A /\ Class(hash, x) \in P
      BY <1>7, <2>4
    <2>6. Class(hash, x) = {x}
      BY <1>8, <1>1, <2>4, <2>5
    <2>7. Cardinality(Class(hash, x)) = 1
      BY <2>6, FS_Singleton
    <2> QED BY <1>5, <2>5, <2>7
  <1>12. ASSUME NEW f \in A, NEW g \in D, hash[g] = hash[f] PROVE g = f
    <2>1. g \in Class(hash, f)
      BY <1>12 DEF Class
    <2> QED BY <1>3, <1>5, <1>6, <2>1
  <1>13. ASSUME NEW p \in P
         PROVE  /\ Cardinality(p) > 1 /\ p \subseteq D
                /\ \A f, g \in p : hash[f] = hash[g]
                /\ \A f \in p, g \in D : hash[g] = hash[f] => g \in p
    BY <1>8 DEF Class
  <1> QED BY <1>6, <1>9, <1>10, <1>11, <1>12, <1>13 DEF GroupedBy

Published(h, P) ==
  [Retire(h, UNION P, "FS_DONE") EXCEPT !.published = @ \cup P, !.dups = @ + h.list_size]

\* publish() of the groups P.
LEMMA PublishedIs ==
  ASSUME NEW F, IsFiniteSet(F), NEW h \in PathListType(F), NEW P, P \subseteq SUBSET F,
         NEW T, T = UNION P, NEW r, r = Published(h, P)
  PROVE  /\ r \in PathListType(F) /\ Unaccounted(r) = Unaccounted(h)
         /\ r.exited = h.exited /\ r.unique = h.unique /\ r.processed = h.processed
         /\ r.dups = h.dups + h.list_size /\ r.published = h.published \cup P
         /\ r.entry = Retired(h.entry, T, "FS_DONE")
  <1> DEFINE g == Retire(h, T, "FS_DONE")
             pub == h.published \cup P
             n == h.dups + h.list_size
  <1>1. T \in SUBSET F /\ "FS_DONE" \in FileStates
    BY DEF FileStates
  <1>2. /\ g \in PathListType(F) /\ Kept(h, g) /\ Unaccounted(g) = Unaccounted(h)
        /\ g.unique = h.unique /\ g.exited = h.exited
        /\ g.entry = Retired(h.entry, T, "FS_DONE")
    BY <1>1, RetireIs
  <1>3. pub \in SUBSET SUBSET F
    <2>1. h.published \in SUBSET SUBSET F
      BY Zenon DEF PathListType
    <2> QED BY <2>1
  <1>4. n \in Int
    <2>1. h.dups \in Int /\ h.list_size \in Nat
      BY Zenon DEF PathListType
    <2> QED BY <2>1
  <1> HIDE DEF g
  <1>5. r = [g EXCEPT !.published = pub, !.dups = n]
    BY <1>2 DEF Published, g, Kept
  <1> HIDE DEF pub, n
  <1>6. r \in PathListType(F)
    BY <1>2, <1>3, <1>4, <1>5, Zenon DEF PathListType
  <1>7. /\ r.exited = g.exited /\ r.unique = g.unique /\ r.processed = g.processed
        /\ r.dups = n /\ r.published = pub /\ r.entry = g.entry
        /\ r.allocated = g.allocated /\ r.open = g.open
    BY <1>2, <1>5 DEF PathListType
  <1>8. Unaccounted(r) = Unaccounted(g)
    BY <1>7, SameUnaccounted
  <1> QED BY <1>2, <1>6, <1>7, <1>8 DEF Kept, n, pub

SetFinished(h) == [h EXCEPT !.state = "PLS_DONE", !.processed = @ + 1]

\* The set is done and counted.
LEMMA FinishedIs ==
  ASSUME NEW F, NEW h \in PathListType(F), NEW r, r = SetFinished(h)
  PROVE  /\ r \in PathListType(F) /\ Unaccounted(r) = Unaccounted(h)
         /\ r.state = "PLS_DONE" /\ r.processed = h.processed + 1
         /\ r.exited = h.exited /\ r.unique = h.unique
         /\ r.dups = h.dups /\ r.published = h.published /\ r.entry = h.entry
  <1> DEFINE n == h.processed + 1
             st == "PLS_DONE"
  <1>1. n \in Nat /\ st \in ListStates
    <2>1. h.processed \in Nat
      BY Zenon DEF PathListType
    <2> QED BY <2>1 DEF ListStates
  <1>2. r = [h EXCEPT !.state = st, !.processed = n]
    BY DEF SetFinished
  <1> HIDE DEF n, st
  <1>3. r \in PathListType(F)
    BY <1>1, <1>2, Zenon DEF PathListType
  <1>4. /\ r.state = st /\ r.processed = n /\ r.exited = h.exited /\ r.unique = h.unique
        /\ r.dups = h.dups /\ r.published = h.published /\ r.entry = h.entry
        /\ r.allocated = h.allocated /\ r.open = h.open
    BY <1>2 DEF PathListType
  <1>5. Unaccounted(r) = Unaccounted(h)
    BY <1>4, SameUnaccounted
  <1> QED BY <1>3, <1>4, <1>5 DEF n, st

(* What a pass that completes the set does once it has the hashes, and what
   that comes to: each file of D is alone, and unique, or in one of the groups
   of duplicates P. *)
SortOut(h, groups) ==
  SetFinished(IF HasDups(groups) THEN publish(skim_uniques(h, groups), groups)
           ELSE skim_uniques(h, groups))

SortedOut(F, h, D, A, P, r) ==
  /\ r \in PathListType(F) /\ Unaccounted(r) = Unaccounted(h) /\ r.exited = h.exited
  /\ r.state = "PLS_DONE" /\ r.processed = h.processed + 1
  /\ r.unique = h.unique + Cardinality(A) /\ r.dups = h.dups + Cardinality(D \ A)
  /\ r.published = h.published \cup P
  /\ r.entry = Retired(Retired(h.entry, A, "FS_UNIQUE"), D \ A, "FS_DONE")

\* Sorting out the groups retires the lone files and publishes the rest.
LEMMA SortOutIs ==
  ASSUME NEW F, IsFiniteSet(F), NEW h \in PathListType(F), NEW D, Skimmable(h, D),
         NEW hash, D = DOMAIN hash, NEW A, A = Alone(hash), NEW P, P = Shared(hash),
         NEW r, r = SortOut(h, Groups(hash))
  PROVE  SortedOut(F, h, D, A, P, r) /\ GroupedBy(hash, D, A, P)
  <1> DEFINE s == skim_uniques(h, Groups(hash))
             b == IF HasDups(Groups(hash)) THEN publish(s, Groups(hash)) ELSE s
  <1>1. D \subseteq F /\ IsFiniteSet(D) /\ h.entry \in [F -> EntryType]
    <2>1. DOMAIN h.entry = F /\ h.entry \in [F -> EntryType]
      BY Zenon DEF PathListType
    <2>2. D \subseteq F
      BY <2>1 DEF Skimmable, Remaining, InState
    <2> QED BY <2>1, <2>2, FS_Subset
  <1>2. GroupedBy(hash, D, A, P)
    BY <1>1, GroupsAre
  <1>3. /\ A \in SUBSET D /\ UNION P = D \ A
        /\ HasDups(Groups(hash)) <=> A # D
        /\ Cardinality(A) # Cardinality(D) - 1
    BY <1>2 DEF GroupedBy
  <1>4. SkimKeeps(F, h, A, s) /\ (Running(h, D, A, s) \/ Cleared(h, D, A, s))
    <2>1. s = FoldSet(Skim, h, A)
      BY DEF skim_uniques, Alone
    <2> HIDE DEF s
    <2> QED BY <1>3, <2>1, Skims
  <1>5. publish(s, Groups(hash)) = Published(s, P)
    BY Zenon DEF publish, Published, Shared
  <1>6. r = SetFinished(b)
    BY DEF SortOut
  <1>7. /\ s \in PathListType(F) /\ Kept(h, s) /\ Unaccounted(s) = Unaccounted(h)
        /\ s.exited = h.exited /\ s.unique = h.unique + Cardinality(A)
    BY <1>4 DEF SkimKeeps
  <1>8. IsFiniteSet(A) /\ Cardinality(A) \in Nat /\ Cardinality(D) \in Nat /\ Cardinality(A) <= Cardinality(D)
    BY <1>1, <1>3, FS_Subset, FS_CardinalityType
  <1>9. Cardinality(D \ A) = Cardinality(D) - Cardinality(A)
    <2>1. Cardinality(D \ A) = Cardinality(D) - Cardinality(D \cap A)
      BY <1>1, FS_Difference
    <2>2. D \cap A = A
      BY <1>3
    <2> QED BY <2>1, <2>2
  <1> HIDE DEF s
  <1>10. b \in PathListType(F) /\ Unaccounted(b) = Unaccounted(h) /\ b.exited = h.exited
         /\ b.processed = h.processed /\ b.unique = h.unique + Cardinality(A)
         /\ b.dups = h.dups + Cardinality(D \ A) /\ b.published = h.published \cup P
         /\ b.entry = Retired(Retired(h.entry, A, "FS_UNIQUE"), D \ A, "FS_DONE")
    <2>1. CASE A # D
      <3>1. b = Published(s, P)
        BY <1>3, <1>5, <2>1
      <3>2. Running(h, D, A, s)
        <4>1. Cardinality(A) # Cardinality(D)
          BY <1>1, <1>3, <2>1, FS_Subset
        <4>2. ~(Cardinality(A) >= Cardinality(D) - 1)
          BY <1>3, <1>8, <4>1
        <4> QED BY <1>4, <4>2 DEF Cleared
      <3>3. P \subseteq SUBSET F
        BY <1>1, <1>3
      <3>4. PICK T : T = UNION P
        OBVIOUS
      <3>5. /\ b \in PathListType(F) /\ Unaccounted(b) = Unaccounted(s)
            /\ b.exited = s.exited /\ b.unique = s.unique /\ b.processed = s.processed
            /\ b.dups = s.dups + s.list_size /\ b.published = s.published \cup P
            /\ b.entry = Retired(s.entry, T, "FS_DONE")
        <4> HIDE DEF b
        <4> QED BY <1>7, <3>1, <3>3, <3>4, PublishedIs
      <3> HIDE DEF b
      <3>6. s.list_size = Cardinality(D \ A) /\ s.entry = Retired(h.entry, A, "FS_UNIQUE")
        BY <1>9, <3>2 DEF Running
      <3> QED BY <1>3, <1>7, <3>4, <3>5, <3>6 DEF Kept
    <2>2. CASE A = D
      <3>1. b = s
        BY <1>3, <2>2
      <3>2. Cleared(h, D, A, s)
        <4>1. ~(Cardinality(A) < Cardinality(D) - 1)
          BY <1>8, <2>2
        <4> QED BY <1>4, <4>1 DEF Running
      <3>3. P = {}
        <4>1. ~ \E g \in Groups(hash) : Cardinality(g) > 1
          BY <1>3, <2>2 DEF HasDups
        <4> QED BY <4>1 DEF Shared
      <3>4. s.entry = Retired(Retired(h.entry, A, "FS_UNIQUE"), D \ A, "FS_DONE")
        <4>1. s.entry = Retired(h.entry, D, "FS_UNIQUE")
          BY <3>2 DEF Cleared
        <4>2. s.entry \in [F -> EntryType]
          BY <1>7, Zenon DEF PathListType
        <4>3. Retired(s.entry, {}, "FS_DONE") = s.entry
          BY <4>2 DEF Retired
        <4> QED BY <2>2, <4>1, <4>3
      <3>5. h.dups \in Int /\ Cardinality(D \ A) = 0
        <4>1. h.dups \in Int
          BY Zenon DEF PathListType
        <4> QED BY <1>8, <1>9, <2>2, <4>1
      <3> QED BY <1>7, <3>1, <3>3, <3>4, <3>5 DEF Kept
    <2> QED BY <2>1, <2>2
  <1> HIDE DEF b
  <1>11. /\ r \in PathListType(F) /\ Unaccounted(r) = Unaccounted(b)
         /\ r.state = "PLS_DONE" /\ r.processed = b.processed + 1
         /\ r.exited = b.exited /\ r.unique = b.unique
         /\ r.dups = b.dups /\ r.published = b.published /\ r.entry = b.entry
    BY <1>6, <1>10, FinishedIs
  <1> QED BY <1>2, <1>10, <1>11 DEF SortedOut

\* Files are in states; none is in two.
LEMMA InStates ==
  ASSUME NEW h, NEW S, NEW T
  PROVE  /\ InState(h, S) \cap InState(h, T) = InState(h, S \cap T)
         /\ InState(h, S) \cup InState(h, T) = InState(h, S \cup T)
         /\ InState(h, {}) = {}
  BY Zenon DEF InState

(* The states of the files after they were sorted out. *)
SortedStates(h, D, A, r) ==
  /\ InState(r, {"FS_DONE"}) = D \ A
  /\ InState(r, {"FS_UNIQUE"}) = InState(h, {"FS_UNIQUE"}) \cup A
  /\ InState(r, {"FS_IGNORE"}) = InState(h, {"FS_IGNORE"})
  /\ Active(r) = {} /\ ReadyFiles(r) = {}
  /\ InState(r, {"FS_CACHE_DONE", "FS_IGNORE_HL"})
       \subseteq InState(h, {"FS_CACHE_DONE", "FS_IGNORE_HL"})

\* What states the files have after that.
LEMMA SortedStatesAre ==
  ASSUME NEW F, IsFiniteSet(F), NEW h \in PathListType(F), NEW D, Skimmable(h, D),
         NEW A, A \subseteq D, NEW P, NEW r, SortedOut(F, h, D, A, P, r)
  PROVE  SortedStates(h, D, A, r)
  <1>1. D \subseteq F
    <2>1. DOMAIN h.entry = F
      BY Zenon DEF PathListType
    <2> QED BY <2>1 DEF Skimmable, Remaining, InState
  <1>2. PICK g : g = Retire(h, A, "FS_UNIQUE")
    OBVIOUS
  <1>3. g \in PathListType(F) /\ g.entry = Retired(h.entry, A, "FS_UNIQUE")
    BY <1>1, <1>2, RetireIs DEF FileStates
  <1>4. r.entry = Retired(g.entry, D \ A, "FS_DONE")
    BY <1>3 DEF SortedOut
  <1>5. PICK st, T : st = "FS_DONE" /\ T = D \ A
    OBVIOUS
  <1>6. PICK su : su = "FS_UNIQUE"
    OBVIOUS
  <1>7. st \in FileStates /\ su \in FileStates /\ T \subseteq F /\ A \subseteq F
    BY <1>1, <1>5, <1>6 DEF FileStates
  <1>8. ASSUME NEW S
        PROVE  InState(r, S) = IF st \in S THEN InState(g, S) \cup T ELSE InState(g, S) \ T
    <2>1. r.entry = Retired(g.entry, T, st)
      BY <1>4, <1>5
    <2> QED BY <1>3, <1>7, <2>1, InStateAfter
  <1>9. ASSUME NEW S
        PROVE  InState(g, S) = IF su \in S THEN InState(h, S) \cup A ELSE InState(h, S) \ A
    BY <1>3, <1>6, <1>7, InStateAfter
  <1>10. /\ D = Remaining(h) /\ Active(h) \subseteq D /\ ReadyFiles(h) \subseteq D
         /\ InState(h, {"FS_DONE"}) = {}
         /\ InState(h, {"FS_UNIQUE"}) \cap D = {} /\ InState(h, {"FS_IGNORE"}) \cap D = {}
    BY DEF Skimmable, Remaining, Active, ReadyFiles, InState
  <1>11. InState(r, {"FS_DONE"}) = D \ A
    <2>1. st \in {"FS_DONE"} /\ su \notin {"FS_DONE"}
      BY <1>5, <1>6
    <2> QED BY <2>1, <1>5, <1>8, <1>9, <1>10
  <1>12. InState(r, {"FS_UNIQUE"}) = InState(h, {"FS_UNIQUE"}) \cup A
    <2>1. st \notin {"FS_UNIQUE"} /\ su \in {"FS_UNIQUE"}
      BY <1>5, <1>6
    <2>2. InState(r, {"FS_UNIQUE"}) = (InState(h, {"FS_UNIQUE"}) \cup A) \ T
      BY <2>1, <1>8, <1>9
    <2> QED BY <2>2, <1>5, <1>10
  <1>13. ASSUME NEW S, st \notin S, su \notin S PROVE InState(r, S) = InState(h, S) \ D
    <2>1. InState(r, S) = (InState(h, S) \ A) \ T
      BY <1>8, <1>9, <1>13
    <2> QED BY <2>1, <1>5
  <1>14. InState(r, {"FS_IGNORE"}) = InState(h, {"FS_IGNORE"})
    <2>1. st \notin {"FS_IGNORE"} /\ su \notin {"FS_IGNORE"}
      BY <1>5, <1>6
    <2> QED BY <2>1, <1>10, <1>13
  <1>15. Active(r) = {} /\ ReadyFiles(r) = {}
    <2>1. /\ st \notin {"FS_NEED_DATA", "FS_BUFFER_READY"} /\ st \notin {"FS_BUFFER_READY"}
          /\ su \notin {"FS_NEED_DATA", "FS_BUFFER_READY"} /\ su \notin {"FS_BUFFER_READY"}
      BY <1>5, <1>6
    <2>2. Active(r) = Active(h) \ D
      BY <2>1, <1>13 DEF Active
    <2>3. ReadyFiles(r) = ReadyFiles(h) \ D
      BY <2>1, <1>13 DEF ReadyFiles
    <2> QED BY <2>2, <2>3, <1>10
  <1>16. InState(r, {"FS_CACHE_DONE", "FS_IGNORE_HL"})
           \subseteq InState(h, {"FS_CACHE_DONE", "FS_IGNORE_HL"})
    <2>1. st \notin {"FS_CACHE_DONE", "FS_IGNORE_HL"} /\ su \notin {"FS_CACHE_DONE", "FS_IGNORE_HL"}
      BY <1>5, <1>6
    <2>2. InState(r, {"FS_CACHE_DONE", "FS_IGNORE_HL"})
            = InState(h, {"FS_CACHE_DONE", "FS_IGNORE_HL"}) \ D
      BY <2>1, <1>13
    <2> QED BY <2>2
  <1> QED BY <1>11, <1>12, <1>14, <1>15, <1>16 DEF SortedStates

\* Files that are retired hold nothing.
LEMMA RetiredReleases ==
  ASSUME NEW F, NEW h \in PathListType(F), Released(h), NEW T, T \subseteq F,
         NEW st \in FinalStates,
         NEW r, r.entry = Retired(h.entry, T, st)
  PROVE  Released(r)
  <1>1. DOMAIN h.entry = F /\ h.entry \in [F -> EntryType]
    BY Zenon DEF PathListType
  <1>2. PICK en, new : en = h.entry /\ new = Retired(en, T, st)
    OBVIOUS
  <1>3. /\ new \in [F -> EntryType]
        /\ \A f \in T : new[f].bufsize = 0 /\ ~new[f].fd
        /\ \A f \in F \ T : new[f] = en[f]
    BY <1>1, <1>2, RetiredIs DEF FileStates, FinalStates
  <1>4. Active(r) = Active(h) \ T
    <2>1. Leave(h, T, r)
      BY RetiredLeave
    <2> QED BY <2>1 DEF Leave
  <1>5. DOMAIN r.entry = F
    BY <1>2, <1>3
  <1> SUFFICES ASSUME NEW f \in F \ (Active(h) \ T)
               PROVE  r.entry[f].bufsize = 0 /\ ~r.entry[f].fd
    BY <1>4, <1>5 DEF Released
  <1>6. CASE f \in T
    BY <1>2, <1>3, <1>6
  <1>7. CASE f \notin T
    BY <1>1, <1>2, <1>3, <1>7 DEF Released
  <1> QED BY <1>6, <1>7

-----------------------------------------------------------------------------
(* What holds of a set, with files of contents c and blocks bl, between any
   two of its operations, and what its operations may do. *)

Steady(F, h, c, bl) ==
  /\ h \in PathListType(F) /\ Counted(h) /\ Settled(h) /\ ReadSoFar(h, c, bl)
  /\ Tallied(h) /\ Released(h)

(* A final state is final.  A file is ignored if it may be unreadable (if it
   is in U), found unique if all its equals are ignored, and published with
   all its equals but those. *)
Judges(h, r, c, U) ==
  /\ \A st \in FinalStates : InState(h, {st}) \subseteq InState(r, {st})
  /\ h.published \subseteq r.published
  /\ InState(r, {"FS_IGNORE"}) \ InState(h, {"FS_IGNORE"}) \subseteq U
  /\ \A f \in InState(r, {"FS_UNIQUE"}) \ InState(h, {"FS_UNIQUE"}) :
       \A g \in DOMAIN h.entry \ {f} : c[g] = c[f] => g \in InState(r, {"FS_IGNORE"})
  /\ InState(r, {"FS_DONE"}) \ InState(h, {"FS_DONE"})
       \subseteq UNION (r.published \ h.published)
  /\ \A p \in r.published \ h.published :
       /\ Cardinality(p) > 1
       /\ p \subseteq InState(r, {"FS_DONE"}) \ InState(h, {"FS_DONE"})
       /\ \A f, g \in p : c[f] = c[g]
       /\ \A f \in p, g \in DOMAIN h.entry \ p :
            c[g] = c[f] => g \in InState(r, {"FS_IGNORE"})

\* What the verdicts are made of.
SameVerdicts(h, r) ==
  /\ DOMAIN r.entry = DOMAIN h.entry /\ r.published = h.published
  /\ \A st \in FinalStates : InState(r, {st}) = InState(h, {st})

\* Verdicts that were the same before are judged the same,
LEMMA JudgesFromSame ==
  ASSUME NEW h, NEW g, SameVerdicts(h, g), NEW r, NEW c, NEW U, Judges(g, r, c, U)
  PROVE  Judges(h, r, c, U)
  <1>1. /\ DOMAIN g.entry = DOMAIN h.entry /\ g.published = h.published
        /\ \A st \in FinalStates : InState(g, {st}) = InState(h, {st})
    BY DEF SameVerdicts
  <1>2. /\ InState(g, {"FS_DONE"}) = InState(h, {"FS_DONE"})
        /\ InState(g, {"FS_UNIQUE"}) = InState(h, {"FS_UNIQUE"})
        /\ InState(g, {"FS_IGNORE"}) = InState(h, {"FS_IGNORE"})
    BY <1>1 DEF FinalStates
  <1> QED BY <1>1, <1>2, Zenon DEF Judges

\* and none that changes is none that is wrong.
LEMMA SameIsJudged ==
  ASSUME NEW h, NEW r, SameVerdicts(h, r), NEW c, NEW U
  PROVE  Judges(h, r, c, U)
  <1>1. /\ r.published = h.published
        /\ \A st \in FinalStates : InState(r, {st}) = InState(h, {st})
    BY DEF SameVerdicts
  <1>2. /\ InState(r, {"FS_DONE"}) = InState(h, {"FS_DONE"})
        /\ InState(r, {"FS_UNIQUE"}) = InState(h, {"FS_UNIQUE"})
        /\ InState(r, {"FS_IGNORE"}) = InState(h, {"FS_IGNORE"})
    BY <1>1 DEF FinalStates
  <1> QED BY <1>1, <1>2 DEF Judges

(* The hashes tell which files are equal: those of equal files are equal, and
   only those, unless no two are. *)
Tells(hash, D, A, c) ==
  /\ \A f, g \in D : c[f] = c[g] => hash[f] = hash[g]
  /\ A = D \/ \A f, g \in D : hash[f] = hash[g] => c[f] = c[g]

\* All equals of the files D are among them, but for those that were ignored.
Closed(h, D, c) ==
  \A f \in D, g \in DOMAIN h.entry : c[g] = c[f] => g \in D \cup InState(h, {"FS_IGNORE"})

\* Sorting files out by hashes that tell them apart judges them rightly.
LEMMA SortedJudges ==
  ASSUME NEW F, IsFiniteSet(F), NEW h \in PathListType(F), NEW D, Skimmable(h, D),
         Settled(h), NEW c, Closed(h, D, c),
         NEW hash, NEW A, NEW P, GroupedBy(hash, D, A, P), Tells(hash, D, A, c),
         NEW r, SortedOut(F, h, D, A, P, r), NEW U
  PROVE  Judges(h, r, c, U)
  <1>1. A \subseteq D /\ UNION P = D \ A
    BY DEF GroupedBy
  <1>2. SortedStates(h, D, A, r)
    BY <1>1, SortedStatesAre
  <1>3. /\ InState(r, {"FS_DONE"}) = D \ A /\ InState(r, {"FS_IGNORE"}) = InState(h, {"FS_IGNORE"})
        /\ InState(r, {"FS_UNIQUE"}) = InState(h, {"FS_UNIQUE"}) \cup A
    BY <1>2 DEF SortedStates
  <1>4. InState(h, {"FS_DONE"}) = {}
    BY DEF Skimmable
  <1>5. r.published = h.published \cup P /\ UNION h.published = {}
    BY <1>4 DEF SortedOut, Settled
  <1>6. \A p \in P : Cardinality(p) > 1 /\ p # {}
    <2> SUFFICES ASSUME NEW p \in P PROVE Cardinality(p) > 1 /\ p # {}
      OBVIOUS
    <2>1. Cardinality(p) > 1
      BY DEF GroupedBy
    <2>2. Cardinality({}) = 0
      BY FS_EmptySet
    <2> QED BY <2>1, <2>2
  <1>7. r.published \ h.published = P
    BY <1>5, <1>6
  <1>8. ASSUME NEW st \in FinalStates PROVE InState(h, {st}) \subseteq InState(r, {st})
    <2>1. st = "FS_DONE" \/ st = "FS_UNIQUE" \/ st = "FS_IGNORE"
      BY DEF FinalStates
    <2> QED BY <1>3, <1>4, <2>1
  <1>9. ASSUME NEW f \in A, NEW g \in DOMAIN h.entry \ {f}, c[g] = c[f]
        PROVE  g \in InState(r, {"FS_IGNORE"})
    <2>1. CASE g \in D
      <3>1. hash[g] = hash[f]
        BY <1>1, <1>9, <2>1 DEF Tells
      <3> QED BY <2>1, <3>1 DEF GroupedBy
    <2>2. CASE g \notin D
      BY <1>1, <1>3, <1>9, <2>2 DEF Closed
    <2> QED BY <2>1, <2>2
  <1>10. ASSUME NEW p \in P
         PROVE  /\ p \subseteq D \ A
                /\ \A f, g \in p : c[f] = c[g]
                /\ \A f \in p, g \in DOMAIN h.entry \ p :
                     c[g] = c[f] => g \in InState(r, {"FS_IGNORE"})
    <2>1. p \subseteq D \ A /\ p # {}
      BY <1>1, <1>6
    <2>2. ASSUME NEW f \in p, NEW g \in p PROVE c[f] = c[g]
      <3>1. hash[f] = hash[g]
        BY DEF GroupedBy
      <3>2. A # D
        BY <2>1
      <3> QED BY <2>1, <3>1, <3>2 DEF Tells
    <2>3. ASSUME NEW f \in p, NEW g \in DOMAIN h.entry \ p, c[g] = c[f]
          PROVE  g \in InState(r, {"FS_IGNORE"})
      <3>1. CASE g \in D
        <4>1. hash[g] = hash[f]
          BY <2>1, <2>3, <3>1 DEF Tells
        <4> QED BY <2>3, <3>1, <4>1 DEF GroupedBy
      <3>2. CASE g \notin D
        BY <1>3, <2>1, <2>3, <3>2 DEF Closed
      <3> QED BY <3>1, <3>2
    <2> QED BY <2>1, <2>2, <2>3
  <1>11. /\ h.published \subseteq r.published
         /\ InState(r, {"FS_IGNORE"}) \ InState(h, {"FS_IGNORE"}) \subseteq U
         /\ InState(r, {"FS_DONE"}) \ InState(h, {"FS_DONE"}) = D \ A
         /\ InState(r, {"FS_UNIQUE"}) \ InState(h, {"FS_UNIQUE"}) \subseteq A
    BY <1>3, <1>4, <1>5
  <1> QED BY <1>1, <1>6, <1>7, <1>8, <1>9, <1>10, <1>11 DEF Judges

\* A set of which the files were sorted out.
LEMMA SortedSteady ==
  ASSUME NEW F, IsFiniteSet(F), NEW h \in PathListType(F), NEW D, Skimmable(h, D),
         InState(h, {"FS_CACHE_DONE", "FS_IGNORE_HL"}) = {}, h.state # "PLS_DONE",
         Settled(h), Tallied(h), Released(h),
         NEW hash, NEW A, NEW P, GroupedBy(hash, D, A, P),
         NEW r, SortedOut(F, h, D, A, P, r), NEW c, NEW bl
  PROVE  Steady(F, r, c, bl)
  <1>1. A \subseteq D /\ UNION P = D \ A
    BY DEF GroupedBy
  <1>2. SortedStates(h, D, A, r)
    BY <1>1, SortedStatesAre
  <1>3. /\ InState(r, {"FS_DONE"}) = D \ A /\ InState(r, {"FS_IGNORE"}) = InState(h, {"FS_IGNORE"})
        /\ InState(r, {"FS_UNIQUE"}) = InState(h, {"FS_UNIQUE"}) \cup A
        /\ Active(r) = {} /\ ReadyFiles(r) = {}
        /\ InState(r, {"FS_CACHE_DONE", "FS_IGNORE_HL"}) = {}
    BY <1>2 DEF SortedStates
  <1>4. /\ InState(h, {"FS_DONE"}) = {} /\ InState(h, {"FS_UNIQUE"}) \cap D = {}
        /\ D \subseteq F /\ InState(h, {"FS_UNIQUE"}) \subseteq F
    <2>1. DOMAIN h.entry = F
      BY Zenon DEF PathListType
    <2> QED BY <2>1 DEF Skimmable, InState, Remaining
  <1>5. /\ r \in PathListType(F) /\ r.state = "PLS_DONE" /\ r.published = h.published \cup P
        /\ r.unique = h.unique + Cardinality(A) /\ r.dups = h.dups + Cardinality(D \ A)
        /\ r.processed = h.processed + 1
        /\ r.entry = Retired(Retired(h.entry, A, "FS_UNIQUE"), D \ A, "FS_DONE")
    BY DEF SortedOut
  <1>6. Counted(r)
    BY <1>3, <1>5 DEF Counted
  <1>7. Settled(r)
    BY <1>1, <1>3, <1>4, <1>5 DEF Settled
  <1>8. ReadSoFar(r, c, bl)
    BY <1>3 DEF ReadSoFar
  <1>9. Tallied(r)
    <2>1. /\ h.dups = Cardinality(InState(h, {"FS_DONE"}))
          /\ h.unique = Cardinality(InState(h, {"FS_UNIQUE"}))
          /\ h.processed = 0
      BY DEF Tallied
    <2>2. IsFiniteSet(A) /\ IsFiniteSet(InState(h, {"FS_UNIQUE"})) /\ IsFiniteSet(D \ A)
      BY <1>1, <1>4, FS_Subset
    <2>3. /\ Cardinality(A) \in Nat /\ Cardinality(D \ A) \in Nat
          /\ Cardinality(InState(h, {"FS_UNIQUE"})) \in Nat
      BY <2>2, FS_CardinalityType
    <2>4. Cardinality(InState(h, {"FS_UNIQUE"}) \cup A) =
            Cardinality(InState(h, {"FS_UNIQUE"})) + Cardinality(A)
      <3>1. InState(h, {"FS_UNIQUE"}) \cap A = {}
        BY <1>1, <1>4
      <3>2. Cardinality(InState(h, {"FS_UNIQUE"}) \cup A) =
              Cardinality(InState(h, {"FS_UNIQUE"})) + Cardinality(A)
                - Cardinality(InState(h, {"FS_UNIQUE"}) \cap A)
        BY <2>2, FS_Union
      <3>3. Cardinality(InState(h, {"FS_UNIQUE"}) \cap A) = 0
        BY <3>1, FS_EmptySet
      <3> QED BY <2>3, <3>2, <3>3
    <2>5. r.unique = Cardinality(InState(r, {"FS_UNIQUE"}))
      BY <1>3, <1>5, <2>1, <2>4
    <2>6. r.dups = Cardinality(InState(r, {"FS_DONE"}))
      <3>1. Cardinality({}) = 0
        BY FS_EmptySet
      <3> QED BY <1>3, <1>4, <1>5, <2>1, <2>3, <3>1
    <2>7. r.processed = 1
      BY <1>5, <2>1
    <2> QED BY <1>5, <2>5, <2>6, <2>7 DEF Tallied
  <1>10. Released(r)
    <2>1. PICK g : g = Retire(h, A, "FS_UNIQUE")
      OBVIOUS
    <2>2. g \in PathListType(F) /\ g.entry = Retired(h.entry, A, "FS_UNIQUE")
      BY <1>1, <1>4, <2>1, RetireIs DEF FileStates
    <2>3. PICK st, su, T : st = "FS_DONE" /\ su = "FS_UNIQUE" /\ T = D \ A
      OBVIOUS
    <2>4. st \in FinalStates /\ su \in FinalStates /\ T \subseteq F /\ A \subseteq F
      BY <1>1, <1>4, <2>3 DEF FinalStates
    <2>5. r.entry = Retired(g.entry, T, st) /\ g.entry = Retired(h.entry, A, su)
      BY <1>5, <2>2, <2>3
    <2>6. Released(g)
      BY <2>4, <2>5, RetiredReleases
    <2> QED BY <2>2, <2>4, <2>5, <2>6, RetiredReleases
  <1> QED BY <1>5, <1>6, <1>7, <1>8, <1>9, <1>10 DEF Steady

-----------------------------------------------------------------------------
(* The flusher. *)

\* Entries that hold what they held.
LEMMA RewrittenUnaccounted ==
  ASSUME NEW F, NEW h, DOMAIN h.entry = F, NEW g, DOMAIN g.entry = F,
         \A f \in F : g.entry[f].bufsize = h.entry[f].bufsize /\ g.entry[f].fd = h.entry[f].fd,
         g.allocated = h.allocated, g.open = h.open
  PROVE  Unaccounted(g) = Unaccounted(h)
  <1>1. Bufsizes(g) = Bufsizes(h)
    BY Zenon DEF Bufsizes
  <1>2. Opened(g, F) = Opened(h, F)
    BY Zenon DEF Opened
  <1> QED BY <1>1, <1>2, Zenon DEF Unaccounted

(* The files still compared need data again. *)
Renewed(h, D, g) ==
  /\ DOMAIN g.entry = DOMAIN h.entry
  /\ \A f \in D : g.entry[f].state = "FS_NEED_DATA"
  /\ \A f \in DOMAIN h.entry \ D : g.entry[f] = h.entry[f]
  /\ g.state # "PLS_DONE" /\ g.list_size = h.list_size /\ g.published = h.published
  /\ g.dups = h.dups /\ g.unique = h.unique /\ g.processed = h.processed

\* A set with its buffers hashed can be skimmed, with verdicts as before.
LEMMA RenewedIs ==
  ASSUME NEW F, NEW h \in PathListType(F), Counted(h), Settled(h), Tallied(h), Released(h),
         h.state # "PLS_DONE", NEW D, D = Active(h), NEW g, Renewed(h, D, g)
  PROVE  /\ Skimmable(g, D) /\ SameVerdicts(h, g)
         /\ InState(g, {"FS_CACHE_DONE", "FS_IGNORE_HL"}) = {}
         /\ Settled(g) /\ Tallied(g) /\ Released(g)
  <1>1. /\ DOMAIN g.entry = F /\ DOMAIN h.entry = F /\ D \subseteq F
        /\ \A f \in D : g.entry[f].state = "FS_NEED_DATA"
        /\ \A f \in F \ D : g.entry[f] = h.entry[f]
        /\ \A f \in F : h.entry[f].state \in FileStates
        /\ \A f \in F : f \in D <=> h.entry[f].state \in {"FS_NEED_DATA", "FS_BUFFER_READY"}
    <2>1. DOMAIN h.entry = F /\ h.entry \in [F -> EntryType]
      BY Zenon DEF PathListType
    <2>2. \A f \in F : h.entry[f].state \in FileStates
      BY <2>1 DEF EntryType
    <2> QED BY <2>1, <2>2 DEF Renewed, Active, InState
  <1>2. ASSUME NEW S, "FS_NEED_DATA" \notin S, "FS_BUFFER_READY" \notin S
        PROVE  InState(g, S) = InState(h, S)
    BY <1>1, <1>2 DEF InState
  <1>3. /\ InState(g, {"FS_DONE"}) = InState(h, {"FS_DONE"})
        /\ InState(g, {"FS_UNIQUE"}) = InState(h, {"FS_UNIQUE"})
        /\ InState(g, {"FS_IGNORE"}) = InState(h, {"FS_IGNORE"})
        /\ InState(g, {"FS_CACHE_DONE", "FS_IGNORE_HL"})
             = InState(h, {"FS_CACHE_DONE", "FS_IGNORE_HL"})
    BY <1>2
  <1>4. /\ InState(h, {"FS_CACHE_DONE", "FS_IGNORE_HL"}) = {} /\ InState(h, {"FS_DONE"}) = {}
        /\ h.list_size = Cardinality(D) /\ h.list_size > 1
    BY DEF Counted
  <1>5. Remaining(g) = D /\ Active(g) = D
    <2>1. \A f \in F : h.entry[f].state \notin {"FS_CACHE_DONE", "FS_IGNORE_HL"}
      BY <1>1, <1>4 DEF InState
    <2>2. \A f \in F : g.entry[f].state \in {"FS_NEED_DATA", "FS_BUFFER_READY", "FS_CACHE_DONE"}
                         <=> f \in D
      BY <1>1, <2>1
    <2>3. \A f \in F : g.entry[f].state \in {"FS_NEED_DATA", "FS_BUFFER_READY"} <=> f \in D
      BY <1>1, <2>1
    <2> QED BY <1>1, <2>2, <2>3 DEF Remaining, Active, InState
  <1>6. Skimmable(g, D)
    BY <1>1, <1>3, <1>4, <1>5 DEF Skimmable, Renewed
  <1>7. SameVerdicts(h, g)
    <2>1. \A st \in FinalStates : InState(g, {st}) = InState(h, {st})
      BY <1>3 DEF FinalStates
    <2> QED BY <1>1, <2>1 DEF SameVerdicts, Renewed
  <1>8. Settled(g)
    BY <1>3 DEF Settled, Renewed
  <1>9. Tallied(g)
    BY <1>3 DEF Tallied, Renewed
  <1>10. Released(g)
    BY <1>1, <1>5 DEF Released
  <1> QED BY <1>3, <1>4, <1>6, <1>7, <1>8, <1>9, <1>10

NeedsData(e) == [e EXCEPT !.state = "FS_NEED_DATA"]

\* size_list_flusher() at a set of which no file fails to be read.
LEMMA FlusherKeeps ==
  ASSUME NEW F, IsFiniteSet(F), NEW h, NEW c, NEW bl, Steady(F, h, c, bl),
         h.state # "PLS_DONE", NEW r, r = flusher_visit(h, c, {}), NEW U
  PROVE  /\ Steady(F, r, c, bl) /\ Judges(h, r, c, U) /\ Unaccounted(r) = Unaccounted(h)
         /\ r.exited = h.exited /\ r.state = "PLS_DONE"
  <1> DEFINE D == Active(h)
             en == [f \in F |-> IF f \in D THEN NeedsData(h.entry[f]) ELSE h.entry[f]]
             g == [h EXCEPT !.entry = en]
             hash == [f \in D |-> c[f]]
             A == Alone(hash)
             P == Shared(hash)
  <1>1. /\ h \in PathListType(F) /\ Counted(h) /\ Settled(h) /\ ReadSoFar(h, c, bl)
        /\ Tallied(h) /\ Released(h)
    BY DEF Steady
  <1>2. DOMAIN h.entry = F /\ h.entry \in [F -> EntryType]
    BY <1>1, Zenon DEF PathListType
  <1>3. D \subseteq F /\ IsFiniteSet(D)
    <2>1. D \subseteq F
      BY <1>2 DEF Active, InState
    <2> QED BY <2>1, FS_Subset
  <1>4. ASSUME NEW f \in F
        PROVE  /\ NeedsData(h.entry[f]) \in EntryType
               /\ NeedsData(h.entry[f]).state = "FS_NEED_DATA"
               /\ NeedsData(h.entry[f]).bufsize = h.entry[f].bufsize
               /\ NeedsData(h.entry[f]).fd = h.entry[f].fd
    <2>1. PICK e \in EntryType : e = h.entry[f]
      BY <1>2
    <2>2. NeedsData(e) \in EntryType
      <3>1. "FS_NEED_DATA" \in FileStates
        BY DEF FileStates
      <3> QED BY <3>1, Zenon DEF NeedsData, EntryType
    <2>3. /\ NeedsData(e).state = "FS_NEED_DATA" /\ NeedsData(e).bufsize = e.bufsize
          /\ NeedsData(e).fd = e.fd
      BY DEF NeedsData, EntryType
    <2> QED BY <2>1, <2>2, <2>3
  <1>5. /\ en \in [F -> EntryType]
        /\ \A f \in D : en[f].state = "FS_NEED_DATA"
        /\ \A f \in F \ D : en[f] = h.entry[f]
        /\ \A f \in F : en[f].bufsize = h.entry[f].bufsize /\ en[f].fd = h.entry[f].fd
    BY <1>2, <1>3, <1>4
  <1> HIDE DEF en
  <1>6. /\ g \in PathListType(F)
        /\ g.entry = en /\ g.state = h.state /\ g.list_size = h.list_size
        /\ g.published = h.published /\ g.dups = h.dups /\ g.unique = h.unique
        /\ g.processed = h.processed /\ g.allocated = h.allocated /\ g.open = h.open
        /\ g.exited = h.exited
    <2>1. g \in PathListType(F)
      BY <1>1, <1>5, Zenon DEF PathListType
    <2>2. /\ g.entry = en /\ g.state = h.state /\ g.list_size = h.list_size
          /\ g.published = h.published /\ g.dups = h.dups /\ g.unique = h.unique
          /\ g.processed = h.processed /\ g.allocated = h.allocated /\ g.open = h.open
          /\ g.exited = h.exited
      BY <1>1 DEF PathListType
    <2> QED BY <2>1, <2>2
  <1> HIDE DEF D
  <1>7. r = SortOut(g, Groups(hash))
    <2>1. ~(InState(h, {"FS_DONE"}) # {})
      BY <1>1 DEF Counted
    <2>2. D \ {} = D
      OBVIOUS
    <2>3. g = [h EXCEPT !.entry = [f \in DOMAIN @ |->
                    IF f \in D THEN [@[f] EXCEPT !.state = "FS_NEED_DATA"] ELSE @[f]]]
      BY <1>2 DEF en, NeedsData
    <2> HIDE DEF g
    <2> QED BY <2>1, <2>2, <2>3, Zenon DEF flusher_visit, SortOut, SetFinished, D
  <1> HIDE DEF g
  <1>8. Renewed(h, D, g)
    BY <1>2, <1>5, <1>6 DEF Renewed
  <1>9. /\ Skimmable(g, D) /\ SameVerdicts(h, g)
        /\ InState(g, {"FS_CACHE_DONE", "FS_IGNORE_HL"}) = {}
        /\ Settled(g) /\ Tallied(g) /\ Released(g)
    BY <1>1, <1>8, RenewedIs DEF D
  <1>10. Unaccounted(g) = Unaccounted(h)
    <2>1. DOMAIN g.entry = F
      BY <1>5, <1>6
    <2> QED BY <1>2, <1>5, <1>6, <2>1, RewrittenUnaccounted
  <1>11. D = DOMAIN hash /\ \A f \in D : hash[f] = c[f]
    OBVIOUS
  <1> HIDE DEF hash, A, P
  <1>12. SortedOut(F, g, D, A, P, r) /\ GroupedBy(hash, D, A, P)
    BY <1>6, <1>7, <1>9, <1>11, SortOutIs DEF A, P
  <1>13. Tells(hash, D, A, c)
    BY <1>11 DEF Tells
  <1>14. Closed(g, D, c)
    <2>1. \A f \in D, k \in DOMAIN h.entry : c[k] = c[f] => k \in D \cup InState(h, {"FS_IGNORE"})
      BY <1>1 DEF ReadSoFar, D
    <2>2. DOMAIN g.entry = DOMAIN h.entry /\ InState(g, {"FS_IGNORE"}) = InState(h, {"FS_IGNORE"})
      BY <1>9 DEF SameVerdicts, FinalStates
    <2> QED BY <2>1, <2>2, Zenon DEF Closed
  <1>15. Judges(g, r, c, U)
    BY <1>6, <1>9, <1>12, <1>13, <1>14, SortedJudges
  <1>16. Judges(h, r, c, U)
    BY <1>9, <1>15, JudgesFromSame
  <1>17. g.state # "PLS_DONE"
    BY <1>6
  <1>18. Steady(F, r, c, bl)
    BY <1>6, <1>9, <1>12, <1>17, SortedSteady
  <1> QED BY <1>6, <1>10, <1>12, <1>16, <1>18 DEF SortedOut

-----------------------------------------------------------------------------
(* A pass of a hasher. *)

\* Two buffers that go on from the same place have equally much in them.
LEMMA SameAmount ==
  ASSUME NEW w \in Nat, NEW L \in Nat, NEW a \in Nat,
         NEW b \in Nat, NEW m \in Nat, a + b = m, b <= w, m <= L, b = w \/ m = L,
         NEW d \in Nat, NEW n \in Nat, a + d = n, d <= w, n <= L, d = w \/ n = L
  PROVE  b = d /\ m = n
  OBVIOUS

\* The first n bytes have the length n, and all bytes are the whole.
LEMMA WholeIsFirst ==
  ASSUME NEW c \in Seq(Nat)
  PROVE  First(c, Len(c)) = c
  BY SubSeqFull DEF First

\* What is known of a file that is to be hashed.
ReadyEntry(e, c, w, bl) ==
  /\ Data(e, c, w) /\ AtBlock(e, bl) /\ Ready(e, c, w)
  /\ Len(e.hashed) \in Nat /\ Len(e.buffer) \in Nat /\ e.next_read_byte \in Nat
  /\ Len(e.hashed) + Len(e.buffer) = e.next_read_byte
  /\ Len(e.buffer) <= w /\ e.next_read_byte <= Len(c)
  /\ Len(e.buffer) = w \/ e.next_read_byte = Len(c)
  /\ e.data_in_buffer = Len(e.buffer)

\* A file with a full buffer holds the bytes after those hashed.
LEMMA ReadyEntryIs ==
  ASSUME NEW c \in Seq(Nat), NEW w \in Nat, NEW bl, NEW e, EntrySound(e, c, w, bl),
         e.state = "FS_BUFFER_READY"
  PROVE  ReadyEntry(e, c, w, bl)
  <1>1. Data(e, c, w) /\ AtBlock(e, bl) /\ Ready(e, c, w)
    BY DEF EntrySound
  <1>2. /\ e.hashed \in Seq(Nat) /\ e.buffer \in Seq(Nat) /\ e.next_read_byte \in Nat
        /\ e.next_read_byte <= Len(c) /\ IsPrefixOf(e.hashed, e.buffer, c, e.next_read_byte)
        /\ Len(e.buffer) <= e.bufsize
    BY <1>1 DEF Data, EntryType
  <1>3. Len(e.hashed) + Len(e.buffer) = e.next_read_byte
    <2>1. PICK n \in Nat, x \in Seq(Nat), b \in Seq(Nat) :
               n = e.next_read_byte /\ x = e.hashed /\ b = e.buffer
      BY <1>2
    <2>2. n <= Len(c) /\ IsPrefixOf(x, b, c, n)
      BY <1>2, <2>1
    <2>3. Len(x) + Len(b) = n
      BY <2>2, LengthsAddUp
    <2> QED BY <2>1, <2>3
  <1>4. Len(e.hashed) \in Nat /\ Len(e.buffer) \in Nat
    BY <1>2, LenProperties
  <1> QED BY <1>1, <1>2, <1>3, <1>4 DEF ReadyEntry, Ready

EqualSize(F, c, size) == \A f \in F : c[f] \in Seq(Nat) /\ Len(c[f]) = size

Aligned(h, D, c, bl, size) ==
  /\ \A f \in D : ReadyEntry(h.entry[f], c[f], h.wanted_bufsize, bl[f])
  /\ \A f, g \in D : /\ h.entry[f].data_in_buffer = h.entry[g].data_in_buffer
                      /\ h.entry[f].next_read_byte = h.entry[g].next_read_byte
  /\ h.fully_read => \A f \in D : h.entry[f].next_read_byte = Len(c[f])
  /\ ~h.fully_read => \A f \in D : /\ h.entry[f].next_read_byte < Len(c[f])
                                   /\ h.wanted_bufsize < size

(* The files of a set that is ready are read equally far, and if that is known
   to be to the end, they all are. *)
LEMMA PassAligned ==
  ASSUME NEW F, NEW h \in PathListType(F), NEW c, NEW bl, NEW size \in Nat,
         EqualSize(F, c, size), ReadSoFar(h, c, bl), NEW D, D = Active(h), D = ReadyFiles(h)
  PROVE  Aligned(h, D, c, bl, size)
  <1> USE DEF EqualSize
  <1> DEFINE w == h.wanted_bufsize
  <1>1. w \in Nat /\ D \subseteq F
    <2>1. w \in Nat /\ DOMAIN h.entry = F
      BY Zenon DEF PathListType
    <2> QED BY <2>1 DEF Active, InState
  <1>2. /\ \A f \in D : EntrySound(h.entry[f], c[f], w, bl[f])
        /\ \A f \in D : h.entry[f].state = "FS_BUFFER_READY"
        /\ \A f, g \in D : Len(h.entry[f].hashed) = Len(h.entry[g].hashed)
        /\ h.fully_read => \A f \in D : Len(c[f]) - Len(h.entry[f].hashed) <= w
        /\ ~h.fully_read => \A f \in D : h.entry[f].next_read_byte < Len(c[f])
    BY DEF ReadSoFar, ReadyFiles, InState
  <1> HIDE DEF w
  <1>3. ASSUME NEW f \in D PROVE ReadyEntry(h.entry[f], c[f], w, bl[f])
    BY <1>1, <1>2, ReadyEntryIs
  <1>4. ASSUME NEW f \in D, NEW g \in D
        PROVE  /\ h.entry[f].data_in_buffer = h.entry[g].data_in_buffer
               /\ h.entry[f].next_read_byte = h.entry[g].next_read_byte
    <2>1. PICK e, k : e = h.entry[f] /\ k = h.entry[g]
      OBVIOUS
    <2>2. ReadyEntry(e, c[f], w, bl[f]) /\ ReadyEntry(k, c[g], w, bl[g])
      BY <1>3, <2>1
    <2>3. Len(e.hashed) = Len(k.hashed) /\ Len(c[f]) = size /\ Len(c[g]) = size
      BY <1>1, <1>2, <2>1
    <2>4. Len(e.buffer) = Len(k.buffer) /\ e.next_read_byte = k.next_read_byte
      <3>1. PICK a \in Nat, b \in Nat, d \in Nat, m \in Nat, n \in Nat :
                 /\ a = Len(e.hashed) /\ b = Len(e.buffer) /\ d = Len(k.buffer)
                 /\ m = e.next_read_byte /\ n = k.next_read_byte
        BY <2>2 DEF ReadyEntry
      <3>2. /\ a + b = m /\ b <= w /\ m <= size /\ (b = w \/ m = size)
            /\ a + d = n /\ d <= w /\ n <= size /\ (d = w \/ n = size)
        BY <2>2, <2>3, <3>1 DEF ReadyEntry
      <3>3. b = d /\ m = n
        BY <1>1, <3>2, SameAmount
      <3> QED BY <3>1, <3>3
    <2> QED BY <2>1, <2>2, <2>4 DEF ReadyEntry
  <1>5. ASSUME h.fully_read, NEW f \in D PROVE h.entry[f].next_read_byte = Len(c[f])
    <2>1. PICK e : e = h.entry[f]
      OBVIOUS
    <2>2. ReadyEntry(e, c[f], w, bl[f]) /\ Len(c[f]) - Len(e.hashed) <= w /\ Len(c[f]) = size
      BY <1>1, <1>2, <1>3, <1>5, <2>1
    <2>3. PICK a \in Nat, b \in Nat, m \in Nat :
               a = Len(e.hashed) /\ b = Len(e.buffer) /\ m = e.next_read_byte
      BY <2>2 DEF ReadyEntry
    <2>4. a + b = m /\ b <= w /\ m <= size /\ (b = w \/ m = size) /\ size - a <= w
      BY <2>2, <2>3 DEF ReadyEntry
    <2>5. m = size
      BY <1>1, <2>4
    <2> QED BY <2>1, <2>2, <2>3, <2>5
  <1>6. ASSUME ~h.fully_read, NEW f \in D
        PROVE  h.entry[f].next_read_byte < Len(c[f]) /\ w < size
    <2>1. PICK e : e = h.entry[f]
      OBVIOUS
    <2>2. ReadyEntry(e, c[f], w, bl[f]) /\ e.next_read_byte < Len(c[f]) /\ Len(c[f]) = size
      BY <1>1, <1>2, <1>3, <1>6, <2>1
    <2>3. PICK a \in Nat, b \in Nat, m \in Nat :
               a = Len(e.hashed) /\ b = Len(e.buffer) /\ m = e.next_read_byte
      BY <2>2 DEF ReadyEntry
    <2>4. a + b = m /\ m < size /\ (b = w \/ m = size)
      BY <2>2, <2>3 DEF ReadyEntry
    <2>5. w < size
      BY <1>1, <2>4
    <2> QED BY <2>1, <2>2, <2>5
  <1> QED BY <1>3, <1>4, <1>5, <1>6 DEF w, Aligned

(* The set with the buffers of its files hashed. *)
Updated(h) ==
  [h EXCEPT !.entry = [f \in DOMAIN @ |->
                         IF f \in ReadyFiles(h)
                         THEN WithHashed(@[f], update_node_hash(@[f]), "FS_NEED_DATA")
                         ELSE @[f]],
            !.state = "PLS_NEED_DATA", !.buffer_ready = 0]

(* What a file is like after its buffer was hashed. *)
HashedEntry(e, g, c, bl) ==
  /\ \A w2 \in Nat : Data(g, c, w2)
  /\ AtBlock(g, bl) /\ g \in EntryType
  /\ g.state = "FS_NEED_DATA" /\ g.bufsize = e.bufsize /\ g.fd = e.fd
  /\ g.hashed = First(c, e.next_read_byte) /\ Roomy(g)
  /\ g.next_read_byte = e.next_read_byte /\ g.next_read_block = e.next_read_block

\* update_node_hash() hashes those bytes, and no others.
LEMMA HashedEntryIs ==
  ASSUME NEW c \in Seq(Nat), NEW w \in Nat, NEW bl, NEW e, ReadyEntry(e, c, w, bl),
         NEW g, g = WithHashed(e, update_node_hash(e), "FS_NEED_DATA")
  PROVE  HashedEntry(e, g, c, bl)
  <1>1. Data(e, c, w) /\ AtBlock(e, bl) /\ Ready(e, c, w)
    BY DEF ReadyEntry
  <1>2. PICK s, k : s = "FS_NEED_DATA" /\ k = update_node_hash(e)
    OBVIOUS
  <1>3. s \in FileStates /\ g = WithHashed(e, k, s)
    BY <1>2 DEF FileStates
  <1>4. ASSUME NEW w2 \in Nat
        PROVE  /\ Data(g, c, w2) /\ AtBlock(g, bl)
               /\ g.state = s /\ g.buffer = << >> /\ g.bufsize = e.bufsize /\ g.fd = e.fd
               /\ g.hashed = First(c, e.next_read_byte)
               /\ g.next_read_byte = e.next_read_byte
               /\ g.next_read_block = e.next_read_block
    BY <1>1, <1>2, <1>3, HashKeeps
  <1>5. Data(g, c, w)
    BY <1>4
  <1>6. Roomy(g)
    <2>1. g.buffer = << >> /\ g.bufsize \in Nat
      BY <1>4, <1>5 DEF Data, EntryType
    <2> QED BY <2>1 DEF Roomy, Space
  <1> QED BY <1>2, <1>4, <1>5, <1>6 DEF HashedEntry, Data

\* A set with other entries, state and ready count is a set.
LEMMA UpdatedTyped ==
  ASSUME NEW F, NEW h \in PathListType(F), NEW en \in [F -> EntryType], NEW st \in ListStates,
         NEW n \in Nat
  PROVE  [h EXCEPT !.entry = en, !.state = st, !.buffer_ready = n] \in PathListType(F)
  BY Zenon DEF PathListType

\* The hasher's pass over the ready files: each is hashed further.
LEMMA UpdatedIs ==
  ASSUME NEW F, NEW h \in PathListType(F), NEW c, NEW bl,
         \A f \in F : c[f] \in Seq(Nat),
         NEW D, D \subseteq F, D = ReadyFiles(h),
         \A f \in D : ReadyEntry(h.entry[f], c[f], h.wanted_bufsize, bl[f]),
         NEW u, u = Updated(h)
  PROVE  /\ u \in PathListType(F) /\ Renewed(h, D, u) /\ Unaccounted(u) = Unaccounted(h)
         /\ u.state = "PLS_NEED_DATA" /\ u.buffer_ready = 0 /\ u.exited = h.exited
         /\ u.wanted_bufsize = h.wanted_bufsize /\ u.fully_read = h.fully_read
         /\ \A f \in D : HashedEntry(h.entry[f], u.entry[f], c[f], bl[f])
  <1> DEFINE new(e) == WithHashed(e, update_node_hash(e), "FS_NEED_DATA")
             en == [f \in F |-> IF f \in D THEN new(h.entry[f]) ELSE h.entry[f]]
             st == "PLS_NEED_DATA"
  <1>1. DOMAIN h.entry = F /\ h.entry \in [F -> EntryType] /\ h.wanted_bufsize \in Nat
    BY Zenon DEF PathListType
  <1>2. ASSUME NEW f \in D PROVE HashedEntry(h.entry[f], new(h.entry[f]), c[f], bl[f])
    <2>1. PICK e : e = h.entry[f]
      OBVIOUS
    <2>2. c[f] \in Seq(Nat) /\ ReadyEntry(e, c[f], h.wanted_bufsize, bl[f])
      BY <2>1
    <2>3. HashedEntry(e, new(e), c[f], bl[f])
      BY <1>1, <2>2, HashedEntryIs
    <2> QED BY <2>1, <2>3
  <1> HIDE DEF new
  <1>3. /\ en \in [F -> EntryType] /\ DOMAIN en = F
        /\ \A f \in D : en[f] = new(h.entry[f])
        /\ \A f \in F \ D : en[f] = h.entry[f]
    <2>1. \A f \in D : new(h.entry[f]) \in EntryType
      BY <1>2 DEF HashedEntry
    <2> QED BY <1>1, <2>1
  <1>4. u = [h EXCEPT !.entry = en, !.state = st, !.buffer_ready = 0]
    BY <1>1, Zenon DEF Updated, new
  <1> HIDE DEF en
  <1>5. 0 \in Nat /\ st \in ListStates
    BY DEF ListStates
  <1> HIDE DEF st
  <1>6. u \in PathListType(F)
    <2>1. PICK n \in Nat : n = 0
      OBVIOUS
    <2>2. u = [h EXCEPT !.entry = en, !.state = st, !.buffer_ready = n]
      BY <1>4, <2>1
    <2>3. [h EXCEPT !.entry = en, !.state = st, !.buffer_ready = n] \in PathListType(F)
      BY <1>3, <1>5, UpdatedTyped
    <2> QED BY <2>2, <2>3
  <1>7. /\ u.entry = en /\ u.state = st /\ u.buffer_ready = 0 /\ u.exited = h.exited
        /\ u.wanted_bufsize = h.wanted_bufsize /\ u.fully_read = h.fully_read
        /\ u.list_size = h.list_size /\ u.published = h.published /\ u.dups = h.dups
        /\ u.unique = h.unique /\ u.processed = h.processed
        /\ u.allocated = h.allocated /\ u.open = h.open
    BY <1>4 DEF PathListType
  <1>8. \A f \in D : HashedEntry(h.entry[f], u.entry[f], c[f], bl[f])
    BY <1>2, <1>3, <1>7
  <1>9. Renewed(h, D, u)
    <2>1. \A f \in D : u.entry[f].state = "FS_NEED_DATA"
      BY <1>8 DEF HashedEntry
    <2> QED BY <1>1, <1>3, <1>7, <2>1 DEF Renewed, st
  <1>10. Unaccounted(u) = Unaccounted(h)
    <2>1. \A f \in F : u.entry[f].bufsize = h.entry[f].bufsize /\ u.entry[f].fd = h.entry[f].fd
      <3>1. \A f \in D : u.entry[f].bufsize = h.entry[f].bufsize /\ u.entry[f].fd = h.entry[f].fd
        BY <1>8 DEF HashedEntry
      <3> QED BY <1>3, <1>7, <3>1
    <2>2. DOMAIN u.entry = F
      BY <1>3, <1>7
    <2> QED BY <1>1, <1>7, <2>1, <2>2, RewrittenUnaccounted
  <1> QED BY <1>6, <1>7, <1>8, <1>9, <1>10 DEF st

\* Equal files have equal hashes.
SameHashes(hash, D, c) == \A f, g \in D : c[f] = c[g] => hash[f] = hash[g]

(* What a pass that found two files with one hash, not read to their end,
   leaves: the files that are not alone with theirs are to be read on. *)
WentOn(F, u, D, A, r) ==
  /\ r \in PathListType(F) /\ r.entry = Retired(u.entry, A, "FS_UNIQUE")
  /\ r.state = "PLS_NEED_DATA" /\ r.buffer_ready = 0 /\ ~r.fully_read
  /\ r.list_size = Cardinality(D) - Cardinality(A) /\ Cardinality(A) < Cardinality(D) - 1
  /\ r.unique = u.unique + Cardinality(A)
  /\ r.dups = u.dups /\ r.published = u.published /\ r.processed = u.processed

(* Which files are in which state then. *)
WentOnStates(u, D, A, r) ==
  /\ Active(r) = D \ A /\ ReadyFiles(r) = {}
  /\ InState(r, {"FS_DONE"}) = {}
  /\ InState(r, {"FS_UNIQUE"}) = InState(u, {"FS_UNIQUE"}) \cup A
  /\ InState(u, {"FS_UNIQUE"}) \cap A = {}
  /\ InState(r, {"FS_IGNORE"}) = InState(u, {"FS_IGNORE"})
  /\ InState(r, {"FS_CACHE_DONE", "FS_IGNORE_HL"})
       \subseteq InState(u, {"FS_CACHE_DONE", "FS_IGNORE_HL"})

\* What states the files have when the set goes on.
LEMMA WentOnStatesAre ==
  ASSUME NEW F, NEW u \in PathListType(F), NEW D, Skimmable(u, D),
         NEW A, A \subseteq D, NEW r, r.entry = Retired(u.entry, A, "FS_UNIQUE")
  PROVE  WentOnStates(u, D, A, r)
  <1>1. A \subseteq F
    <2>1. DOMAIN u.entry = F
      BY Zenon DEF PathListType
    <2> QED BY <2>1 DEF Skimmable, Remaining, InState
  <1>2. PICK st : st = "FS_UNIQUE"
    OBVIOUS
  <1>3. st \in FileStates /\ st \in FinalStates /\ r.entry = Retired(u.entry, A, st)
    BY <1>2 DEF FileStates, FinalStates
  <1>4. ASSUME NEW S
        PROVE  InState(r, S) = IF st \in S THEN InState(u, S) \cup A ELSE InState(u, S) \ A
    BY <1>1, <1>3, InStateAfter
  <1>5. Leave(u, A, r)
    BY <1>1, <1>3, RetiredLeave
  <1>6. /\ Active(u) = D /\ ReadyFiles(u) = {} /\ InState(u, {"FS_DONE"}) = {}
        /\ InState(u, {"FS_UNIQUE"}) \cap D = {} /\ InState(u, {"FS_IGNORE"}) \cap D = {}
    BY DEF Skimmable, Remaining, Active, ReadyFiles, InState
  <1>7. Active(r) = D \ A /\ ReadyFiles(r) = {}
        /\ InState(r, {"FS_CACHE_DONE", "FS_IGNORE_HL"})
             \subseteq InState(u, {"FS_CACHE_DONE", "FS_IGNORE_HL"})
    BY <1>5, <1>6 DEF Leave
  <1>8. InState(r, {"FS_DONE"}) = {}
    <2>1. st \notin {"FS_DONE"}
      BY <1>2
    <2> QED BY <1>4, <1>6, <2>1
  <1>9. InState(r, {"FS_UNIQUE"}) = InState(u, {"FS_UNIQUE"}) \cup A
    <2>1. st \in {"FS_UNIQUE"}
      BY <1>2
    <2> QED BY <1>4, <2>1
  <1>10. InState(r, {"FS_IGNORE"}) = InState(u, {"FS_IGNORE"})
    <2>1. st \notin {"FS_IGNORE"}
      BY <1>2
    <2>2. InState(r, {"FS_IGNORE"}) = InState(u, {"FS_IGNORE"}) \ A
      BY <1>4, <2>1
    <2> QED BY <1>6, <2>2
  <1> QED BY <1>6, <1>7, <1>8, <1>9, <1>10 DEF WentOnStates

\* A set that goes on was judged right: lone hashes are unique files.
LEMMA WentOnJudges ==
  ASSUME NEW F, NEW u \in PathListType(F), NEW D, Skimmable(u, D),
         NEW c, Closed(u, D, c), NEW hash, SameHashes(hash, D, c),
         NEW A, NEW P, GroupedBy(hash, D, A, P), NEW r, WentOn(F, u, D, A, r), NEW U
  PROVE  Judges(u, r, c, U)
  <1>1. A \subseteq D /\ r.published = u.published
    BY DEF GroupedBy, WentOn
  <1>2. WentOnStates(u, D, A, r)
    <2>1. r.entry = Retired(u.entry, A, "FS_UNIQUE")
      BY DEF WentOn
    <2> QED BY <1>1, <2>1, WentOnStatesAre
  <1>3. /\ InState(r, {"FS_DONE"}) = {} /\ InState(r, {"FS_IGNORE"}) = InState(u, {"FS_IGNORE"})
        /\ InState(r, {"FS_UNIQUE"}) = InState(u, {"FS_UNIQUE"}) \cup A
        /\ InState(u, {"FS_DONE"}) = {}
    BY <1>2 DEF WentOnStates, Skimmable
  <1>4. ASSUME NEW st \in FinalStates PROVE InState(u, {st}) \subseteq InState(r, {st})
    <2>1. st = "FS_DONE" \/ st = "FS_UNIQUE" \/ st = "FS_IGNORE"
      BY DEF FinalStates
    <2> QED BY <1>3, <2>1
  <1>5. ASSUME NEW f \in A, NEW g \in DOMAIN u.entry \ {f}, c[g] = c[f]
        PROVE  g \in InState(r, {"FS_IGNORE"})
    <2>1. CASE g \in D
      <3>1. hash[g] = hash[f]
        BY <1>1, <1>5, <2>1 DEF SameHashes
      <3> QED BY <2>1, <3>1 DEF GroupedBy
    <2>2. CASE g \notin D
      BY <1>1, <1>3, <1>5, <2>2 DEF Closed
    <2> QED BY <2>1, <2>2
  <1> QED BY <1>1, <1>3, <1>4, <1>5 DEF Judges

\* The files that are read on have no equals but each other.
LEMMA WentOnClosed ==
  ASSUME NEW u, NEW D, NEW c, Closed(u, D, c), NEW hash, SameHashes(hash, D, c),
         NEW A, NEW P, GroupedBy(hash, D, A, P)
  PROVE  Closed(u, D \ A, c)
  <1> SUFFICES ASSUME NEW f \in D \ A, NEW g \in DOMAIN u.entry, c[g] = c[f],
                      g \notin InState(u, {"FS_IGNORE"})
               PROVE  g \in D \ A
    BY DEF Closed
  <1>1. g \in D
    BY DEF Closed
  <1>2. hash[g] = hash[f]
    BY <1>1 DEF SameHashes
  <1>3. g \in A => f = g
    BY <1>2 DEF GroupedBy
  <1> QED BY <1>1, <1>3

(* Files whose buffers were hashed and that are not read to their end. *)
GoOn(h, u, D, c, bl) ==
  /\ \A f \in D : /\ HashedEntry(h.entry[f], u.entry[f], c[f], bl[f])
                   /\ h.entry[f].next_read_byte < Len(c[f])
  /\ \A f, g \in D : Len(u.entry[f].hashed) = Len(u.entry[g].hashed)

\* A set that goes on is as sound as it was.
LEMMA WentOnSteady ==
  ASSUME NEW F, IsFiniteSet(F), NEW h, NEW u \in PathListType(F), NEW D, Skimmable(u, D),
         InState(u, {"FS_CACHE_DONE", "FS_IGNORE_HL"}) = {},
         Settled(u), Tallied(u), Released(u), u.state # "PLS_DONE",
         NEW c, NEW bl, Closed(u, D, c), NEW hash, SameHashes(hash, D, c),
         NEW A, NEW P, GroupedBy(hash, D, A, P), NEW r, WentOn(F, u, D, A, r),
         GoOn(h, u, D, c, bl)
  PROVE  Steady(F, r, c, bl)
  <1> USE DEF GoOn
  <1>1. /\ A \subseteq D /\ r.published = u.published /\ r \in PathListType(F)
        /\ r.entry = Retired(u.entry, A, "FS_UNIQUE")
        /\ r.state = "PLS_NEED_DATA" /\ r.buffer_ready = 0 /\ ~r.fully_read
        /\ r.list_size = Cardinality(D) - Cardinality(A) /\ Cardinality(A) < Cardinality(D) - 1
        /\ r.unique = u.unique + Cardinality(A) /\ r.dups = u.dups
        /\ r.processed = u.processed
    BY DEF GroupedBy, WentOn
  <1>2. WentOnStates(u, D, A, r)
    BY <1>1, WentOnStatesAre
  <1>3. /\ Active(r) = D \ A /\ ReadyFiles(r) = {} /\ InState(r, {"FS_DONE"}) = {}
        /\ InState(r, {"FS_UNIQUE"}) = InState(u, {"FS_UNIQUE"}) \cup A
        /\ InState(u, {"FS_UNIQUE"}) \cap A = {}
        /\ InState(r, {"FS_IGNORE"}) = InState(u, {"FS_IGNORE"})
        /\ InState(r, {"FS_CACHE_DONE", "FS_IGNORE_HL"}) = {}
        /\ InState(u, {"FS_DONE"}) = {}
    BY <1>2 DEF WentOnStates, Skimmable
  <1>4. DOMAIN u.entry = F /\ u.entry \in [F -> EntryType] /\ D \subseteq F
    <2>1. DOMAIN u.entry = F /\ u.entry \in [F -> EntryType]
      BY Zenon DEF PathListType
    <2> QED BY <2>1 DEF Skimmable, Remaining, InState
  <1>5. IsFiniteSet(D) /\ IsFiniteSet(A) /\ Cardinality(D) \in Nat /\ Cardinality(A) \in Nat
    BY <1>1, <1>4, FS_Subset, FS_CardinalityType
  <1>6. Cardinality(D \ A) = Cardinality(D) - Cardinality(A)
    <2>1. Cardinality(D \ A) = Cardinality(D) - Cardinality(D \cap A)
      BY <1>5, FS_Difference
    <2>2. D \cap A = A
      BY <1>1
    <2> QED BY <2>1, <2>2
  <1>7. Counted(r)
    <2>1. Cardinality(ReadyFiles(r)) = 0
      BY <1>3, FS_EmptySet
    <2>2. r.list_size > 1 /\ r.list_size # 0
      <3>1. PICK d \in Nat, a \in Nat : d = Cardinality(D) /\ a = Cardinality(A)
        BY <1>5
      <3>2. d - a > 1 /\ d - a # 0 /\ r.list_size = d - a
        BY <1>1, <3>1
      <3> QED BY <3>2
    <2> QED BY <1>1, <1>3, <1>6, <2>1, <2>2 DEF Counted
  <1>8. Settled(r)
    BY <1>1, <1>3 DEF Settled
  <1>9. Tallied(r)
    <2>1. /\ u.dups = Cardinality(InState(u, {"FS_DONE"}))
          /\ u.unique = Cardinality(InState(u, {"FS_UNIQUE"})) /\ u.processed = 0
      BY DEF Tallied
    <2>2. IsFiniteSet(InState(u, {"FS_UNIQUE"}))
      <3>1. InState(u, {"FS_UNIQUE"}) \subseteq F
        BY <1>4 DEF InState
      <3> QED BY <3>1, FS_Subset
    <2>3. Cardinality(InState(u, {"FS_UNIQUE"})) \in Nat
      BY <2>2, FS_CardinalityType
    <2>4. Cardinality(InState(u, {"FS_UNIQUE"}) \cup A) =
            Cardinality(InState(u, {"FS_UNIQUE"})) + Cardinality(A)
      <3>2. Cardinality(InState(u, {"FS_UNIQUE"}) \cup A) =
              Cardinality(InState(u, {"FS_UNIQUE"})) + Cardinality(A)
                - Cardinality(InState(u, {"FS_UNIQUE"}) \cap A)
        BY <1>5, <2>2, FS_Union
      <3>3. Cardinality(InState(u, {"FS_UNIQUE"}) \cap A) = 0
        BY <1>3, FS_EmptySet
      <3> QED BY <1>5, <2>3, <3>2, <3>3
    <2> QED BY <1>1, <1>3, <2>1, <2>4 DEF Tallied
  <1>10. Released(r)
    <2>1. PICK st : st = "FS_UNIQUE"
      OBVIOUS
    <2>2. st \in FinalStates /\ r.entry = Retired(u.entry, A, st) /\ A \subseteq F
      BY <1>1, <1>4, <2>1 DEF FinalStates
    <2> QED BY <2>2, RetiredReleases
  <1>11. ReadSoFar(r, c, bl)
    <2>1. \A f \in D \ A : r.entry[f] = u.entry[f]
      <3>1. PICK en, new : en = u.entry /\ new = Retired(en, A, "FS_UNIQUE")
        OBVIOUS
      <3>2. \A f \in F \ A : new[f] = en[f]
        BY <1>1, <1>4, <3>1, RetiredIs DEF FileStates
      <3> QED BY <1>1, <1>4, <3>1, <3>2
    <2>2. r.wanted_bufsize \in Nat
      BY <1>1, Zenon DEF PathListType
    <2>3. ASSUME NEW f \in D \ A PROVE EntrySound(r.entry[f], c[f], r.wanted_bufsize, bl[f])
      <3>1. PICK e : e = r.entry[f]
        OBVIOUS
      <3>2. HashedEntry(h.entry[f], e, c[f], bl[f]) /\ h.entry[f].next_read_byte < Len(c[f])
        BY <2>1, <3>1
      <3>3. EntrySound(e, c[f], r.wanted_bufsize, bl[f])
        BY <2>2, <3>2 DEF HashedEntry, EntrySound
      <3> QED BY <3>1, <3>3
    <2>4. \A f, g \in D \ A : Len(r.entry[f].hashed) = Len(r.entry[g].hashed)
      BY <2>1
    <2>5. Closed(u, D \ A, c)
      BY WentOnClosed
    <2>6. DOMAIN r.entry = F
      BY <1>1, Zenon DEF PathListType
    <2>7. \A f \in D \ A, g \in F : c[g] = c[f] => g \in (D \ A) \cup InState(r, {"FS_IGNORE"})
      BY <1>3, <1>4, <2>5 DEF Closed
    <2> QED BY <1>1, <1>3, <2>3, <2>4, <2>6, <2>7 DEF ReadSoFar
  <1> QED BY <1>1, <1>7, <1>8, <1>9, <1>10, <1>11 DEF Steady

\* The number of passes is told from nothing else.
LEMMA PassesNoted ==
  ASSUME NEW F, NEW g \in PathListType(F), NEW p \in Nat,
         NEW r, r = [g EXCEPT !.hash_passes = p]
  PROVE  /\ r \in PathListType(F) /\ Unaccounted(r) = Unaccounted(g)
         /\ r.hash_passes = p /\ r.entry = g.entry /\ r.state = g.state
         /\ r.wanted_bufsize = g.wanted_bufsize /\ r.exited = g.exited
         /\ \A c, bl : Steady(F, g, c, bl) => Steady(F, r, c, bl)
         /\ \A h, c, U : Judges(h, g, c, U) => Judges(h, r, c, U)
  <1>1. r \in PathListType(F)
    BY Zenon DEF PathListType
  <1>2. /\ r.hash_passes = p /\ r.entry = g.entry /\ r.state = g.state
        /\ r.list_size = g.list_size /\ r.buffer_ready = g.buffer_ready
        /\ r.wanted_bufsize = g.wanted_bufsize /\ r.fully_read = g.fully_read
        /\ r.allocated = g.allocated /\ r.open = g.open /\ r.dups = g.dups
        /\ r.unique = g.unique /\ r.processed = g.processed /\ r.published = g.published
        /\ r.exited = g.exited
    BY DEF PathListType
  <1>3. Unaccounted(r) = Unaccounted(g)
    BY <1>2, SameUnaccounted
  <1>4. \A S : InState(r, S) = InState(g, S)
    BY <1>2, Zenon DEF InState
  <1>5. Active(r) = Active(g) /\ ReadyFiles(r) = ReadyFiles(g)
    BY <1>4 DEF Active, ReadyFiles
  <1>6. ASSUME NEW c, NEW bl, Steady(F, g, c, bl) PROVE Steady(F, r, c, bl)
    <2>1. Counted(g) /\ Settled(g) /\ ReadSoFar(g, c, bl) /\ Tallied(g) /\ Released(g)
      BY <1>6 DEF Steady
    <2>2. Counted(r)
      BY <1>2, <1>4, <1>5, <2>1, Zenon DEF Counted
    <2>3. Settled(r)
      BY <1>2, <1>4, <2>1, Zenon DEF Settled
    <2>4. ReadSoFar(r, c, bl)
      <3>1. /\ \A f \in Active(g) : EntrySound(g.entry[f], c[f], g.wanted_bufsize, bl[f])
            /\ \A f, k \in Active(g) : Len(g.entry[f].hashed) = Len(g.entry[k].hashed)
            /\ g.fully_read =>
                 \A f \in Active(g) : Len(c[f]) - Len(g.entry[f].hashed) <= g.wanted_bufsize
            /\ ~g.fully_read => \A f \in ReadyFiles(g) : g.entry[f].next_read_byte < Len(c[f])
            /\ \A f \in Active(g), k \in DOMAIN g.entry :
                 c[k] = c[f] => k \in Active(g) \cup InState(g, {"FS_IGNORE"})
        BY <2>1 DEF ReadSoFar
      <3>2. InState(r, {"FS_IGNORE"}) = InState(g, {"FS_IGNORE"})
        BY <1>4
      <3>3. /\ \A f \in Active(r) : EntrySound(r.entry[f], c[f], r.wanted_bufsize, bl[f])
            /\ \A f, k \in Active(r) : Len(r.entry[f].hashed) = Len(r.entry[k].hashed)
        BY <1>2, <1>5, <3>1
      <3>4. r.fully_read =>
                 \A f \in Active(r) : Len(c[f]) - Len(r.entry[f].hashed) <= r.wanted_bufsize
        BY <1>2, <1>5, <3>1
      <3>5. ~r.fully_read => \A f \in ReadyFiles(r) : r.entry[f].next_read_byte < Len(c[f])
        BY <1>2, <1>5, <3>1
      <3>6. \A f \in Active(r), k \in DOMAIN r.entry :
                 c[k] = c[f] => k \in Active(r) \cup InState(r, {"FS_IGNORE"})
        BY <1>2, <1>5, <3>1, <3>2
      <3> QED BY <3>3, <3>4, <3>5, <3>6 DEF ReadSoFar
    <2>5. Tallied(r)
      BY <1>2, <1>4, <2>1, Zenon DEF Tallied
    <2>6. Released(r)
      BY <1>2, <1>5, <2>1, Zenon DEF Released
    <2> QED BY <1>1, <2>2, <2>3, <2>4, <2>5, <2>6 DEF Steady
  <1>7. ASSUME NEW h, NEW c, NEW U, Judges(h, g, c, U) PROVE Judges(h, r, c, U)
    BY <1>2, <1>4, <1>7, Zenon DEF Judges
  <1> QED BY <1>1, <1>2, <1>3, <1>6, <1>7

\* The next size of the buffers.
WithWanted(h, w) == [h EXCEPT !.wanted_bufsize = w]

\* Another buffer size, and nothing else.
LEMMA WantedNoted ==
  ASSUME NEW F, NEW g \in PathListType(F), NEW w \in Nat, NEW r, r = WithWanted(g, w)
  PROVE  /\ r \in PathListType(F) /\ Unaccounted(r) = Unaccounted(g)
         /\ r.wanted_bufsize = w /\ r.entry = g.entry /\ r.state = g.state
         /\ r.list_size = g.list_size /\ r.buffer_ready = g.buffer_ready
         /\ r.fully_read = g.fully_read /\ r.dups = g.dups /\ r.unique = g.unique
         /\ r.processed = g.processed /\ r.published = g.published /\ r.exited = g.exited
  <1>1. r \in PathListType(F)
    BY Zenon DEF PathListType, WithWanted
  <1>2. /\ r.wanted_bufsize = w /\ r.entry = g.entry /\ r.state = g.state
        /\ r.list_size = g.list_size /\ r.buffer_ready = g.buffer_ready
        /\ r.fully_read = g.fully_read /\ r.dups = g.dups /\ r.unique = g.unique
        /\ r.processed = g.processed /\ r.published = g.published /\ r.exited = g.exited
        /\ r.allocated = g.allocated /\ r.open = g.open
    BY DEF PathListType, WithWanted
  <1>3. Unaccounted(r) = Unaccounted(g)
    BY <1>2, SameUnaccounted
  <1> QED BY <1>1, <1>2, <1>3

(* A pass as it is written, in terms of its parts. *)
Passes(h) == IF h.hash_passes < 255 THEN h.hash_passes + 1 ELSE h.hash_passes
PassHashes(h) == [f \in ReadyFiles(h) |-> hash_fn_get_partial(Updated(h).entry[f].hashed)]

\* process_hashes_only() as the parts these lemmas are about.
LEMMA HasherPassIs ==
  ASSUME NEW h, NEW size,
         \A f, g \in ReadyFiles(h) : h.entry[f].data_in_buffer = h.entry[g].data_in_buffer,
         NEW u, u = Updated(h), NEW G, G = Groups(PassHashes(h))
  PROVE  hasher_pass(h, size) =
           [(IF h.fully_read \/ ~HasDups(G) THEN SortOut(u, G)
             ELSE WithWanted(skim_uniques(u, G), NextBufsize(h.wanted_bufsize, Passes(h), size)))
              EXCEPT !.hash_passes = Passes(h)]
  BY Zenon DEF hasher_pass, Updated, ReadyFiles, WithHashed, PassHashes, SortOut, SetFinished,
     WithWanted, Passes, PassCompletes

\* What a pass makes of the buffers' size, when it leaves files to be read on.
NextPass(h, r, size) ==
  \/ r.state = "PLS_DONE"
  \/ /\ r.state = "PLS_NEED_DATA" /\ h.wanted_bufsize < size
     /\ r.hash_passes = Passes(h)
     /\ r.wanted_bufsize = NextBufsize(h.wanted_bufsize, Passes(h), size)

\* Files read on stay at the block they are at, with an empty buffer of the same size.
StayAt(h, r) ==
  \A f \in Active(r) : /\ f \in Active(h)
                        /\ r.entry[f].next_read_block = h.entry[f].next_read_block
                        /\ r.entry[f].next_read_byte = h.entry[f].next_read_byte
                        /\ r.entry[f].bufsize = h.entry[f].bufsize
                        /\ Roomy(r.entry[f])

\* build_hash_list_round() on a set of which all buffers are ready.
LEMMA HasherKeeps ==
  ASSUME NEW F, IsFiniteSet(F), NEW h, NEW c, NEW bl, Steady(F, h, c, bl),
         h.state = "PLS_ALL_BUFFERS_READY", NEW size \in Nat,
         EqualSize(F, c, size),
         NEW r, r = hasher_pass(h, size), NEW U
  PROVE  /\ Steady(F, r, c, bl) /\ Judges(h, r, c, U) /\ Unaccounted(r) = Unaccounted(h)
         /\ r.exited = h.exited /\ NextPass(h, r, size) /\ StayAt(h, r)
  <1> DEFINE D == ReadyFiles(h)
             u == Updated(h)
             hash == PassHashes(h)
             G == Groups(hash)
             A == Alone(hash)
             P == Shared(hash)
             w == NextBufsize(h.wanted_bufsize, Passes(h), size)
             s == skim_uniques(u, G)
             g == IF h.fully_read \/ ~HasDups(G) THEN SortOut(u, G) ELSE WithWanted(s, w)
  <1>1. /\ h \in PathListType(F) /\ Counted(h) /\ Settled(h) /\ ReadSoFar(h, c, bl)
        /\ Tallied(h) /\ Released(h)
    BY DEF Steady
  <1>2. DOMAIN h.entry = F /\ h.entry \in [F -> EntryType] /\ h.wanted_bufsize \in Nat
    BY <1>1, Zenon DEF PathListType
  <1>3. D \subseteq F /\ IsFiniteSet(D) /\ Active(h) \subseteq F /\ D \subseteq Active(h)
    <2>1. D \subseteq F /\ Active(h) \subseteq F /\ D \subseteq Active(h)
      BY <1>2 DEF ReadyFiles, Active, InState
    <2> QED BY <2>1, FS_Subset
  <1>4. D = Active(h)
    <2>1. Cardinality(D) = Cardinality(Active(h))
      BY <1>1 DEF Counted
    <2>2. IsFiniteSet(Active(h))
      BY <1>3, FS_Subset
    <2> QED BY <1>3, <2>1, <2>2, FS_Subset
  <1>20. D = ReadyFiles(h)
    OBVIOUS
  <1> HIDE DEF D
  <1>5. /\ \A f \in D : ReadyEntry(h.entry[f], c[f], h.wanted_bufsize, bl[f])
        /\ \A f, k \in D : /\ h.entry[f].data_in_buffer = h.entry[k].data_in_buffer
                            /\ h.entry[f].next_read_byte = h.entry[k].next_read_byte
        /\ h.fully_read => \A f \in D : h.entry[f].next_read_byte = Len(c[f])
        /\ ~h.fully_read => \A f \in D : /\ h.entry[f].next_read_byte < Len(c[f])
                                         /\ h.wanted_bufsize < size
    <2>1. Aligned(h, D, c, bl, size)
      BY <1>1, <1>4, <1>20, PassAligned
    <2> QED BY <2>1 DEF Aligned
  <1>21. \A f \in F : c[f] \in Seq(Nat) /\ Len(c[f]) = size
    BY DEF EqualSize
  <1>6. /\ u \in PathListType(F) /\ Renewed(h, D, u) /\ Unaccounted(u) = Unaccounted(h)
        /\ u.state = "PLS_NEED_DATA" /\ u.buffer_ready = 0 /\ u.exited = h.exited
        /\ u.wanted_bufsize = h.wanted_bufsize /\ u.fully_read = h.fully_read
        /\ \A f \in D : HashedEntry(h.entry[f], u.entry[f], c[f], bl[f])
    BY <1>1, <1>3, <1>5, <1>20, <1>21, UpdatedIs
  <1>7. hash = [f \in D |-> hash_fn_get_partial(u.entry[f].hashed)]
    BY Zenon DEF PassHashes, D
  <1> HIDE DEF u, hash
  <1>8. DOMAIN hash = D /\ \A f \in D : hash[f] = First(c[f], h.entry[f].next_read_byte)
    BY <1>6, <1>7 DEF hash_fn_get_partial, HashedEntry
  <1>9. /\ Skimmable(u, D) /\ SameVerdicts(h, u)
        /\ InState(u, {"FS_CACHE_DONE", "FS_IGNORE_HL"}) = {}
        /\ Settled(u) /\ Tallied(u) /\ Released(u)
    BY <1>1, <1>4, <1>6, RenewedIs
  <1> HIDE DEF A, P
  <1>10. GroupedBy(hash, D, A, P)
    BY <1>3, <1>8, GroupsAre DEF A, P
  <1>11. SameHashes(hash, D, c)
    <2> SUFFICES ASSUME NEW f \in D, NEW k \in D, c[f] = c[k] PROVE hash[f] = hash[k]
      BY DEF SameHashes
    <2>1. h.entry[f].next_read_byte = h.entry[k].next_read_byte
      BY <1>5
    <2> QED BY <1>8, <2>1
  <1>12. Closed(u, D, c)
    <2>1. \A f \in D, k \in DOMAIN h.entry : c[k] = c[f] => k \in D \cup InState(h, {"FS_IGNORE"})
      BY <1>1, <1>4 DEF ReadSoFar
    <2>2. DOMAIN u.entry = DOMAIN h.entry /\ InState(u, {"FS_IGNORE"}) = InState(h, {"FS_IGNORE"})
      BY <1>9 DEF SameVerdicts, FinalStates
    <2> QED BY <2>1, <2>2, Zenon DEF Closed
  <1>13. h.fully_read \/ A = D => Tells(hash, D, A, c)
    <2>1. ASSUME h.fully_read, NEW f \in D, NEW k \in D, hash[f] = hash[k]
          PROVE  c[f] = c[k]
      <3>1. h.entry[f].next_read_byte = Len(c[f]) /\ h.entry[k].next_read_byte = Len(c[k])
        BY <1>5, <2>1
      <3>2. hash[f] = First(c[f], Len(c[f])) /\ hash[k] = First(c[k], Len(c[k]))
        BY <1>8, <3>1
      <3>3. First(c[f], Len(c[f])) = c[f] /\ First(c[k], Len(c[k])) = c[k]
        BY <1>3, <1>21, WholeIsFirst
      <3> QED BY <2>1, <3>2, <3>3
    <2> QED BY <1>11, <2>1 DEF Tells, SameHashes
  <1>14. Passes(h) \in Nat
    <2>1. h.hash_passes \in Nat
      BY <1>1, Zenon DEF PathListType
    <2> QED BY <2>1 DEF Passes
  <1>15. r = [g EXCEPT !.hash_passes = Passes(h)]
    <2>1. \A f, k \in ReadyFiles(h) : h.entry[f].data_in_buffer = h.entry[k].data_in_buffer
      BY <1>5 DEF D
    <2>2. hasher_pass(h, size) =
           [(IF h.fully_read \/ ~HasDups(G) THEN SortOut(u, G)
             ELSE WithWanted(skim_uniques(u, G), w)) EXCEPT !.hash_passes = Passes(h)]
      BY <2>1, HasherPassIs DEF u, hash
    <2> QED BY <2>2
  <1>16. HasDups(G) <=> A # D
    BY <1>10 DEF GroupedBy
  <1> HIDE DEF G, s, w
  <1>17. CASE h.fully_read \/ ~HasDups(G)
    <2>1. g = SortOut(u, Groups(hash))
      BY <1>17 DEF G
    <2>2. SortedOut(F, u, D, A, P, g)
      <3> HIDE DEF g
      <3> QED BY <1>6, <1>8, <1>9, <2>1, SortOutIs DEF A, P
    <2>3. /\ g \in PathListType(F) /\ Unaccounted(g) = Unaccounted(u) /\ g.exited = u.exited
          /\ g.state = "PLS_DONE"
      BY <2>2 DEF SortedOut
    <2>4. Tells(hash, D, A, c)
      BY <1>13, <1>16, <1>17
    <2> HIDE DEF g
    <2>5. Judges(h, g, c, U)
      <3>1. Judges(u, g, c, U)
        BY <1>6, <1>9, <1>10, <1>12, <2>2, <2>4, SortedJudges
      <3> QED BY <1>9, <3>1, JudgesFromSame
    <2>6. Steady(F, g, c, bl)
      <3>1. u.state # "PLS_DONE"
        BY <1>6
      <3> QED BY <1>6, <1>9, <1>10, <2>2, <3>1, SortedSteady
    <2>7. /\ Unaccounted(r) = Unaccounted(g) /\ r.exited = g.exited /\ r.state = g.state
          /\ r.entry = g.entry /\ Steady(F, r, c, bl) /\ Judges(h, r, c, U)
      BY <1>14, <1>15, <2>3, <2>5, <2>6, PassesNoted
    <2>8. Active(r) = {}
      <3>1. r.state = "PLS_DONE" /\ Counted(r)
        BY <2>3, <2>7 DEF Steady
      <3> QED BY <3>1 DEF Counted
    <2> QED BY <1>6, <2>3, <2>7, <2>8 DEF NextPass, StayAt
  <1>18. CASE ~(h.fully_read \/ ~HasDups(G))
    <2>1. g = WithWanted(s, w)
      BY <1>18
    <2>2. SkimKeeps(F, u, A, s) /\ Running(u, D, A, s)
      <3>1. s = FoldSet(Skim, u, A)
        BY Zenon DEF s, G, A, skim_uniques, Alone
      <3>2. A \in SUBSET D /\ Cardinality(A) # Cardinality(D) - 1 /\ A # D
        BY <1>10, <1>16, <1>18 DEF GroupedBy
      <3>3. SkimKeeps(F, u, A, s) /\ (Running(u, D, A, s) \/ Cleared(u, D, A, s))
        BY <1>6, <1>9, <3>1, <3>2, Skims
      <3>4. ~Cleared(u, D, A, s)
        <4>1. /\ Cardinality(A) \in Nat /\ Cardinality(D) \in Nat
              /\ Cardinality(A) <= Cardinality(D) /\ Cardinality(A) # Cardinality(D)
          BY <1>3, <3>2, FS_Subset, FS_CardinalityType
        <4>2. ~(Cardinality(A) >= Cardinality(D) - 1)
          BY <3>2, <4>1
        <4> QED BY <4>2 DEF Cleared
      <3> QED BY <3>3, <3>4
    <2>3. w \in Nat
      BY <1>2, <1>14, BufsizesTyped DEF w
    <2>4. s \in PathListType(F) /\ Kept(u, s) /\ Unaccounted(s) = Unaccounted(u)
          /\ s.exited = u.exited /\ s.unique = u.unique + Cardinality(A)
      BY <2>2 DEF SkimKeeps
    <2>5. /\ s.state = u.state /\ s.list_size = Cardinality(D) - Cardinality(A)
          /\ s.entry = Retired(u.entry, A, "FS_UNIQUE") /\ Cardinality(A) < Cardinality(D) - 1
      BY <1>6, <2>2 DEF Running
    <2> HIDE DEF g
    <2>6. /\ g \in PathListType(F) /\ Unaccounted(g) = Unaccounted(s)
          /\ g.wanted_bufsize = w /\ g.entry = s.entry /\ g.state = s.state
          /\ g.list_size = s.list_size /\ g.buffer_ready = s.buffer_ready
          /\ g.fully_read = s.fully_read /\ g.dups = s.dups /\ g.unique = s.unique
          /\ g.processed = s.processed /\ g.published = s.published /\ g.exited = s.exited
      BY <2>1, <2>3, <2>4, WantedNoted
    <2>7. WentOn(F, u, D, A, g)
      BY <1>6, <1>18, <2>4, <2>5, <2>6 DEF WentOn, Kept
    <2>8. Judges(h, g, c, U)
      <3>1. Judges(u, g, c, U)
        BY <1>6, <1>9, <1>10, <1>11, <1>12, <2>7, WentOnJudges
      <3> QED BY <1>9, <3>1, JudgesFromSame
    <2>9. Steady(F, g, c, bl)
      <3>1. u.state # "PLS_DONE"
        BY <1>6
      <3>2. \A f \in D : /\ HashedEntry(h.entry[f], u.entry[f], c[f], bl[f])
                         /\ h.entry[f].next_read_byte < Len(c[f])
        BY <1>5, <1>6, <1>18
      <3>3. \A f, k \in D : Len(u.entry[f].hashed) = Len(u.entry[k].hashed)
        <4> SUFFICES ASSUME NEW f \in D, NEW k \in D
                     PROVE  Len(u.entry[f].hashed) = Len(u.entry[k].hashed)
          OBVIOUS
        <4>1. /\ u.entry[f].hashed = First(c[f], h.entry[f].next_read_byte)
              /\ u.entry[k].hashed = First(c[k], h.entry[k].next_read_byte)
          BY <1>6 DEF HashedEntry
        <4>2. PICK n \in Nat : h.entry[f].next_read_byte = n /\ h.entry[k].next_read_byte = n
                               /\ n <= Len(c[f]) /\ n <= Len(c[k])
          BY <1>5 DEF ReadyEntry
        <4>3. Len(First(c[f], n)) = n /\ Len(First(c[k], n)) = n
          <5>1. ASSUME NEW x \in Seq(Nat), n <= Len(x) PROVE Len(First(x, n)) = n
            <6>1. n + 0 <= Len(x)
              BY <5>1
            <6> QED BY <6>1, FirstAndPart
          <5>2. c[f] \in Seq(Nat) /\ c[k] \in Seq(Nat)
            BY <1>3, <1>21
          <5> QED BY <4>2, <5>1, <5>2
        <4> QED BY <4>1, <4>2, <4>3
      <3>4. GoOn(h, u, D, c, bl)
        BY <3>2, <3>3 DEF GoOn
      <3> QED BY <1>6, <1>9, <1>10, <1>11, <1>12, <2>7, <3>1, <3>4, WentOnSteady
    <2>10. /\ Unaccounted(r) = Unaccounted(g) /\ r.exited = g.exited /\ r.state = g.state
           /\ r.entry = g.entry /\ Steady(F, r, c, bl) /\ Judges(h, r, c, U)
           /\ r.hash_passes = Passes(h) /\ r.wanted_bufsize = g.wanted_bufsize
      BY <1>14, <1>15, <2>6, <2>8, <2>9, PassesNoted
    <2>11. NextPass(h, r, size)
      <3>1. h.wanted_bufsize < size
        <4>1. D # {}
          <5>1. Cardinality(D) # 0
            <6>1. Cardinality(D) \in Nat /\ Cardinality(A) \in Nat /\ Cardinality(A) < Cardinality(D) - 1
              BY <1>3, <1>10, <2>5, FS_CardinalityType, FS_Subset DEF GroupedBy
            <6> QED BY <6>1
          <5> QED BY <5>1, FS_EmptySet
        <4> QED BY <1>5, <1>18, <4>1
      <3> QED BY <1>6, <2>5, <2>6, <2>10, <3>1 DEF NextPass, w
    <2>12. StayAt(h, r)
      <3>1. Active(g) = D \ A
        <4>1. WentOnStates(u, D, A, g)
          <5>1. A \subseteq D /\ g.entry = Retired(u.entry, A, "FS_UNIQUE")
            BY <1>10, <2>5, <2>6 DEF GroupedBy
          <5> QED BY <1>6, <1>9, <5>1, WentOnStatesAre
        <4> QED BY <4>1 DEF WentOnStates
      <3>2. Active(r) = Active(g)
        BY <2>10, Zenon DEF Active, InState
      <3>3. \A f \in D \ A : r.entry[f] = u.entry[f]
        <4>1. PICK en, new : en = u.entry /\ new = Retired(en, A, "FS_UNIQUE")
          OBVIOUS
        <4>2. en \in [F -> EntryType]
          BY <1>6, <4>1, Zenon DEF PathListType
        <4>3. A \in SUBSET F
          BY <1>3, <1>10 DEF GroupedBy
        <4>4. \A f \in F \ A : new[f] = en[f]
          BY <4>1, <4>2, <4>3, RetiredIs DEF FileStates
        <4> QED BY <1>3, <2>5, <2>6, <2>10, <4>1, <4>4
      <3>4. \A f \in D : /\ u.entry[f].next_read_block = h.entry[f].next_read_block
                         /\ u.entry[f].next_read_byte = h.entry[f].next_read_byte
                         /\ u.entry[f].bufsize = h.entry[f].bufsize
                         /\ Roomy(u.entry[f])
        BY <1>6 DEF HashedEntry
      <3> QED BY <1>4, <3>1, <3>2, <3>3, <3>4 DEF StayAt
    <2> QED BY <1>6, <2>4, <2>6, <2>10, <2>11, <2>12
  <1> QED BY <1>17, <1>18

-----------------------------------------------------------------------------
(* A visit of the reader. *)

(* Only the entry of x changed, and it is still one that needs data. *)
Touched(h, x, g) ==
  /\ DOMAIN g.entry = DOMAIN h.entry
  /\ \A f \in DOMAIN h.entry \ {x} : g.entry[f] = h.entry[f]
  /\ g.state = h.state /\ g.list_size = h.list_size /\ g.buffer_ready = h.buffer_ready
  /\ g.wanted_bufsize = h.wanted_bufsize /\ g.hash_passes = h.hash_passes
  /\ g.fully_read = h.fully_read /\ g.dups = h.dups /\ g.unique = h.unique
  /\ g.processed = h.processed /\ g.published = h.published /\ g.exited = h.exited

\* The counters and the entry of a set that a visit grew.
Grown(h, x, e, al, op) == [h EXCEPT !.allocated = al, !.entry[x] = e, !.open = op]

\* What a visit leaves of the others.
LEMMA GrownIs ==
  ASSUME NEW F, NEW h \in PathListType(F), NEW x \in F, NEW e \in EntryType,
         NEW al \in Int, NEW op \in Int, NEW g, g = Grown(h, x, e, al, op)
  PROVE  /\ g \in PathListType(F) /\ Touched(h, x, g) /\ g.entry[x] = e
         /\ g.allocated = al /\ g.open = op
  <1> DEFINE en == [h.entry EXCEPT ![x] = e]
  <1>1. h.entry \in [F -> EntryType]
    BY Zenon DEF PathListType
  <1>2. /\ en \in [F -> EntryType] /\ DOMAIN en = F /\ DOMAIN h.entry = F /\ en[x] = e
        /\ \A f \in F \ {x} : en[f] = h.entry[f]
    BY <1>1
  <1>3. g = [h EXCEPT !.allocated = al, !.entry = en, !.open = op]
    BY Zenon DEF Grown
  <1> HIDE DEF en
  <1>4. g \in PathListType(F)
    BY <1>2, <1>3, Zenon DEF PathListType
  <1>5. /\ g.entry = en /\ g.allocated = al /\ g.open = op
        /\ g.state = h.state /\ g.list_size = h.list_size /\ g.buffer_ready = h.buffer_ready
        /\ g.wanted_bufsize = h.wanted_bufsize /\ g.hash_passes = h.hash_passes
        /\ g.fully_read = h.fully_read /\ g.dups = h.dups /\ g.unique = h.unique
        /\ g.processed = h.processed /\ g.published = h.published /\ g.exited = h.exited
    BY <1>3 DEF PathListType
  <1> QED BY <1>2, <1>4, <1>5 DEF Touched

\* The counters change with what the file holds.
LEMMA GrownUnaccounted ==
  ASSUME NEW F, IsFiniteSet(F), NEW h \in PathListType(F), NEW x \in F, NEW g,
         g \in PathListType(F), Touched(h, x, g),
         g.allocated = h.allocated + (g.entry[x].bufsize - h.entry[x].bufsize),
         g.open = h.open + ((IF g.entry[x].fd THEN 1 ELSE 0)
                              - (IF h.entry[x].fd THEN 1 ELSE 0))
  PROVE  Unaccounted(g) = Unaccounted(h)
  <1> DEFINE B == Bufsizes(h)
             C == Bufsizes(g)
             b == h.entry[x].bufsize
             d == g.entry[x].bufsize
             O == Opened(h, F)
             P == Opened(g, F)
  <1>1. /\ h.entry \in [F -> EntryType] /\ g.entry \in [F -> EntryType]
        /\ DOMAIN h.entry = F /\ DOMAIN g.entry = F /\ h.allocated \in Int /\ h.open \in Int
    BY Zenon DEF PathListType
  <1>2. \A f \in F \ {x} : g.entry[f] = h.entry[f]
    BY <1>1 DEF Touched
  <1>3. /\ \A f \in F : h.entry[f].bufsize \in Nat /\ g.entry[f].bufsize \in Nat
        /\ \A f \in F : h.entry[f].fd \in BOOLEAN /\ g.entry[f].fd \in BOOLEAN
    BY <1>1 DEF EntryType
  <1>4. SumFunctionOnSet(C, F) = SumFunctionOnSet(B, F) + (d - b)
    <2>1. /\ \A y \in F : B[y] \in Int /\ C[y] \in Int
          /\ \A y \in F \ {x} : C[y] = B[y]
          /\ B[x] = b /\ C[x] = d
      BY <1>1, <1>2, <1>3 DEF Bufsizes
    <2> HIDE DEF B, C, b, d
    <2>2. SumFunctionOnSet(C, F) = (SumFunctionOnSet(B, F) - B[x]) + C[x]
      <3>1. PICK p, q : p = B /\ q = C
        OBVIOUS
      <3>2. \A y \in F \ {x} : p[y] = q[y]
        BY <2>1, <3>1
      <3>3. \A y \in F : p[y] \in Int /\ q[y] \in Int
        BY <2>1, <3>1
      <3>5. DifferAt(F, p, q, x)
        BY <3>2, <3>3 DEF DifferAt
      <3>4. SumFunctionOnSet(q, F) = (SumFunctionOnSet(p, F) - p[x]) + q[x]
        BY <3>5, SumChanges
      <3> QED BY <3>1, <3>4
    <2>3. SumFunctionOnSet(B, F) \in Int /\ B[x] \in Int /\ C[x] \in Int
      BY <2>1, SumTyped
    <2> QED BY <2>1, <2>2, <2>3
  <1>5. SumFunctionOnSet(B, F) \in Int /\ b \in Int /\ d \in Int
    <2>1. \A y \in F : B[y] \in Int
      BY <1>1, <1>3 DEF Bufsizes
    <2>2. b \in Int /\ d \in Int
      BY <1>3
    <2> HIDE DEF B
    <2> QED BY <2>1, <2>2, SumTyped
  <1>6. O \subseteq F /\ P \subseteq F /\ IsFiniteSet(O) /\ IsFiniteSet(P)
        /\ Cardinality(O) \in Nat /\ Cardinality(P) \in Nat
    <2>1. O \subseteq F /\ P \subseteq F
      BY DEF Opened
    <2> QED BY <2>1, FS_Subset, FS_CardinalityType
  <1>7. Cardinality(P) = Cardinality(O) + ((IF g.entry[x].fd THEN 1 ELSE 0)
                                             - (IF h.entry[x].fd THEN 1 ELSE 0))
    <2>1. O \ {x} = P \ {x} /\ (x \in O <=> h.entry[x].fd) /\ (x \in P <=> g.entry[x].fd)
      BY <1>2 DEF Opened
    <2>2. ASSUME NEW S, IsFiniteSet(S)
          PROVE  /\ x \in S => Cardinality(S) = Cardinality(S \ {x}) + 1
                 /\ x \notin S => Cardinality(S) = Cardinality(S \ {x})
      <3>1. CASE x \in S
        <4>1. Cardinality(S \ {x}) = Cardinality(S) - 1 /\ Cardinality(S) \in Nat
          BY <2>2, <3>1, FS_RemoveElement, FS_CardinalityType
        <4> QED BY <3>1, <4>1
      <3>2. CASE x \notin S
        <4>1. S \ {x} = S
          BY <3>2
        <4> QED BY <3>2, <4>1
      <3> QED BY <3>1, <3>2
    <2>3. PICK n \in Nat : n = Cardinality(O \ {x})
      BY <1>6, FS_Subset, FS_CardinalityType
    <2>4. /\ Cardinality(O) = n + IF h.entry[x].fd THEN 1 ELSE 0
          /\ Cardinality(P) = n + IF g.entry[x].fd THEN 1 ELSE 0
      <3> HIDE DEF O, P
      <3> QED BY <1>6, <2>1, <2>2, <2>3
    <2> HIDE DEF O, P
    <2> QED BY <2>4
  <1>8. /\ Unaccounted(h) = <<h.allocated - SumFunctionOnSet(B, F), h.open - Cardinality(O)>>
        /\ Unaccounted(g) = <<g.allocated - SumFunctionOnSet(C, F), g.open - Cardinality(P)>>
    BY <1>1, Zenon DEF Unaccounted
  <1> HIDE DEF B, C, O, P
  <1>9. g.allocated - SumFunctionOnSet(C, F) = h.allocated - SumFunctionOnSet(B, F)
    <2>1. PICK a \in Int, s \in Int, k \in Int : a = h.allocated /\ s = SumFunctionOnSet(B, F) /\ k = d - b
      BY <1>1, <1>5
    <2>2. g.allocated = a + k /\ SumFunctionOnSet(C, F) = s + k
      BY <1>4, <2>1
    <2> QED BY <2>1, <2>2
  <1>10. g.open - Cardinality(P) = h.open - Cardinality(O)
    <2>1. PICK k \in Int : k = (IF g.entry[x].fd THEN 1 ELSE 0) - (IF h.entry[x].fd THEN 1 ELSE 0)
      OBVIOUS
    <2>2. PICK a \in Int, s \in Nat : a = h.open /\ s = Cardinality(O)
      BY <1>1, <1>6
    <2>3. g.open = a + k /\ Cardinality(P) = s + k
      BY <1>7, <2>1, <2>2
    <2> QED BY <2>2, <2>3
  <1> QED BY <1>8, <1>9, <1>10

(* What a visit that stops at nothing makes of the set: x may be ready now, and
   the set with it, and its end may be read. *)
Served(h, x, size, r) ==
  /\ DOMAIN r.entry = DOMAIN h.entry
  /\ \A f \in DOMAIN h.entry \ {x} : r.entry[f] = h.entry[f]
  /\ r.entry[x].state \in {"FS_NEED_DATA", "FS_BUFFER_READY"}
  /\ r.entry[x].hashed = h.entry[x].hashed
  /\ r.buffer_ready = h.buffer_ready + IF r.entry[x].state = "FS_BUFFER_READY" THEN 1 ELSE 0
  /\ r.state = IF r.entry[x].state = "FS_BUFFER_READY" /\ h.list_size = r.buffer_ready
               THEN "PLS_ALL_BUFFERS_READY" ELSE h.state
  /\ r.fully_read <=> h.fully_read \/ r.entry[x].next_read_byte >= size
  /\ r.list_size = h.list_size /\ r.wanted_bufsize = h.wanted_bufsize
  /\ r.hash_passes = h.hash_passes /\ r.dups = h.dups /\ r.unique = h.unique
  /\ r.processed = h.processed /\ r.published = h.published /\ r.exited = h.exited

\* The states of the files after it.
LEMMA ServedStates ==
  ASSUME NEW F, NEW h \in PathListType(F), NEW x \in F, h.entry[x].state = "FS_NEED_DATA",
         NEW size, NEW r, Served(h, x, size, r)
  PROVE  /\ Active(r) = Active(h) /\ x \in Active(h) /\ x \notin ReadyFiles(h)
         /\ ReadyFiles(r) = IF r.entry[x].state = "FS_BUFFER_READY"
                            THEN ReadyFiles(h) \cup {x} ELSE ReadyFiles(h)
         /\ SameVerdicts(h, r)
         /\ InState(r, {"FS_CACHE_DONE", "FS_IGNORE_HL"})
              = InState(h, {"FS_CACHE_DONE", "FS_IGNORE_HL"})
  <1>1. /\ DOMAIN h.entry = F /\ DOMAIN r.entry = F
        /\ \A f \in F \ {x} : r.entry[f] = h.entry[f]
        /\ r.entry[x].state \in {"FS_NEED_DATA", "FS_BUFFER_READY"}
        /\ r.published = h.published
    <2>1. DOMAIN h.entry = F
      BY Zenon DEF PathListType
    <2> QED BY <2>1 DEF Served
  <1>2. ASSUME NEW S, "FS_NEED_DATA" \notin S, "FS_BUFFER_READY" \notin S
        PROVE  InState(r, S) = InState(h, S)
    BY <1>1, <1>2 DEF InState
  <1>3. \A st \in FinalStates : InState(r, {st}) = InState(h, {st})
    BY <1>2 DEF FinalStates
  <1>4. InState(r, {"FS_CACHE_DONE", "FS_IGNORE_HL"})
              = InState(h, {"FS_CACHE_DONE", "FS_IGNORE_HL"})
    BY <1>2
  <1>5. Active(r) = Active(h) /\ x \in Active(h) /\ x \notin ReadyFiles(h)
    BY <1>1 DEF Active, ReadyFiles, InState
  <1>6. ReadyFiles(r) = IF r.entry[x].state = "FS_BUFFER_READY"
                            THEN ReadyFiles(h) \cup {x} ELSE ReadyFiles(h)
    BY <1>1 DEF ReadyFiles, InState
  <1> QED BY <1>1, <1>3, <1>4, <1>5, <1>6 DEF SameVerdicts

\* What was left of the file when the end of it was read fits a buffer.
LEMMA EndFits ==
  ASSUME NEW c \in Seq(Nat), NEW w \in Nat, NEW bl, NEW e, EntrySound(e, c, w, bl),
         e.state \in {"FS_NEED_DATA", "FS_BUFFER_READY"}, e.next_read_byte >= Len(c)
  PROVE  e.state = "FS_BUFFER_READY" /\ Len(e.hashed) \in Nat /\ Len(c) - Len(e.hashed) <= w
  <1>1. Data(e, c, w)
    BY DEF EntrySound
  <1>2. e.next_read_byte \in Nat /\ Len(c) \in Nat
    BY <1>1, LenProperties DEF Data, EntryType
  <1>3. e.state = "FS_BUFFER_READY"
    <2>1. ~(e.next_read_byte < Len(c))
      BY <1>2
    <2> QED BY <2>1 DEF EntrySound
  <1>4. ReadyEntry(e, c, w, bl)
    BY <1>3, ReadyEntryIs
  <1>5. PICK a \in Nat, b \in Nat, m \in Nat, n \in Nat :
             a = Len(e.hashed) /\ b = Len(e.buffer) /\ m = e.next_read_byte /\ n = Len(c)
    BY <1>2, <1>4 DEF ReadyEntry
  <1>6. a + b = m /\ b <= w /\ m <= n /\ m >= n
    BY <1>4, <1>5 DEF ReadyEntry
  <1>7. n - a <= w
    BY <1>6
  <1> QED BY <1>3, <1>5, <1>7

\* Everything still holds after it.
LEMMA ServedSteady ==
  ASSUME NEW F, IsFiniteSet(F), NEW h, NEW c, NEW bl, Steady(F, h, c, bl),
         NEW size \in Nat, EqualSize(F, c, size),
         NEW x \in F, h.entry[x].state = "FS_NEED_DATA", h.state = "PLS_NEED_DATA",
         NEW r, r \in PathListType(F), Served(h, x, size, r),
         EntrySound(r.entry[x], c[x], h.wanted_bufsize, bl[x])
  PROVE  Steady(F, r, c, bl)
  <1> DEFINE w == h.wanted_bufsize
  <1>1. /\ h \in PathListType(F) /\ Counted(h) /\ Settled(h) /\ ReadSoFar(h, c, bl)
        /\ Tallied(h) /\ Released(h)
    BY DEF Steady
  <1>2. /\ DOMAIN h.entry = F /\ h.entry \in [F -> EntryType] /\ w \in Nat
        /\ h.buffer_ready \in Nat /\ h.list_size \in Nat
    BY <1>1, Zenon DEF PathListType
  <1>3. /\ Active(r) = Active(h) /\ x \in Active(h) /\ x \notin ReadyFiles(h)
        /\ ReadyFiles(r) = IF r.entry[x].state = "FS_BUFFER_READY"
                            THEN ReadyFiles(h) \cup {x} ELSE ReadyFiles(h)
        /\ SameVerdicts(h, r)
        /\ InState(r, {"FS_CACHE_DONE", "FS_IGNORE_HL"})
              = InState(h, {"FS_CACHE_DONE", "FS_IGNORE_HL"})
    BY <1>1, ServedStates
  <1>4. /\ InState(r, {"FS_DONE"}) = InState(h, {"FS_DONE"})
        /\ InState(r, {"FS_UNIQUE"}) = InState(h, {"FS_UNIQUE"})
        /\ InState(r, {"FS_IGNORE"}) = InState(h, {"FS_IGNORE"})
    BY <1>3 DEF SameVerdicts, FinalStates
  <1>5. /\ DOMAIN r.entry = F
        /\ \A f \in F \ {x} : r.entry[f] = h.entry[f]
        /\ r.entry[x].state \in {"FS_NEED_DATA", "FS_BUFFER_READY"}
        /\ r.entry[x].hashed = h.entry[x].hashed
        /\ r.buffer_ready = h.buffer_ready + (IF r.entry[x].state = "FS_BUFFER_READY" THEN 1 ELSE 0)
        /\ r.state = IF r.entry[x].state = "FS_BUFFER_READY" /\ h.list_size = r.buffer_ready
                     THEN "PLS_ALL_BUFFERS_READY" ELSE h.state
        /\ r.fully_read <=> h.fully_read \/ r.entry[x].next_read_byte >= size
        /\ r.list_size = h.list_size /\ r.wanted_bufsize = w
        /\ r.dups = h.dups /\ r.unique = h.unique
        /\ r.processed = h.processed /\ r.published = h.published
    BY <1>2 DEF Served
  <1>6. Cardinality(ReadyFiles(r)) = r.buffer_ready
    <2>1. Cardinality(ReadyFiles(h)) = h.buffer_ready
      BY <1>1 DEF Counted
    <2>2. IsFiniteSet(ReadyFiles(h))
      <3>1. ReadyFiles(h) \subseteq F
        BY <1>2 DEF ReadyFiles, InState
      <3> QED BY <3>1, FS_Subset
    <2>3. Cardinality(ReadyFiles(h) \cup {x}) = Cardinality(ReadyFiles(h)) + 1
      BY <1>3, <2>2, FS_AddElement
    <2>4. CASE r.entry[x].state = "FS_BUFFER_READY"
      BY <1>3, <1>5, <2>1, <2>3, <2>4
    <2>5. CASE r.entry[x].state # "FS_BUFFER_READY"
      BY <1>2, <1>3, <1>5, <2>1, <2>5
    <2> QED BY <2>4, <2>5
  <1>7. Counted(r)
    <2>1. /\ InState(h, {"FS_CACHE_DONE", "FS_IGNORE_HL"}) = {}
          /\ InState(h, {"FS_DONE"}) = {} /\ h.list_size > 1
          /\ h.list_size = Cardinality(Active(h)) /\ h.buffer_ready # h.list_size
      BY <1>1 DEF Counted
    <2>2. r.state = "PLS_ALL_BUFFERS_READY" <=> r.buffer_ready = r.list_size
      <3>1. CASE r.entry[x].state = "FS_BUFFER_READY"
        BY <1>5, <3>1
      <3>2. CASE r.entry[x].state # "FS_BUFFER_READY"
        <4>1. r.buffer_ready = h.buffer_ready /\ r.state = h.state
          BY <1>2, <1>5, <3>2
        <4> QED BY <1>5, <2>1, <4>1
      <3> QED BY <3>1, <3>2
    <2>3. r.state # "PLS_DONE"
      BY <1>5
    <2> QED BY <1>3, <1>4, <1>5, <1>6, <2>1, <2>2, <2>3 DEF Counted
  <1>8. Settled(r)
    BY <1>1, <1>4, <1>5 DEF Settled
  <1>9. Tallied(r)
    <2>1. /\ h.dups = Cardinality(InState(h, {"FS_DONE"}))
          /\ h.unique = Cardinality(InState(h, {"FS_UNIQUE"})) /\ h.processed = 0
      BY <1>1 DEF Tallied
    <2>2. r.state # "PLS_DONE"
      BY <1>5
    <2> QED BY <1>4, <1>5, <2>1, <2>2 DEF Tallied
  <1>10. Released(r)
    BY <1>1, <1>2, <1>3, <1>5 DEF Released
  <1>11. ReadSoFar(r, c, bl)
    <2>1. /\ \A f \in Active(h) : EntrySound(h.entry[f], c[f], w, bl[f])
          /\ \A f, g \in Active(h) : Len(h.entry[f].hashed) = Len(h.entry[g].hashed)
          /\ h.fully_read => \A f \in Active(h) : Len(c[f]) - Len(h.entry[f].hashed) <= w
          /\ ~h.fully_read => \A f \in ReadyFiles(h) : h.entry[f].next_read_byte < Len(c[f])
          /\ \A f \in Active(h), g \in F :
               c[g] = c[f] => g \in Active(h) \cup InState(h, {"FS_IGNORE"})
      BY <1>1, <1>2 DEF ReadSoFar
    <2>2. Active(h) \subseteq F
      BY <1>2 DEF Active, InState
    <2>3. \A f \in F : r.entry[f].hashed = h.entry[f].hashed
      BY <1>5
    <2>4. \A f, g \in Active(r) : Len(r.entry[f].hashed) = Len(r.entry[g].hashed)
      BY <1>3, <2>1, <2>2, <2>3
    <2>5. \A f \in Active(r) : EntrySound(r.entry[f], c[f], r.wanted_bufsize, bl[f])
      BY <1>3, <1>5, <2>1, <2>2
    <2>6. \A f \in F : c[f] \in Seq(Nat) /\ Len(c[f]) = size
      BY DEF EqualSize
    <2>7. ASSUME r.fully_read, NEW f \in Active(r)
          PROVE  Len(c[f]) - Len(r.entry[f].hashed) <= r.wanted_bufsize
      <3>1. CASE h.fully_read
        BY <1>3, <1>5, <2>1, <2>2, <2>3, <3>1
      <3>2. CASE ~h.fully_read
        <4>1. r.entry[x].next_read_byte >= Len(c[x])
          BY <1>5, <2>6, <2>7, <3>2
        <4>2. Len(c[x]) - Len(r.entry[x].hashed) <= w
          <5>1. PICK e : e = r.entry[x]
            OBVIOUS
          <5>2. Len(c[x]) - Len(e.hashed) <= w
            BY <1>2, <1>5, <2>6, <4>1, <5>1, EndFits
          <5> QED BY <5>1, <5>2
        <4>3. Len(r.entry[f].hashed) = Len(r.entry[x].hashed)
          BY <1>3, <2>4
        <4>4. Len(c[f]) = Len(c[x])
          BY <1>3, <2>2, <2>6
        <4> QED BY <1>5, <4>2, <4>3, <4>4
      <3> QED BY <3>1, <3>2
    <2>8. ASSUME ~r.fully_read, NEW f \in ReadyFiles(r)
          PROVE  r.entry[f].next_read_byte < Len(c[f])
      <3>1. f \in F
        <4>1. DOMAIN r.entry = F
          BY <1>5
        <4> QED BY <4>1 DEF ReadyFiles, InState
      <3>2. CASE f = x
        <4>2. r.entry[x].next_read_byte \in Nat
          BY DEF EntrySound, Data, EntryType
        <4>3. ~(r.entry[x].next_read_byte >= size)
          BY <1>5, <2>8
        <4> QED BY <2>6, <3>2, <4>2, <4>3
      <3>3. CASE f # x
        <4>1. f \in ReadyFiles(h)
          BY <1>3, <3>3, <2>8
        <4>2. ~h.fully_read
          BY <1>5, <2>8
        <4> QED BY <1>5, <2>1, <3>1, <3>3, <4>1, <4>2
      <3> QED BY <3>2, <3>3
    <2>9. \A f \in Active(r), g \in F :
               c[g] = c[f] => g \in Active(r) \cup InState(r, {"FS_IGNORE"})
      BY <1>3, <1>4, <2>1
    <2> QED BY <1>5, <2>4, <2>5, <2>7, <2>8, <2>9 DEF ReadSoFar
  <1> QED BY <1>7, <1>8, <1>9, <1>10, <1>11 DEF Steady

-----------------------------------------------------------------------------
\* mark_path_entry_ready(), and what the reader notes of the end.
MarkedReady(h, x, end) ==
  [mark_path_entry_ready(h, x) EXCEPT !.fully_read = @ \/ end]

\* A file with another state is a file.
LEMMA EntryStateTyped ==
  ASSUME NEW F, NEW en \in [F -> EntryType], NEW x \in F, NEW st \in FileStates,
         NEW r, r = [en EXCEPT ![x].state = st]
  PROVE  /\ r \in [F -> EntryType] /\ r[x] = [en[x] EXCEPT !.state = st]
         /\ \A f \in F \ {x} : r[f] = en[f]
  <1>1. [en[x] EXCEPT !.state = st] \in EntryType
    <2>1. PICK e \in EntryType : e = en[x]
      OBVIOUS
    <2>2. [e EXCEPT !.state = st] \in EntryType
      BY Zenon DEF EntryType
    <2> QED BY <2>1, <2>2
  <1>2. r = [en EXCEPT ![x] = [en[x] EXCEPT !.state = st]]
    BY Zenon
  <1> QED BY <1>1, <1>2

\* The file is ready, and with the last one the set is.
LEMMA MarkedReadyIs ==
  ASSUME NEW F, NEW g \in PathListType(F), NEW x \in F, g.state = "PLS_NEED_DATA",
         NEW end \in BOOLEAN, NEW r, r = MarkedReady(g, x, end)
  PROVE  /\ r \in PathListType(F)
         /\ r.entry[x] = [g.entry[x] EXCEPT !.state = "FS_BUFFER_READY"]
         /\ \A f \in F \ {x} : r.entry[f] = g.entry[f]
         /\ r.buffer_ready = g.buffer_ready + 1
         /\ r.state = IF g.list_size = r.buffer_ready THEN "PLS_ALL_BUFFERS_READY" ELSE g.state
         /\ r.fully_read = (g.fully_read \/ end)
         /\ r.list_size = g.list_size /\ r.wanted_bufsize = g.wanted_bufsize
         /\ r.hash_passes = g.hash_passes /\ r.dups = g.dups /\ r.unique = g.unique
         /\ r.processed = g.processed /\ r.published = g.published /\ r.exited = g.exited
         /\ r.allocated = g.allocated /\ r.open = g.open
  <1> DEFINE en == [g.entry EXCEPT ![x].state = "FS_BUFFER_READY"]
             n == g.buffer_ready + 1
             m == [g EXCEPT !.entry = en, !.buffer_ready = n]
             k == MarkIfReady(m)
             fr == g.fully_read \/ end
  <1>1. g.entry \in [F -> EntryType] /\ g.buffer_ready \in Nat /\ g.fully_read \in BOOLEAN
    BY Zenon DEF PathListType
  <1>2. /\ en \in [F -> EntryType] /\ en[x] = [g.entry[x] EXCEPT !.state = "FS_BUFFER_READY"]
        /\ \A f \in F \ {x} : en[f] = g.entry[f]
    <2>1. PICK st, old, new : /\ st = "FS_BUFFER_READY" /\ old = g.entry
                              /\ new = [old EXCEPT ![x].state = st]
      OBVIOUS
    <2>2. st \in FileStates /\ old \in [F -> EntryType] /\ en = new
      BY <1>1, <2>1 DEF FileStates
    <2>3. /\ new \in [F -> EntryType] /\ new[x] = [old[x] EXCEPT !.state = st]
          /\ \A f \in F \ {x} : new[f] = old[f]
      BY <2>1, <2>2, EntryStateTyped
    <2> HIDE DEF en
    <2> QED BY <2>1, <2>2, <2>3
  <1>3. n \in Nat /\ fr \in BOOLEAN
    BY <1>1
  <1>4. r = [k EXCEPT !.fully_read = @ \/ end]
    <2>1. m = [g EXCEPT !.entry[x].state = "FS_BUFFER_READY", !.buffer_ready = @ + 1]
      BY Zenon
    <2> HIDE DEF m
    <2> QED BY <2>1, Zenon DEF MarkedReady, mark_path_entry_ready
  <1> HIDE DEF en, n
  <1>5. m \in PathListType(F)
    BY <1>2, <1>3, Zenon DEF PathListType
  <1>6. /\ m.entry = en /\ m.buffer_ready = n /\ m.state = g.state
        /\ m.list_size = g.list_size /\ m.wanted_bufsize = g.wanted_bufsize
        /\ m.hash_passes = g.hash_passes /\ m.dups = g.dups /\ m.unique = g.unique
        /\ m.processed = g.processed /\ m.published = g.published /\ m.exited = g.exited
        /\ m.allocated = g.allocated /\ m.open = g.open /\ m.fully_read = g.fully_read
    BY DEF PathListType
  <1> HIDE DEF m
  <1>7. /\ k \in PathListType(F) /\ Kept(m, k)
        /\ k.list_size = m.list_size /\ k.unique = m.unique /\ k.exited = m.exited
        /\ k.entry = m.entry
        /\ k.state = IF m.list_size = m.buffer_ready THEN "PLS_ALL_BUFFERS_READY" ELSE m.state
    BY <1>5, MarkIfReadyIs
  <1>8. k.allocated = m.allocated /\ k.open = m.open
    BY <1>5 DEF MarkIfReady, PathListType
  <1> HIDE DEF k, fr
  <1>9. r = [k EXCEPT !.fully_read = fr]
    BY <1>4, <1>6, <1>7 DEF fr, Kept
  <1>10. r \in PathListType(F)
    BY <1>3, <1>7, <1>9, Zenon DEF PathListType
  <1>11. /\ r.entry = k.entry /\ r.buffer_ready = k.buffer_ready /\ r.state = k.state
         /\ r.list_size = k.list_size /\ r.wanted_bufsize = k.wanted_bufsize
         /\ r.hash_passes = k.hash_passes /\ r.dups = k.dups /\ r.unique = k.unique
         /\ r.processed = k.processed /\ r.published = k.published /\ r.exited = k.exited
         /\ r.allocated = k.allocated /\ r.open = k.open /\ r.fully_read = fr
    BY <1>7, <1>9 DEF PathListType
  <1> QED BY <1>2, <1>6, <1>7, <1>8, <1>10, <1>11 DEF Kept, n, fr

-----------------------------------------------------------------------------
\* list_size counts all files that are left.
AllCounted(h) == h.list_size = Cardinality(Remaining(h))

\* There are not so many files that their number is taken for -1.
NotTooMany(h) == UINT16_MAX \in Nat /\ h.list_size <= UINT16_MAX

(* What a file that is ignored leaves: one alone is unique, and the set done. *)
WithIgnored(h, x, r) ==
  /\ h.list_size # 2 =>
       /\ r.list_size = h.list_size - 1
       /\ r.entry = Retired(h.entry, {x}, "FS_IGNORE")
       /\ r.exited = "none" =>
            r.state = IF r.list_size = h.buffer_ready THEN "PLS_ALL_BUFFERS_READY" ELSE h.state
  /\ h.list_size = 2 =>
       /\ r.list_size = 0 /\ r.state = "PLS_DONE"
       /\ r.entry = Retired(Retired(h.entry, {x}, "FS_IGNORE"), Remaining(h) \ {x}, "FS_UNIQUE")

\* The name of a check that stopped the program changes nothing else.
LEMMA ExitIs ==
  ASSUME NEW F, NEW h \in PathListType(F), NEW check \in Checks, NEW r, r = Exit(h, check)
  PROVE  /\ r \in PathListType(F) /\ Kept(h, r) /\ Unaccounted(r) = Unaccounted(h)
         /\ r.exited = check /\ r.unique = h.unique /\ r.list_size = h.list_size
         /\ r.state = h.state /\ r.entry = h.entry
  <1>1. r = [h EXCEPT !.exited = check]
    BY DEF Exit
  <1>2. r \in PathListType(F)
    BY <1>1, Zenon DEF PathListType
  <1>3. /\ Kept(h, r) /\ r.exited = check /\ r.unique = h.unique /\ r.list_size = h.list_size
        /\ r.state = h.state /\ r.entry = h.entry /\ r.allocated = h.allocated
        /\ r.open = h.open
    BY <1>1 DEF PathListType, Kept
  <1>4. Unaccounted(r) = Unaccounted(h)
    BY <1>3, SameUnaccounted
  <1> QED BY <1>2, <1>3, <1>4

\* mark_path_entry_ignore() of a file that is compared with others.
LEMMA IgnoredIs ==
  ASSUME NEW F, IsFiniteSet(F), NEW h \in PathListType(F), NEW x \in F, Compared(h, x),
         AllCounted(h), NEW r, r = mark_path_entry_ignore(h, x)
  PROVE  /\ r \in PathListType(F) /\ Kept(h, r) /\ Unaccounted(r) = Unaccounted(h)
         /\ r.unique = h.unique /\ r.exited \in {h.exited, "list_size=-1"}
         /\ WithIgnored(h, x, r)
         /\ NotTooMany(h) => r.exited = h.exited
  <1> DEFINE less == Less(h, x, "FS_IGNORE")
             rest == IF less.list_size # 1 THEN less
                     ELSE IF Cardinality(Remaining(less)) = 1 THEN clear_remaining_entry(less)
                     ELSE Exit(less, "expected one remaining entry")
  <1>0. "FS_IGNORE" \in FileStates
    BY Zenon DEF FileStates
  <1>1. h.list_size \in Nat /\ h.list_size > 1 /\ h.entry \in [F -> EntryType]
    BY Zenon DEF PathListType, Compared
  <1>2. /\ less \in PathListType(F) /\ Kept(h, less) /\ Unaccounted(less) = Unaccounted(h)
        /\ less.state = h.state /\ less.list_size = h.list_size - 1
        /\ less.unique = h.unique /\ less.exited = h.exited
        /\ less.entry = Retired(h.entry, {x}, "FS_IGNORE")
    <2>1. PICK st : st = "FS_IGNORE"
      OBVIOUS
    <2>2. st \in FileStates /\ less = Less(h, x, st)
      BY <1>0, <2>1
    <2> HIDE DEF less, rest
    <2>3. LessBy(F, h, x, st, less)
      <3>1. h.list_size > 0
        BY <1>1
      <3> QED BY <2>2, <3>1, MarkedIs
    <2> QED BY <2>1, <2>3 DEF LessBy
  <1>3. r = CASE rest.list_size = UINT16_MAX -> Exit(rest, "list_size=-1")
              [] rest.list_size # UINT16_MAX /\ rest.list_size > 1 -> MarkIfReady(rest)
              [] OTHER -> rest
    <2>1. ~(h.list_size = 0)
      BY <1>1
    <2>2. h.entry[x].state = "FS_NEED_DATA"
      BY DEF Compared
    <2>3. mark_path_entry_ignore(h, x) = mark_path_entry_ignore_int(h, x, "FS_IGNORE")
      <3> HIDE DEF less, rest
      <3> QED BY <2>1, <2>2, Zenon DEF mark_path_entry_ignore
    <2> QED BY <2>3, Zenon DEF mark_path_entry_ignore_int, Less
  <1>4. /\ InState(less, {"FS_DONE"}) = {} /\ Remaining(less) = Remaining(h) \ {x}
    <2>1. PICK st, T : st = "FS_IGNORE" /\ T = {x}
      OBVIOUS
    <2>2. st \in FinalStates /\ st \in WithoutDups
      BY <2>1 DEF FinalStates, WithoutDups
    <2>3. less.entry = Retired(h.entry, T, st) /\ T \subseteq F
      BY <1>2, <2>1
    <2> HIDE DEF less
    <2>4. Remaining(less) = Remaining(h) \ T
      BY <2>2, <2>3, RetiredLeave DEF Leave
    <2>5. InState(less, {"FS_DONE"}) = InState(h, {"FS_DONE"}) \ T
      BY <2>2, <2>3, RetiredWithout
    <2> QED BY <2>1, <2>4, <2>5 DEF Compared
  <1>5. /\ rest \in PathListType(F) /\ Kept(h, rest) /\ Unaccounted(rest) = Unaccounted(h)
        /\ rest.unique = h.unique /\ rest.exited = h.exited
        /\ h.list_size # 2 =>
             /\ rest.list_size = h.list_size - 1 /\ rest.state = h.state
             /\ rest.entry = Retired(h.entry, {x}, "FS_IGNORE")
        /\ h.list_size = 2 =>
             /\ rest.list_size = 0 /\ rest.state = "PLS_DONE"
             /\ rest.entry = Retired(Retired(h.entry, {x}, "FS_IGNORE"), Remaining(h) \ {x},
                                     "FS_UNIQUE")
    <2> HIDE DEF less
    <2>1. CASE h.list_size # 2
      <3>1. rest = less
        BY <1>1, <1>2, <2>1
      <3> QED BY <1>2, <2>1, <3>1
    <2>2. CASE h.list_size = 2
      <3>1. Cardinality(Remaining(less)) = 1
        <4>1. IsFiniteSet(Remaining(h)) /\ x \in Remaining(h)
          <5>1. Remaining(h) \subseteq F
            BY <1>1 DEF Remaining, InState
          <5>2. x \in Remaining(h)
            BY <1>1 DEF Remaining, InState, Compared
          <5> QED BY <5>1, <5>2, FS_Subset
        <4>2. Cardinality(Remaining(h) \ {x}) = Cardinality(Remaining(h)) - 1
          BY <4>1, FS_RemoveElement
        <4>3. Cardinality(Remaining(h)) = 2
          BY <2>2 DEF AllCounted
        <4> QED BY <1>4, <4>2, <4>3
      <3>2. rest = clear_remaining_entry(less)
        <4>1. less.list_size = 1
          BY <1>2, <2>2
        <4> QED BY <3>1, <4>1
      <3>3. /\ rest \in PathListType(F) /\ Kept(less, rest) /\ Unaccounted(rest) = Unaccounted(less)
            /\ rest.state = "PLS_DONE" /\ rest.list_size = 0
            /\ rest.unique = less.unique /\ rest.exited = less.exited
            /\ rest.entry = Retired(less.entry, Remaining(less), "FS_UNIQUE")
        <4> HIDE DEF rest
        <4> QED BY <1>2, <1>4, <3>2, ClearedIs
      <3> QED BY <1>2, <1>4, <2>2, <3>3 DEF Kept
    <2> QED BY <2>1, <2>2
  <1> HIDE DEF less, rest
  <1>6. CASE rest.list_size = UINT16_MAX
    <2>1. r = Exit(rest, "list_size=-1")
      BY <1>3, <1>6
    <2>2. PICK check \in Checks : check = "list_size=-1"
      BY DEF Checks
    <2>3. /\ r \in PathListType(F) /\ Kept(rest, r) /\ Unaccounted(r) = Unaccounted(rest)
          /\ r.exited = "list_size=-1" /\ r.unique = rest.unique /\ r.list_size = rest.list_size
          /\ r.state = rest.state /\ r.entry = rest.entry
      BY <1>5, <2>1, <2>2, ExitIs
    <2>4. ~NotTooMany(h)
      <3> SUFFICES ASSUME NotTooMany(h) PROVE FALSE
        OBVIOUS
      <3>1. PICK m \in Nat : m = UINT16_MAX /\ h.list_size <= m
        BY DEF NotTooMany
      <3>2. rest.list_size = m
        BY <1>6, <3>1
      <3>3. (rest.list_size = 0 /\ h.list_size = 2) \/ rest.list_size = h.list_size - 1
        BY <1>5
      <3> QED BY <1>1, <3>1, <3>2, <3>3
    <2> QED BY <1>5, <2>3, <2>4 DEF Kept, WithIgnored
  <1>7. CASE rest.list_size # UINT16_MAX /\ rest.list_size > 1
    <2>1. r = MarkIfReady(rest)
      BY <1>3, <1>7
    <2>2. /\ r \in PathListType(F) /\ Kept(rest, r) /\ Unaccounted(r) = Unaccounted(rest)
          /\ r.list_size = rest.list_size /\ r.unique = rest.unique /\ r.exited = rest.exited
          /\ r.entry = rest.entry
          /\ r.state = IF rest.list_size = rest.buffer_ready THEN "PLS_ALL_BUFFERS_READY"
                       ELSE rest.state
      BY <1>5, <2>1, MarkIfReadyIs
    <2>3. h.list_size # 2
      BY <1>5, <1>7
    <2> QED BY <1>5, <2>2, <2>3 DEF Kept, WithIgnored
  <1>8. CASE rest.list_size # UINT16_MAX /\ ~(rest.list_size > 1)
    <2>1. r = rest
      BY <1>3, <1>8
    <2>2. h.list_size = 2
      BY <1>1, <1>5, <1>8
    <2> QED BY <1>5, <2>1, <2>2 DEF WithIgnored
  <1> QED BY <1>6, <1>7, <1>8

\* What entries are like of which some were retired.
RetiredAs(F, en, T, st, r) ==
  /\ r \in [F -> EntryType]
  /\ \A f \in T : r[f].state = st /\ r[f].bufsize = 0 /\ ~r[f].fd
  /\ \A f \in F \ T : r[f] = en[f]

\* They are that.
LEMMA AreRetired ==
  ASSUME NEW F, NEW en, en \in [F -> EntryType], NEW T, T \subseteq F, NEW st \in FileStates,
         NEW r, r = Retired(en, T, st)
  PROVE  RetiredAs(F, en, T, st, r)
  <1>1. T \in SUBSET F
    OBVIOUS
  <1> QED BY <1>1, RetiredIs DEF RetiredAs

\* Some are ignored, and others found unique.
LEMMA RetiredTwo ==
  ASSUME NEW F, NEW en, en \in [F -> EntryType], NEW x \in F, NEW T, T \subseteq F, x \notin T,
         NEW r, r = Retired(Retired(en, {x}, "FS_IGNORE"), T, "FS_UNIQUE")
  PROVE  /\ DOMAIN r = F
         /\ r[x].state = "FS_IGNORE" /\ \A f \in T : r[f].state = "FS_UNIQUE"
         /\ \A f \in T \cup {x} : r[f].bufsize = 0 /\ ~r[f].fd
         /\ \A f \in (F \ {x}) \ T : r[f] = en[f]
  <1>1. PICK X, si, su, mid :
             /\ X = {x} /\ si = "FS_IGNORE" /\ su = "FS_UNIQUE" /\ mid = Retired(en, X, si)
    OBVIOUS
  <1>2. si \in FileStates /\ su \in FileStates /\ X \subseteq F /\ r = Retired(mid, T, su)
    BY <1>1 DEF FileStates
  <1>3. RetiredAs(F, en, X, si, mid)
    BY <1>1, <1>2, AreRetired
  <1>4. mid \in [F -> EntryType]
    BY <1>3 DEF RetiredAs
  <1>5. RetiredAs(F, mid, T, su, r)
    BY <1>2, <1>4, AreRetired
  <1>6. /\ mid[x].state = si /\ mid[x].bufsize = 0 /\ ~mid[x].fd
        /\ \A f \in F \ {x} : mid[f] = en[f]
    BY <1>1, <1>3 DEF RetiredAs
  <1>7. /\ DOMAIN r = F
        /\ \A f \in T : r[f].state = su /\ r[f].bufsize = 0 /\ ~r[f].fd
        /\ \A f \in F \ T : r[f] = mid[f]
    BY <1>5 DEF RetiredAs
  <1>8. r[x] = mid[x] /\ si = "FS_IGNORE" /\ su = "FS_UNIQUE"
    BY <1>1, <1>7
  <1>9. \A f \in (F \ {x}) \ T : r[f] = en[f]
    BY <1>6, <1>7
  <1>10. \A f \in T \cup {x} : r[f].bufsize = 0 /\ ~r[f].fd
    BY <1>6, <1>7, <1>8
  <1>11. r[x].state = "FS_IGNORE" /\ \A f \in T : r[f].state = "FS_UNIQUE"
    BY <1>6, <1>7, <1>8
  <1> QED BY <1>7, <1>9, <1>10, <1>11

(* The states of the files after x was ignored and those in T found unique. *)
IgnoredStates(h, x, T, r) ==
  /\ Active(r) = (Active(h) \ {x}) \ T /\ ReadyFiles(r) = ReadyFiles(h) \ T
  /\ InState(r, {"FS_DONE"}) = InState(h, {"FS_DONE"})
  /\ InState(r, {"FS_UNIQUE"}) = InState(h, {"FS_UNIQUE"}) \cup T
  /\ InState(r, {"FS_IGNORE"}) = InState(h, {"FS_IGNORE"}) \cup {x}
  /\ InState(r, {"FS_CACHE_DONE", "FS_IGNORE_HL"}) = InState(h, {"FS_CACHE_DONE", "FS_IGNORE_HL"})

\* x got the one state, and the files T the other.
Ignoring(h, x, T, r) ==
  r.entry = Retired(Retired(h.entry, {x}, "FS_IGNORE"), T, "FS_UNIQUE")

\* They are in these states when that is what they were given.
LEMMA IgnoredStatesAre ==
  ASSUME NEW F, NEW h \in PathListType(F), NEW x \in F, h.entry[x].state = "FS_NEED_DATA",
         NEW T, T \subseteq Active(h), x \notin T,
         NEW r, Ignoring(h, x, T, r)
  PROVE  IgnoredStates(h, x, T, r)
  <1>1. h.entry \in [F -> EntryType] /\ DOMAIN h.entry = F /\ Active(h) \subseteq F
    <2>1. h.entry \in [F -> EntryType]
      BY Zenon DEF PathListType
    <2> QED BY <2>1 DEF Active, InState
  <1>6. /\ DOMAIN r.entry = F
        /\ r.entry[x].state = "FS_IGNORE" /\ \A f \in T : r.entry[f].state = "FS_UNIQUE"
        /\ \A f \in (F \ {x}) \ T : r.entry[f] = h.entry[f]
    <2>1. PICK en, new : en = h.entry /\ new = r.entry
      OBVIOUS
    <2>2. en \in [F -> EntryType] /\ T \subseteq F
      BY <1>1, <2>1
    <2>3. new = Retired(Retired(en, {x}, "FS_IGNORE"), T, "FS_UNIQUE")
      BY <2>1 DEF Ignoring
    <2>4. /\ DOMAIN new = F
          /\ new[x].state = "FS_IGNORE" /\ \A f \in T : new[f].state = "FS_UNIQUE"
          /\ \A f \in (F \ {x}) \ T : new[f] = en[f]
      BY <2>2, <2>3, RetiredTwo
    <2> QED BY <2>1, <2>4
  <1>7. \A f \in T : h.entry[f].state \in {"FS_NEED_DATA", "FS_BUFFER_READY"}
    BY DEF Active, InState
  <1>8. ASSUME NEW S, "FS_IGNORE" \notin S, "FS_UNIQUE" \notin S
        PROVE  InState(r, S) = (InState(h, S) \ {x}) \ T
    <2>1. \A f \in F : r.entry[f].state \in S <=> f \notin T /\ f # x /\ h.entry[f].state \in S
      BY <1>1, <1>6, <1>8
    <2> QED BY <1>1, <1>6, <2>1 DEF InState
  <1>9. /\ Active(r) = (Active(h) \ {x}) \ T
        /\ ReadyFiles(r) = (ReadyFiles(h) \ {x}) \ T
        /\ InState(r, {"FS_DONE"}) = (InState(h, {"FS_DONE"}) \ {x}) \ T
        /\ InState(r, {"FS_CACHE_DONE", "FS_IGNORE_HL"})
             = (InState(h, {"FS_CACHE_DONE", "FS_IGNORE_HL"}) \ {x}) \ T
    <2>1. Active(r) = (Active(h) \ {x}) \ T
      BY <1>8 DEF Active
    <2>2. ReadyFiles(r) = (ReadyFiles(h) \ {x}) \ T
      BY <1>8 DEF ReadyFiles
    <2>3. InState(r, {"FS_DONE"}) = (InState(h, {"FS_DONE"}) \ {x}) \ T
      BY <1>8
    <2>4. InState(r, {"FS_CACHE_DONE", "FS_IGNORE_HL"})
             = (InState(h, {"FS_CACHE_DONE", "FS_IGNORE_HL"}) \ {x}) \ T
      BY <1>8
    <2> QED BY <2>1, <2>2, <2>3, <2>4
  <1>10. /\ x \notin ReadyFiles(h)
         /\ InState(h, {"FS_DONE"}) \cap (T \cup {x}) = {}
         /\ InState(h, {"FS_CACHE_DONE", "FS_IGNORE_HL"}) \cap (T \cup {x}) = {}
    BY <1>7 DEF ReadyFiles, InState
  <1>11. InState(r, {"FS_UNIQUE"}) = InState(h, {"FS_UNIQUE"}) \cup T
    BY <1>1, <1>6, <1>7 DEF InState
  <1>12. InState(r, {"FS_IGNORE"}) = InState(h, {"FS_IGNORE"}) \cup {x}
    BY <1>1, <1>6, <1>7 DEF InState
  <1>13. ReadyFiles(r) = ReadyFiles(h) \ T
    BY <1>9, <1>10
  <1>14. InState(r, {"FS_DONE"}) = InState(h, {"FS_DONE"})
    <2>1. PICK D : D = InState(h, {"FS_DONE"})
      OBVIOUS
    <2>2. (D \ {x}) \ T = D
      BY <1>10, <2>1
    <2> QED BY <1>9, <2>1, <2>2
  <1>15. InState(r, {"FS_CACHE_DONE", "FS_IGNORE_HL"}) = InState(h, {"FS_CACHE_DONE", "FS_IGNORE_HL"})
    <2>1. PICK D : D = InState(h, {"FS_CACHE_DONE", "FS_IGNORE_HL"})
      OBVIOUS
    <2>2. (D \ {x}) \ T = D
      BY <1>10, <2>1
    <2> QED BY <1>9, <2>1, <2>2
  <1> QED BY Zenon, <1>9, <1>11, <1>12, <1>13, <1>14, <1>15 DEF IgnoredStates

(* What was done to a set when file x of it could not be read. *)
Failed(F, h, x, T, r) ==
  /\ r \in PathListType(F)
  /\ r.entry = Retired(Retired(h.entry, {x}, "FS_IGNORE"), T, "FS_UNIQUE")
  /\ \/ T = {} /\ h.list_size # 2 /\ r.list_size = h.list_size - 1
        /\ r.state = IF r.list_size = h.buffer_ready THEN "PLS_ALL_BUFFERS_READY" ELSE h.state
     \/ T = Active(h) \ {x} /\ h.list_size = 2 /\ r.list_size = 0 /\ r.state = "PLS_DONE"
  /\ r.buffer_ready = h.buffer_ready /\ r.wanted_bufsize = h.wanted_bufsize
  /\ r.fully_read = h.fully_read /\ r.dups = h.dups /\ r.unique = h.unique + Cardinality(T)
  /\ r.processed = h.processed /\ r.published = h.published

\* Files that the failure of x leaves without others to compare them with.
LeftAlone(h, x, T) == T = {} \/ (T = Active(h) \ {x} /\ h.list_size = 2)

\* The verdicts of that are right: x is ignored, one that was only equal to it is unique.
LEMMA FailedJudges ==
  ASSUME NEW F, IsFiniteSet(F), NEW h \in PathListType(F), Counted(h), NEW x \in F,
         h.entry[x].state = "FS_NEED_DATA", NEW c, Closed(h, Active(h), c),
         NEW T, NEW r,
         Ignoring(h, x, T, r), LeftAlone(h, x, T), h.state # "PLS_DONE",
         r.published = h.published, NEW U, x \in U
  PROVE  Judges(h, r, c, U)
  <1>1. DOMAIN h.entry = F /\ Active(h) \subseteq F /\ x \in Active(h)
    <2>1. DOMAIN h.entry = F
      BY Zenon DEF PathListType
    <2> QED BY <2>1 DEF Active, InState
  <1>2. T \subseteq Active(h) /\ x \notin T
    BY <1>1 DEF LeftAlone
  <1>3. IgnoredStates(h, x, T, r)
    BY <1>2, IgnoredStatesAre
  <1>4. /\ InState(r, {"FS_DONE"}) = InState(h, {"FS_DONE"})
        /\ InState(r, {"FS_UNIQUE"}) = InState(h, {"FS_UNIQUE"}) \cup T
        /\ InState(r, {"FS_IGNORE"}) = InState(h, {"FS_IGNORE"}) \cup {x}
    BY <1>3 DEF IgnoredStates
  <1>5. \A st \in FinalStates : InState(h, {st}) \subseteq InState(r, {st})
    BY <1>4 DEF FinalStates
  <1>6. ASSUME NEW f \in T, NEW k \in F \ {f}, c[k] = c[f]
        PROVE  k \in InState(r, {"FS_IGNORE"})
    <2>1. h.list_size = 2 /\ T = Active(h) \ {x}
      BY <1>6 DEF LeftAlone
    <2>2. Cardinality(Active(h)) = 2
      BY <2>1 DEF Counted
    <2>3. Active(h) = {x, f}
      <3>1. IsFiniteSet(Active(h) \ {x}) /\ IsFiniteSet(Active(h))
        BY <1>1, FS_Subset
      <3>2. Cardinality(Active(h) \ {x}) = 1
        BY <1>1, <2>2, <3>1, FS_RemoveElement
      <3>3. Cardinality((Active(h) \ {x}) \ {f}) = 0
        <4>1. PICK W : W = Active(h) \ {x}
          OBVIOUS
        <4>2. f \in W /\ IsFiniteSet(W) /\ Cardinality(W) = 1
          BY <1>6, <2>1, <3>1, <3>2, <4>1
        <4>3. Cardinality(W \ {f}) = Cardinality(W) - 1
          BY <4>2, FS_RemoveElement
        <4> QED BY <4>1, <4>2, <4>3
      <3>4. IsFiniteSet((Active(h) \ {x}) \ {f})
        BY <3>1, FS_Subset
      <3>5. (Active(h) \ {x}) \ {f} = {}
        BY <3>3, <3>4, FS_EmptySet
      <3> QED BY <1>1, <1>6, <2>1, <3>5
    <2>4. k \in Active(h) \cup InState(h, {"FS_IGNORE"})
      BY <1>1, <1>2, <1>6 DEF Closed
    <2> QED BY <1>4, <1>6, <2>3, <2>4
  <1>7. \A f \in InState(r, {"FS_UNIQUE"}) \ InState(h, {"FS_UNIQUE"}) :
          \A g \in DOMAIN h.entry \ {f} : c[g] = c[f] => g \in InState(r, {"FS_IGNORE"})
    BY <1>1, <1>4, <1>6
  <1>8. /\ h.published \subseteq r.published /\ r.published \ h.published = {}
        /\ InState(r, {"FS_IGNORE"}) \ InState(h, {"FS_IGNORE"}) \subseteq U
        /\ InState(r, {"FS_DONE"}) \ InState(h, {"FS_DONE"}) = {}
    BY <1>4
  <1> QED BY <1>5, <1>7, <1>8 DEF Judges

\* And what holds of a set still does.
LEMMA FailedSteady ==
  ASSUME NEW F, IsFiniteSet(F), NEW h, NEW c, NEW bl, Steady(F, h, c, bl), NEW x \in F,
         h.entry[x].state = "FS_NEED_DATA", h.state = "PLS_NEED_DATA",
         NEW g \in PathListType(F), Touched(h, x, g), g.entry[x].state = h.entry[x].state,
         NEW T, NEW r, Failed(F, g, x, T, r)
  PROVE  Steady(F, r, c, bl)
  <1>1. /\ h \in PathListType(F) /\ Counted(h) /\ Settled(h) /\ ReadSoFar(h, c, bl)
        /\ Tallied(h) /\ Released(h)
    BY DEF Steady
  <1>2. /\ DOMAIN h.entry = F /\ h.entry \in [F -> EntryType] /\ h.wanted_bufsize \in Nat
        /\ h.buffer_ready \in Nat /\ h.list_size \in Nat
        /\ DOMAIN g.entry = F /\ g.entry \in [F -> EntryType]
    BY <1>1, Zenon DEF PathListType
  <1>3. \A S : InState(g, S) = InState(h, S)
    <2>1. \A f \in F : g.entry[f].state = h.entry[f].state
      BY <1>2 DEF Touched
    <2> QED BY <1>2, <2>1, Zenon DEF InState
  <1>4. Active(g) = Active(h) /\ ReadyFiles(g) = ReadyFiles(h)
    BY <1>3 DEF Active, ReadyFiles
  <1>5. x \in Active(h) /\ Active(h) \subseteq F /\ IsFiniteSet(Active(h))
    <2>1. x \in Active(h) /\ Active(h) \subseteq F
      BY <1>2 DEF Active, InState
    <2> QED BY <2>1, FS_Subset
  <1>6. /\ g.list_size = h.list_size /\ g.buffer_ready = h.buffer_ready /\ g.state = h.state
        /\ g.wanted_bufsize = h.wanted_bufsize /\ g.fully_read = h.fully_read
        /\ g.dups = h.dups /\ g.unique = h.unique /\ g.processed = h.processed
        /\ g.published = h.published /\ \A f \in F \ {x} : g.entry[f] = h.entry[f]
    BY <1>2 DEF Touched
  <1>7. /\ r \in PathListType(F)
        /\ r.entry = Retired(Retired(g.entry, {x}, "FS_IGNORE"), T, "FS_UNIQUE")
        /\ \/ T = {} /\ h.list_size # 2 /\ r.list_size = h.list_size - 1
              /\ r.state = IF r.list_size = h.buffer_ready THEN "PLS_ALL_BUFFERS_READY" ELSE h.state
           \/ T = Active(h) \ {x} /\ h.list_size = 2 /\ r.list_size = 0 /\ r.state = "PLS_DONE"
        /\ r.buffer_ready = h.buffer_ready /\ r.wanted_bufsize = h.wanted_bufsize
        /\ r.fully_read = h.fully_read /\ r.dups = h.dups /\ r.unique = h.unique + Cardinality(T)
        /\ r.processed = h.processed /\ r.published = h.published
    BY <1>4, <1>6, Zenon DEF Failed
  <1>8. T \subseteq Active(h) /\ x \notin T /\ T \subseteq F
    BY <1>5, <1>7
  <1>9. /\ Active(r) = (Active(h) \ {x}) \ T /\ ReadyFiles(r) = ReadyFiles(h) \ T
        /\ InState(r, {"FS_DONE"}) = InState(h, {"FS_DONE"})
        /\ InState(r, {"FS_UNIQUE"}) = InState(h, {"FS_UNIQUE"}) \cup T
        /\ InState(r, {"FS_IGNORE"}) = InState(h, {"FS_IGNORE"}) \cup {x}
        /\ InState(r, {"FS_CACHE_DONE", "FS_IGNORE_HL"}) = InState(h, {"FS_CACHE_DONE", "FS_IGNORE_HL"})
    <2>1. IgnoredStates(g, x, T, r)
      <3>1. Ignoring(g, x, T, r)
        BY <1>7 DEF Ignoring
      <3> QED BY <1>4, <1>8, <3>1, IgnoredStatesAre
    <2> QED BY <1>3, <1>4, <2>1 DEF IgnoredStates
  <1>10. /\ InState(h, {"FS_CACHE_DONE", "FS_IGNORE_HL"}) = {}
         /\ InState(h, {"FS_DONE"}) = {} /\ h.list_size > 1
         /\ h.list_size = Cardinality(Active(h))
         /\ h.buffer_ready = Cardinality(ReadyFiles(h)) /\ h.buffer_ready # h.list_size
    BY <1>1 DEF Counted
  <1>11. Counted(r)
    <2>1. CASE T = {} /\ h.list_size # 2
      <3>1. /\ r.list_size = h.list_size - 1 /\ r.list_size > 1 /\ r.list_size # 0
            /\ r.state = IF r.list_size = h.buffer_ready THEN "PLS_ALL_BUFFERS_READY" ELSE h.state
        BY <1>2, <1>5, <1>7, <1>10, <2>1
      <3>2. Cardinality(Active(r)) = r.list_size
        <4>1. Active(r) = Active(h) \ {x}
          BY <1>9, <2>1
        <4> QED BY <1>5, <1>10, <3>1, <4>1, FS_RemoveElement
      <3>3. Cardinality(ReadyFiles(r)) = r.buffer_ready
        BY <1>7, <1>9, <1>10, <2>1
      <3>4. r.state # "PLS_DONE" /\ (r.state = "PLS_ALL_BUFFERS_READY" <=> r.buffer_ready = r.list_size)
        BY <1>7, <3>1
      <3> QED BY <1>9, <1>10, <3>1, <3>2, <3>3, <3>4 DEF Counted
    <2>2. CASE T = Active(h) \ {x} /\ h.list_size = 2
      <3>1. r.state = "PLS_DONE"
        BY <1>7, <2>2
      <3>2. Active(r) = {}
        BY <1>9, <2>2
      <3> QED BY <1>9, <1>10, <3>1, <3>2 DEF Counted
    <2> QED BY <1>7, <2>1, <2>2
  <1>12. Settled(r)
    BY <1>1, <1>7, <1>9 DEF Settled
  <1>13. Tallied(r)
    <2>1. /\ h.dups = Cardinality(InState(h, {"FS_DONE"}))
          /\ h.unique = Cardinality(InState(h, {"FS_UNIQUE"})) /\ h.processed = 0
      BY <1>1 DEF Tallied
    <2>2. Cardinality(InState(h, {"FS_UNIQUE"}) \cup T) = h.unique + Cardinality(T)
      <3>1. InState(h, {"FS_UNIQUE"}) \subseteq F /\ InState(h, {"FS_UNIQUE"}) \cap T = {}
        BY <1>2, <1>8 DEF InState, Active
      <3>2. /\ IsFiniteSet(InState(h, {"FS_UNIQUE"})) /\ IsFiniteSet(T)
        BY <1>8, <3>1, FS_Subset
      <3>3. Cardinality(InState(h, {"FS_UNIQUE"}) \cup T) =
              Cardinality(InState(h, {"FS_UNIQUE"})) + Cardinality(T)
                - Cardinality(InState(h, {"FS_UNIQUE"}) \cap T)
        BY <3>2, FS_Union
      <3>4. Cardinality(InState(h, {"FS_UNIQUE"}) \cap T) = 0
        BY <3>1, FS_EmptySet
      <3>5. Cardinality(InState(h, {"FS_UNIQUE"})) \in Nat /\ Cardinality(T) \in Nat
        BY <3>2, FS_CardinalityType
      <3> QED BY <2>1, <3>3, <3>4, <3>5
    <2>3. InState(r, {"FS_IGNORE"}) # {}
      BY <1>9
    <2>4. r.processed = 0
      BY <1>7, <2>1
    <2>5. r.dups = Cardinality(InState(r, {"FS_DONE"}))
      BY <1>7, <1>9, <2>1
    <2>6. r.unique = Cardinality(InState(r, {"FS_UNIQUE"}))
      BY <1>7, <1>9, <2>2
    <2> QED BY <2>3, <2>4, <2>5, <2>6 DEF Tallied
  <1>14. /\ DOMAIN r.entry = F
         /\ \A f \in T \cup {x} : r.entry[f].bufsize = 0 /\ ~r.entry[f].fd
         /\ \A f \in (F \ {x}) \ T : r.entry[f] = h.entry[f]
    <2>1. PICK en, new : en = g.entry /\ new = r.entry
      OBVIOUS
    <2>2. en \in [F -> EntryType] /\ new = Retired(Retired(en, {x}, "FS_IGNORE"), T, "FS_UNIQUE")
      BY <1>2, <1>7, <2>1
    <2>3. /\ DOMAIN new = F
          /\ \A f \in T \cup {x} : new[f].bufsize = 0 /\ ~new[f].fd
          /\ \A f \in (F \ {x}) \ T : new[f] = en[f]
      BY <1>8, <2>2, RetiredTwo
    <2> QED BY <1>6, <2>1, <2>3
  <1>15. Released(r)
    <2> SUFFICES ASSUME NEW f \in F \ Active(r) PROVE r.entry[f].bufsize = 0 /\ ~r.entry[f].fd
      BY <1>14 DEF Released
    <2>1. CASE f \in T \cup {x}
      BY <1>14, <2>1
    <2>2. CASE f \notin T \cup {x}
      <3>1. f \in F \ Active(h) /\ r.entry[f] = h.entry[f]
        BY <1>9, <1>14, <2>2
      <3> QED BY <1>1, <1>2, <3>1 DEF Released
    <2> QED BY <2>1, <2>2
  <1>16. ReadSoFar(r, c, bl)
    <2>1. /\ \A f \in Active(h) : EntrySound(h.entry[f], c[f], h.wanted_bufsize, bl[f])
          /\ \A f, k \in Active(h) : Len(h.entry[f].hashed) = Len(h.entry[k].hashed)
          /\ h.fully_read => \A f \in Active(h) : Len(c[f]) - Len(h.entry[f].hashed) <= h.wanted_bufsize
          /\ ~h.fully_read => \A f \in ReadyFiles(h) : h.entry[f].next_read_byte < Len(c[f])
          /\ \A f \in Active(h), k \in F :
               c[k] = c[f] => k \in Active(h) \cup InState(h, {"FS_IGNORE"})
      BY <1>1, <1>2 DEF ReadSoFar
    <2>2. /\ Active(r) \subseteq Active(h) /\ ReadyFiles(r) \subseteq ReadyFiles(h)
          /\ ReadyFiles(r) \subseteq Active(r)
      BY <1>9 DEF ReadyFiles, Active, InState
    <2>3. \A f \in Active(r) : r.entry[f] = h.entry[f]
      BY <1>5, <1>9, <1>14
    <2>4. \A f \in Active(r) : EntrySound(r.entry[f], c[f], r.wanted_bufsize, bl[f])
      BY <1>7, <2>1, <2>2, <2>3
    <2>5. \A f, k \in Active(r) : Len(r.entry[f].hashed) = Len(r.entry[k].hashed)
      BY <2>1, <2>2, <2>3
    <2>6. r.fully_read => \A f \in Active(r) : Len(c[f]) - Len(r.entry[f].hashed) <= r.wanted_bufsize
      BY <1>7, <2>1, <2>2, <2>3
    <2>7. ~r.fully_read => \A f \in ReadyFiles(r) : r.entry[f].next_read_byte < Len(c[f])
      BY <1>7, <2>1, <2>2, <2>3
    <2>8. \A f \in Active(r), k \in F :
               c[k] = c[f] => k \in Active(r) \cup InState(r, {"FS_IGNORE"})
      <3>1. Active(r) # {} => T = {}
        BY <1>7, <1>9
      <3> QED BY <1>9, <2>1, <2>2, <3>1
    <2> QED BY <1>14, <2>4, <2>5, <2>6, <2>7, <2>8 DEF ReadSoFar
  <1> QED BY <1>7, <1>11, <1>12, <1>13, <1>15, <1>16 DEF Steady

\* An entry whose file is open, or not.
WithFd(e, fd) == [e EXCEPT !.fd = fd]

\* That changes nothing else.
LEMMA WithFdIs ==
  ASSUME NEW e \in EntryType, NEW fd \in BOOLEAN, NEW g, g = WithFd(e, fd)
  PROVE  /\ g \in EntryType /\ g.fd = fd /\ g.state = e.state /\ g.buffer = e.buffer
         /\ g.bufsize = e.bufsize /\ g.data_in_buffer = e.data_in_buffer
         /\ g.next_read_block = e.next_read_block /\ g.next_read_byte = e.next_read_byte
         /\ g.hashed = e.hashed
  <1>1. g \in EntryType
    BY Zenon DEF EntryType, WithFd
  <1> QED BY <1>1 DEF EntryType, WithFd

\* What a visit reads into, whether the file was read to the end or could be read or not.
Opening(e, w, bl, keep) == IF ~GapFills(e, w, bl) THEN keep ELSE e.fd
Opens(fd) == IF fd THEN 1 ELSE 0
VisitedSet(h, x, bl, v, keep) ==
  LET e  == h.entry[x]
      fd == Opening(e, h.wanted_bufsize, bl, keep)
  IN  Grown(h, x, WithFd(v.entry, fd), h.allocated + Growth(e, h.wanted_bufsize),
            h.open + (Opens(fd) - Opens(e.fd)))

\* reader_visit() as the parts these lemmas are about.
LEMMA ReaderVisitIs ==
  ASSUME NEW h, NEW x, NEW bl, NEW c, NEW readable, NEW keep,
         NEW v, v = fill_data_block(h.entry[x], h.wanted_bufsize, bl, c, readable),
         NEW g, g = VisitedSet(h, x, bl, v, keep),
         NEW r, r = reader_visit(h, x, bl, c, readable, keep)
  PROVE  /\ v.outcome = "filling" => r = g
         /\ v.outcome = "ready" => r = MarkedReady(g, x, v.entry.next_read_byte >= Len(c))
         /\ v.outcome = "unreadable" =>
              r = [mark_path_entry_ignore(g, x) EXCEPT
                     !.unique = @ + Additional(h.list_size, mark_path_entry_ignore(g, x).list_size)]
         /\ v.outcome \notin {"filling", "ready", "unreadable"} => r = Exit(g, v.outcome)
  <1>1. r = CASE v.outcome = "filling" -> g
             [] v.outcome = "ready" -> MarkedReady(g, x, v.entry.next_read_byte >= Len(c))
             [] v.outcome = "unreadable" ->
              [mark_path_entry_ignore(g, x) EXCEPT
                     !.unique = @ + Additional(h.list_size, mark_path_entry_ignore(g, x).list_size)]
             [] OTHER -> Exit(g, v.outcome)
    BY Zenon DEF reader_visit, VisitedSet, Grown, WithFd, Opening, Opens, MarkedReady
  <1> QED BY <1>1, Zenon

\* What a visit makes of the counters and of the entry.
LEMMA VisitedSetIs ==
  ASSUME NEW F, NEW h \in PathListType(F), NEW x \in F, NEW bl, NEW v, v.entry \in EntryType,
         NEW keep \in BOOLEAN, NEW g, g = VisitedSet(h, x, bl, v, keep)
  PROVE  /\ g \in PathListType(F) /\ Touched(h, x, g)
         /\ \E fd \in BOOLEAN : g.entry[x] = WithFd(v.entry, fd)
         /\ g.allocated = h.allocated + Growth(h.entry[x], h.wanted_bufsize)
         /\ g.open = h.open + ((IF g.entry[x].fd THEN 1 ELSE 0)
                              - (IF h.entry[x].fd THEN 1 ELSE 0))
  <1> DEFINE e == h.entry[x]
             fd == Opening(e, h.wanted_bufsize, bl, keep)
             al == h.allocated + Growth(e, h.wanted_bufsize)
             op == h.open + (Opens(fd) - Opens(e.fd))
             en == WithFd(v.entry, fd)
  <1>1. /\ h.entry \in [F -> EntryType] /\ h.allocated \in Int /\ h.open \in Int
        /\ h.wanted_bufsize \in Nat
    BY Zenon DEF PathListType
  <1>2. e \in EntryType /\ e.fd \in BOOLEAN /\ e.bufsize \in Nat
    BY <1>1 DEF EntryType
  <1>3. fd \in BOOLEAN
    BY <1>2 DEF Opening
  <1>4. al \in Int
    <2>1. Growth(e, h.wanted_bufsize) \in Int
      <3>1. PICK k \in Int : k = h.wanted_bufsize - e.bufsize
        BY <1>1, <1>2
      <3>2. WordSize \in Nat \ {0}
        BY BufferSizesAssumption
      <3>3. k % WordSize \in Int
        BY <3>2
      <3> QED BY <3>1, <3>3 DEF Growth, Word
    <2> HIDE DEF e
    <2> QED BY <1>1, <2>1
  <1>5. op \in Int
    BY <1>1 DEF Opens
  <1>6. en \in EntryType /\ en.fd = fd
    <2> HIDE DEF fd
    <2> QED BY <1>3, WithFdIs
  <1>7. g = Grown(h, x, en, al, op)
    BY Zenon DEF VisitedSet
  <1> HIDE DEF al, op, en, fd
  <1>8. /\ g \in PathListType(F) /\ Touched(h, x, g) /\ g.entry[x] = en
        /\ g.allocated = al /\ g.open = op
    BY <1>4, <1>5, <1>6, <1>7, GrownIs
  <1>9. op = h.open + ((IF g.entry[x].fd THEN 1 ELSE 0) - (IF h.entry[x].fd THEN 1 ELSE 0))
    BY <1>6, <1>8 DEF op, Opens
  <1> QED BY <1>3, <1>8, <1>9 DEF al, en

\* The rest of a file, with a file descriptor or without.
LEMMA FdSound ==
  ASSUME NEW c, NEW w, NEW bl, NEW e \in EntryType, NEW fd \in BOOLEAN, NEW g, g = WithFd(e, fd)
  PROVE  /\ g \in EntryType
         /\ Data(e, c, w) => Data(g, c, w)
         /\ AtBlock(e, bl) => AtBlock(g, bl)
         /\ Ready(e, c, w) => Ready(g, c, w)
         /\ g.state = e.state /\ g.bufsize = e.bufsize /\ g.hashed = e.hashed
         /\ g.next_read_block = e.next_read_block /\ g.next_read_byte = e.next_read_byte
         /\ Space(g) = Space(e)
  <1>1. /\ g \in EntryType /\ g.fd = fd /\ g.state = e.state /\ g.buffer = e.buffer
        /\ g.bufsize = e.bufsize /\ g.data_in_buffer = e.data_in_buffer
        /\ g.next_read_block = e.next_read_block /\ g.next_read_byte = e.next_read_byte
        /\ g.hashed = e.hashed
    BY WithFdIs
  <1>2. Space(g) = Space(e)
    BY <1>1 DEF Space
  <1> QED BY <1>1, <1>2, Zenon DEF Data, AtBlock, Ready

\* An entry that was marked ready.
LEMMA ReadySound ==
  ASSUME NEW c, NEW w, NEW bl, NEW e, Data(e, c, w), AtBlock(e, bl), Ready(e, c, w),
         NEW g, g = [e EXCEPT !.state = "FS_BUFFER_READY"]
  PROVE  /\ EntrySound(g, c, w, bl) /\ g.state = "FS_BUFFER_READY"
         /\ g.bufsize = e.bufsize /\ g.hashed = e.hashed
         /\ g.next_read_block = e.next_read_block /\ g.next_read_byte = e.next_read_byte
  <1>1. e \in EntryType
    BY DEF Data
  <1>2. /\ g \in EntryType /\ g.state = "FS_BUFFER_READY" /\ g.buffer = e.buffer
        /\ g.bufsize = e.bufsize /\ g.data_in_buffer = e.data_in_buffer
        /\ g.next_read_block = e.next_read_block /\ g.next_read_byte = e.next_read_byte
        /\ g.hashed = e.hashed
    <2>1. PICK st : st = "FS_BUFFER_READY"
      OBVIOUS
    <2>2. st \in FileStates
      BY <2>1 DEF FileStates
    <2>3. [e EXCEPT !.state = st] \in EntryType
      BY <1>1, <2>2, Zenon DEF EntryType
    <2>4. g \in EntryType
      BY <2>1, <2>3
    <2>5. /\ g.state = "FS_BUFFER_READY" /\ g.buffer = e.buffer
          /\ g.bufsize = e.bufsize /\ g.data_in_buffer = e.data_in_buffer
          /\ g.next_read_block = e.next_read_block /\ g.next_read_byte = e.next_read_byte
          /\ g.hashed = e.hashed
      BY <1>1 DEF EntryType
    <2> QED BY <2>4, <2>5
  <1>3. Data(g, c, w) /\ AtBlock(g, bl) /\ Ready(g, c, w)
    BY <1>2, Zenon DEF Data, AtBlock, Ready
  <1> QED BY <1>2, <1>3 DEF EntrySound

\* A visit moves a file on by at most a block, and leaves the others.
MovedOn(h, x, r) ==
  /\ r.wanted_bufsize = h.wanted_bufsize /\ r.hash_passes = h.hash_passes
  /\ r.processed = h.processed /\ Active(r) \subseteq Active(h)
  /\ \A k \in Active(r) \ {x} : r.entry[k] = h.entry[k]
  /\ x \in Active(r) =>
       /\ r.entry[x].bufsize = h.wanted_bufsize
       /\ \/ r.entry[x].next_read_block = h.entry[x].next_read_block
          \/ r.entry[x].next_read_block = h.entry[x].next_read_block + 1

\* When only an entry changed, and not its state, the files are in the states they were in.
LEMMA TouchedStates ==
  ASSUME NEW h, NEW x, NEW g, Touched(h, x, g), g.entry[x].state = h.entry[x].state
  PROVE  /\ \A S : InState(g, S) = InState(h, S)
         /\ Active(g) = Active(h) /\ Remaining(g) = Remaining(h) /\ ReadyFiles(g) = ReadyFiles(h)
         /\ SameVerdicts(h, g)
  <1>1. /\ DOMAIN g.entry = DOMAIN h.entry /\ g.published = h.published
        /\ \A f \in DOMAIN h.entry : g.entry[f].state = h.entry[f].state
    BY DEF Touched
  <1>2. \A S : InState(g, S) = InState(h, S)
    BY <1>1, Zenon DEF InState
  <1> QED BY <1>1, <1>2 DEF Active, Remaining, ReadyFiles, SameVerdicts

\* A visit that fills the buffer or goes on filling it.
LEMMA VisitServes ==
  ASSUME NEW F, IsFiniteSet(F), NEW h, NEW c, NEW bl, Steady(F, h, c, bl),
         NEW size \in Nat, EqualSize(F, c, size),
         NEW x \in F, h.entry[x].state = "FS_NEED_DATA", h.state = "PLS_NEED_DATA",
         NEW g \in PathListType(F), Touched(h, x, g),
         NEW en, en = g.entry[x], Data(en, c[x], h.wanted_bufsize), AtBlock(en, bl[x]),
         en.state = "FS_NEED_DATA", en.hashed = h.entry[x].hashed,
         NEW ready \in BOOLEAN, ready => Ready(en, c[x], h.wanted_bufsize),
         ~ready => en.next_read_byte < Len(c[x]),
         NEW r, r = IF ready THEN MarkedReady(g, x, en.next_read_byte >= Len(c[x])) ELSE g
  PROVE  /\ Steady(F, r, c, bl) /\ SameVerdicts(h, r) /\ Unaccounted(r) = Unaccounted(g)
         /\ Active(r) = Active(h) /\ r.exited = h.exited
         /\ r.wanted_bufsize = h.wanted_bufsize /\ r.hash_passes = h.hash_passes
         /\ r.processed = h.processed
         /\ \A k \in F \ {x} : r.entry[k] = h.entry[k]
         /\ r.entry[x].bufsize = en.bufsize /\ r.entry[x].next_read_block = en.next_read_block
         /\ r.entry[x].next_read_byte = en.next_read_byte
         /\ ready => r.entry[x].state = "FS_BUFFER_READY"
  <1> DEFINE w == h.wanted_bufsize
             end == en.next_read_byte >= Len(c[x])
  <1>1. h \in PathListType(F)
    BY DEF Steady
  <1>2. /\ DOMAIN h.entry = F /\ DOMAIN g.entry = F /\ DOMAIN r.entry = DOMAIN r.entry
        /\ h.buffer_ready \in Nat /\ w \in Nat /\ h.fully_read \in BOOLEAN
    BY <1>1, Zenon DEF PathListType
  <1>3. /\ \A f \in F \ {x} : g.entry[f] = h.entry[f]
        /\ g.state = h.state /\ g.list_size = h.list_size /\ g.buffer_ready = h.buffer_ready
        /\ g.wanted_bufsize = h.wanted_bufsize /\ g.hash_passes = h.hash_passes
        /\ g.fully_read = h.fully_read /\ g.dups = h.dups /\ g.unique = h.unique
        /\ g.processed = h.processed /\ g.published = h.published /\ g.exited = h.exited
    BY <1>2 DEF Touched
  <1>4. c[x] \in Seq(Nat) /\ Len(c[x]) = size /\ en.next_read_byte \in Nat
    BY DEF EqualSize, Data, EntryType
  <1>5. end \in BOOLEAN
    OBVIOUS
  <1> HIDE DEF end
  <1>6. CASE ~ready
    <2>1. r = g
      BY <1>6
    <2>2. ~(g.entry[x].next_read_byte >= size)
      BY <1>4, <1>6
    <2>3. Served(h, x, size, r)
      BY <1>2, <1>3, <2>1, <2>2 DEF Served
    <2>4. EntrySound(r.entry[x], c[x], w, bl[x])
      BY <1>6, <2>1 DEF EntrySound
    <2>5. Steady(F, r, c, bl)
      BY <2>1, <2>3, <2>4, ServedSteady
    <2>6. Active(r) = Active(h) /\ SameVerdicts(h, r)
      BY <1>1, <2>3, ServedStates
    <2> QED BY <1>3, <1>6, <2>1, <2>5, <2>6
  <1>7. CASE ready
    <2>1. r = MarkedReady(g, x, end)
      BY <1>7 DEF end
    <2>2. /\ r \in PathListType(F)
          /\ r.entry[x] = [g.entry[x] EXCEPT !.state = "FS_BUFFER_READY"]
          /\ \A f \in F \ {x} : r.entry[f] = g.entry[f]
          /\ r.buffer_ready = g.buffer_ready + 1
          /\ r.state = IF g.list_size = r.buffer_ready THEN "PLS_ALL_BUFFERS_READY" ELSE g.state
          /\ r.fully_read = (g.fully_read \/ end)
          /\ r.list_size = g.list_size /\ r.wanted_bufsize = g.wanted_bufsize
          /\ r.hash_passes = g.hash_passes /\ r.dups = g.dups /\ r.unique = g.unique
          /\ r.processed = g.processed /\ r.published = g.published /\ r.exited = g.exited
          /\ r.allocated = g.allocated /\ r.open = g.open
      BY <1>3, <1>5, <2>1, MarkedReadyIs
    <2>3. DOMAIN r.entry = F
      BY <2>2, Zenon DEF PathListType
    <2>4. /\ EntrySound(r.entry[x], c[x], w, bl[x]) /\ r.entry[x].state = "FS_BUFFER_READY"
          /\ r.entry[x].bufsize = en.bufsize /\ r.entry[x].hashed = en.hashed
          /\ r.entry[x].next_read_block = en.next_read_block
          /\ r.entry[x].next_read_byte = en.next_read_byte
      <3>1. PICK ex, cx, bx : ex = r.entry[x] /\ cx = c[x] /\ bx = bl[x]
        OBVIOUS
      <3>2. ex = [en EXCEPT !.state = "FS_BUFFER_READY"]
        BY <2>2, <3>1
      <3>3. Data(en, cx, w) /\ AtBlock(en, bx) /\ Ready(en, cx, w)
        BY <1>7, <3>1
      <3>4. /\ EntrySound(ex, cx, w, bx) /\ ex.state = "FS_BUFFER_READY"
            /\ ex.bufsize = en.bufsize /\ ex.hashed = en.hashed
            /\ ex.next_read_block = en.next_read_block /\ ex.next_read_byte = en.next_read_byte
        BY <3>2, <3>3, ReadySound
      <3> QED BY <3>1, <3>4
    <2>5. end <=> r.entry[x].next_read_byte >= size
      BY <1>4, <2>4 DEF end
    <2>6. Served(h, x, size, r)
      <3>1. DOMAIN r.entry = DOMAIN h.entry /\ \A f \in DOMAIN h.entry \ {x} : r.entry[f] = h.entry[f]
        BY <1>2, <1>3, <2>2, <2>3
      <3>2. r.entry[x].state = "FS_BUFFER_READY" /\ r.entry[x].hashed = h.entry[x].hashed
        BY <2>4
      <3>5. r.buffer_ready = h.buffer_ready + 1
        BY <1>3, <2>2
      <3>6. r.state = IF h.list_size = r.buffer_ready THEN "PLS_ALL_BUFFERS_READY" ELSE h.state
        <4>1. r.state = IF g.list_size = r.buffer_ready THEN "PLS_ALL_BUFFERS_READY" ELSE g.state
          BY <2>2
        <4>2. g.list_size = h.list_size /\ g.state = h.state
          BY <1>3
        <4> QED BY <4>1, <4>2
      <3>3. r.fully_read <=> h.fully_read \/ r.entry[x].next_read_byte >= size
        BY <1>3, <2>2, <2>5
      <3>4. /\ r.list_size = h.list_size /\ r.wanted_bufsize = h.wanted_bufsize
            /\ r.hash_passes = h.hash_passes /\ r.dups = h.dups /\ r.unique = h.unique
            /\ r.processed = h.processed /\ r.published = h.published /\ r.exited = h.exited
        BY <1>3, <2>2
      <3> QED BY <3>1, <3>2, <3>3, <3>4, <3>5, <3>6 DEF Served
    <2>7. Steady(F, r, c, bl)
      BY <2>2, <2>4, <2>6, ServedSteady
    <2>8. Active(r) = Active(h) /\ SameVerdicts(h, r)
      BY <1>1, <2>6, ServedStates
    <2>9. Unaccounted(r) = Unaccounted(g)
      <3>1. \A f \in F : r.entry[f].bufsize = g.entry[f].bufsize /\ r.entry[f].fd = g.entry[f].fd
        <4>1. r.entry[x].bufsize = g.entry[x].bufsize /\ r.entry[x].fd = g.entry[x].fd
          <5>1. en \in EntryType
            BY DEF Data
          <5> QED BY <2>2, <5>1 DEF EntryType
        <4> QED BY <2>2, <4>1
      <3>2. r.allocated = g.allocated /\ r.open = g.open /\ DOMAIN g.entry = F
        BY <1>2, <2>2
      <3> QED BY <2>3, <3>1, <3>2, RewrittenUnaccounted
    <2>10. /\ r.exited = h.exited /\ r.wanted_bufsize = h.wanted_bufsize
           /\ r.hash_passes = h.hash_passes /\ r.processed = h.processed
           /\ \A k \in F \ {x} : r.entry[k] = h.entry[k]
      BY <1>3, <2>2
    <2>11. /\ r.entry[x].bufsize = en.bufsize /\ r.entry[x].next_read_block = en.next_read_block
           /\ r.entry[x].next_read_byte = en.next_read_byte
           /\ r.entry[x].state = "FS_BUFFER_READY"
      BY <2>4
    <2> QED BY <2>7, <2>8, <2>9, <2>10, <2>11
  <1> QED BY <1>6, <1>7

(* A visit to a file that could not be read. *)
IgnoredSet(h, x, g) ==
  [mark_path_entry_ignore(g, x) EXCEPT
     !.unique = @ + Additional(h.list_size, mark_path_entry_ignore(g, x).list_size)]

\* The counter of unique files changes nothing else.
LEMMA UniqueNoted ==
  ASSUME NEW F, NEW h \in PathListType(F), NEW n \in Int, NEW r, r = [h EXCEPT !.unique = @ + n]
  PROVE  /\ r \in PathListType(F) /\ Kept(h, r) /\ Unaccounted(r) = Unaccounted(h)
         /\ r.exited = h.exited /\ r.unique = h.unique + n /\ r.list_size = h.list_size
         /\ r.state = h.state /\ r.entry = h.entry
  <1> DEFINE m == h.unique + n
  <1>1. m \in Int
    <2>1. h.unique \in Int
      BY Zenon DEF PathListType
    <2> QED BY <2>1
  <1>2. r = [h EXCEPT !.unique = m]
    OBVIOUS
  <1> HIDE DEF m
  <1>3. r \in PathListType(F)
    BY <1>1, <1>2, Zenon DEF PathListType
  <1>4. /\ Kept(h, r) /\ r.exited = h.exited /\ r.unique = m /\ r.list_size = h.list_size
        /\ r.state = h.state /\ r.entry = h.entry /\ r.allocated = h.allocated
        /\ r.open = h.open
    BY <1>2 DEF PathListType, Kept
  <1>5. Unaccounted(r) = Unaccounted(h)
    BY <1>4, SameUnaccounted
  <1> QED BY <1>3, <1>4, <1>5 DEF m

\* What it makes of the set.
LEMMA VisitFails ==
  ASSUME NEW F, IsFiniteSet(F), NEW h \in PathListType(F), Counted(h), NEW x \in F,
         h.entry[x].state = "FS_NEED_DATA", h.state # "PLS_DONE",
         NEW g \in PathListType(F), Touched(h, x, g), g.entry[x].state = h.entry[x].state,
         NEW r, r = IgnoredSet(h, x, g)
  PROVE  \E T : /\ LeftAlone(g, x, T) /\ Ignoring(g, x, T, r) /\ r.published = g.published
                /\ r \in PathListType(F) /\ Unaccounted(r) = Unaccounted(g)
                /\ r.hash_passes = g.hash_passes
                /\ r.exited \in {g.exited, "list_size=-1"}
                /\ NotTooMany(g) => r.exited = g.exited
                /\ r.exited = "none" => Failed(F, g, x, T, r)
  <1> DEFINE i == mark_path_entry_ignore(g, x)
             n == Additional(h.list_size, i.list_size)
             T == IF h.list_size = 2 THEN Active(g) \ {x} ELSE {}
  <1>1. /\ h.entry \in [F -> EntryType] /\ DOMAIN h.entry = F /\ h.list_size \in Nat
        /\ g.entry \in [F -> EntryType] /\ g.unique \in Int /\ g.list_size \in Nat
    BY Zenon DEF PathListType
  <1>2. /\ Active(g) = Active(h) /\ Remaining(g) = Remaining(h)
        /\ \A S : InState(g, S) = InState(h, S)
    BY TouchedStates
  <1>3. /\ InState(h, {"FS_CACHE_DONE", "FS_IGNORE_HL"}) = {}
        /\ InState(h, {"FS_DONE"}) = {} /\ h.list_size > 1
        /\ h.list_size = Cardinality(Active(h))
    BY DEF Counted
  <1>4. Remaining(g) = Active(g)
    <2>1. Remaining(h) = Active(h)
      BY <1>1, <1>3 DEF Remaining, Active, InState
    <2> QED BY <1>2, <2>1
  <1>5. g.list_size = h.list_size /\ g.unique = h.unique /\ g.state = h.state
    BY DEF Touched
  <1>6. Compared(g, x) /\ AllCounted(g)
    BY <1>2, <1>3, <1>4, <1>5 DEF Compared, AllCounted
  <1>7. /\ i \in PathListType(F) /\ Kept(g, i) /\ Unaccounted(i) = Unaccounted(g)
        /\ i.unique = g.unique /\ i.exited \in {g.exited, "list_size=-1"}
        /\ WithIgnored(g, x, i)
        /\ NotTooMany(g) => i.exited = g.exited
    BY <1>6, IgnoredIs
  <1>8. r = [i EXCEPT !.unique = @ + n]
    BY Zenon DEF IgnoredSet
  <1> HIDE DEF i
  <1>9. Ignoring(g, x, T, i)
    <2>1. CASE h.list_size = 2
      <3>1. i.entry = Retired(Retired(g.entry, {x}, "FS_IGNORE"), Remaining(g) \ {x}, "FS_UNIQUE")
        BY <1>5, <1>7, <2>1 DEF WithIgnored
      <3> QED BY <1>4, <2>1, <3>1 DEF Ignoring
    <2>2. CASE h.list_size # 2
      <3>1. i.entry = Retired(g.entry, {x}, "FS_IGNORE")
        BY <1>5, <1>7, <2>2 DEF WithIgnored
      <3>2. i.entry \in [F -> EntryType]
        BY <1>7, Zenon DEF PathListType
      <3>3. Retired(i.entry, {}, "FS_UNIQUE") = i.entry
        BY <3>2 DEF Retired
      <3> QED BY <2>2, <3>1, <3>3 DEF Ignoring
    <2> QED BY <2>1, <2>2
  <1>10. n = Cardinality(T) /\ n \in Int /\ LeftAlone(g, x, T)
    <2>1. CASE h.list_size = 2
      <3>1. i.list_size = 0
        BY <1>5, <1>7, <2>1 DEF WithIgnored
      <3>2. Cardinality(Active(g) \ {x}) = 1
        <4>1. x \in Active(g) /\ Active(g) \subseteq F
          BY <1>1, <1>2 DEF Active, InState
        <4>2. IsFiniteSet(Active(g)) /\ Cardinality(Active(g)) = 2
          BY <1>2, <1>3, <2>1, <4>1, FS_Subset
        <4>3. PICK W : W = Active(g)
          OBVIOUS
        <4>4. x \in W /\ IsFiniteSet(W) /\ Cardinality(W) = 2
          BY <4>1, <4>2, <4>3
        <4>5. Cardinality(W \ {x}) = Cardinality(W) - 1
          BY <4>4, FS_RemoveElement
        <4> QED BY <4>3, <4>4, <4>5
      <3> QED BY <1>5, <2>1, <3>1, <3>2 DEF Additional, LeftAlone
    <2>2. CASE h.list_size # 2
      <3>1. i.list_size = h.list_size - 1
        BY <1>5, <1>7, <2>2 DEF WithIgnored
      <3>2. n = 0
        BY <1>1, <3>1 DEF Additional
      <3> QED BY <2>2, <3>2, FS_EmptySet DEF LeftAlone
    <2> QED BY <2>1, <2>2
  <1>11. /\ r \in PathListType(F) /\ Kept(i, r) /\ Unaccounted(r) = Unaccounted(i)
         /\ r.exited = i.exited /\ r.unique = i.unique + n /\ r.list_size = i.list_size
         /\ r.state = i.state /\ r.entry = i.entry
    <2> HIDE DEF n
    <2> QED BY <1>7, <1>8, <1>10, UniqueNoted
  <1>12. Ignoring(g, x, T, r) /\ r.published = g.published /\ r.hash_passes = g.hash_passes
    BY <1>7, <1>9, <1>11 DEF Ignoring, Kept
  <1>13. ASSUME r.exited = "none" PROVE Failed(F, g, x, T, r)
    <2>1. \/ T = {} /\ g.list_size # 2 /\ r.list_size = g.list_size - 1
             /\ r.state = IF r.list_size = g.buffer_ready THEN "PLS_ALL_BUFFERS_READY" ELSE g.state
          \/ T = Active(g) \ {x} /\ g.list_size = 2 /\ r.list_size = 0 /\ r.state = "PLS_DONE"
      BY <1>5, <1>7, <1>11, <1>13 DEF WithIgnored
    <2>2. r.unique = g.unique + Cardinality(T)
      BY <1>7, <1>10, <1>11
    <2> HIDE DEF T
    <2> QED BY <1>7, <1>11, <1>12, <2>1, <2>2 DEF Failed, Kept, Ignoring
  <1> HIDE DEF T, n
  <1> QED BY <1>7, <1>10, <1>11, <1>12, <1>13

\* The buffer of a file grows to the size it should have, and not by a wrapped difference.
GrowsTo(h, x) == Growth(h.entry[x], h.wanted_bufsize) = h.wanted_bufsize - h.entry[x].bufsize

\* A file that needs data is one of a set that does, and its entry is sound.
LEMMA NeedsDataIs ==
  ASSUME NEW F, IsFiniteSet(F), NEW h, NEW c, NEW bl, Steady(F, h, c, bl),
         NEW size \in Nat, EqualSize(F, c, size),
         NEW x \in F, h.entry[x].state = "FS_NEED_DATA", BlockList(bl[x], c[x])
  PROVE  /\ h.state = "PLS_NEED_DATA" /\ x \in Active(h)
         /\ Data(h.entry[x], c[x], h.wanted_bufsize) /\ AtBlock(h.entry[x], bl[x])
         /\ h.entry[x].next_read_byte < Len(c[x])
         /\ h.entry[x].next_read_block < Len(bl[x])
  <1>1. h \in PathListType(F) /\ Counted(h) /\ ReadSoFar(h, c, bl)
    BY DEF Steady
  <1>2. DOMAIN h.entry = F /\ h.wanted_bufsize \in Nat /\ h.state \in ListStates
    BY <1>1, Zenon DEF PathListType
  <1>3. x \in Active(h) /\ x \notin ReadyFiles(h) /\ ReadyFiles(h) \subseteq Active(h)
        /\ Active(h) \subseteq F
    BY <1>2 DEF Active, ReadyFiles, InState
  <1>4. h.state # "PLS_DONE"
    BY <1>1, <1>3 DEF Counted
  <1>5. h.state # "PLS_ALL_BUFFERS_READY"
    <2>1. IsFiniteSet(Active(h))
      BY <1>3, FS_Subset
    <2>2. PICK W, V : W = Active(h) /\ V = ReadyFiles(h)
      OBVIOUS
    <2>3. V \subseteq W /\ IsFiniteSet(W) /\ x \in W /\ x \notin V
      BY <1>3, <2>1, <2>2
    <2>4. Cardinality(V) # Cardinality(W)
      BY <2>3, FS_Subset
    <2>5. h.buffer_ready # h.list_size
      BY <1>1, <1>4, <2>2, <2>4 DEF Counted
    <2> QED BY <1>1, <1>4, <2>5 DEF Counted
  <1>6. EntrySound(h.entry[x], c[x], h.wanted_bufsize, bl[x])
    BY <1>1, <1>3 DEF ReadSoFar
  <1>7. /\ Data(h.entry[x], c[x], h.wanted_bufsize) /\ AtBlock(h.entry[x], bl[x])
        /\ h.entry[x].next_read_byte < Len(c[x])
    BY <1>6 DEF EntrySound
  <1>8. c[x] \in Seq(Nat)
    BY DEF EqualSize
  <1>9. h.entry[x].next_read_block < Len(bl[x])
    BY <1>2, <1>7, <1>8, WithinList
  <1> QED BY <1>2, <1>3, <1>4, <1>5, <1>7, <1>9 DEF ListStates

\* What a touched set is counted as.
LEMMA TouchedCounted ==
  ASSUME NEW h, NEW x, NEW g, Touched(h, x, g), g.entry[x].state = h.entry[x].state,
         Counted(h), NEW c, Closed(h, Active(h), c)
  PROVE  Counted(g) /\ Closed(g, Active(g), c)
  <1>1. /\ \A S : InState(g, S) = InState(h, S)
        /\ Active(g) = Active(h) /\ ReadyFiles(g) = ReadyFiles(h)
    BY TouchedStates
  <1>2. /\ DOMAIN g.entry = DOMAIN h.entry /\ g.state = h.state /\ g.list_size = h.list_size
        /\ g.buffer_ready = h.buffer_ready
    BY DEF Touched
  <1>3. Counted(g)
    BY <1>1, <1>2 DEF Counted
  <1>4. Closed(g, Active(g), c)
    BY <1>1, <1>2 DEF Closed
  <1> QED BY <1>3, <1>4

\* Those read on after x failed are not x, and are as they were.
LEMMA FailedMovesOn ==
  ASSUME NEW F, NEW h \in PathListType(F), NEW x \in F, h.entry[x].state = "FS_NEED_DATA",
         NEW g \in PathListType(F), Touched(h, x, g), g.entry[x].state = h.entry[x].state,
         NEW T, T \subseteq F, NEW r, Failed(F, g, x, T, r), r.hash_passes = g.hash_passes
  PROVE  MovedOn(h, x, r) /\ x \notin Active(r)
  <1>1. DOMAIN h.entry = F /\ DOMAIN g.entry = F
    BY Zenon DEF PathListType
  <1>2. /\ \A f \in F \ {x} : g.entry[f] = h.entry[f]
        /\ g.wanted_bufsize = h.wanted_bufsize /\ g.hash_passes = h.hash_passes
        /\ g.processed = h.processed
    BY <1>1 DEF Touched
  <1>3. r.entry = Retired(Retired(g.entry, {x}, "FS_IGNORE"), T, "FS_UNIQUE")
        /\ r.wanted_bufsize = g.wanted_bufsize /\ r.processed = g.processed
    BY DEF Failed
  <1>4. DOMAIN r.entry = F
    BY <1>1, <1>3 DEF Retired
  <1>5. ASSUME NEW k \in Active(r)
        PROVE  k \in F /\ k # x /\ r.entry[k] = h.entry[k] /\ k \in Active(h)
    <2>1. k \in F /\ r.entry[k].state \in {"FS_NEED_DATA", "FS_BUFFER_READY"}
      BY <1>4, <1>5 DEF Active, InState
    <2>2. r.entry[k] = IF k \in T THEN Freed(IF k = x THEN Freed(g.entry[k], "FS_IGNORE") ELSE g.entry[k], "FS_UNIQUE")
                       ELSE IF k = x THEN Freed(g.entry[k], "FS_IGNORE") ELSE g.entry[k]
      BY <1>1, <1>3, <2>1 DEF Retired
    <2>3. g.entry[k] \in EntryType
      <3>1. g.entry \in [F -> EntryType]
        BY Zenon DEF PathListType
      <3> QED BY <2>1, <3>1
    <2>4. \A st : Freed(g.entry[k], st).state = st
      BY <2>3 DEF EntryType, Freed
    <2>5. \A st : Freed(Freed(g.entry[k], "FS_IGNORE"), st).state = st
      BY <2>3 DEF EntryType, Freed
    <2>6. k \notin T /\ k # x
      <3>1. CASE k \in T
        BY <2>1, <2>2, <2>4, <2>5, <3>1
      <3>2. CASE k \notin T /\ k = x
        BY <2>1, <2>2, <2>4, <3>2
      <3> QED BY <3>1, <3>2
    <2>7. r.entry[k] = h.entry[k]
      BY <1>2, <2>1, <2>2, <2>6
    <2> QED BY <1>1, <2>1, <2>6, <2>7 DEF Active, InState
  <1> QED BY <1>2, <1>3, <1>5 DEF MovedOn

\* What lets a visit to a file go on.
Proceeds(e, w, bl) ==
  w > 0 /\ Roomy(e) /\ InPlace(e, bl) /\ InOrder(bl) /\ ShortGaps(bl)

\* It only has to do with the block an entry is at, and with where in it.
LEMMA SamePlace ==
  ASSUME NEW e, NEW g, NEW bl, g.next_read_block = e.next_read_block,
         g.next_read_byte = e.next_read_byte, InPlace(e, bl)
  PROVE  InPlace(g, bl)
  BY DEF InPlace

\* A file that the reader is to go on with has room in its buffer.
Fillable(e) == e.state = "FS_NEED_DATA" => Roomy(e)

\* What a visit of the reader to file x may make of a set.
ReaderKept(F, h, x, c, bl, U, r) ==
  /\ r \in PathListType(F) /\ Judges(h, r, c, U)
  /\ r.exited = "none" => Steady(F, r, c, bl) /\ MovedOn(h, x, r)
  /\ GrowsTo(h, x) => Unaccounted(r) = Unaccounted(h)
  /\ NotTooMany(h) /\ Proceeds(h.entry[x], h.wanted_bufsize, bl[x]) =>
       /\ r.exited = h.exited
       /\ x \in Active(r) => InPlace(r.entry[x], bl[x])
       /\ Joined(bl[x]) /\ x \in Active(r) => Fillable(r.entry[x])

\* A visit that an impossible read ends.
LEMMA VisitExits ==
  ASSUME NEW F, NEW h, NEW x, NEW g \in PathListType(F), Touched(h, x, g),
         g.entry[x].state = h.entry[x].state,
         NEW o, o \in {"position_outside_block", "requested_zero_bytes"},
         NEW r, r = Exit(g, o), NEW c, NEW U
  PROVE  /\ r \in PathListType(F) /\ Judges(h, r, c, U) /\ r.exited # "none"
         /\ Unaccounted(r) = Unaccounted(g)
  <1>1. o \in Checks /\ o # "none"
    BY DEF Checks
  <1>2. /\ r \in PathListType(F) /\ Kept(g, r) /\ Unaccounted(r) = Unaccounted(g)
        /\ r.exited = o /\ r.entry = g.entry
    BY <1>1, ExitIs
  <1>3. SameVerdicts(h, g)
    BY TouchedStates
  <1>4. SameVerdicts(h, r)
    <2>1. r.published = g.published /\ \A S : InState(r, S) = InState(g, S)
      BY <1>2 DEF Kept, InState
    <2> QED BY <1>2, <1>3, <2>1 DEF SameVerdicts
  <1>5. Judges(h, r, c, U)
    BY <1>4, SameIsJudged
  <1> QED BY <1>1, <1>2, <1>5

\* A visit that could not read the file.
LEMMA VisitIgnores ==
  ASSUME NEW F, IsFiniteSet(F), NEW h, NEW c, NEW bl, Steady(F, h, c, bl),
         NEW x \in F, h.entry[x].state = "FS_NEED_DATA", h.state = "PLS_NEED_DATA",
         h.exited = "none",
         NEW g \in PathListType(F), Touched(h, x, g), g.entry[x].state = h.entry[x].state,
         NEW r, r = IgnoredSet(h, x, g), NEW U, x \in U
  PROVE  /\ r \in PathListType(F) /\ Judges(h, r, c, U) /\ Unaccounted(r) = Unaccounted(g)
         /\ r.exited = "none" => /\ Steady(F, r, c, bl) /\ MovedOn(h, x, r)
                                 /\ x \notin Active(r)
         /\ NotTooMany(h) => r.exited = h.exited
  <1>1. h \in PathListType(F) /\ Counted(h) /\ ReadSoFar(h, c, bl) /\ h.state # "PLS_DONE"
    BY DEF Steady
  <1>2. Closed(h, Active(h), c)
    BY <1>1 DEF ReadSoFar, Closed
  <1>3. Counted(g) /\ Closed(g, Active(g), c)
    BY <1>1, <1>2, TouchedCounted
  <1>4. PICK T : /\ LeftAlone(g, x, T) /\ Ignoring(g, x, T, r) /\ r.published = g.published
                 /\ r \in PathListType(F) /\ Unaccounted(r) = Unaccounted(g)
                 /\ r.hash_passes = g.hash_passes
                 /\ NotTooMany(g) => r.exited = g.exited
                 /\ r.exited = "none" => Failed(F, g, x, T, r)
    BY <1>1, VisitFails
  <1>5. SameVerdicts(h, g)
    BY TouchedStates
  <1>6. g.state # "PLS_DONE" /\ g.entry[x].state = "FS_NEED_DATA"
    BY <1>1 DEF Touched
  <1>7. Judges(g, r, c, U)
    BY <1>3, <1>4, <1>6, FailedJudges
  <1>8. Judges(h, r, c, U)
    BY <1>5, <1>7, JudgesFromSame
  <1>9. T \subseteq F
    <2>1. Active(g) \subseteq F
      <3>1. DOMAIN g.entry = F
        BY Zenon DEF PathListType
      <3> QED BY <3>1 DEF Active, InState
    <2> QED BY <1>4, <2>1 DEF LeftAlone
  <1>10. ASSUME r.exited = "none"
         PROVE  Steady(F, r, c, bl) /\ MovedOn(h, x, r) /\ x \notin Active(r)
    <2>1. Failed(F, g, x, T, r)
      BY <1>4, <1>10
    <2>2. Steady(F, r, c, bl)
      BY <2>1, FailedSteady
    <2>3. MovedOn(h, x, r) /\ x \notin Active(r)
      BY <1>1, <1>4, <1>9, <2>1, FailedMovesOn
    <2> QED BY <2>2, <2>3
  <1>11. NotTooMany(h) => r.exited = h.exited
    <2>1. g.list_size = h.list_size /\ g.exited = h.exited
      BY DEF Touched
    <2> QED BY <1>4, <2>1 DEF NotTooMany
  <1> QED BY <1>4, <1>8, <1>10, <1>11

\* Those it serves move on.
LEMMA ServedMovesOn ==
  ASSUME NEW F, NEW h \in PathListType(F), NEW x \in F, NEW r, Active(r) = Active(h),
         r.wanted_bufsize = h.wanted_bufsize, r.hash_passes = h.hash_passes,
         r.processed = h.processed, \A k \in F \ {x} : r.entry[k] = h.entry[k],
         r.entry[x].bufsize = h.wanted_bufsize,
         \/ r.entry[x].next_read_block = h.entry[x].next_read_block
         \/ r.entry[x].next_read_block = h.entry[x].next_read_block + 1
  PROVE  MovedOn(h, x, r)
  <1>1. Active(h) \subseteq F
    <2>1. DOMAIN h.entry = F
      BY Zenon DEF PathListType
    <2> QED BY <2>1 DEF Active, InState
  <1> QED BY <1>1 DEF MovedOn

\* A visit of the reader to a file that needs data.
LEMMA ReaderKeeps ==
  ASSUME NEW F, IsFiniteSet(F), NEW h, NEW c, NEW bl, Steady(F, h, c, bl),
         NEW size \in Nat, EqualSize(F, c, size),
         NEW x \in F, h.entry[x].state = "FS_NEED_DATA", BlockList(bl[x], c[x]),
         h.exited = "none", NEW U, NEW readable \in BOOLEAN, readable \/ x \in U,
         NEW keep \in BOOLEAN, NEW r, r = reader_visit(h, x, bl[x], c[x], readable, keep)
  PROVE  ReaderKept(F, h, x, c, bl, U, r)
  <1> DEFINE e == h.entry[x]
             w == h.wanted_bufsize
             v == fill_data_block(e, w, bl[x], c[x], readable)
             g == VisitedSet(h, x, bl[x], v, keep)
             en == g.entry[x]
  <1>1. h \in PathListType(F) /\ c[x] \in Seq(Nat)
    BY DEF Steady, EqualSize
  <1>2. w \in Nat /\ h.entry \in [F -> EntryType]
    BY <1>1, Zenon DEF PathListType
  <1>3. /\ h.state = "PLS_NEED_DATA" /\ Data(e, c[x], w) /\ AtBlock(e, bl[x])
        /\ e.next_read_byte < Len(c[x]) /\ e.next_read_block < Len(bl[x])
    BY NeedsDataIs
  <1>4. /\ v.entry \in EntryType /\ v.entry.state = "FS_NEED_DATA" /\ v.entry.bufsize = w
        /\ v.entry.hashed = e.hashed
        /\ \/ /\ VisitSound(v, c[x], w, bl[x])
              /\ v.entry.next_read_block \in {e.next_read_block, e.next_read_block + 1}
           \/ /\ v.entry.next_read_block = e.next_read_block
              /\ \/ v.outcome = "unreadable" /\ ~readable
                 \/ v.outcome \in {"position_outside_block", "requested_zero_bytes"}
    <2> HIDE DEF e, w
    <2>1. e.state = "FS_NEED_DATA"
      BY DEF e
    <2> QED BY <1>1, <1>2, <1>3, <2>1, VisitKeeps
  <1>14. Proceeds(e, w, bl[x]) =>
           /\ InPlace(v.entry, bl[x])
           /\ v.outcome \in {"ready", "filling"} \/ (v.outcome = "unreadable" /\ ~readable)
           /\ Joined(bl[x]) /\ v.outcome = "filling" => Space(v.entry) > 0
    <2>1. e.state = "FS_NEED_DATA"
      OBVIOUS
    <2>2. PICK cx, bx : cx = c[x] /\ bx = bl[x]
      OBVIOUS
    <2>3. v = fill_data_block(e, w, bx, cx, readable)
      BY <2>2
    <2>4. /\ cx \in Seq(Nat) /\ Data(e, cx, w) /\ AtBlock(e, bx) /\ e.next_read_block < Len(bx)
          /\ BlockList(bx, cx)
      BY <1>1, <1>3, <2>2
    <2> HIDE DEF e, w, v
    <2>5. ASSUME Proceeds(e, w, bx)
          PROVE  /\ InPlace(v.entry, bx)
                 /\ v.outcome \in {"ready", "filling"} \/ (v.outcome = "unreadable" /\ ~readable)
                 /\ Joined(bx) /\ v.outcome = "filling" => Space(v.entry) > 0
      BY <1>2, <2>1, <2>3, <2>4, <2>5, VisitProceeds DEF Proceeds
    <2> QED BY <2>2, <2>5
  <1> HIDE DEF v
  <1>5. /\ g \in PathListType(F) /\ Touched(h, x, g)
        /\ \E fd \in BOOLEAN : g.entry[x] = WithFd(v.entry, fd)
        /\ g.allocated = h.allocated + Growth(h.entry[x], h.wanted_bufsize)
        /\ g.open = h.open + ((IF g.entry[x].fd THEN 1 ELSE 0)
                              - (IF h.entry[x].fd THEN 1 ELSE 0))
    BY <1>1, <1>4, VisitedSetIs
  <1>6. /\ v.outcome = "filling" => r = g
        /\ v.outcome = "ready" => r = MarkedReady(g, x, v.entry.next_read_byte >= Len(c[x]))
        /\ v.outcome = "unreadable" => r = IgnoredSet(h, x, g)
        /\ v.outcome \notin {"filling", "ready", "unreadable"} => r = Exit(g, v.outcome)
    BY ReaderVisitIs DEF v, IgnoredSet
  <1> HIDE DEF g
  <1>7. PICK fd \in BOOLEAN : en = WithFd(v.entry, fd)
    BY <1>5
  <1>8. /\ en \in EntryType /\ en.state = "FS_NEED_DATA" /\ en.bufsize = w
        /\ en.hashed = e.hashed /\ en.next_read_block = v.entry.next_read_block
        /\ en.next_read_byte = v.entry.next_read_byte
        /\ Data(v.entry, c[x], w) => Data(en, c[x], w)
        /\ AtBlock(v.entry, bl[x]) => AtBlock(en, bl[x])
        /\ Ready(v.entry, c[x], w) => Ready(en, c[x], w)
        /\ Space(en) = Space(v.entry)
    <2>1. PICK ve, ex, cx, bx : ve = v.entry /\ ex = en /\ cx = c[x] /\ bx = bl[x]
      OBVIOUS
    <2>2. ve \in EntryType /\ ex = WithFd(ve, fd)
      BY <1>4, <1>7, <2>1
    <2>3. /\ ex \in EntryType
          /\ Data(ve, cx, w) => Data(ex, cx, w)
          /\ AtBlock(ve, bx) => AtBlock(ex, bx)
          /\ Ready(ve, cx, w) => Ready(ex, cx, w)
          /\ ex.state = ve.state /\ ex.bufsize = ve.bufsize /\ ex.hashed = ve.hashed
          /\ ex.next_read_block = ve.next_read_block /\ ex.next_read_byte = ve.next_read_byte
          /\ Space(ex) = Space(ve)
      BY <2>2, FdSound
    <2> QED BY <1>4, <2>1, <2>3
  <1>9. GrowsTo(h, x) => Unaccounted(g) = Unaccounted(h)
    <2> SUFFICES ASSUME GrowsTo(h, x) PROVE Unaccounted(g) = Unaccounted(h)
      OBVIOUS
    <2>1. g.allocated = h.allocated + (g.entry[x].bufsize - h.entry[x].bufsize)
      BY <1>5, <1>8 DEF GrowsTo
    <2> QED BY <1>1, <1>5, <2>1, GrownUnaccounted
  <1>10. g.entry[x].state = h.entry[x].state
    BY <1>8
  <1>11. CASE VisitSound(v, c[x], w, bl[x])
    <2>1. /\ Data(en, c[x], w) /\ AtBlock(en, bl[x])
          /\ v.outcome \in {"ready", "filling"}
          /\ v.outcome = "ready" => Ready(en, c[x], w)
          /\ v.outcome = "filling" => en.next_read_byte < Len(c[x])
      BY <1>8, <1>11 DEF VisitSound
    <2>2. PICK ready \in BOOLEAN : ready <=> v.outcome = "ready"
      OBVIOUS
    <2>3. /\ ready => Ready(en, c[x], w)
          /\ ~ready => en.next_read_byte < Len(c[x])
          /\ r = IF ready THEN MarkedReady(g, x, en.next_read_byte >= Len(c[x])) ELSE g
      BY <1>6, <1>8, <2>1, <2>2
    <2>4. /\ Steady(F, r, c, bl) /\ SameVerdicts(h, r) /\ Unaccounted(r) = Unaccounted(g)
          /\ Active(r) = Active(h)
          /\ r.wanted_bufsize = h.wanted_bufsize /\ r.hash_passes = h.hash_passes
          /\ r.processed = h.processed
          /\ \A k \in F \ {x} : r.entry[k] = h.entry[k]
          /\ r.entry[x].bufsize = en.bufsize /\ r.entry[x].next_read_block = en.next_read_block
          /\ r.entry[x].next_read_byte = en.next_read_byte /\ r.exited = h.exited
          /\ ready => r.entry[x].state = "FS_BUFFER_READY"
      <3>1. PICK ex : ex = en
        OBVIOUS
      <3>2. /\ ex = g.entry[x] /\ Data(ex, c[x], h.wanted_bufsize) /\ AtBlock(ex, bl[x])
            /\ ex.state = "FS_NEED_DATA" /\ ex.hashed = h.entry[x].hashed
            /\ ready => Ready(ex, c[x], h.wanted_bufsize)
            /\ ~ready => ex.next_read_byte < Len(c[x])
            /\ r = IF ready THEN MarkedReady(g, x, ex.next_read_byte >= Len(c[x])) ELSE g
        BY <1>8, <2>1, <2>3, <3>1
      <3> HIDE DEF en
      <3> QED BY <1>3, <1>5, <3>1, <3>2, VisitServes
    <2>5. Judges(h, r, c, U)
      BY <2>4, SameIsJudged
    <2>6. MovedOn(h, x, r)
      <3>1. \/ r.entry[x].next_read_block = h.entry[x].next_read_block
            \/ r.entry[x].next_read_block = h.entry[x].next_read_block + 1
        <4>1. v.entry.next_read_block \in {e.next_read_block, e.next_read_block + 1}
          BY <1>4, <1>11
        <4> QED BY <1>8, <2>4, <4>1
      <3>2. r.entry[x].bufsize = h.wanted_bufsize
        BY <1>8, <2>4
      <3> QED BY <1>1, <2>4, <3>1, <3>2, ServedMovesOn
    <2>7. r \in PathListType(F)
      BY <2>4 DEF Steady
    <2>8. InPlace(v.entry, bl[x]) => InPlace(r.entry[x], bl[x])
      <3>1. /\ r.entry[x].next_read_block = v.entry.next_read_block
            /\ r.entry[x].next_read_byte = v.entry.next_read_byte
        BY <1>8, <2>4
      <3> QED BY <3>1, SamePlace
    <2>9. Proceeds(e, w, bl[x]) /\ Joined(bl[x]) => Fillable(r.entry[x])
      <3>1. CASE ready
        BY <2>4, <3>1 DEF Fillable
      <3>2. CASE ~ready
        <4>1. v.outcome = "filling" /\ r.entry[x] = en
          BY <2>1, <2>2, <2>3, <3>2
        <4>2. Proceeds(e, w, bl[x]) /\ Joined(bl[x]) => Space(v.entry) > 0
          BY <1>14, <4>1
        <4> QED BY <1>8, <4>1, <4>2 DEF Fillable, Roomy
      <3> QED BY <3>1, <3>2
    <2> QED BY <1>9, <1>14, <2>4, <2>5, <2>6, <2>7, <2>8, <2>9 DEF ReaderKept
  <1>12. CASE v.outcome = "unreadable" /\ ~readable
    <2>1. r = IgnoredSet(h, x, g) /\ x \in U
      BY <1>6, <1>12
    <2>2. /\ r \in PathListType(F) /\ Judges(h, r, c, U) /\ Unaccounted(r) = Unaccounted(g)
          /\ r.exited = "none" => /\ Steady(F, r, c, bl) /\ MovedOn(h, x, r)
                                  /\ x \notin Active(r)
          /\ NotTooMany(h) => r.exited = h.exited
      BY <1>3, <1>5, <1>10, <2>1, VisitIgnores
    <2> QED BY <1>9, <2>2 DEF ReaderKept
  <1>13. CASE v.outcome \in {"position_outside_block", "requested_zero_bytes"}
    <2>1. r = Exit(g, v.outcome)
      BY <1>6, <1>13
    <2>2. /\ r \in PathListType(F) /\ Judges(h, r, c, U) /\ r.exited # "none"
          /\ Unaccounted(r) = Unaccounted(g)
      BY <1>5, <1>10, <1>13, <2>1, VisitExits
    <2>3. ~Proceeds(e, w, bl[x])
      BY <1>13, <1>14
    <2> QED BY <1>9, <2>2, <2>3 DEF ReaderKept
  <1> QED BY <1>4, <1>11, <1>12, <1>13

-----------------------------------------------------------------------------
(* The sizes of the buffers. *)

\* The buffers get no smaller from a pass to the next, and fit into a uint32_t.
GrowingBuffers ==
  /\ hash_one_block_size <= IF use_hash_cache THEN K512 ELSE MB2
  /\ MB2 <= MB16 /\ K512 < WordSize /\ MB16 < WordSize /\ round1_max_bytes < WordSize

\* The largest buffer after this many passes.
Cap(passes) == IF use_hash_cache THEN K512 ELSE IF passes = 0 THEN MB2 ELSE MB16
Fits(w, passes, size) == w <= Cap(passes) \/ (w = size /\ size <= round1_max_bytes)

\* No buffer of a set is larger than wanted.
Sized(h, size) ==
  h.state # "PLS_DONE" =>
    /\ Fits(h.wanted_bufsize, h.hash_passes, size)
    /\ \A f \in Active(h) : h.entry[f].bufsize <= h.wanted_bufsize

\* The first buffer fits.
LEMMA FirstFits ==
  ASSUME GrowingBuffers, NEW size \in Nat
  PROVE  Fits(FirstBufsize(size), 0, size)
  <1>1. /\ hash_one_block_size \in Nat /\ K512 \in Nat /\ MB2 \in Nat
        /\ use_hash_cache \in BOOLEAN
    BY BufferSizesAssumption
  <1> QED BY <1>1 DEF GrowingBuffers, Fits, Cap, FirstBufsize

\* The next one fits, and is no smaller.
LEMMA NextFits ==
  ASSUME GrowingBuffers, NEW size \in Nat, NEW w \in Nat, w < size, NEW p \in Nat,
         Fits(w, p, size), NEW q, q = IF p < 255 THEN p + 1 ELSE p,
         NEW n, n = NextBufsize(w, q, size)
  PROVE  n >= w /\ Fits(n, q, size)
  <1>1. /\ hash_one_block_size \in Nat /\ K512 \in Nat /\ MB2 \in Nat /\ MB16 \in Nat
        /\ use_hash_cache \in BOOLEAN
    BY BufferSizesAssumption
  <1>2. w <= Cap(p)
    BY DEF Fits
  <1>3. q \in Nat /\ q # 0 /\ (q = 1 => p = 0)
    OBVIOUS
  <1>4. CASE use_hash_cache
    <2>1. n = Smaller(size, K512)
      BY <1>4 DEF NextBufsize
    <2> QED BY <1>1, <1>2, <1>4, <2>1 DEF Smaller, Cap, Fits
  <1>5. CASE ~use_hash_cache
    <2>1. PICK m : m = CASE q = 1 -> MB2 [] q > 2 -> MB16 [] OTHER -> w
      OBVIOUS
    <2>2. n = Smaller(size, m)
      BY <1>1, <1>5, <2>1 DEF NextBufsize
    <2>3. m \in Nat /\ m >= w /\ m <= MB16
      BY <1>1, <1>2, <1>3, <1>5, <2>1 DEF Cap, GrowingBuffers
    <2>4. n >= w /\ n <= MB16
      BY <1>1, <2>2, <2>3 DEF Smaller
    <2> QED BY <1>3, <1>5, <2>4 DEF Fits, Cap
  <1> QED BY <1>1, <1>4, <1>5

\* So the count of allocated memory grows by what the buffer does.
LEMMA SizedGrows ==
  ASSUME GrowingBuffers, NEW F, NEW h \in PathListType(F), NEW size \in Nat, Sized(h, size),
         h.state # "PLS_DONE", NEW x \in F, x \in Active(h)
  PROVE  GrowsTo(h, x)
  <1>1. /\ h.entry \in [F -> EntryType] /\ h.wanted_bufsize \in Nat
    BY Zenon DEF PathListType
  <1>2. h.entry[x].bufsize \in Nat
    BY <1>1 DEF EntryType
  <1>3. PICK b \in Nat, w \in Nat : b = h.entry[x].bufsize /\ w = h.wanted_bufsize
    BY <1>1, <1>2
  <1>4. b <= w /\ Fits(w, h.hash_passes, size)
    BY <1>3 DEF Sized
  <1>5. w < WordSize /\ WordSize \in Nat
    <2>1. /\ K512 \in Nat /\ MB2 \in Nat /\ MB16 \in Nat /\ round1_max_bytes \in Nat
          /\ use_hash_cache \in BOOLEAN /\ WordSize \in Nat
      BY BufferSizesAssumption
    <2> QED BY <1>4, <2>1 DEF Fits, Cap, GrowingBuffers
  <1>6. PICK d \in Nat : d = w - b
    BY <1>4
  <1>7. d % WordSize = d
    BY <1>4, <1>5, <1>6
  <1>8. Growth(h.entry[x], h.wanted_bufsize) = d % WordSize
    BY <1>3, <1>6 DEF Growth, Word
  <1> QED BY <1>3, <1>6, <1>7, <1>8 DEF GrowsTo

\* A pass leaves it so.
LEMMA PassSized ==
  ASSUME GrowingBuffers, NEW F, NEW h \in PathListType(F), NEW size \in Nat, Sized(h, size),
         h.state = "PLS_ALL_BUFFERS_READY", NEW r \in PathListType(F), NextPass(h, r, size),
         StayAt(h, r)
  PROVE  Sized(r, size)
  <1> SUFFICES ASSUME r.state # "PLS_DONE" PROVE Sized(r, size)
    BY DEF Sized
  <1>1. /\ h.entry \in [F -> EntryType] /\ h.wanted_bufsize \in Nat /\ h.hash_passes \in Nat
        /\ DOMAIN h.entry = F /\ r.wanted_bufsize \in Nat
    BY Zenon DEF PathListType
  <1>2. PICK w \in Nat, p \in Nat : w = h.wanted_bufsize /\ p = h.hash_passes
    BY <1>1
  <1>3. PICK n, q : n = r.wanted_bufsize /\ q = r.hash_passes
    OBVIOUS
  <1>4. /\ w < size /\ q = (IF p < 255 THEN p + 1 ELSE p) /\ n = NextBufsize(w, q, size)
    BY <1>2, <1>3 DEF NextPass, Passes
  <1>5. Fits(w, p, size) /\ \A f \in Active(h) : h.entry[f].bufsize <= w
    BY <1>2 DEF Sized
  <1>6. n >= w /\ Fits(n, q, size)
    BY <1>4, <1>5, NextFits
  <1>7. ASSUME NEW f \in Active(r) PROVE r.entry[f].bufsize <= n
    <2>1. f \in Active(h) /\ r.entry[f].bufsize = h.entry[f].bufsize
      BY <1>7 DEF StayAt
    <2>2. f \in F
      BY <1>1, <2>1 DEF Active, InState
    <2>3. h.entry[f].bufsize \in Nat /\ n \in Nat
      BY <1>1, <1>3, <2>2 DEF EntryType
    <2>4. h.entry[f].bufsize <= w
      BY <1>5, <2>1
    <2> QED BY <1>6, <2>1, <2>3, <2>4
  <1> QED BY <1>3, <1>6, <1>7 DEF Sized

\* And a visit of the reader.
LEMMA VisitSized ==
  ASSUME NEW F, NEW h \in PathListType(F), NEW size \in Nat, Sized(h, size),
         h.state # "PLS_DONE", NEW x \in F, NEW r, MovedOn(h, x, r)
  PROVE  Sized(r, size)
  <1>1. /\ h.wanted_bufsize \in Nat
    BY Zenon DEF PathListType
  <1>2. /\ r.wanted_bufsize = h.wanted_bufsize /\ r.hash_passes = h.hash_passes
        /\ Active(r) \subseteq Active(h)
        /\ \A k \in Active(r) \ {x} : r.entry[k] = h.entry[k]
        /\ x \in Active(r) => r.entry[x].bufsize = h.wanted_bufsize
    BY DEF MovedOn
  <1>3. Fits(r.wanted_bufsize, r.hash_passes, size)
    BY <1>2 DEF Sized
  <1>4. ASSUME NEW f \in Active(r) PROVE r.entry[f].bufsize <= r.wanted_bufsize
    <2>1. CASE f = x
      BY <1>1, <1>2, <1>4, <2>1
    <2>2. CASE f # x
      BY <1>2, <1>4, <2>2 DEF Sized
    <2> QED BY <2>1, <2>2
  <1> QED BY <1>3, <1>4 DEF Sized

-----------------------------------------------------------------------------
(* A set before any operation on it. *)

\* A sum of zeros is zero.
LEMMA SumZero ==
  ASSUME NEW S, IsFiniteSet(S), NEW f, \A x \in S : f[x] = 0
  PROVE  SumFunctionOnSet(f, S) = 0
  <1>1. CASE S = {}
    BY <1>1, SumUnfolds
  <1>2. CASE S # {}
    <2> DEFINE Bad == {U \in SUBSET S : SumFunctionOnSet(f, U) # 0}
    <2>1. SUFFICES ASSUME Bad # {} PROVE FALSE
      OBVIOUS
    <2>2. PICK U \in Bad : \A V \in Bad : V \subseteq U => V = U
      <3>1. Bad \subseteq SUBSET S
        OBVIOUS
      <3> HIDE DEF Bad
      <3> QED BY <2>1, <3>1, MinimalSubset
    <2>3. IsFiniteSet(U) /\ U \in SUBSET S
      BY FS_Subset
    <2>4. U # {}
      BY <2>3, SumUnfolds
    <2>5. PICK x \in U : SumFunctionOnSet(f, U) = f[x] + SumFunctionOnSet(f, U \ {x})
      BY <2>3, <2>4, SumUnfolds
    <2>6. U \ {x} \notin Bad
      BY <2>2
    <2>7. SumFunctionOnSet(f, U \ {x}) = 0 /\ f[x] = 0
      BY <2>3, <2>6
    <2> QED BY <2>5, <2>7
  <1> QED BY <1>1, <1>2

\* It is sound, and holds nothing.
LEMMA NewSetIs ==
  ASSUME NEW F, IsFiniteSet(F), Cardinality(F) > 1, NEW size \in Nat, size > 0,
         NEW c, EqualSize(F, c, size), NEW bl, \A f \in F : BlockList(bl[f], c[f]),
         NEW h, h = NewSet(F, size)
  PROVE  /\ Steady(F, h, c, bl) /\ Balanced(h) /\ h.exited = "none" /\ h.published = {}
         /\ h.processed = 0 /\ h.state = "PLS_NEED_DATA" /\ DOMAIN h.entry = F
         /\ \A f \in F : h.entry[f] = NewEntry
         /\ h.wanted_bufsize = FirstBufsize(size) /\ h.hash_passes = 0
  <1> DEFINE en == [f \in F |-> NewEntry]
             w == FirstBufsize(size)
             k == Cardinality(F)
  <1>1. /\ w \in Nat /\ k \in Nat /\ k > 1
    BY BufsizesTyped, FS_CardinalityType
  <1>2. /\ NewEntry \in EntryType /\ NewEntry.state = "FS_NEED_DATA" /\ NewEntry.bufsize = 0
        /\ NewEntry.fd = FALSE /\ NewEntry.hashed = << >> /\ NewEntry.buffer = << >>
        /\ NewEntry.next_read_byte = 0 /\ NewEntry.next_read_block = 0
    BY DEF NewEntry, EntryType, FileStates, hash_fn_buf_init
  <1>3. en \in [F -> EntryType] /\ DOMAIN en = F /\ \A f \in F : en[f] = NewEntry
    BY <1>2
  <1>4. h = [state |-> "PLS_NEED_DATA", list_size |-> k, buffer_ready |-> 0,
             wanted_bufsize |-> w, hash_passes |-> 0, fully_read |-> FALSE,
             entry |-> en, allocated |-> 0, open |-> 0, dups |-> 0, unique |-> 0,
             processed |-> 0, published |-> {}, exited |-> "none"]
    BY DEF NewSet
  <1> HIDE DEF en, w, k
  <1>5. /\ h.state = "PLS_NEED_DATA" /\ h.list_size = k /\ h.buffer_ready = 0
        /\ h.wanted_bufsize = w /\ h.hash_passes = 0 /\ h.fully_read = FALSE /\ h.entry = en
        /\ h.allocated = 0 /\ h.open = 0 /\ h.dups = 0 /\ h.unique = 0 /\ h.processed = 0
        /\ h.published = {} /\ h.exited = "none"
    BY <1>4
  <1>6. h \in PathListType(F)
    <2>1. "PLS_NEED_DATA" \in ListStates /\ "none" \in Checks
      BY DEF ListStates, Checks
    <2> QED BY <1>1, <1>3, <1>4, <2>1 DEF PathListType
  <1>7. /\ Active(h) = F /\ ReadyFiles(h) = {}
        /\ \A S : "FS_NEED_DATA" \notin S => InState(h, S) = {}
    BY <1>2, <1>3, <1>5 DEF Active, ReadyFiles, InState
  <1>8. /\ InState(h, {"FS_CACHE_DONE", "FS_IGNORE_HL"}) = {} /\ InState(h, {"FS_DONE"}) = {}
        /\ InState(h, {"FS_UNIQUE"}) = {} /\ InState(h, {"FS_IGNORE"}) = {}
    BY <1>7
  <1>9. Counted(h)
    BY <1>1, <1>5, <1>7, <1>8, FS_EmptySet DEF Counted, k
  <1>10. Settled(h)
    BY <1>5 DEF Settled
  <1>11. Tallied(h)
    BY <1>5, <1>8, FS_EmptySet DEF Tallied
  <1>12. Released(h)
    BY <1>3, <1>5, <1>7 DEF Released
  <1>13. ReadSoFar(h, c, bl)
    <2>1. ASSUME NEW f \in F PROVE EntrySound(NewEntry, c[f], w, bl[f])
      <3>1. c[f] \in Seq(Nat) /\ Len(c[f]) = size /\ BlockList(bl[f], c[f])
        BY DEF EqualSize
      <3>2. IsPrefixOf(<< >>, << >>, c[f], 0)
        BY <3>1 DEF IsPrefixOf, First
      <3>3. Data(NewEntry, c[f], w)
        BY <1>2, <3>1, <3>2 DEF Data
      <3>4. AtBlock(NewEntry, bl[f])
        <4>1. Len(bl[f]) \in Nat
          BY <3>1, LenProperties DEF BlockList
        <4> QED BY <1>2, <4>1 DEF AtBlock
      <3> QED BY <1>2, <3>1, <3>3, <3>4 DEF EntrySound
    <2>2. \A f \in Active(h) : EntrySound(h.entry[f], c[f], h.wanted_bufsize, bl[f])
      BY <1>3, <1>5, <1>7, <2>1
    <2>3. \A f, g \in Active(h) : Len(h.entry[f].hashed) = Len(h.entry[g].hashed)
      BY <1>3, <1>5, <1>7
    <2>4. ~h.fully_read /\ ReadyFiles(h) = {} /\ DOMAIN h.entry = Active(h)
      BY <1>3, <1>5, <1>7
    <2> QED BY <2>2, <2>3, <2>4 DEF ReadSoFar
  <1>14. Balanced(h)
    <2>1. \A f \in F : Bufsizes(h)[f] = 0
      BY <1>2, <1>3, <1>5 DEF Bufsizes
    <2>2. SumFunctionOnSet(Bufsizes(h), F) = 0
      BY <2>1, SumZero
    <2>3. Opened(h, F) = {}
      BY <1>2, <1>3, <1>5 DEF Opened
    <2> QED BY <1>3, <1>5, <2>2, <2>3, FS_EmptySet DEF Balanced, Unaccounted
  <1> QED BY <1>3, <1>5, <1>6, <1>9, <1>10, <1>11, <1>12, <1>13, <1>14 DEF Steady, w
=============================================================================
