--------------------------- MODULE ReadHashProofs ---------------------------
(***************************************************************************)
(* The pipeline keeps its counters and its books right however reader,     *)
(* hashers and flusher interleave, for any sets of files, block lists,     *)
(* buffer sizes and number of hashers.                                     *)
(*                                                                         *)
(* What an operation does to one set is proved in PathSetProofs; here are  *)
(* the threads.  All of it is proved of behaviours in which the flusher    *)
(* does not run while reads may fail (Cautious): when it does, the files   *)
(* that it cannot read stay undecided in a set that is done, and the       *)
(* counts of that set are wrong.                                           *)
(***************************************************************************)
EXTENDS ReadHash, PathSetProofs

Cautious == reader = "flush" => unreliable = {}

-----------------------------------------------------------------------------
(* Types. *)

Positions == 1 .. Len(readList)

GivenOK ==
  \E i \in Instances : /\ content = i.content /\ unreliable = i.unreliable
                        /\ buffer_limit = i.buffer_limit

SetsOK ==
  /\ set = [s \in Sets |-> set[s]]
  /\ \A s \in Sets : set[s] \in PathListType(FilesOf(s))

ReaderOK ==
  /\ rl_done \in [Positions -> BOOLEAN]
  /\ reader \in {"read", "submit", "check", "flush", "loop", "done"}
  /\ rlpos \in 0 .. Len(readList)
  /\ done_files \in Nat
  /\ next_queue \in Hashers
  /\ at \in Sets \cup {NoSet}

HashersOK ==
  /\ queue \in [Hashers -> Seq(Sets)]
  /\ done \in [Hashers -> BOOLEAN]
  /\ hasher \in [Hashers -> {"get", "hash", "wait", "done"}]
  /\ job \in [Hashers -> Sets \cup {NoSet}]
  /\ last \in [Hashers -> BOOLEAN]
  /\ main \in {"join reader", "signal", "join hashers", "done", "exit(1)"}

TypeOK == GivenOK /\ SetsOK /\ ReaderOK /\ HashersOK

(* Where the threads are: the reader at an entry of the read list or past it,
   with a set to submit or flush; and a hasher that hashes has a set. *)
Places ==
  /\ reader \in {"read", "submit", "check"} => rlpos < Len(readList)
  /\ reader = "loop" => rlpos = Len(readList)
  /\ reader \in {"submit", "flush"} => at \in Sets
  /\ \A h \in Hashers : hasher[h] = "hash" <=> job[h] # NoSet

(* What holds of each set. *)
SetsSteady == \A s \in Sets : Steady(FilesOf(s), set[s], content, blocksOf)

-----------------------------------------------------------------------------
(* The constants. *)

\* Each set has some files, and there are finitely many of everything.
LEMMA SetsAre ==
  /\ IsFiniteSet(Sets) /\ IsFiniteSet(Files) /\ IsFiniteSet(Hashers) /\ NoSet \notin Sets
  /\ \A f \in Files : setOf[f] \in Sets /\ f \in FilesOf(setOf[f])
  /\ \A s \in Sets : /\ FilesOf(s) \subseteq Files /\ IsFiniteSet(FilesOf(s))
                     /\ Cardinality(FilesOf(s)) > 1
  <1>1. /\ IsFiniteSet(Sets) /\ Sets = 1 .. Cardinality(Sets)
        /\ IsFiniteSet(Files) /\ setOf \in [Files -> Sets] /\ IsFiniteSet(Hashers)
        /\ \A s \in Sets : Cardinality({f \in Files : setOf[f] = s}) > 1
    BY ReadHashAssumption
  <1>2. NoSet \notin Sets
    <2>1. Cardinality(Sets) \in Nat
      BY <1>1, FS_CardinalityType
    <2>2. 0 \notin 1 .. Cardinality(Sets)
      BY <2>1
    <2> QED BY <1>1, <2>2 DEF NoSet
  <1>3. \A s \in Sets : FilesOf(s) \subseteq Files /\ Cardinality(FilesOf(s)) > 1
    BY <1>1 DEF FilesOf
  <1>4. \A s \in Sets : IsFiniteSet(FilesOf(s))
    BY <1>1, <1>3, FS_Subset
  <1> QED BY <1>1, <1>2, <1>3, <1>4 DEF FilesOf

\* The files of a set have its size, and their blocks have what they contain.
LEMMA GivenIs ==
  ASSUME GivenOK, NEW s \in Sets
  PROVE  /\ SizeOf(s) \in Nat /\ SizeOf(s) > 0
         /\ EqualSize(FilesOf(s), content, SizeOf(s))
         /\ \A f \in FilesOf(s) : BlockList(blocksOf[f], content[f])
  <1>1. PICK i \in Instances : content = i.content
    BY DEF GivenOK
  <1>2. /\ \A f \in Files : /\ content[f] \in Seq(Nat) /\ content[f] # << >>
                             /\ BlockList(blocksOf[f], content[f])
        /\ \A f, g \in Files : setOf[f] = setOf[g] => Len(content[f]) = Len(content[g])
    BY <1>1, ReadHashAssumption
  <1>3. \E f \in Files : setOf[f] = s
    <2>1. FilesOf(s) # {}
      <3>1. Cardinality(FilesOf(s)) > 1
        BY SetsAre
      <3>2. CASE FilesOf(s) = {}
        BY <3>1, <3>2, FS_EmptySet
      <3> QED BY <3>2
    <2> QED BY <2>1 DEF FilesOf
  <1>4. PICK f \in Files : setOf[f] = s /\ SizeOf(s) = Len(content[f])
    <2>1. PICK f : f = CHOOSE e \in Files : setOf[e] = s
      OBVIOUS
    <2>2. f \in Files /\ setOf[f] = s
      BY <1>3, <2>1
    <2>3. SizeOf(s) = Len(content[f])
      BY <2>1 DEF SizeOf
    <2> QED BY <2>2, <2>3
  <1>5. SizeOf(s) \in Nat /\ SizeOf(s) > 0
    <2>1. Len(content[f]) \in Nat /\ Len(content[f]) # 0
      BY <1>2, LenProperties, EmptySeq
    <2> QED BY <1>4, <2>1
  <1>6. EqualSize(FilesOf(s), content, SizeOf(s))
    BY <1>2, <1>4 DEF EqualSize, FilesOf
  <1> QED BY <1>2, <1>5, <1>6 DEF FilesOf

-----------------------------------------------------------------------------
(* One set, by any thread. *)

(* What has to do with no check stopping the program: there are not so many
   files that their number is taken for -1, the blocks of a file are in order
   and no gap between them is too long for a word; no buffer that is to be read
   into is full, where a gap could have filled it (but see FillBlock's
   RequestsData); and not all sets are counted as processed while one is not
   done. *)
FewFiles    == UINT16_MAX \in Nat /\ \A s \in Sets : Cardinality(FilesOf(s)) <= UINT16_MAX
PlainBlocks == \A f \in Files : InOrder(blocksOf[f]) /\ ShortGaps(blocksOf[f])
Unfilled ==
  \A s \in Sets : \A f \in FilesOf(s) :
    ~Joined(blocksOf[f]) /\ set[s].entry[f].state = "FS_NEED_DATA" => Roomy(set[s].entry[f])
Unhindered == FewFiles /\ PlainBlocks /\ Unfilled
MayCount == ~(stats_size_list_done + 1 > Cardinality(Sets))

(* A set can go on: it has a size for buffers, and its files are at the right
   places, with room in their buffers where no gap can have filled them. *)
CanGoOn(e, bl) == InPlace(e, bl) /\ (Joined(bl) => Fillable(e))
Going(h) ==
  h.state # "PLS_DONE" =>
    h.wanted_bufsize > 0 /\ \A f \in Active(h) : CanGoOn(h.entry[f], blocksOf[f])

(* What an operation makes of set s, which was h. *)
Moves(s, h, r) ==
  /\ r \in PathListType(FilesOf(s)) /\ Judges(h, r, content, unreliable)
  /\ r.exited = "none" => Steady(FilesOf(s), r, content, blocksOf)
  /\ GrowingBuffers /\ Sized(h, SizeOf(s)) =>
       /\ Unaccounted(r) = Unaccounted(h)
       /\ r.exited = "none" => Sized(r, SizeOf(s))
  /\ Unhindered /\ MayCount /\ Going(h) => r.exited = h.exited /\ Going(r)

\* Buffers get some size.
LEMMA BufsizesPositive ==
  ASSUME NEW size \in Nat, size > 0
  PROVE  /\ FirstBufsize(size) > 0
         /\ \A w \in Nat : \A p : w > 0 => NextBufsize(w, p, size) > 0
  <1>1. {hash_one_block_size, K512, MB2, MB16} \subseteq Nat \ {0}
    BY BufferSizesAssumption
  <1>2. FirstBufsize(size) > 0
    BY <1>1 DEF FirstBufsize
  <1>3. ASSUME NEW w \in Nat, NEW p, w > 0 PROVE NextBufsize(w, p, size) > 0
    <2>1. PICK m : /\ NextBufsize(w, p, size) = Smaller(size, m)
                   /\ m = CASE use_hash_cache              -> K512
                             [] ~use_hash_cache /\ p = 1 -> MB2
                             [] ~use_hash_cache /\ p > 2 -> MB16
                             [] OTHER                      -> w
      BY DEF NextBufsize
    <2>2. use_hash_cache \in BOOLEAN
      BY BufferSizesAssumption
    <2>3. m \in {K512, MB2, MB16, w}
      BY <2>1, <2>2
    <2>4. m \in Nat /\ m > 0
      BY <1>1, <1>3, <2>3
    <2> QED BY <2>1, <2>4 DEF Smaller
  <1> QED BY <1>2, <1>3

\* A pass leaves files where they are, and their set buffers of some size.
LEMMA PassGoes ==
  ASSUME NEW F, NEW h \in PathListType(F), h.state = "PLS_ALL_BUFFERS_READY", Going(h),
         NEW size \in Nat, size > 0, NEW r, NextPass(h, r, size), StayAt(h, r)
  PROVE  Going(r)
  <1> SUFFICES ASSUME r.state # "PLS_DONE"
               PROVE  /\ r.wanted_bufsize > 0
                      /\ \A f \in Active(r) : CanGoOn(r.entry[f], blocksOf[f])
    BY DEF Going
  <1>1. PICK w \in Nat : w = h.wanted_bufsize
    BY Zenon DEF PathListType
  <1>2. w > 0 /\ \A f \in Active(h) : InPlace(h.entry[f], blocksOf[f])
    BY <1>1 DEF Going, CanGoOn
  <1>3. r.wanted_bufsize = NextBufsize(w, Passes(h), size)
    BY <1>1 DEF NextPass
  <1>4. r.wanted_bufsize > 0
    BY <1>2, <1>3, BufsizesPositive
  <1>5. ASSUME NEW f \in Active(r) PROVE CanGoOn(r.entry[f], blocksOf[f])
    <2>1. /\ f \in Active(h) /\ r.entry[f].next_read_block = h.entry[f].next_read_block
          /\ r.entry[f].next_read_byte = h.entry[f].next_read_byte /\ Roomy(r.entry[f])
      BY DEF StayAt
    <2>2. InPlace(r.entry[f], blocksOf[f])
      BY <1>2, <2>1, SamePlace
    <2> QED BY <2>1, <2>2 DEF CanGoOn, Fillable
  <1> QED BY <1>4, <1>5

\* A visit of the reader to file x does, when it stays where it is to be.
LEMMA VisitGoes ==
  ASSUME NEW h, Going(h), h.state # "PLS_DONE", NEW x, NEW r, MovedOn(h, x, r),
         x \in Active(r) => CanGoOn(r.entry[x], blocksOf[x])
  PROVE  Going(r)
  BY DEF Going, MovedOn

\* A check after it changes nothing that was judged.
LEMMA ProcessedMoves ==
  ASSUME NEW s, NEW h, NEW g, Moves(s, h, g), NEW r, r = Processed(s, g)
  PROVE  Moves(s, h, r) /\ (r.exited = "none" => r = g)
  <1>1. r = g \/ (r = Exit(g, "That's not right...") /\ ~MayCount)
    BY Zenon DEF Processed, MayCount
  <1>2. CASE r = Exit(g, "That's not right...") /\ ~MayCount
    <2>1. PICK check : check = "That's not right..."
      OBVIOUS
    <2>2. check \in Checks /\ check # "none"
      BY <2>1 DEF Checks
    <2>3. g \in PathListType(FilesOf(s))
      BY DEF Moves
    <2>4. /\ r \in PathListType(FilesOf(s)) /\ Kept(g, r) /\ Unaccounted(r) = Unaccounted(g)
          /\ r.exited = check /\ r.entry = g.entry
      <3>1. PICK F : F = FilesOf(s)
        OBVIOUS
      <3>2. g \in PathListType(F) /\ r = Exit(g, check)
        BY <1>2, <2>1, <2>3, <3>1
      <3> QED BY <2>2, <3>1, <3>2, ExitIs
    <2>5. r.published = g.published /\ \A S : InState(r, S) = InState(g, S)
      BY <2>4 DEF Kept, InState
    <2>6. Judges(h, r, content, unreliable)
      <3>1. Judges(h, g, content, unreliable)
        BY DEF Moves
      <3> QED BY <2>5, <3>1, Zenon DEF Judges
    <2> QED BY <1>2, <2>2, <2>4, <2>6 DEF Moves
  <1> QED BY <1>1, <1>2

\* A hasher's pass over a set that is ready.
LEMMA HashMoves ==
  ASSUME GivenOK, NEW s \in Sets, NEW h, Steady(FilesOf(s), h, content, blocksOf),
         h.state = "PLS_ALL_BUFFERS_READY", NEW r, r = Processed(s, hasher_pass(h, SizeOf(s)))
  PROVE  /\ Moves(s, h, r)
         /\ r.exited = "none" => r.state \in {"PLS_NEED_DATA", "PLS_DONE"} /\ StayAt(h, r)
  <1> DEFINE F == FilesOf(s)
             size == SizeOf(s)
             g == hasher_pass(h, size)
  <1>1. IsFiniteSet(F) /\ size \in Nat /\ EqualSize(F, content, size) /\ size > 0
    BY SetsAre, GivenIs
  <1> HIDE DEF g, F, size
  <1>2. /\ Steady(F, g, content, blocksOf) /\ Judges(h, g, content, unreliable)
        /\ Unaccounted(g) = Unaccounted(h) /\ g.exited = h.exited
        /\ NextPass(h, g, size) /\ StayAt(h, g)
    <2>1. Steady(F, h, content, blocksOf) /\ g = hasher_pass(h, size)
      BY DEF F, g
    <2> QED BY <1>1, <2>1, HasherKeeps
  <1>3. h \in PathListType(F) /\ g \in PathListType(F)
    BY <1>2 DEF Steady, F
  <1>4. GrowingBuffers /\ Sized(h, size) => Sized(g, size)
    BY <1>1, <1>2, <1>3, PassSized
  <1>8. Going(h) => Going(g)
    BY <1>1, <1>2, <1>3, PassGoes
  <1>5. Moves(s, h, g)
    BY <1>2, <1>3, <1>4, <1>8 DEF Moves, F, size
  <1>6. Moves(s, h, r) /\ (r.exited = "none" => r = g)
    BY <1>5, ProcessedMoves DEF g, size
  <1>7. g.state \in {"PLS_NEED_DATA", "PLS_DONE"}
    BY <1>2 DEF NextPass
  <1> QED BY <1>2, <1>6, <1>7

\* The flusher's visit to a set that needs data, when all files can be read.
LEMMA FlushMoves ==
  ASSUME NEW s \in Sets, NEW h, Steady(FilesOf(s), h, content, blocksOf),
         h.state = "PLS_NEED_DATA", NEW r, r = Processed(s, flusher_visit(h, content, {}))
  PROVE  Moves(s, h, r) /\ (r.exited = "none" => r.state = "PLS_DONE")
  <1> DEFINE F == FilesOf(s)
             g == flusher_visit(h, content, {})
  <1>1. IsFiniteSet(F) /\ h.state # "PLS_DONE"
    BY SetsAre
  <1> HIDE DEF g, F
  <1>2. /\ Steady(F, g, content, blocksOf) /\ Judges(h, g, content, unreliable)
        /\ Unaccounted(g) = Unaccounted(h) /\ g.state = "PLS_DONE" /\ g.exited = h.exited
    <2>1. Steady(F, h, content, blocksOf) /\ g = flusher_visit(h, content, {})
      BY DEF F, g
    <2> QED BY <1>1, <2>1, FlusherKeeps
  <1>3. g \in PathListType(F) /\ Sized(g, SizeOf(s))
    BY <1>2 DEF Steady, Sized
  <1>4. Moves(s, h, g)
    BY <1>2, <1>3 DEF Moves, F, Going
  <1>5. Moves(s, h, r) /\ (r.exited = "none" => r = g)
    BY <1>4, ProcessedMoves DEF g
  <1> QED BY <1>2, <1>5

\* The reader's visit to a file that needs data.
LEMMA ReadMoves ==
  ASSUME GivenOK, NEW s \in Sets, NEW h, Steady(FilesOf(s), h, content, blocksOf),
         h.exited = "none", NEW f \in FilesOf(s), h.entry[f].state = "FS_NEED_DATA",
         Unfilled /\ ~Joined(blocksOf[f]) => Roomy(h.entry[f]),
         NEW readable \in Readable(f), NEW keep \in BOOLEAN,
         NEW r, r = reader_visit(h, f, blocksOf[f], content[f], readable, keep)
  PROVE  /\ Moves(s, h, r) /\ h.state = "PLS_NEED_DATA"
         /\ r.exited = "none" => MovedOn(h, f, r)
  <1> DEFINE F == FilesOf(s)
             size == SizeOf(s)
  <1>1. /\ IsFiniteSet(F) /\ size \in Nat /\ EqualSize(F, content, size)
        /\ BlockList(blocksOf[f], content[f])
    BY SetsAre, GivenIs
  <1>2. readable \in BOOLEAN /\ (readable \/ f \in unreliable)
    BY DEF Readable
  <1> HIDE DEF F, size
  <1>3. Steady(F, h, content, blocksOf) /\ f \in F
    BY DEF F
  <1>4. ReaderKept(F, h, f, content, blocksOf, unreliable, r)
    BY <1>1, <1>2, <1>3, ReaderKeeps
  <1>5. h.state = "PLS_NEED_DATA" /\ f \in Active(h)
    BY <1>1, <1>3, NeedsDataIs
  <1>6. /\ r \in PathListType(F) /\ Judges(h, r, content, unreliable)
        /\ r.exited = "none" => Steady(F, r, content, blocksOf) /\ MovedOn(h, f, r)
        /\ GrowsTo(h, f) => Unaccounted(r) = Unaccounted(h)
        /\ NotTooMany(h) /\ Proceeds(h.entry[f], h.wanted_bufsize, blocksOf[f]) =>
             /\ r.exited = h.exited
             /\ f \in Active(r) => InPlace(r.entry[f], blocksOf[f])
             /\ Joined(blocksOf[f]) /\ f \in Active(r) => Fillable(r.entry[f])
    BY <1>4 DEF ReaderKept
  <1>7. h \in PathListType(F) /\ h.state # "PLS_DONE"
    BY <1>3, <1>5 DEF Steady
  <1>8. ASSUME GrowingBuffers, Sized(h, size)
        PROVE  Unaccounted(r) = Unaccounted(h) /\ (r.exited = "none" => Sized(r, size))
    <2>1. GrowsTo(h, f)
      BY <1>1, <1>3, <1>5, <1>7, <1>8, SizedGrows
    <2>2. r.exited = "none" => Sized(r, size)
      BY <1>1, <1>3, <1>6, <1>7, <1>8, VisitSized
    <2> QED BY <1>6, <2>1, <2>2
  <1>9. ASSUME Unhindered, Going(h) PROVE r.exited = h.exited /\ Going(r)
    <2>1. NotTooMany(h)
      <3>1. DOMAIN h.entry = F
        BY <1>7, Zenon DEF PathListType
      <3>2. Active(h) \subseteq F /\ Counted(h)
        BY <1>3, <3>1 DEF Steady, Active, InState
      <3>3. PICK A : A = Active(h) /\ A \subseteq F
        BY <3>2
      <3>4. Cardinality(A) <= Cardinality(F) /\ Cardinality(A) \in Nat /\ Cardinality(F) \in Nat
        BY <1>1, <3>3, FS_Subset, FS_CardinalityType
      <3>5. h.list_size = Cardinality(A)
        BY <1>7, <3>2, <3>3 DEF Counted
      <3>6. UINT16_MAX \in Nat /\ Cardinality(F) <= UINT16_MAX
        BY <1>9 DEF Unhindered, FewFiles, F
      <3> QED BY <3>4, <3>5, <3>6 DEF NotTooMany
    <2>2. Proceeds(h.entry[f], h.wanted_bufsize, blocksOf[f])
      <3>1. h.wanted_bufsize > 0 /\ CanGoOn(h.entry[f], blocksOf[f])
        BY <1>5, <1>7, <1>9 DEF Going
      <3>3. InPlace(h.entry[f], blocksOf[f]) /\ Roomy(h.entry[f])
        BY <1>9, <3>1 DEF CanGoOn, Fillable, Unhindered
      <3>2. f \in Files
        BY <1>3, SetsAre DEF F
      <3> QED BY <1>9, <3>1, <3>2, <3>3 DEF Proceeds, Unhindered, PlainBlocks
    <2>3. r.exited = "none" /\ MovedOn(h, f, r) /\ (f \in Active(r) => CanGoOn(r.entry[f], blocksOf[f]))
      BY <1>6, <2>1, <2>2 DEF CanGoOn
    <2> QED BY <1>7, <1>9, <2>3, VisitGoes
  <1> QED BY <1>5, <1>6, <1>8, <1>9 DEF Moves, F, size

-----------------------------------------------------------------------------
(* Where sets are. *)

InQueue(q, s)   == Cardinality({i \in 1 .. Len(q) : q[i] = s})
JobsOf(jb, s)   == Cardinality({h \in Hashers : jb[h] = s})
QueuedIn(qs, s) == SumFunction([h \in Hashers |-> InQueue(qs[h], s)])
Tally(s, t)     == IF s = t THEN 1 ELSE 0

\* Hasher h takes set t, and leaves it; it is put into the queue of hasher h, and out of it.
Takes(jb, h, t, jc) ==
  jb \in [Hashers -> Sets \cup {NoSet}] /\ jb[h] = NoSet /\ jc = [jb EXCEPT ![h] = t]
Leaves(jb, h, t, jc) ==
  jb \in [Hashers -> Sets \cup {NoSet}] /\ jb[h] = t /\ jc = [jb EXCEPT ![h] = NoSet]
Pops(qs, h, n, qt) ==
  /\ qs \in [Hashers -> Seq(Sets)] /\ n = Len(qs[h]) /\ n > 0
  /\ qt = [qs EXCEPT ![h] = Popped(@)]
Appends(qs, h, t, qt) ==
  qs \in [Hashers -> Seq(Sets)] /\ qt = [qs EXCEPT ![h] = Append(@, t)]

\* Numbers of jobs and of places in a queue are numbers.
LEMMA HeldTyped ==
  /\ \A jb, s : JobsOf(jb, s) \in Nat
  /\ \A q \in Seq(Sets) : \A s : InQueue(q, s) \in Nat
  /\ \A qs \in [Hashers -> Seq(Sets)] : \A s : QueuedIn(qs, s) \in Nat
  <1>1. \A jb, s : JobsOf(jb, s) \in Nat
    <2> SUFFICES ASSUME NEW jb, NEW s PROVE JobsOf(jb, s) \in Nat
      OBVIOUS
    <2>1. IsFiniteSet({h \in Hashers : jb[h] = s})
      <3>1. {h \in Hashers : jb[h] = s} \subseteq Hashers
        OBVIOUS
      <3> QED BY <3>1, SetsAre, FS_Subset
    <2> QED BY <2>1, FS_CardinalityType DEF JobsOf
  <1>2. \A q \in Seq(Sets) : \A s : InQueue(q, s) \in Nat
    <2> SUFFICES ASSUME NEW q \in Seq(Sets), NEW s PROVE InQueue(q, s) \in Nat
      OBVIOUS
    <2>1. Len(q) \in Nat
      BY LenProperties
    <2>2. PICK n \in Nat : n = Len(q)
      BY <2>1
    <2>3. IsFiniteSet(1 .. n)
      BY FS_Interval
    <2>4. IsFiniteSet({i \in 1 .. Len(q) : q[i] = s})
      <3>1. {i \in 1 .. Len(q) : q[i] = s} \subseteq 1 .. n
        BY <2>2
      <3> QED BY <2>3, <3>1, FS_Subset
    <2> QED BY <2>4, FS_CardinalityType DEF InQueue
  <1>3. \A qs \in [Hashers -> Seq(Sets)] : \A s : QueuedIn(qs, s) \in Nat
    <2> SUFFICES ASSUME NEW qs \in [Hashers -> Seq(Sets)], NEW s PROVE QueuedIn(qs, s) \in Nat
      OBVIOUS
    <2> DEFINE g == [h \in Hashers |-> InQueue(qs[h], s)]
    <2>1. DOMAIN g = Hashers /\ \A h \in Hashers : g[h] \in Nat
      BY <1>2
    <2>2. QueuedIn(qs, s) = SumFunctionOnSet(g, DOMAIN g)
      BY DEF QueuedIn, SumFunction
    <2> HIDE DEF g
    <2> QED BY <2>1, <2>2, SetsAre, SumNatural
  <1> QED BY <1>1, <1>2, <1>3

\* A hasher takes set t.
LEMMA JobTaken ==
  ASSUME NEW jb, NEW h \in Hashers, NEW t \in Sets, NEW jc, Takes(jb, h, t, jc), NEW s \in Sets
  PROVE  JobsOf(jc, s) = JobsOf(jb, s) + Tally(s, t)
  <1> USE DEF Takes
  <1> DEFINE B == {k \in Hashers : jb[k] = s}
             C == {k \in Hashers : jc[k] = s}
  <1>1. s # NoSet
    BY SetsAre
  <1>2. IsFiniteSet(B)
    <2>1. B \subseteq Hashers
      OBVIOUS
    <2> QED BY <2>1, SetsAre, FS_Subset
  <1>3. CASE s = t
    <2>1. C = B \cup {h} /\ h \notin B
      BY <1>1, <1>3
    <2> HIDE DEF B, C
    <2>2. Cardinality(C) = Cardinality(B) + 1
      BY <1>2, <2>1, FS_AddElement
    <2> QED BY <1>3, <2>2 DEF JobsOf, Tally, B, C
  <1>4. CASE s # t
    <2>1. C = B
      BY <1>1, <1>4
    <2>2. Cardinality(B) \in Nat
      BY <1>2, FS_CardinalityType
    <2> QED BY <1>4, <2>1, <2>2 DEF JobsOf, Tally
  <1> QED BY <1>3, <1>4

\* And is done with it.
LEMMA JobLeft ==
  ASSUME NEW jb, NEW h \in Hashers, NEW t \in Sets, NEW jc, Leaves(jb, h, t, jc), NEW s \in Sets
  PROVE  JobsOf(jb, s) = JobsOf(jc, s) + Tally(s, t)
  <1>1. Takes(jc, h, t, jb)
    BY DEF Takes, Leaves
  <1> QED BY <1>1, JobTaken

\* Set t is appended to a queue.
LEMMA InAppended ==
  ASSUME NEW q \in Seq(Sets), NEW t \in Sets, NEW s
  PROVE  InQueue(Append(q, t), s) = InQueue(q, s) + Tally(s, t)
  <1> DEFINE p == Append(q, t)
             n == Len(q)
             A == {i \in 1 .. n : q[i] = s}
             B == {i \in 1 .. Len(p) : p[i] = s}
  <1>1. n \in Nat /\ Len(p) = n + 1 /\ p[n + 1] = t /\ \A i \in 1 .. n : p[i] = q[i]
    BY AppendProperties, LenProperties
  <1>2. IsFiniteSet(A)
    <2>1. IsFiniteSet(1 .. n)
      BY <1>1, FS_Interval
    <2>2. A \subseteq 1 .. n
      OBVIOUS
    <2> QED BY <2>1, <2>2, FS_Subset
  <1> HIDE DEF p, n
  <1>3. CASE s = t
    <2>1. B = A \cup {n + 1} /\ (n + 1) \notin A
      BY <1>1, <1>3
    <2> HIDE DEF A, B
    <2>2. PICK m : m = n + 1
      OBVIOUS
    <2>3. Cardinality(B) = Cardinality(A) + 1
      BY <1>2, <2>1, <2>2, FS_AddElement
    <2> QED BY <1>3, <2>3 DEF InQueue, Tally, A, B, p, n
  <1>4. CASE s # t
    <2>1. B = A
      BY <1>1, <1>4
    <2> HIDE DEF A, B
    <2>2. Cardinality(A) \in Nat
      BY <1>2, FS_CardinalityType
    <2>3. InQueue(p, s) = Cardinality(B) /\ InQueue(q, s) = Cardinality(A)
      BY DEF InQueue, A, B, n
    <2> QED BY <1>4, <2>1, <2>2, <2>3 DEF Tally, p
  <1> QED BY <1>3, <1>4

\* So there is one more in the queues.
LEMMA QueueAppended ==
  ASSUME NEW qs, NEW h \in Hashers, NEW t \in Sets, NEW qt, Appends(qs, h, t, qt), NEW s \in Sets
  PROVE  /\ qt \in [Hashers -> Seq(Sets)]
         /\ QueuedIn(qt, s) = QueuedIn(qs, s) + Tally(s, t)
  <1> USE DEF Appends
  <1>1. qt \in [Hashers -> Seq(Sets)]
    BY AppendProperties
  <1> DEFINE f == [k \in Hashers |-> InQueue(qs[k], s)]
             g == [k \in Hashers |-> InQueue(qt[k], s)]
  <1>2. DOMAIN f = Hashers /\ DOMAIN g = Hashers
    OBVIOUS
  <1>3. DifferAt(Hashers, f, g, h)
    <2>1. \A k \in Hashers : f[k] \in Int /\ g[k] \in Int
      <3> SUFFICES ASSUME NEW k \in Hashers PROVE f[k] \in Nat /\ g[k] \in Nat
        OBVIOUS
      <3>1. PICK a, b : a = qs[k] /\ b = qt[k]
        OBVIOUS
      <3>2. a \in Seq(Sets) /\ b \in Seq(Sets)
        BY <1>1, <3>1
      <3>3. InQueue(a, s) \in Nat /\ InQueue(b, s) \in Nat
        BY <3>2, HeldTyped
      <3> QED BY <3>1, <3>3
    <2>2. \A k \in Hashers \ {h} : f[k] = g[k]
      OBVIOUS
    <2> HIDE DEF f, g
    <2> QED BY <2>1, <2>2 DEF DifferAt
  <1>4. g[h] = f[h] + Tally(s, t) /\ f[h] \in Nat
    <2>1. qt[h] = Append(qs[h], t) /\ qs[h] \in Seq(Sets)
      OBVIOUS
    <2> QED BY <2>1, InAppended, HeldTyped
  <1>5. /\ QueuedIn(qs, s) = SumFunctionOnSet(f, DOMAIN f)
        /\ QueuedIn(qt, s) = SumFunctionOnSet(g, DOMAIN g)
    BY DEF QueuedIn, SumFunction
  <1> HIDE DEF f, g
  <1>6. SumFunctionOnSet(g, Hashers) = (SumFunctionOnSet(f, Hashers) - f[h]) + g[h]
    BY <1>3, SetsAre, SumChanges
  <1>7. QueuedIn(qs, s) \in Nat /\ Tally(s, t) \in Nat
    BY HeldTyped DEF Tally
  <1> QED BY <1>1, <1>2, <1>4, <1>5, <1>6, <1>7

\* A queue without its last set is what that set was appended to.
LEMMA PoppedIs ==
  ASSUME NEW q \in Seq(Sets), NEW n, n = Len(q), n > 0
  PROVE  q[n] \in Sets /\ Popped(q) \in Seq(Sets) /\ q = Append(Popped(q), q[n])
         /\ (n <= 1 => Popped(q) = << >>)
  <1>1. n \in Nat /\ \A i \in 1 .. n : q[i] \in Sets
    BY LenProperties, ElementOfSeq
  <1>2. Popped(q) = SubSeq(q, 1, n - 1)
    BY DEF Popped
  <1>3. /\ SubSeq(q, 1, n - 1) \in Seq(Sets) /\ Len(SubSeq(q, 1, n - 1)) = n - 1
        /\ \A i \in 1 .. n - 1 : SubSeq(q, 1, n - 1)[i] = q[i]
    <2>1. \A i \in 1 .. n - 1 : q[i] \in Sets
      BY <1>1
    <2>2. 1 \in Int /\ n - 1 \in Int
      BY <1>1
    <2> QED BY <1>1, <2>1, <2>2, SubSeqProperties
  <1>4. PICK p \in Seq(Sets) : /\ p = Popped(q) /\ Len(p) = n - 1
                                /\ \A i \in 1 .. n - 1 : p[i] = q[i]
    BY <1>2, <1>3
  <1>5. Append(p, q[n]) = q
    <2>1. q[n] \in Sets
      BY <1>1
    <2>2. PICK x \in Sets : x = q[n]
      BY <2>1
    <2>3. /\ Append(p, x) \in Seq(Sets) /\ Len(Append(p, x)) = n
          /\ \A i \in 1 .. n - 1 : Append(p, x)[i] = q[i]
          /\ Append(p, x)[n] = q[n]
      BY <1>1, <1>4, <2>2, AppendProperties
    <2>4. \A i \in 1 .. n : Append(p, x)[i] = q[i]
      BY <1>1, <2>3
    <2>5. Append(p, x) = q
      BY <2>3, <2>4, SeqEqual
    <2> QED BY <2>2, <2>5
  <1>6. n <= 1 => p = << >>
    BY <1>1, <1>4, EmptySeq
  <1> QED BY <1>1, <1>4, <1>5, <1>6

\* So there is one less in the queues.
LEMMA QueuePopped ==
  ASSUME NEW qs, NEW h \in Hashers, NEW n, NEW qt, Pops(qs, h, n, qt), NEW s \in Sets
  PROVE  /\ qt \in [Hashers -> Seq(Sets)] /\ qs[h][n] \in Sets
         /\ QueuedIn(qs, s) = QueuedIn(qt, s) + Tally(s, qs[h][n])
  <1> USE DEF Pops
  <1>1. PICK q \in Seq(Sets) : q = qs[h]
    OBVIOUS
  <1>2. q[n] \in Sets /\ Popped(q) \in Seq(Sets) /\ q = Append(Popped(q), q[n])
    BY <1>1, PoppedIs
  <1>3. PICK t \in Sets : t = q[n]
    BY <1>2
  <1>4. /\ qt \in [Hashers -> Seq(Sets)]
        /\ Appends(qt, h, t, qs)
    BY <1>1, <1>2, <1>3 DEF Appends
  <1>5. QueuedIn(qs, s) = QueuedIn(qt, s) + Tally(s, t)
    BY <1>4, QueueAppended
  <1> QED BY <1>1, <1>3, <1>4, <1>5

-----------------------------------------------------------------------------
(* What each step does to the sets. *)

(* All that holds between steps, as long as the program runs. *)
Held(jb, qs, rd, a, s) ==
  JobsOf(jb, s) + QueuedIn(qs, s) + (IF rd = "submit" /\ a = s THEN 1 ELSE 0)
ReadyNow(h) == IF h.state = "PLS_ALL_BUFFERS_READY" THEN 1 ELSE 0
Working == Places /\ SetsSteady /\ SubmittedOnce

\* SubmittedOnce, in these terms.
LEMMA SubmittedOnceIs ==
  SubmittedOnce <=> \A s \in Sets : Held(job, queue, reader, at, s) = ReadyNow(set[s])
  BY Zenon DEF SubmittedOnce, Held, ReadyNow, JobsOf, QueuedIn, InQueue

\* A set that a thread holds is ready.
LEMMA HeldIsReady ==
  ASSUME HashersOK, SubmittedOnce, NEW s \in Sets,
         (\E h \in Hashers : job[h] = s) \/ (reader = "submit" /\ at = s)
  PROVE  set[s].state = "PLS_ALL_BUFFERS_READY"
  <1>1. PICK a, b : a = JobsOf(job, s) /\ b = QueuedIn(queue, s)
    OBVIOUS
  <1>2. a \in Nat /\ b \in Nat
    BY <1>1, HeldTyped DEF HashersOK
  <1>3. Held(job, queue, reader, at, s) # 0
    <2>1. CASE reader = "submit" /\ at = s
      BY <1>1, <1>2, <2>1 DEF Held
    <2>2. CASE \E h \in Hashers : job[h] = s
      <3>1. a # 0
        <4>1. IsFiniteSet({h \in Hashers : job[h] = s})
          <5>1. {h \in Hashers : job[h] = s} \subseteq Hashers
            OBVIOUS
          <5> QED BY <5>1, SetsAre, FS_Subset
        <4>2. {h \in Hashers : job[h] = s} # {}
          BY <2>2
        <4> QED BY <1>1, <4>1, <4>2, FS_EmptySet DEF JobsOf
      <3> QED BY <1>1, <1>2, <3>1 DEF Held
    <2> QED BY <2>1, <2>2
  <1>4. ReadyNow(set[s]) # 0
    BY <1>3, SubmittedOnceIs
  <1> QED BY <1>4 DEF ReadyNow

\* Set s, and only set s, changed, from what it was.
Changed(s, r) == set' = [set EXCEPT ![s] = r] /\ Moves(s, set[s], r)

\* A hasher's step: a pass over a set that is ready.
LEMMA HashChanges ==
  ASSUME TypeOK, Working, NEW h \in Hashers, Hash(h)
  PROVE  \E s \in Sets : \E r : /\ job[h] = s /\ Changed(s, r)
                                /\ set[s].state = "PLS_ALL_BUFFERS_READY"
                                /\ r.exited = "none" =>
                                     r.state \in {"PLS_NEED_DATA", "PLS_DONE"} /\ StayAt(set[s], r)
  <1>1. hasher[h] = "hash" /\ job[h] \in Sets
    <2>1. hasher[h] = "hash"
      BY DEF Hash
    <2>2. job[h] # NoSet
      BY <2>1 DEF Working, Places
    <2> QED BY <2>1, <2>2 DEF TypeOK, HashersOK
  <1>2. PICK s \in Sets : s = job[h]
    BY <1>1
  <1>3. set[s].state = "PLS_ALL_BUFFERS_READY"
    BY <1>2, HeldIsReady DEF TypeOK, Working
  <1>4. PICK r : r = Processed(s, hasher_pass(set[s], SizeOf(s)))
    OBVIOUS
  <1>5. set' = [set EXCEPT ![s] = r]
    BY <1>2, <1>4 DEF Hash
  <1>6. PICK g : g = set[s]
    OBVIOUS
  <1>7. Steady(FilesOf(s), g, content, blocksOf) /\ GivenOK
    BY <1>6 DEF Working, SetsSteady, TypeOK
  <1>8. /\ Moves(s, g, r)
        /\ r.exited = "none" => r.state \in {"PLS_NEED_DATA", "PLS_DONE"} /\ StayAt(g, r)
    <2>1. g.state = "PLS_ALL_BUFFERS_READY" /\ r = Processed(s, hasher_pass(g, SizeOf(s)))
      BY <1>3, <1>4, <1>6
    <2> QED BY <1>7, <2>1, HashMoves
  <1> QED BY <1>2, <1>3, <1>5, <1>6, <1>8 DEF Changed

\* A step of the flusher: a set is done, or stays what it is.
LEMMA FlushChanges ==
  ASSUME TypeOK, Working, Cautious, Flush
  PROVE  \/ set' = set
         \/ \E s \in Sets : \E r : /\ s = at /\ Changed(s, r) /\ set[s].state = "PLS_NEED_DATA"
                                   /\ r.exited = "none" => r.state = "PLS_DONE"
  <1>1. reader = "flush" /\ at \in Sets /\ unreliable = {}
    BY DEF Flush, Working, Places, Cautious
  <1>2. PICK s \in Sets : s = at
    BY <1>1
  <1>3. CASE set[s].state = "PLS_NEED_DATA"
    <2>1. PICK failed \in SUBSET (unreliable \cap Active(set[s])) :
            set' = [set EXCEPT ![s] = Processed(s, flusher_visit(@, content, failed))]
      BY <1>2, <1>3 DEF Flush
    <2>2. failed = {}
      BY <1>1
    <2>3. PICK r : r = Processed(s, flusher_visit(set[s], content, {}))
      OBVIOUS
    <2>4. set' = [set EXCEPT ![s] = r]
      BY <2>1, <2>2, <2>3
    <2>5. PICK g : g = set[s]
      OBVIOUS
    <2>6. Steady(FilesOf(s), g, content, blocksOf)
      BY <2>5 DEF Working, SetsSteady
    <2>7. Moves(s, g, r) /\ (r.exited = "none" => r.state = "PLS_DONE")
      <3>1. g.state = "PLS_NEED_DATA" /\ r = Processed(s, flusher_visit(g, content, {}))
        BY <1>3, <2>3, <2>5
      <3> QED BY <2>6, <3>1, FlushMoves
    <2> QED BY <1>2, <1>3, <2>4, <2>5, <2>7 DEF Changed
  <1>4. CASE set[s].state # "PLS_NEED_DATA"
    BY <1>2, <1>4 DEF Flush
  <1> QED BY <1>3, <1>4

\* The reader visits file f of set s, which becomes r.
Visits(s, f, r) ==
  /\ f = readList[rlpos + 1].file /\ f \in FilesOf(s) /\ Changed(s, r)
  /\ set[s].state = "PLS_NEED_DATA" /\ set[s].entry[f].state = "FS_NEED_DATA"
  /\ r.exited = "none" => MovedOn(set[s], f, r)
  /\ rl_done' = [rl_done EXCEPT ![rlpos + 1] =
                   r.entry[f].next_read_block > set[s].entry[f].next_read_block]
  /\ IF r.state = "PLS_ALL_BUFFERS_READY"
     THEN reader' = "submit" /\ at' = s
     ELSE reader' = "check" /\ at' = at

\* The reader at an entry of the read list: it visits its file, or goes on.
LEMMA ReadChanges ==
  ASSUME TypeOK, Working, ~Exited, ReadEntry
  PROVE  \/ set' = set /\ rl_done' = rl_done /\ at' = at /\ reader' = "check"
         \/ \E s \in Sets, f \in Files : \E r : Visits(s, f, r)
  <1>1. reader = "read" /\ rlpos + 1 \in Positions
    <2>1. reader = "read"
      BY DEF ReadEntry
    <2>2. rlpos < Len(readList) /\ rlpos \in 0 .. Len(readList)
      BY <2>1 DEF Working, Places, TypeOK, ReaderOK
    <2>3. Len(readList) \in Nat
      BY ReadHashAssumption, LenProperties
    <2> QED BY <2>1, <2>2, <2>3 DEF Positions
  <1>2. PICK f \in Files : f = readList[rlpos + 1].file
    <2>1. readList[rlpos + 1] \in [file : Files, block : Nat]
      BY <1>1, ReadHashAssumption, ElementOfSeq DEF Positions
    <2> QED BY <2>1
  <1>3. PICK s \in Sets : s = setOf[f] /\ f \in FilesOf(s)
    BY SetsAre
  <1>4. PICK g : g = set[s]
    OBVIOUS
  <1>5. CASE ~(g.entry[f].state = "FS_NEED_DATA" /\ WantsBlock(g, Entry))
    BY <1>2, <1>3, <1>4, <1>5 DEF ReadEntry, Entry
  <1>6. CASE g.entry[f].state = "FS_NEED_DATA" /\ WantsBlock(g, Entry)
    <2>1. PICK readable, keep, r :
            /\ readable \in Readable(f) /\ keep = KeepOpen(g, f)
            /\ r = reader_visit(g, f, blocksOf[f], content[f], readable, keep)
            /\ set' = [set EXCEPT ![s] = r]
            /\ rl_done' = [rl_done EXCEPT ![rlpos + 1] =
                             r.entry[f].next_read_block > g.entry[f].next_read_block]
            /\ IF r.state = "PLS_ALL_BUFFERS_READY"
               THEN reader' = "submit" /\ at' = s
               ELSE reader' = "check" /\ UNCHANGED at
      <3>1. /\ Entry.file = f /\ setOf[Entry.file] = s /\ set[setOf[Entry.file]] = g
        BY <1>2, <1>3, <1>4 DEF Entry
      <3>2. PICK readable, r :
              /\ readable \in Readable(Entry.file)
              /\ r = reader_visit(set[setOf[Entry.file]], Entry.file, blocksOf[Entry.file],
                                  content[Entry.file], readable,
                                  KeepOpen(set[setOf[Entry.file]], Entry.file))
              /\ set' = [set EXCEPT ![setOf[Entry.file]] = r]
              /\ rl_done' = [rl_done EXCEPT ![rlpos + 1] =
                               r.entry[Entry.file].next_read_block
                                 > set[setOf[Entry.file]].entry[Entry.file].next_read_block]
              /\ IF r.state = "PLS_ALL_BUFFERS_READY"
                 THEN reader' = "submit" /\ at' = setOf[Entry.file]
                 ELSE reader' = "check" /\ UNCHANGED at
        <4>1. /\ set[setOf[Entry.file]].entry[Entry.file].state = "FS_NEED_DATA"
              /\ WantsBlock(set[setOf[Entry.file]], Entry)
          BY <1>6, <3>1
        <4> QED BY <4>1, Zenon DEF ReadEntry
      <3>3. PICK keep : keep = KeepOpen(g, f)
        OBVIOUS
      <3> QED BY <3>1, <3>2, <3>3
    <2>2. keep \in BOOLEAN
      BY <2>1 DEF KeepOpen
    <2>3. Steady(FilesOf(s), g, content, blocksOf) /\ GivenOK /\ g.exited = "none"
      BY <1>4 DEF Working, SetsSteady, TypeOK, Exited
    <2>6. Unfilled /\ ~Joined(blocksOf[f]) => Roomy(g.entry[f])
      BY <1>3, <1>4, <1>6 DEF Unfilled
    <2>4. /\ Moves(s, g, r) /\ g.state = "PLS_NEED_DATA"
          /\ r.exited = "none" => MovedOn(g, f, r)
      BY <1>3, <1>6, <2>1, <2>2, <2>3, <2>6, ReadMoves
    <2>5. Visits(s, f, r)
      BY <1>2, <1>3, <1>4, <1>6, <2>1, <2>4 DEF Visits, Changed
    <2> QED BY <2>5
  <1> QED BY <1>5, <1>6

-----------------------------------------------------------------------------
(* Every step. *)

\* What a step of the running program is: one of the actions, or nothing.
LEMMA StepIs ==
  ASSUME [Next]_vars
  PROVE  \/ SkipDone \/ ReadEntry \/ Submit \/ CheckBuffers \/ Flush \/ LoopEnd
         \/ \E h \in Hashers : Get(h) \/ Hash(h) \/ SpuriousWakeup(h) \/ TellDone(h)
         \/ JoinReader \/ JoinHashers \/ UNCHANGED vars
  BY DEF Next, ReaderStep, HasherStep, MainStep, Terminated

\* No step changes what is given, and one changes a set at most.
LEMMA StepChanges ==
  ASSUME TypeOK, Working, ~Exited, Cautious, [Next]_vars
  PROVE  /\ content' = content /\ unreliable' = unreliable /\ buffer_limit' = buffer_limit
         /\ \/ set' = set
            \/ \E s \in Sets : \E r : Changed(s, r) /\ set[s].state # "PLS_DONE"
  <1>1. CASE SkipDone \/ Submit \/ CheckBuffers \/ LoopEnd \/ JoinReader \/ JoinHashers
    BY <1>1 DEF SkipDone, Submit, CheckBuffers, LoopEnd, JoinReader, JoinHashers, given
  <1>2. CASE ReadEntry
    <2>1. UNCHANGED given
      BY <1>2, Zenon DEF ReadEntry
    <2> QED BY <1>2, <2>1, ReadChanges DEF given, Visits
  <1>3. CASE Flush
    BY <1>3, FlushChanges DEF Flush, given
  <1>4. ASSUME NEW h \in Hashers, Get(h) \/ SpuriousWakeup(h) \/ TellDone(h)
        PROVE  UNCHANGED given /\ set' = set
    BY <1>4 DEF Get, SpuriousWakeup, TellDone
  <1>5. ASSUME NEW h \in Hashers, Hash(h)
        PROVE  /\ UNCHANGED given
               /\ \E s \in Sets : \E r : Changed(s, r) /\ set[s].state # "PLS_DONE"
    BY <1>5, HashChanges DEF Hash
  <1>6. CASE UNCHANGED vars
    BY <1>6 DEF vars, given
  <1> QED BY <1>1, <1>2, <1>3, <1>4, <1>5, <1>6, StepIs DEF given

\* The sets stay sets, and those of a program that runs on sound.
LEMMA ChangedIs ==
  ASSUME TypeOK, SetsSteady, content' = content, set' = set \/ \E s \in Sets : \E r : Changed(s, r)
  PROVE  SetsOK' /\ (~Exited' => SetsSteady')
  <1>1. CASE set' = set
    BY <1>1 DEF TypeOK, SetsOK, SetsSteady, FilesOf
  <1>2. CASE \E s \in Sets : \E r : Changed(s, r)
    <2>1. PICK s, r : s \in Sets /\ Changed(s, r)
      BY <1>2
    <2>2. /\ r \in PathListType(FilesOf(s)) /\ set' = [set EXCEPT ![s] = r]
          /\ r.exited = "none" => Steady(FilesOf(s), r, content, blocksOf)
      BY <2>1 DEF Changed, Moves
    <2>3. /\ set' = [t \in Sets |-> IF t = s THEN r ELSE set[t]]
      <3>1. set = [t \in Sets |-> set[t]]
        BY DEF TypeOK, SetsOK
      <3>2. DOMAIN set = Sets
        BY <3>1
      <3> QED BY <2>2, <3>1, <3>2
    <2>4. SetsOK'
      <3>1. \A t \in Sets : set'[t] \in PathListType(FilesOf(t))
        BY <2>2, <2>3 DEF TypeOK, SetsOK
      <3>2. set' = [t \in Sets |-> set'[t]]
        BY <2>3
      <3> QED BY <3>1, <3>2 DEF SetsOK, FilesOf
    <2>5. ASSUME ~Exited' PROVE SetsSteady'
      <3>1. set'[s] = r /\ s \in Sets
        BY <2>1, <2>3
      <3>2. set'[s].exited = "none"
        BY <2>5, <3>1 DEF Exited
      <3>3. r.exited = "none"
        BY <3>1, <3>2
      <3>4. \A t \in Sets : Steady(FilesOf(t), set'[t], content', blocksOf)
        BY <2>2, <2>3, <3>3 DEF SetsSteady
      <3> QED BY <3>4 DEF SetsSteady, FilesOf
    <2> QED BY <2>4, <2>5
  <1> QED BY <1>1, <1>2

\* There is a first set when there is anything to read.
LEMMA FirstSet ==
  /\ Len(readList) \in Nat
  /\ Len(readList) > 0 => 1 \in Sets
  /\ \A s \in Sets : s # Cardinality(Sets) => s + 1 \in Sets
  /\ \A q \in Hashers : NextQueue(q) \in Hashers
  <1>1. Len(readList) \in Nat
    BY ReadHashAssumption, LenProperties
  <1>2. PICK n \in Nat : n = Cardinality(Sets) /\ Sets = 1 .. n
    BY ReadHashAssumption, FS_CardinalityType
  <1>3. ASSUME Len(readList) > 0 PROVE 1 \in Sets
    <2>1. readList[1] \in [file : Files, block : Nat]
      <3>1. 1 \in 1 .. Len(readList) /\ readList \in Seq([file : Files, block : Nat])
        BY <1>1, <1>3, ReadHashAssumption
      <3> QED BY <3>1, ElementOfSeq
    <2>2. PICK k \in Sets : k = setOf[readList[1].file]
      BY <2>1, SetsAre
    <2>3. k \in 1 .. n
      BY <1>2
    <2>4. 1 \in 1 .. n
      BY <2>3
    <2> QED BY <1>2, <2>4
  <1>4. \A s \in Sets : s # Cardinality(Sets) => s + 1 \in Sets
    <2>1. \A s \in 1 .. n : s # n => s + 1 \in 1 .. n
      OBVIOUS
    <2>2. PICK W, k : W = Sets /\ k = Cardinality(Sets)
      OBVIOUS
    <2>3. W = 1 .. n /\ k = n
      BY <1>2, <2>2
    <2>4. \A s \in W : s # k => s + 1 \in W
      BY <2>1, <2>3
    <2> QED BY <2>2, <2>4
  <1>5. \A q \in Hashers : NextQueue(q) \in Hashers
    <2>1. PICK m \in Nat : m = Cardinality(Hashers) /\ Hashers = 0 .. m - 1 /\ Hashers # {}
      BY ReadHashAssumption, FS_CardinalityType
    <2>2. m > 0
      <3>1. PICK k \in Hashers : TRUE
        BY <2>1
      <3>2. k \in 0 .. m - 1
        BY <2>1
      <3> QED BY <3>2
    <2>3. \A q \in 0 .. m - 1 : (q + 1) % m \in 0 .. m - 1
      BY <2>2
    <2> QED BY <2>1, <2>3 DEF NextQueue
  <1> QED BY <1>1, <1>3, <1>4, <1>5

\* Where the reader is, and where in the read list.
ReaderPlaced ==
  /\ reader \in {"read", "submit", "check"} => rlpos < Len(readList)
  /\ reader = "loop" => rlpos = Len(readList)
  /\ reader \in {"submit", "flush"} => at \in Sets
HashersPlaced == \A h \in Hashers : hasher[h] = "hash" <=> job[h] # NoSet

\* The reader stays in its list.
LEMMA ReaderStays ==
  ASSUME TypeOK, Working, ~Exited, [Next]_vars
  PROVE  ReaderOK' /\ ReaderPlaced'
  <1>1. /\ rl_done \in [Positions -> BOOLEAN]
        /\ reader \in {"read", "submit", "check", "flush", "loop", "done"}
        /\ rlpos \in 0 .. Len(readList) /\ rlpos \in Nat /\ done_files \in Nat
        /\ next_queue \in Hashers /\ at \in Sets \cup {NoSet}
        /\ reader \in {"read", "submit", "check"} => rlpos < Len(readList)
        /\ reader = "loop" => rlpos = Len(readList)
        /\ reader \in {"submit", "flush"} => at \in Sets
        /\ Len(readList) \in Nat
    BY FirstSet DEF TypeOK, ReaderOK, Working, Places
  <1>2. PICK n \in Nat : n = Len(readList)
    BY <1>1
  <1> USE DEF ReaderOK, ReaderPlaced, Positions
  <1>3. CASE SkipDone
    BY <1>1, <1>2, <1>3 DEF SkipDone, ReaderGoesOn
  <1>4. CASE ReadEntry
    <2>1. reader = "read"
      BY <1>4, Zenon DEF ReadEntry
    <2>2. /\ rlpos' = rlpos /\ next_queue' = next_queue
          /\ done_files' = done_files \/ done_files' = done_files + 1
      BY <1>4 DEF ReadEntry
    <2>3. /\ rl_done' \in [Positions -> BOOLEAN] /\ reader' \in {"submit", "check"}
          /\ at' \in Sets \cup {NoSet} /\ (reader' = "submit" => at' \in Sets)
      <3>1. CASE set' = set /\ rl_done' = rl_done /\ at' = at /\ reader' = "check"
        BY <1>1, <3>1
      <3>2. ASSUME NEW s \in Sets, NEW f \in Files, NEW r, Visits(s, f, r)
            PROVE  /\ rl_done' \in [Positions -> BOOLEAN] /\ reader' \in {"submit", "check"}
                   /\ at' \in Sets \cup {NoSet} /\ (reader' = "submit" => at' \in Sets)
        <4>1. PICK b \in BOOLEAN : b <=> r.entry[f].next_read_block > set[s].entry[f].next_read_block
          OBVIOUS
        <4>2. rl_done' = [rl_done EXCEPT ![rlpos + 1] = b]
          <5>1. (r.entry[f].next_read_block > set[s].entry[f].next_read_block) \in BOOLEAN
            OBVIOUS
          <5>2. b = (r.entry[f].next_read_block > set[s].entry[f].next_read_block)
            BY <4>1, <5>1
          <5> QED BY <3>2, <5>2 DEF Visits
        <4>3. rl_done' \in [Positions -> BOOLEAN]
          BY <1>1, <4>2
        <4> QED BY <1>1, <3>2, <4>3 DEF Visits
      <3> QED BY <1>4, <3>1, <3>2, ReadChanges
    <2> QED BY <1>1, <2>1, <2>2, <2>3
  <1>5. CASE Submit
    BY <1>1, <1>5, FirstSet DEF Submit
  <1>6. CASE CheckBuffers
    BY <1>1, <1>2, <1>6, FirstSet DEF CheckBuffers, ReaderGoesOn
  <1>7. CASE Flush
    <2>1. /\ reader = "flush" /\ UNCHANGED <<rl_done, rlpos, done_files, next_queue>>
          /\ \/ at' = NoSet /\ reader' = IF rlpos < Len(readList) THEN "read" ELSE "loop"
             \/ at # Cardinality(Sets) /\ at' = at + 1 /\ reader' = reader
      BY <1>7 DEF Flush
    <2> QED BY <1>1, <1>2, <2>1, FirstSet
  <1>8. CASE LoopEnd
    BY <1>1, <1>2, <1>8 DEF LoopEnd
  <1>9. ASSUME UNCHANGED <<reader, rvars>> PROVE ReaderOK' /\ ReaderPlaced'
    BY <1>1, <1>9 DEF rvars
  <1>10. CASE \E h \in Hashers : Get(h) \/ Hash(h) \/ SpuriousWakeup(h) \/ TellDone(h)
    <2>1. UNCHANGED <<reader, rvars>>
      BY <1>10 DEF Get, Hash, SpuriousWakeup, TellDone
    <2> QED BY <1>9, <2>1
  <1>11. CASE JoinReader \/ JoinHashers \/ UNCHANGED vars
    BY <1>9, <1>11 DEF JoinReader, JoinHashers, vars, rvars
  <1> QED BY <1>3, <1>4, <1>5, <1>6, <1>7, <1>8, <1>10, <1>11, StepIs

\* The hashers have sets, or none.
LEMMA HashersStay ==
  ASSUME TypeOK, Working, ~Exited, [Next]_vars
  PROVE  HashersOK' /\ HashersPlaced'
  <1>1. /\ queue \in [Hashers -> Seq(Sets)] /\ done \in [Hashers -> BOOLEAN]
        /\ hasher \in [Hashers -> {"get", "hash", "wait", "done"}]
        /\ job \in [Hashers -> Sets \cup {NoSet}] /\ last \in [Hashers -> BOOLEAN]
        /\ main \in {"join reader", "signal", "join hashers", "done", "exit(1)"}
        /\ \A h \in Hashers : hasher[h] = "hash" <=> job[h] # NoSet
    BY DEF TypeOK, HashersOK, Working, Places
  <1> USE DEF HashersOK, HashersPlaced
  <1>2. ASSUME UNCHANGED <<queue, done, hasher, hvars, main>> PROVE HashersOK' /\ HashersPlaced'
    BY <1>1, <1>2 DEF hvars
  <1>3. CASE SkipDone \/ CheckBuffers \/ LoopEnd \/ UNCHANGED vars
    BY <1>2, <1>3 DEF SkipDone, CheckBuffers, LoopEnd, vars, hvars
  <1>4. CASE ReadEntry
    <2>1. UNCHANGED <<queue, done, hasher, hvars, main>>
      BY <1>4, Zenon DEF ReadEntry
    <2> QED BY <1>2, <2>1
  <1>5. CASE Flush
    <2>1. UNCHANGED <<queue, done, hasher, hvars, main>>
      BY <1>5, Zenon DEF Flush
    <2> QED BY <1>2, <2>1
  <1>6. CASE Submit
    <2>1. at \in Sets /\ next_queue \in Hashers
      BY <1>6 DEF Submit, Working, Places, TypeOK, ReaderOK
    <2>2. queue' = [queue EXCEPT ![next_queue] = Append(@, at)] /\ UNCHANGED <<done, hvars, main>>
      BY <1>6 DEF Submit
    <2>3. Appends(queue, next_queue, at, queue')
      BY <1>1, <2>2 DEF Appends
    <2>4. queue' \in [Hashers -> Seq(Sets)]
      BY <2>1, <2>3, QueueAppended
    <2>5. hasher' = [hasher EXCEPT ![next_queue] = IF @ = "wait" THEN "get" ELSE @]
      BY <1>6 DEF Submit, SignalHasher
    <2> QED BY <1>1, <2>1, <2>2, <2>4, <2>5 DEF hvars
  <1>7. ASSUME NEW h \in Hashers, Get(h) PROVE HashersOK' /\ HashersPlaced'
    <2>1. hasher[h] = "get" /\ UNCHANGED <<done, main>> /\ job[h] = NoSet
      BY <1>1, <1>7 DEF Get
    <2>2. PICK n : n = Len(queue[h])
      OBVIOUS
    <2>3. n \in Nat /\ NoSet \notin Sets
      BY <1>1, <2>2, SetsAre, LenProperties
    <2>4. CASE n = 0 /\ ~done[h]
      BY <1>1, <1>7, <2>1, <2>2, <2>4 DEF Get
    <2>5. CASE n > 0
      <3>1. /\ job' = [job EXCEPT ![h] = queue[h][n]]
            /\ queue' = [queue EXCEPT ![h] = Popped(@)]
            /\ last' = [last EXCEPT ![h] = done[h] /\ n <= 1]
            /\ hasher' = [hasher EXCEPT ![h] = "hash"]
        BY <1>7, <2>2, <2>5 DEF Get
      <3>2. queue' \in [Hashers -> Seq(Sets)] /\ queue[h][n] \in Sets
        <4>1. PICK s \in Sets : TRUE
          <5>1. PICK q : q = queue[h]
            OBVIOUS
          <5>2. q \in Seq(Sets) /\ n = Len(q)
            BY <1>1, <2>2, <5>1
          <5> QED BY <2>5, <5>2, PoppedIs
        <4>2. Pops(queue, h, n, queue')
          BY <1>1, <2>2, <2>5, <3>1 DEF Pops
        <4> QED BY <4>1, <4>2, QueuePopped
      <3>3. (done[h] /\ n <= 1) \in BOOLEAN
        OBVIOUS
      <3> QED BY <1>1, <2>1, <2>3, <3>1, <3>2, <3>3
    <2>6. CASE n = 0 /\ done[h]
      <3>1. /\ job' = [job EXCEPT ![h] = NoSet]
            /\ queue' = [queue EXCEPT ![h] = @]
            /\ last' = [last EXCEPT ![h] = done[h] /\ n <= 1]
            /\ hasher' = [hasher EXCEPT ![h] = "done"]
        BY <1>7, <2>2, <2>6 DEF Get
      <3>2. (done[h] /\ n <= 1) \in BOOLEAN
        OBVIOUS
      <3> QED BY <1>1, <2>1, <3>1, <3>2
    <2>7. n = 0 \/ n > 0
      BY <2>3
    <2> HIDE DEF HashersOK, HashersPlaced
    <2> QED BY <2>4, <2>5, <2>6, <2>7
  <1>8. ASSUME NEW h \in Hashers, Hash(h) PROVE HashersOK' /\ HashersPlaced'
    <2>1. /\ job' = [job EXCEPT ![h] = NoSet]
          /\ hasher' = [hasher EXCEPT ![h] = IF last[h] THEN "done" ELSE "get"]
          /\ UNCHANGED <<queue, done, last, main>>
      BY <1>8 DEF Hash
    <2> QED BY <1>1, <2>1
  <1>9. ASSUME NEW h \in Hashers, SpuriousWakeup(h) PROVE HashersOK' /\ HashersPlaced'
    BY <1>1, <1>9 DEF SpuriousWakeup, hvars
  <1>10. ASSUME NEW h \in Hashers, TellDone(h) PROVE HashersOK' /\ HashersPlaced'
    BY <1>1, <1>10 DEF TellDone, SignalHasher, hvars
  <1>11. CASE JoinReader \/ JoinHashers
    BY <1>1, <1>11 DEF JoinReader, JoinHashers, hvars
  <1> QED BY <1>3, <1>4, <1>5, <1>6, <1>7, <1>8, <1>9, <1>10, <1>11, StepIs

\* A set is in exactly one place as long as it is ready.
LEMMA SubmittedStays ==
  ASSUME TypeOK, Working, ~Exited, Cautious, [Next]_vars, ~Exited'
  PROVE  \A s \in Sets : Held(job', queue', reader', at', s) = ReadyNow(set'[s])
  <1>1. \A s \in Sets : Held(job, queue, reader, at, s) = ReadyNow(set[s])
    BY SubmittedOnceIs DEF Working
  <1>2. /\ queue \in [Hashers -> Seq(Sets)] /\ job \in [Hashers -> Sets \cup {NoSet}]
        /\ \A h \in Hashers : hasher[h] = "hash" <=> job[h] # NoSet
        /\ \A s \in Sets : JobsOf(job, s) \in Nat /\ QueuedIn(queue, s) \in Nat
        /\ DOMAIN set = Sets
    <2>1. queue \in [Hashers -> Seq(Sets)] /\ job \in [Hashers -> Sets \cup {NoSet}]
      BY DEF TypeOK, HashersOK
    <2>2. set = [s \in Sets |-> set[s]]
      BY DEF TypeOK, SetsOK
    <2> QED BY <2>1, <2>2, HeldTyped DEF Working, Places
  <1>3. ASSUME UNCHANGED <<job, queue, set>>, reader # "submit", reader' # "submit"
        PROVE  \A s \in Sets : Held(job', queue', reader', at', s) = ReadyNow(set'[s])
    <2> SUFFICES ASSUME NEW s \in Sets PROVE Held(job', queue', reader', at', s) = ReadyNow(set'[s])
      OBVIOUS
    <2>1. Held(job, queue, reader, at, s) = JobsOf(job, s) + QueuedIn(queue, s) + 0
      BY <1>3 DEF Held
    <2>2. Held(job', queue', reader', at', s) = JobsOf(job', s) + QueuedIn(queue', s) + 0
      BY <1>3 DEF Held
    <2> QED BY <1>1, <1>3, <2>1, <2>2
  <1>4. CASE SkipDone \/ CheckBuffers \/ LoopEnd
    BY <1>3, <1>4 DEF SkipDone, CheckBuffers, LoopEnd, ReaderGoesOn, hvars
  <1>5. CASE JoinReader \/ JoinHashers \/ UNCHANGED vars
    <2>1. UNCHANGED <<job, queue, set, reader, at>>
      BY <1>5 DEF JoinReader, JoinHashers, vars, hvars, rvars
    <2> QED BY <1>1, <2>1
  <1>6. ASSUME NEW s \in Sets, NEW r, Changed(s, r)
        PROVE  set'[s] = r /\ r.exited = "none" /\ \A t \in Sets \ {s} : set'[t] = set[t]
    <2>1. set' = [set EXCEPT ![s] = r]
      BY <1>6 DEF Changed
    <2>2. set'[s] = r /\ \A t \in Sets \ {s} : set'[t] = set[t]
      BY <1>2, <2>1
    <2> QED BY <2>2 DEF Exited
  <1>7. CASE ReadEntry
    <2>1. reader = "read" /\ job' = job /\ queue' = queue
      BY <1>7, Zenon DEF ReadEntry, hvars
    <2>2. CASE set' = set /\ reader' = "check"
      BY <1>3, <2>1, <2>2
    <2>3. ASSUME NEW s \in Sets, NEW f \in Files, NEW r, Visits(s, f, r)
          PROVE  \A t \in Sets : Held(job', queue', reader', at', t) = ReadyNow(set'[t])
      <3>1. /\ set'[s] = r /\ \A t \in Sets \ {s} : set'[t] = set[t]
        BY <1>6, <2>3 DEF Visits
      <3>2. /\ set[s].state = "PLS_NEED_DATA"
            /\ IF r.state = "PLS_ALL_BUFFERS_READY"
               THEN reader' = "submit" /\ at' = s
               ELSE reader' = "check" /\ at' = at
        BY <2>3 DEF Visits
      <3>3. \A t \in Sets : JobsOf(job, t) + QueuedIn(queue, t) + 0 = ReadyNow(set[t])
        <4> SUFFICES ASSUME NEW t \in Sets
                     PROVE JobsOf(job, t) + QueuedIn(queue, t) + 0 = ReadyNow(set[t])
          OBVIOUS
        <4>1. Held(job, queue, reader, at, t) = JobsOf(job, t) + QueuedIn(queue, t) + 0
          BY <2>1 DEF Held
        <4> QED BY <1>1, <4>1
      <3>4. ReadyNow(set[s]) = 0 /\ ReadyNow(r) = IF r.state = "PLS_ALL_BUFFERS_READY" THEN 1 ELSE 0
        BY <3>2 DEF ReadyNow
      <3> SUFFICES ASSUME NEW t \in Sets
                   PROVE Held(job', queue', reader', at', t) = ReadyNow(set'[t])
        OBVIOUS
      <3>5. PICK a \in Nat, b \in Nat : a = JobsOf(job, t) /\ b = QueuedIn(queue, t)
        BY <1>2
      <3>6. Held(job', queue', reader', at', t)
              = a + b + (IF reader' = "submit" /\ at' = t THEN 1 ELSE 0)
        BY <2>1, <3>5 DEF Held
      <3>7. a + b + 0 = ReadyNow(set[t])
        BY <3>3, <3>5
      <3>8. CASE t = s
        BY <3>1, <3>2, <3>4, <3>6, <3>7, <3>8
      <3>9. CASE t # s
        <4>1. ~(reader' = "submit" /\ at' = t)
          BY <3>2, <3>9
        <4> QED BY <3>1, <3>6, <3>7, <3>9, <4>1
      <3> QED BY <3>8, <3>9
    <2> QED BY <1>7, <2>2, <2>3, ReadChanges
  <1>8. CASE Submit
    <2>1. /\ reader = "submit" /\ reader' = "check" /\ at \in Sets /\ next_queue \in Hashers
          /\ queue' = [queue EXCEPT ![next_queue] = Append(@, at)] /\ job' = job /\ set' = set
      BY <1>8 DEF Submit, Working, Places, TypeOK, ReaderOK, hvars
    <2>2. PICK t \in Sets : t = at
      BY <2>1
    <2>3. Appends(queue, next_queue, t, queue')
      BY <1>2, <2>1, <2>2 DEF Appends
    <2>4. \A s \in Sets : QueuedIn(queue', s) = QueuedIn(queue, s) + Tally(s, t)
      BY <2>1, <2>3, QueueAppended
    <2> SUFFICES ASSUME NEW s \in Sets PROVE Held(job', queue', reader', at', s) = ReadyNow(set'[s])
      OBVIOUS
    <2>5. PICK a \in Nat, b \in Nat : a = JobsOf(job, s) /\ b = QueuedIn(queue, s)
      BY <1>2
    <2>6. Held(job, queue, reader, at, s) = a + b + Tally(s, t)
      BY <2>1, <2>2, <2>5 DEF Held, Tally
    <2>7. Held(job', queue', reader', at', s) = a + (b + Tally(s, t)) + 0
      BY <2>1, <2>4, <2>5 DEF Held
    <2>8. Tally(s, t) \in Nat
      BY DEF Tally
    <2> QED BY <1>1, <2>1, <2>6, <2>7, <2>8
  <1>9. CASE Flush
    <2>1. reader = "flush" /\ reader' # "submit" /\ job' = job /\ queue' = queue
      BY <1>9 DEF Flush, hvars
    <2>2. CASE set' = set
      BY <1>3, <2>1, <2>2
    <2>3. ASSUME NEW s \in Sets, NEW r, Changed(s, r), set[s].state = "PLS_NEED_DATA",
                 r.exited = "none" => r.state = "PLS_DONE"
          PROVE  \A t \in Sets : Held(job', queue', reader', at', t) = ReadyNow(set'[t])
      <3>1. set'[s] = r /\ r.state = "PLS_DONE" /\ \A t \in Sets \ {s} : set'[t] = set[t]
        BY <1>6, <2>3
      <3>2. ReadyNow(r) = 0 /\ ReadyNow(set[s]) = 0
        BY <2>3, <3>1 DEF ReadyNow
      <3>3. \A t \in Sets : Held(job', queue', reader', at', t) = Held(job, queue, reader, at, t)
        BY <2>1 DEF Held
      <3>4. \A t \in Sets : ReadyNow(set'[t]) = ReadyNow(set[t])
        BY <3>1, <3>2
      <3> QED BY <1>1, <3>3, <3>4
    <2> QED BY <1>9, <2>2, <2>3, FlushChanges
  <1>10. ASSUME NEW h \in Hashers, Get(h)
         PROVE  \A s \in Sets : Held(job', queue', reader', at', s) = ReadyNow(set'[s])
    <2>1. hasher[h] = "get" /\ job[h] = NoSet /\ UNCHANGED <<set, reader, at>>
      BY <1>2, <1>10 DEF Get, rvars
    <2>2. PICK n : n = Len(queue[h])
      OBVIOUS
    <2>3. n \in Nat
      BY <1>2, <2>2, LenProperties
    <2>4. CASE n = 0
      <3>1. UNCHANGED <<job, queue>>
        <4>1. \/ UNCHANGED <<job, queue>>
              \/ job' = [job EXCEPT ![h] = NoSet] /\ queue' = [queue EXCEPT ![h] = @]
          BY <1>10, <2>2, <2>4 DEF Get
        <4> QED BY <1>2, <2>1, <4>1
      <3> QED BY <1>1, <2>1, <3>1
    <2>5. CASE n > 0
      <3>1. /\ job' = [job EXCEPT ![h] = queue[h][n]]
            /\ queue' = [queue EXCEPT ![h] = Popped(@)]
        BY <1>10, <2>2, <2>5 DEF Get
      <3> SUFFICES ASSUME NEW s \in Sets
                   PROVE Held(job', queue', reader', at', s) = ReadyNow(set'[s])
        OBVIOUS
      <3>2. /\ queue' \in [Hashers -> Seq(Sets)] /\ queue[h][n] \in Sets
            /\ QueuedIn(queue, s) = QueuedIn(queue', s) + Tally(s, queue[h][n])
        <4>1. Pops(queue, h, n, queue')
          BY <1>2, <2>2, <2>5, <3>1 DEF Pops
        <4> QED BY <4>1, QueuePopped
      <3>3. PICK t \in Sets : t = queue[h][n]
        BY <3>2
      <3>4. Takes(job, h, t, job')
        BY <1>2, <2>1, <3>1, <3>3 DEF Takes
      <3>5. JobsOf(job', s) = JobsOf(job, s) + Tally(s, t)
        BY <3>4, JobTaken
      <3>6. PICK a \in Nat, b \in Nat : a = JobsOf(job, s) /\ b = QueuedIn(queue', s)
        BY <1>2, <3>2, HeldTyped
      <3>7. PICK w \in Nat : w = IF reader = "submit" /\ at = s THEN 1 ELSE 0
        OBVIOUS
      <3>8. Held(job, queue, reader, at, s) = a + (b + Tally(s, t)) + w
        BY <3>2, <3>3, <3>6, <3>7 DEF Held
      <3>9. Held(job', queue', reader', at', s) = (a + Tally(s, t)) + b + w
        BY <2>1, <3>5, <3>6, <3>7 DEF Held
      <3>10. Tally(s, t) \in Nat
        BY DEF Tally
      <3> QED BY <1>1, <2>1, <3>8, <3>9, <3>10
    <2> QED BY <2>3, <2>4, <2>5
  <1>11. ASSUME NEW h \in Hashers, Hash(h)
         PROVE  \A s \in Sets : Held(job', queue', reader', at', s) = ReadyNow(set'[s])
    <2>1. job' = [job EXCEPT ![h] = NoSet] /\ UNCHANGED <<queue, reader, at>>
      BY <1>11 DEF Hash, rvars
    <2>2. PICK t, r : /\ t \in Sets /\ job[h] = t /\ Changed(t, r)
                      /\ set[t].state = "PLS_ALL_BUFFERS_READY"
                      /\ r.exited = "none" =>
                           r.state \in {"PLS_NEED_DATA", "PLS_DONE"}
      BY <1>11, HashChanges
    <2>3. set'[t] = r /\ r.exited = "none" /\ \A s \in Sets \ {t} : set'[s] = set[s]
      BY <1>6, <2>2
    <2> SUFFICES ASSUME NEW s \in Sets PROVE Held(job', queue', reader', at', s) = ReadyNow(set'[s])
      OBVIOUS
    <2>4. JobsOf(job, s) = JobsOf(job', s) + Tally(s, t)
      <3>1. Leaves(job, h, t, job')
        BY <1>2, <2>1, <2>2 DEF Leaves
      <3> QED BY <2>2, <3>1, JobLeft
    <2>5. PICK a \in Nat, b \in Nat : a = JobsOf(job', s) /\ b = QueuedIn(queue, s)
      BY <1>2, HeldTyped
    <2>6. PICK w \in Nat : w = IF reader = "submit" /\ at = s THEN 1 ELSE 0
      OBVIOUS
    <2>7. Held(job, queue, reader, at, s) = (a + Tally(s, t)) + b + w
      BY <2>4, <2>5, <2>6 DEF Held
    <2>8. Held(job', queue', reader', at', s) = a + b + w
      BY <2>1, <2>5, <2>6 DEF Held
    <2>9. ReadyNow(set[s]) = ReadyNow(set'[s]) + Tally(s, t)
      BY <2>2, <2>3 DEF ReadyNow, Tally
    <2>10. Tally(s, t) \in Nat /\ ReadyNow(set'[s]) \in Nat
      BY DEF Tally, ReadyNow
    <2> QED BY <1>1, <2>2, <2>7, <2>8, <2>9, <2>10
  <1>12. ASSUME NEW h \in Hashers, SpuriousWakeup(h) \/ TellDone(h)
         PROVE  \A s \in Sets : Held(job', queue', reader', at', s) = ReadyNow(set'[s])
    <2>1. UNCHANGED <<job, queue, set, reader, at>>
      BY <1>12 DEF SpuriousWakeup, TellDone, hvars, rvars
    <2> QED BY <1>1, <2>1
  <1> QED BY <1>4, <1>5, <1>7, <1>8, <1>9, <1>10, <1>11, <1>12, StepIs

-----------------------------------------------------------------------------
(* So it is all of the time. *)

IInv == TypeOK /\ (Exited \/ Working)

\* It is at first.
LEMMA InitRuns ==
  ASSUME Init
  PROVE  TypeOK /\ Working
  <1>1. GivenOK
    BY DEF Init, GivenOK
  <1>2. /\ set = [s \in Sets |-> NewSet(FilesOf(s), SizeOf(s))]
        /\ rl_done = [i \in 1 .. Len(readList) |-> FALSE]
        /\ reader = IF readList = << >> THEN "done" ELSE "read"
        /\ rlpos = 0 /\ done_files = 0 /\ next_queue = 0 /\ at = NoSet
        /\ queue = [h \in Hashers |-> << >>] /\ done = [h \in Hashers |-> FALSE]
        /\ hasher = [h \in Hashers |-> "get"] /\ job = [h \in Hashers |-> NoSet]
        /\ last = [h \in Hashers |-> FALSE] /\ main = "join reader"
    BY DEF Init
  <1>3. ASSUME NEW s \in Sets
        PROVE  /\ Steady(FilesOf(s), set[s], content, blocksOf)
               /\ set[s].state = "PLS_NEED_DATA"
    <2>1. PICK F, size, h : F = FilesOf(s) /\ size = SizeOf(s) /\ h = NewSet(F, size)
      OBVIOUS
    <2>2. /\ IsFiniteSet(F) /\ Cardinality(F) > 1 /\ size \in Nat /\ size > 0
          /\ EqualSize(F, content, size) /\ \A f \in F : BlockList(blocksOf[f], content[f])
      BY <1>1, <2>1, SetsAre, GivenIs
    <2>3. Steady(F, h, content, blocksOf) /\ h.state = "PLS_NEED_DATA"
      BY <2>1, <2>2, NewSetIs
    <2> QED BY <1>2, <2>1, <2>3
  <1>4. SetsOK
    BY <1>2, <1>3 DEF SetsOK, Steady
  <1>5. ReaderOK
    <2>1. Len(readList) \in Nat /\ 0 \in Hashers
      <3>1. PICK m \in Nat : Hashers = 0 .. m - 1 /\ Hashers # {}
        BY ReadHashAssumption, FS_CardinalityType
      <3>2. PICK k \in Hashers : TRUE
        BY <3>1
      <3>3. k \in 0 .. m - 1
        BY <3>1
      <3>4. 0 \in 0 .. m - 1
        BY <3>3
      <3> QED BY <3>1, <3>4, FirstSet
    <2>2. rl_done \in [Positions -> BOOLEAN]
      BY <1>2 DEF Positions
    <2>3. rlpos \in 0 .. Len(readList) /\ done_files \in Nat /\ next_queue \in Hashers
      <3>1. PICK n \in Nat : n = Len(readList)
        BY <2>1
      <3>2. 0 \in 0 .. n
        OBVIOUS
      <3>3. rlpos = 0 /\ done_files = 0 /\ next_queue = 0
        BY <1>2
      <3> QED BY <2>1, <3>1, <3>2, <3>3
    <2>4. reader \in {"read", "submit", "check", "flush", "loop", "done"}
      BY <1>2
    <2> QED BY <1>2, <2>2, <2>3, <2>4 DEF ReaderOK
  <1>6. HashersOK
    <2>1. << >> \in Seq(Sets)
      BY EmptySeq
    <2> QED BY <1>2, <2>1 DEF HashersOK
  <1>7. Places
    <2>1. readList # << >> => 0 < Len(readList)
      BY ReadHashAssumption, EmptySeq
    <2> QED BY <1>2, <2>1 DEF Places
  <1>8. SubmittedOnce
    <2> SUFFICES ASSUME NEW s \in Sets
                 PROVE  Held(job, queue, reader, at, s) = ReadyNow(set[s])
      BY SubmittedOnceIs
    <2>1. ReadyNow(set[s]) = 0
      BY <1>3 DEF ReadyNow
    <2>2. JobsOf(job, s) = 0
      <3>1. {h \in Hashers : job[h] = s} = {}
        BY <1>2, SetsAre
      <3> QED BY <3>1, FS_EmptySet DEF JobsOf
    <2>3. QueuedIn(queue, s) = 0
      <3> DEFINE g == [h \in Hashers |-> InQueue(queue[h], s)]
      <3>1. \A h \in Hashers : g[h] = 0
        <4>1. InQueue(<< >>, s) = 0
          <5>1. {i \in 1 .. Len(<< >>) : << >>[i] = s} = {}
            <6>1. Len(<< >>) = 0
              OBVIOUS
            <6> QED BY <6>1
          <5> QED BY <5>1, FS_EmptySet DEF InQueue
        <4> QED BY <1>2, <4>1
      <3>2. QueuedIn(queue, s) = SumFunctionOnSet(g, DOMAIN g) /\ DOMAIN g = Hashers
        BY DEF QueuedIn, SumFunction
      <3> HIDE DEF g
      <3> QED BY <3>1, <3>2, SetsAre, SumZero
    <2>4. reader # "submit"
      BY <1>2
    <2> QED BY <2>1, <2>2, <2>3, <2>4 DEF Held
  <1> QED BY <1>1, <1>3, <1>4, <1>5, <1>6, <1>7, <1>8 DEF TypeOK, Working, SetsSteady

\* When a check failed nothing happens any more.
LEMMA ExitedStays ==
  ASSUME Exited, [Next]_vars
  PROVE  UNCHANGED vars
  BY DEF Next, ReaderStep, HasherStep, MainStep, Terminated

\* And each step leaves it so.
LEMMA StepRuns ==
  ASSUME TypeOK, Working, ~Exited, Cautious, [Next]_vars
  PROVE  TypeOK' /\ (Exited' \/ Working')
  <1>1. /\ content' = content /\ unreliable' = unreliable /\ buffer_limit' = buffer_limit
        /\ set' = set \/ \E s \in Sets : \E r : Changed(s, r)
    BY StepChanges
  <1>2. SetsOK' /\ (~Exited' => SetsSteady')
    BY <1>1, ChangedIs DEF Working
  <1>3. GivenOK'
    BY <1>1 DEF TypeOK, GivenOK
  <1>4. ReaderOK' /\ ReaderPlaced'
    BY ReaderStays
  <1>5. HashersOK' /\ HashersPlaced'
    BY HashersStay
  <1>6. ~Exited' => SubmittedOnce'
    <2> SUFFICES ASSUME ~Exited' PROVE SubmittedOnce'
      OBVIOUS
    <2>1. \A s \in Sets : Held(job', queue', reader', at', s) = ReadyNow(set'[s])
      BY SubmittedStays
    <2> QED BY <2>1, Zenon DEF SubmittedOnce, Held, ReadyNow, JobsOf, QueuedIn, InQueue
  <1>7. Places'
    BY <1>4, <1>5 DEF Places, ReaderPlaced, HashersPlaced
  <1> QED BY <1>2, <1>3, <1>4, <1>5, <1>6, <1>7 DEF TypeOK, Working

(* The pipeline keeps its types, and each set is sound, as long as no check of
   the program fails. *)
THEOREM PipelineSound == Spec /\ []Cautious => []IInv
  <1>1. Init => IInv
    BY InitRuns DEF IInv
  <1>2. IInv /\ Cautious /\ [Next]_vars => IInv'
    <2> SUFFICES ASSUME IInv, Cautious, [Next]_vars PROVE IInv'
      OBVIOUS
    <2>1. CASE Exited
      <3>1. UNCHANGED vars
        BY <2>1, ExitedStays
      <3> QED BY <2>1, <3>1 DEF IInv, TypeOK, GivenOK, SetsOK, ReaderOK, HashersOK, Exited, vars,
                                given, hvars
    <2>2. CASE ~Exited
      BY <2>2, StepRuns DEF IInv
    <2> QED BY <2>1, <2>2
  <1> QED BY <1>1, <1>2, PTL DEF Spec

(* A set whose buffers are all ready is in exactly one place (SubmittedOnce),
   whatever the number of sets and hashers, until a check stops the program. *)
THEOREM SubmittedOnceHolds == Spec /\ []Cautious => [](Exited \/ SubmittedOnce)
  <1>1. IInv => Exited \/ SubmittedOnce
    BY DEF IInv, Working
  <1> QED BY <1>1, PipelineSound, PTL

(* list_size and buffer_ready count what they should (ListCountsRight), and a
   set is ready when they agree, whatever its files and their blocks. *)
THEOREM ListCountsHold == Spec /\ []Cautious => [](Exited \/ ListCountsRight)
  <1>1. IInv => Exited \/ ListCountsRight
    <2> SUFFICES ASSUME SetsSteady, NEW s \in Sets, set[s].state # "PLS_DONE"
                 PROVE  /\ set[s].list_size = Cardinality(Active(set[s]))
                        /\ set[s].buffer_ready = Cardinality(InState(set[s], {"FS_BUFFER_READY"}))
                        /\ set[s].state = "PLS_ALL_BUFFERS_READY"
                             <=> set[s].buffer_ready = set[s].list_size
      BY DEF IInv, Working, ListCountsRight
    <2>1. Counted(set[s])
      BY DEF SetsSteady, Steady
    <2> QED BY <2>1 DEF Counted, ReadyFiles
  <1> QED BY <1>1, PipelineSound, PTL

-----------------------------------------------------------------------------
(* The refinement: each step finds duplicates, or does not matter. *)

\* Where a file is, and what is published.
StateOf(f) == set[setOf[f]].entry[f].state
AllGroups  == UNION {set[s].published : s \in Sets}

\* A file has a verdict when it is in a final state of its set.
LEMMA VerdictIs ==
  ASSUME SetsOK, NEW f \in Files
  PROVE  /\ Verdict(StateOf(f)) = "duplicate" <=> f \in InState(set[setOf[f]], {"FS_DONE"})
         /\ Verdict(StateOf(f)) = "unique" <=> f \in InState(set[setOf[f]], {"FS_UNIQUE"})
         /\ Verdict(StateOf(f)) = "ignored" <=> f \in InState(set[setOf[f]], {"FS_IGNORE"})
         /\ Verdict(StateOf(f)) \in {"open", "duplicate", "unique", "ignored"}
  <1>1. DOMAIN set[setOf[f]].entry = FilesOf(setOf[f]) /\ f \in FilesOf(setOf[f])
    <2>1. PICK h, F : h = set[setOf[f]] /\ F = FilesOf(setOf[f])
      OBVIOUS
    <2>2. h \in PathListType(F) /\ f \in F
      BY <2>1, SetsAre DEF SetsOK
    <2>3. DOMAIN h.entry = F
      BY <2>2, Zenon DEF PathListType
    <2> QED BY <2>1, <2>2, <2>3
  <1> QED BY <1>1 DEF Verdict, StateOf, InState

\* A file keeps a final state, and gets one only by its set.
LEMMA StateFinal ==
  ASSUME NEW F, NEW h \in PathListType(F), NEW r \in PathListType(F), NEW c, NEW U,
         Judges(h, r, c, U), NEW f \in F
  PROVE  /\ f \in InState(h, {"FS_DONE"}) => f \in InState(r, {"FS_DONE"})
         /\ f \in InState(h, {"FS_UNIQUE"}) => f \in InState(r, {"FS_UNIQUE"})
         /\ f \in InState(h, {"FS_IGNORE"}) => f \in InState(r, {"FS_IGNORE"})
  BY DEF Judges, FinalStates

\* Groups of different sets are different.
LEMMA GroupsApart ==
  ASSUME SetsOK, NEW s \in Sets, NEW p, p \subseteq FilesOf(s), p # {}
  PROVE  p \in AllGroups <=> p \in set[s].published
  <1>1. ASSUME NEW t \in Sets, p \in set[t].published PROVE t = s
    <2>1. PICK f \in p : TRUE
      OBVIOUS
    <2>2. f \in FilesOf(t)
      <3>1. PICK h, F : h = set[t] /\ F = FilesOf(t)
        OBVIOUS
      <3>2. h \in PathListType(F)
        BY <3>1 DEF SetsOK
      <3>3. h.published \in SUBSET SUBSET F
        BY <3>2, Zenon DEF PathListType
      <3> QED BY <1>1, <2>1, <3>1, <3>3
    <2> QED BY <2>1, <2>2 DEF FilesOf
  <1> QED BY <1>1 DEF AllGroups

\* The step that changes set s, file by file.
LEMMA ChangedVerdicts ==
  ASSUME SetsOK, SetsOK', NEW s \in Sets, NEW r, Changed(s, r), content' = content,
         NEW h, h = set[s], NEW f \in Files
  PROVE  /\ setOf[f] # s => Verdict(StateOf(f))' = Verdict(StateOf(f))
         /\ setOf[f] = s =>
              /\ Verdict(StateOf(f))' = "duplicate" <=> f \in InState(r, {"FS_DONE"})
              /\ Verdict(StateOf(f))' = "unique" <=> f \in InState(r, {"FS_UNIQUE"})
              /\ Verdict(StateOf(f))' = "ignored" <=> f \in InState(r, {"FS_IGNORE"})
              /\ Verdict(StateOf(f))' \in {"open", "duplicate", "unique", "ignored"}
  <1>1. set'[s] = r /\ \A t \in Sets \ {s} : set'[t] = set[t]
    <2>1. set = [t \in Sets |-> set[t]]
      BY DEF SetsOK
    <2> QED BY <2>1 DEF Changed
  <1>2. setOf[f] \in Sets
    BY SetsAre
  <1>3. ASSUME setOf[f] # s PROVE Verdict(StateOf(f))' = Verdict(StateOf(f))
    BY <1>1, <1>2, <1>3 DEF StateOf, Verdict
  <1>4. ASSUME setOf[f] = s
        PROVE  /\ Verdict(StateOf(f))' = "duplicate" <=> f \in InState(r, {"FS_DONE"})
               /\ Verdict(StateOf(f))' = "unique" <=> f \in InState(r, {"FS_UNIQUE"})
               /\ Verdict(StateOf(f))' = "ignored" <=> f \in InState(r, {"FS_IGNORE"})
               /\ Verdict(StateOf(f))' \in {"open", "duplicate", "unique", "ignored"}
    <2>1. f \in DOMAIN r.entry
      <3>1. PICK F : F = FilesOf(s)
        OBVIOUS
      <3>2. r \in PathListType(F) /\ f \in F
        BY <1>4, <3>1, SetsAre DEF Changed, Moves
      <3>3. DOMAIN r.entry = F
        BY <3>2, Zenon DEF PathListType
      <3> QED BY <3>2, <3>3
    <2>2. StateOf(f)' = r.entry[f].state
      BY <1>1, <1>4 DEF StateOf
    <2> QED BY <2>1, <2>2 DEF Verdict, InState
  <1> QED BY <1>3, <1>4

Same(f, g) == setOf[f] = setOf[g] /\ content[f] = content[g]

\* What a step that changes a set decides, and what it publishes.
LEMMA ChangedDecides ==
  ASSUME SetsOK, SetsOK', SetsSteady, NEW s \in Sets, NEW r, Changed(s, r), content' = content
  PROVE  /\ \A f \in Files :
              \/ Verdict(StateOf(f))' = Verdict(StateOf(f))
              \/ /\ Verdict(StateOf(f)) = "open"
                 /\ \/ f \in unreliable /\ Verdict(StateOf(f))' = "ignored"
                    \/ /\ Verdict(StateOf(f))' = "unique"
                       /\ \A g \in Files \ {f} : Same(f, g) => Verdict(StateOf(g))' = "ignored"
                    \/ /\ Verdict(StateOf(f))' = "duplicate"
                       /\ \E p \in AllGroups' \ AllGroups : f \in p
         /\ AllGroups \subseteq AllGroups'
         /\ \A p \in AllGroups' \ AllGroups :
              /\ Cardinality(p) > 1
              /\ \A f \in p : /\ f \in Files /\ Verdict(StateOf(f)) = "open"
                              /\ Verdict(StateOf(f))' = "duplicate"
              /\ \A f, g \in p : Same(f, g)
              /\ \A f \in p, g \in Files \ p : Same(f, g) => Verdict(StateOf(g))' = "ignored"
  <1> DEFINE h == set[s]
             F == FilesOf(s)
  <1>1. /\ h \in PathListType(F) /\ r \in PathListType(F)
        /\ Judges(h, r, content, unreliable)
        /\ DOMAIN h.entry = F /\ h.published \in SUBSET SUBSET F /\ r.published \in SUBSET SUBSET F
        /\ DOMAIN r.entry = F
    <2>1. PICK G : G = F
      OBVIOUS
    <2>2. h \in PathListType(G) /\ r \in PathListType(G) /\ Judges(h, r, content, unreliable)
      BY <2>1 DEF SetsOK, Changed, Moves
    <2>3. /\ DOMAIN h.entry = G /\ DOMAIN r.entry = G
          /\ h.published \in SUBSET SUBSET G /\ r.published \in SUBSET SUBSET G
      <3> HIDE DEF h
      <3> QED BY <2>2, Zenon DEF PathListType
    <2> QED BY <2>1, <2>2, <2>3
  <1>2. set'[s] = r /\ (\A t \in Sets \ {s} : set'[t] = set[t])
    <2>1. set = [t \in Sets |-> set[t]]
      BY DEF SetsOK
    <2> QED BY <2>1 DEF Changed
  <1>3. \A f \in Files : setOf[f] = s <=> f \in F
    BY DEF FilesOf
  <1>4. F \subseteq Files
    BY SetsAre
  <1>5. /\ \A f \in Files : setOf[f] # s => Verdict(StateOf(f))' = Verdict(StateOf(f))
        /\ \A f \in F : /\ Verdict(StateOf(f))' = "duplicate" <=> f \in InState(r, {"FS_DONE"})
                        /\ Verdict(StateOf(f))' = "unique" <=> f \in InState(r, {"FS_UNIQUE"})
                        /\ Verdict(StateOf(f))' = "ignored" <=> f \in InState(r, {"FS_IGNORE"})
                        /\ Verdict(StateOf(f))' \in {"open", "duplicate", "unique", "ignored"}
                        /\ Verdict(StateOf(f)) = "duplicate" <=> f \in InState(h, {"FS_DONE"})
                        /\ Verdict(StateOf(f)) = "unique" <=> f \in InState(h, {"FS_UNIQUE"})
                        /\ Verdict(StateOf(f)) = "ignored" <=> f \in InState(h, {"FS_IGNORE"})
                        /\ Verdict(StateOf(f)) \in {"open", "duplicate", "unique", "ignored"}
    BY <1>3, <1>4, ChangedVerdicts, VerdictIs
  <1>6. \A f \in F : /\ f \in InState(h, {"FS_DONE"}) => f \in InState(r, {"FS_DONE"})
                     /\ f \in InState(h, {"FS_UNIQUE"}) => f \in InState(r, {"FS_UNIQUE"})
                     /\ f \in InState(h, {"FS_IGNORE"}) => f \in InState(r, {"FS_IGNORE"})
    <2> HIDE DEF h, F
    <2> QED BY <1>1, StateFinal
  <1>7. /\ h.published \subseteq r.published
        /\ InState(r, {"FS_IGNORE"}) \ InState(h, {"FS_IGNORE"}) \subseteq unreliable
        /\ \A f \in InState(r, {"FS_UNIQUE"}) \ InState(h, {"FS_UNIQUE"}) :
             \A g \in F \ {f} : content[g] = content[f] => g \in InState(r, {"FS_IGNORE"})
        /\ InState(r, {"FS_DONE"}) \ InState(h, {"FS_DONE"})
             \subseteq UNION (r.published \ h.published)
        /\ \A p \in r.published \ h.published :
             /\ Cardinality(p) > 1
             /\ p \subseteq InState(r, {"FS_DONE"}) \ InState(h, {"FS_DONE"})
             /\ \A f, g \in p : content[f] = content[g]
             /\ \A f \in p, g \in F \ p :
                  content[g] = content[f] => g \in InState(r, {"FS_IGNORE"})
    <2> HIDE DEF h, F
    <2> QED BY <1>1 DEF Judges
  <1>8. \A p : p \in AllGroups' <=> p \in r.published \/ \E t \in Sets \ {s} : p \in set[t].published
    BY <1>2 DEF AllGroups
  <1>9. \A p : p \in AllGroups <=> p \in h.published \/ \E t \in Sets \ {s} : p \in set[t].published
    BY DEF AllGroups
  <1>10. \A p \in AllGroups' \ AllGroups : p \in r.published \ h.published
    BY <1>8, <1>9
  <1>11. \A p \in r.published \ h.published : p \in AllGroups' \ AllGroups
    <2> SUFFICES ASSUME NEW p \in r.published \ h.published PROVE p \in AllGroups' \ AllGroups
      OBVIOUS
    <2>1. p # {}
      <3>1. Cardinality(p) > 1
        BY <1>7
      <3>2. CASE p = {}
        BY <3>1, <3>2, FS_EmptySet
      <3> QED BY <3>2
    <2>2. p \subseteq FilesOf(s)
      BY <1>1
    <2>3. p \in AllGroups <=> p \in set[s].published
      BY <2>1, <2>2, GroupsApart
    <2> QED BY <1>8, <2>3
  <1> HIDE DEF h, F
  <1>12. \A f \in F : \A g \in Files : Same(f, g) => g \in F /\ content[f] = content[g]
    BY <1>3, <1>4 DEF Same
  <1>13. ASSUME NEW f \in Files
         PROVE  \/ Verdict(StateOf(f))' = Verdict(StateOf(f))
                \/ /\ Verdict(StateOf(f)) = "open"
                   /\ \/ f \in unreliable /\ Verdict(StateOf(f))' = "ignored"
                      \/ /\ Verdict(StateOf(f))' = "unique"
                         /\ \A g \in Files \ {f} : Same(f, g) => Verdict(StateOf(g))' = "ignored"
                      \/ /\ Verdict(StateOf(f))' = "duplicate"
                         /\ \E p \in AllGroups' \ AllGroups : f \in p
    <2>1. CASE f \notin F
      BY <1>3, <1>5, <2>1
    <2>2. ASSUME f \in F, Verdict(StateOf(f))' # Verdict(StateOf(f)) PROVE Verdict(StateOf(f)) = "open"
      BY <1>5, <1>6, <2>2
    <2>3. CASE f \in F /\ Verdict(StateOf(f)) = "open" /\ f \in InState(r, {"FS_IGNORE"})
      <3>1. f \notin InState(h, {"FS_IGNORE"})
        BY <1>5, <2>3
      <3> QED BY <1>5, <1>7, <2>3, <3>1
    <2>4. CASE f \in F /\ Verdict(StateOf(f)) = "open" /\ f \in InState(r, {"FS_UNIQUE"})
      <3>1. f \notin InState(h, {"FS_UNIQUE"})
        BY <1>5, <2>4
      <3>2. \A g \in F \ {f} : content[g] = content[f] => g \in InState(r, {"FS_IGNORE"})
        BY <1>7, <2>4, <3>1
      <3>3. \A g \in Files \ {f} : Same(f, g) => Verdict(StateOf(g))' = "ignored"
        BY <1>5, <1>12, <2>4, <3>2
      <3> QED BY <1>5, <2>4, <3>3
    <2>5. CASE f \in F /\ Verdict(StateOf(f)) = "open" /\ f \in InState(r, {"FS_DONE"})
      <3>1. f \notin InState(h, {"FS_DONE"})
        BY <1>5, <2>5
      <3>2. PICK p \in r.published \ h.published : f \in p
        BY <1>7, <2>5, <3>1
      <3> QED BY <1>5, <1>11, <2>5, <3>2
    <2>6. CASE /\ f \in F /\ f \notin InState(r, {"FS_IGNORE"}) /\ f \notin InState(r, {"FS_UNIQUE"})
               /\ f \notin InState(r, {"FS_DONE"})
      <3>1. Verdict(StateOf(f))' = "open"
        BY <1>5, <2>6
      <3>2. Verdict(StateOf(f)) = "open"
        BY <1>5, <1>6, <2>6
      <3> QED BY <3>1, <3>2
    <2> QED BY <2>1, <2>2, <2>3, <2>4, <2>5, <2>6
  <1>14. AllGroups \subseteq AllGroups'
    BY <1>7, <1>8, <1>9
  <1>15. ASSUME NEW p \in AllGroups' \ AllGroups
         PROVE  /\ Cardinality(p) > 1
                /\ \A f \in p : /\ f \in Files /\ Verdict(StateOf(f)) = "open"
                                /\ Verdict(StateOf(f))' = "duplicate"
                /\ \A f, g \in p : Same(f, g)
                /\ \A f \in p, g \in Files \ p : Same(f, g) => Verdict(StateOf(g))' = "ignored"
    <2>1. /\ Cardinality(p) > 1 /\ p \subseteq F
          /\ p \subseteq InState(r, {"FS_DONE"}) \ InState(h, {"FS_DONE"})
          /\ \A f, g \in p : content[f] = content[g]
          /\ \A f \in p, g \in F \ p :
               content[g] = content[f] => g \in InState(r, {"FS_IGNORE"})
      BY <1>1, <1>7, <1>10
    <2>2. InState(r, {"FS_DONE"}) \cap InState(r, {"FS_UNIQUE", "FS_IGNORE"}) = {}
      BY DEF InState
    <2>3. /\ InState(r, {"FS_UNIQUE"}) \subseteq InState(r, {"FS_UNIQUE", "FS_IGNORE"})
          /\ InState(r, {"FS_IGNORE"}) \subseteq InState(r, {"FS_UNIQUE", "FS_IGNORE"})
      BY DEF InState
    <2>4. ASSUME NEW f \in p
          PROVE  f \in Files /\ Verdict(StateOf(f)) = "open" /\ Verdict(StateOf(f))' = "duplicate"
      <3>1. f \in F /\ f \in InState(r, {"FS_DONE"}) /\ f \notin InState(h, {"FS_DONE"})
        BY <2>1
      <3>2. f \notin InState(h, {"FS_UNIQUE"}) /\ f \notin InState(h, {"FS_IGNORE"})
        BY <1>6, <2>2, <2>3, <3>1
      <3> QED BY <1>4, <1>5, <3>1, <3>2
    <2>5. \A f, g \in p : Same(f, g)
      BY <1>3, <1>4, <2>1 DEF Same
    <2>6. \A f \in p, g \in Files \ p : Same(f, g) => Verdict(StateOf(g))' = "ignored"
      BY <1>5, <1>12, <2>1
    <2> QED BY <2>1, <2>4, <2>5, <2>6
  <1> QED BY <1>13, <1>14, <1>15

(* Files are found duplicate only of all their equals, unique only without
   any, and each once (FindsDuplicates): the pipeline does what DupSets says,
   for any files, blocks and buffer sizes, any reads that fail, and any
   interleaving of the threads. *)
THEOREM PipelineFindsDuplicates == Spec /\ []Cautious => FindsDuplicates
  <1> USE DEF Verdicts!dupVars
  <1>1. Init => Verdicts!DupInit
    <2> SUFFICES ASSUME Init PROVE Verdicts!DupInit
      OBVIOUS
    <2>1. \A s \in Sets : set[s].published = {} /\ \A f \in FilesOf(s) : set[s].entry[f] = NewEntry
      BY DEF Init, NewSet
    <2>2. \A f \in Files : Verdict(set[setOf[f]].entry[f].state) = "open"
      BY <2>1, SetsAre DEF NewEntry, Verdict
    <2>3. UNION {set[s].published : s \in Sets} = {}
      BY <2>1
    <2> QED BY <2>2, <2>3 DEF Verdicts!DupInit
  <1>2. IInv /\ Cautious /\ IInv' /\ [Next]_vars => [Verdicts!DupNext]_(Verdicts!dupVars)
    <2> SUFFICES ASSUME IInv, Cautious, IInv', [Next]_vars
                 PROVE  [Verdicts!DupNext]_(Verdicts!dupVars)
      OBVIOUS
    <2>1. CASE set' = set /\ content' = content /\ unreliable' = unreliable
      BY <2>1
    <2>2. CASE Exited
      BY <2>1, <2>2, ExitedStays DEF vars, given
    <2>3. ASSUME ~Exited, NEW s \in Sets, NEW r, Changed(s, r), content' = content,
                 unreliable' = unreliable
          PROVE  Verdicts!DupNext
      <3>1. SetsOK /\ SetsOK' /\ SetsSteady
        BY <2>3 DEF IInv, TypeOK, Working
      <3> DEFINE v == [f \in Files |-> Verdict(set[setOf[f]].entry[f].state)]
                 g == UNION {set[t].published : t \in Sets}
      <3>2. /\ \A f \in Files : v[f] = Verdict(StateOf(f)) /\ v'[f] = Verdict(StateOf(f))'
            /\ g = AllGroups /\ g' = AllGroups'
        BY DEF StateOf, AllGroups
      <3>3. /\ \A f \in Files :
                 \/ v'[f] = v[f]
                 \/ /\ v[f] = "open"
                    /\ \/ f \in unreliable /\ v'[f] = "ignored"
                       \/ /\ v'[f] = "unique"
                          /\ \A k \in Files \ {f} : Same(f, k) => v'[k] = "ignored"
                       \/ v'[f] = "duplicate" /\ \E p \in g' \ g : f \in p
            /\ g \subseteq g'
            /\ \A p \in g' \ g :
                 /\ Cardinality(p) > 1
                 /\ \A f \in p : f \in Files /\ v[f] = "open" /\ v'[f] = "duplicate"
                 /\ \A f, k \in p : Same(f, k)
                 /\ \A f \in p, k \in Files \ p : Same(f, k) => v'[k] = "ignored"
        BY <2>3, <3>1, <3>2, ChangedDecides
      <3>4. ASSUME NEW f \in Files
            PROVE  \/ v'[f] = v[f]
                   \/ /\ v[f] = "open"
                      /\ Verdicts!Ignore(f) \/ Verdicts!FindUnique(f) \/ Verdicts!FindDuplicate(f)
        <4>1. ASSUME f \in unreliable, v'[f] = "ignored" PROVE Verdicts!Ignore(f)
          BY <4>1 DEF Verdicts!Ignore
        <4>2. ASSUME v'[f] = "unique", \A k \in Files \ {f} : Same(f, k) => v'[k] = "ignored"
              PROVE  Verdicts!FindUnique(f)
          BY <4>2 DEF Verdicts!FindUnique, Verdicts!Equal, Same
        <4>3. ASSUME v'[f] = "duplicate", \E p \in g' \ g : f \in p
              PROVE  Verdicts!FindDuplicate(f)
          BY <4>3 DEF Verdicts!FindDuplicate
        <4> QED BY Zenon, <3>3, <4>1, <4>2, <4>3
      <3>5. ASSUME NEW p \in g' \ g PROVE Verdicts!Publish(p)
        <4>1. \E f, k \in p : f # k
          <5>1. \A f \in p : f \in Files
            BY <3>3
          <5>2. IsFiniteSet(p)
            <6>1. p \subseteq Files
              BY <5>1
            <6> QED BY <6>1, FS_Subset, ReadHashAssumption
          <5>3. Cardinality(p) \in Nat /\ Cardinality(p) > 1
            BY <3>3, <5>2, FS_CardinalityType
          <5>4. p # {}
            BY <5>3, FS_EmptySet
          <5> QED BY <5>2, <5>3, <5>4, FS_Singleton
        <4> QED BY <3>3, <4>1 DEF Verdicts!Publish, Verdicts!Equal, Same
      <3> QED BY Zenon, <2>3, <3>3, <3>4, <3>5 DEF Verdicts!DupNext
    <2>4. CASE ~Exited
      <3>1. /\ content' = content /\ unreliable' = unreliable
            /\ set' = set \/ \E s \in Sets : \E r : Changed(s, r)
        BY <2>4, StepChanges DEF IInv
      <3> QED BY <2>1, <2>3, <2>4, <3>1
    <2> QED BY <2>2, <2>4
  <1> QED BY <1>1, <1>2, PipelineSound, PTL DEF Spec, FindsDuplicates, Verdicts!DupSpec

-----------------------------------------------------------------------------
(* No check ever stops the program, and nothing is held in the end. *)

\* Each set can go on, and its counters are right.
AllGoing == \A s \in Sets : Going(set[s])
AllSized == \A s \in Sets : Balanced(set[s]) /\ Sized(set[s], SizeOf(s))

\* While a set is not done, not all are counted.
LEMMA RoomIs ==
  ASSUME SetsSteady, NEW s \in Sets, set[s].state # "PLS_DONE"
  PROVE  MayCount
  <1>1. PICK f : f = [t \in Sets |-> set[t].processed]
    OBVIOUS
  <1>2. \A t \in Sets : Tallied(set[t])
    BY DEF SetsSteady, Steady
  <1>3. \A t \in Sets : f[t] \in {0, 1}
    BY <1>1, <1>2 DEF Tallied
  <1>4. f[s] = 0
    BY <1>1, <1>2 DEF Tallied
  <1>5. stats_size_list_done = SumFunctionOnSet(f, Sets)
    <2>1. stats_size_list_done = SumFunction(f)
      BY <1>1 DEF stats_size_list_done, Total
    <2>2. DOMAIN f = Sets
      BY <1>1
    <2> QED BY <2>1, <2>2 DEF SumFunction
  <1>6. /\ SumFunctionOnSet(f, Sets) \in Int /\ Cardinality(Sets) \in Nat
        /\ SumFunctionOnSet(f, Sets) + 1 <= Cardinality(Sets)
    BY <1>3, <1>4, SetsAre, SumOfFewerBits, FS_CardinalityType
  <1> QED BY <1>5, <1>6 DEF MayCount

\* What set s is after a step that changes it, and the others.
LEMMA SetIs ==
  ASSUME SetsOK, NEW s \in Sets, NEW r, set' = [set EXCEPT ![s] = r]
  PROVE  set'[s] = r /\ \A t \in Sets \ {s} : set'[t] = set[t]
  <1>1. set = [t \in Sets |-> set[t]]
    BY DEF SetsOK
  <1> QED BY <1>1

\* A step leaves the sets able to go on.
LEMMA StepGoes ==
  ASSUME TypeOK, Working, ~Exited, Cautious, Unhindered, AllGoing, [Next]_vars
  PROVE  AllGoing' /\ \A s \in Sets : set'[s].exited = "none"
  <1>1. SetsOK /\ SetsSteady /\ \A s \in Sets : set[s].exited = "none"
    BY DEF TypeOK, Working, Exited
  <1>2. CASE set' = set
    BY <1>1, <1>2 DEF AllGoing
  <1>3. ASSUME NEW s \in Sets, NEW r, Changed(s, r), set[s].state # "PLS_DONE"
        PROVE  AllGoing' /\ \A t \in Sets : set'[t].exited = "none"
    <2>1. MayCount
      BY <1>1, <1>3, RoomIs
    <2>2. r.exited = set[s].exited /\ Going(r)
      BY <1>3, <2>1 DEF Changed, Moves, AllGoing
    <2>3. set'[s] = r /\ \A t \in Sets \ {s} : set'[t] = set[t]
      BY <1>1, <1>3, SetIs DEF Changed
    <2>4. \A t \in Sets : Going(set'[t]) /\ set'[t].exited = "none"
      BY <1>1, <2>2, <2>3 DEF AllGoing
    <2> QED BY <2>4 DEF AllGoing
  <1> QED BY <1>2, <1>3, StepChanges

\* And their counters right.
LEMMA StepSized ==
  ASSUME GrowingBuffers, TypeOK, Working, ~Exited, Cautious, AllSized, [Next]_vars, ~Exited'
  PROVE  AllSized'
  <1>1. /\ content' = content /\ SetsOK
        /\ \/ set' = set
           \/ \E s \in Sets : \E r : Changed(s, r) /\ set[s].state # "PLS_DONE"
    BY StepChanges DEF TypeOK
  <1>2. \A s \in Sets : SizeOf(s)' = SizeOf(s)
    BY <1>1 DEF SizeOf
  <1>3. CASE set' = set
    BY <1>2, <1>3 DEF AllSized
  <1>4. ASSUME NEW s \in Sets, NEW r, Changed(s, r) PROVE AllSized'
    <2>1. set'[s] = r /\ \A t \in Sets \ {s} : set'[t] = set[t]
      BY <1>1, <1>4, SetIs DEF Changed
    <2>2. r.exited = "none"
      BY <2>1 DEF Exited
    <2>3. Unaccounted(r) = Unaccounted(set[s]) /\ Sized(r, SizeOf(s))
      BY <1>4, <2>2 DEF Changed, Moves, AllSized
    <2>4. Balanced(r) /\ Sized(r, SizeOf(s))
      BY <2>3 DEF Balanced, AllSized
    <2>5. \A t \in Sets : Balanced(set'[t]) /\ Sized(set'[t], SizeOf(t)')
      BY <1>2, <2>1, <2>4 DEF AllSized
    <2> QED BY <2>5 DEF AllSized
  <1> QED BY <1>1, <1>3, <1>4

\* At first they can, and are.
LEMMA InitGoes ==
  ASSUME Init
  PROVE  /\ PlainBlocks => AllGoing
         /\ GrowingBuffers => AllSized
         /\ \A s \in Sets : set[s].exited = "none"
  <1>1. GivenOK /\ set = [s \in Sets |-> NewSet(FilesOf(s), SizeOf(s))]
    BY DEF Init, GivenOK
  <1>2. ASSUME NEW s \in Sets
        PROVE  /\ PlainBlocks => Going(set[s])
               /\ GrowingBuffers => Balanced(set[s]) /\ Sized(set[s], SizeOf(s))
               /\ set[s].exited = "none"
    <2>1. PICK F, size, h : F = FilesOf(s) /\ size = SizeOf(s) /\ h = NewSet(F, size)
      OBVIOUS
    <2>2. /\ IsFiniteSet(F) /\ Cardinality(F) > 1 /\ size \in Nat /\ size > 0
          /\ EqualSize(F, content, size) /\ \A f \in F : BlockList(blocksOf[f], content[f])
      BY <1>1, <2>1, SetsAre, GivenIs
    <2>3. /\ Balanced(h) /\ h.exited = "none" /\ DOMAIN h.entry = F
          /\ \A f \in F : h.entry[f] = NewEntry
          /\ h.wanted_bufsize = FirstBufsize(size) /\ h.hash_passes = 0
      BY <2>1, <2>2, NewSetIs
    <2>4. FirstBufsize(size) \in Nat /\ FirstBufsize(size) > 0
      BY <2>2, BufsizesTyped, BufsizesPositive
    <2>5. \A f \in Active(h) : f \in F /\ h.entry[f].bufsize = 0 /\ h.entry[f].next_read_byte = 0
                               /\ h.entry[f].next_read_block = 0
      BY <2>3 DEF Active, InState, NewEntry
    <2>6. ASSUME PlainBlocks PROVE Going(h)
      <3>1. ASSUME NEW f \in F PROVE 0 < End(blocksOf[f], 1)
        <4>1. PICK bl, c : bl = blocksOf[f] /\ c = content[f] /\ BlockList(bl, c)
          BY <2>2
        <4>2. c \in Seq(Nat)
          BY <2>2, <4>1 DEF EqualSize
        <4>3. InOrder(bl) /\ ShortGaps(bl)
          BY <2>1, <2>6, <4>1, SetsAre DEF PlainBlocks
        <4>4. 1 \in 1 .. Len(bl)
          <5>1. bl \in Seq(BlockType) /\ bl # << >>
            BY <4>1 DEF BlockList
          <5>2. Len(bl) \in Nat /\ Len(bl) # 0
            BY <5>1, LenProperties, EmptySeq
          <5> QED BY <5>2
        <4>5. bl[1].start \in Nat /\ End(bl, 1) \in Nat /\ bl[1].start < End(bl, 1)
          BY <4>1, <4>2, <4>3, <4>4, BlocksAre
        <4> QED BY <4>1, <4>5
      <3>2. \A f \in Active(h) : CanGoOn(h.entry[f], blocksOf[f])
        BY <2>5, <3>1 DEF InPlace, CanGoOn, Fillable, Roomy
      <3> QED BY <2>3, <2>4, <3>2 DEF Going
    <2>7. ASSUME GrowingBuffers PROVE Sized(h, size)
      <3>1. Fits(FirstBufsize(size), 0, size)
        BY <2>2, <2>7, FirstFits
      <3>2. \A f \in Active(h) : h.entry[f].bufsize <= h.wanted_bufsize
        BY <2>3, <2>4, <2>5
      <3> QED BY <2>3, <3>1, <3>2 DEF Sized
    <2>8. set[s] = h
      BY <1>1, <2>1
    <2> QED BY <2>1, <2>3, <2>6, <2>7, <2>8
  <1> QED BY <1>2 DEF AllGoing, AllSized

\* What it is for the counters of a set to be right.
LEMMA BalancedIs ==
  ASSUME NEW F, IsFiniteSet(F), NEW h \in PathListType(F), Balanced(h)
  PROVE  /\ DOMAIN h.entry = F
         /\ h.allocated = SumFunction([f \in F |-> h.entry[f].bufsize])
         /\ h.open = Cardinality({f \in F : h.entry[f].fd})
  <1>1. /\ h.allocated \in Int /\ h.open \in Int /\ DOMAIN h.entry = F
        /\ h.entry \in [F -> EntryType]
    BY Zenon DEF PathListType
  <1>2. \A f \in F : h.entry[f].bufsize \in Int
    <2>1. \A e \in EntryType : e.bufsize \in Nat
      BY Zenon DEF EntryType
    <2> QED BY <1>1, <2>1
  <1>3. PICK b, o : b = Bufsizes(h) /\ o = Opened(h, F)
    OBVIOUS
  <1>4. PICK a, n : a = SumFunctionOnSet(b, F) /\ n = Cardinality(o)
    OBVIOUS
  <1>5. h.allocated - a = 0 /\ h.open - n = 0
    <2>1. <<h.allocated - a, h.open - n>> = <<0, 0>>
      BY <1>1, <1>3, <1>4 DEF Balanced, Unaccounted
    <2> QED BY <2>1
  <1>6. a \in Int
    <2>1. \A f \in F : b[f] \in Int
      BY <1>1, <1>2, <1>3 DEF Bufsizes
    <2> QED BY <1>4, <2>1, SumTyped
  <1>7. n \in Nat
    <2>1. o \subseteq F
      BY <1>3 DEF Opened
    <2> QED BY <1>4, <2>1, FS_Subset, FS_CardinalityType
  <1>8. h.allocated = a /\ h.open = n
    BY <1>1, <1>5, <1>6, <1>7
  <1>9. a = SumFunction([f \in F |-> h.entry[f].bufsize])
    <2>1. b = [f \in F |-> h.entry[f].bufsize] /\ DOMAIN b = F
      BY <1>1, <1>3 DEF Bufsizes
    <2>2. SumFunction(b) = SumFunctionOnSet(b, DOMAIN b)
      BY DEF SumFunction
    <2> QED BY <1>4, <2>1, <2>2
  <1> QED BY <1>1, <1>3, <1>4, <1>8, <1>9 DEF Opened

(* The counters behind the flusher and the limit on open files agree with what
   the files hold (CountersRight), as long as the buffers of a set never shrink
   from a pass to the next (GrowingBuffers), until a check stops the program. *)
THEOREM CountersHold == GrowingBuffers => (Spec /\ []Cautious => [](Exited \/ CountersRight))
  <1> SUFFICES ASSUME GrowingBuffers PROVE Spec /\ []Cautious => [](Exited \/ CountersRight)
    OBVIOUS
  <1> DEFINE Inv == Exited \/ AllSized
  <1>1. Init => Inv
    BY InitGoes
  <1>2. IInv /\ Inv /\ Cautious /\ [Next]_vars => Inv'
    <2> SUFFICES ASSUME IInv, Inv, Cautious, [Next]_vars, ~Exited' PROVE AllSized'
      OBVIOUS
    <2>1. CASE Exited
      <3>1. UNCHANGED vars
        BY <2>1, ExitedStays
      <3> QED BY <2>1, <3>1 DEF Exited, vars
    <2>2. CASE ~Exited
      BY <2>2, StepSized DEF IInv
    <2> QED BY <2>1, <2>2
  <1>3. IInv /\ Inv => Exited \/ CountersRight
    <2> SUFFICES ASSUME SetsOK, SetsSteady, AllSized, NEW s \in Sets, NEW h, h = set[s]
                 PROVE  /\ h.allocated = SumFunction([f \in FilesOf(s) |-> h.entry[f].bufsize])
                        /\ h.open = Cardinality({f \in FilesOf(s) : h.entry[f].fd})
                        /\ \A f \in FilesOf(s) \ Active(h) :
                             h.entry[f].bufsize = 0 /\ ~h.entry[f].fd
      BY DEF IInv, TypeOK, Working, CountersRight
    <2>1. PICK F : F = FilesOf(s) /\ IsFiniteSet(F)
      BY SetsAre
    <2>2. h \in PathListType(F) /\ Balanced(h) /\ Released(h)
      BY <2>1 DEF SetsSteady, Steady, AllSized
    <2>3. /\ DOMAIN h.entry = F
          /\ h.allocated = SumFunction([f \in F |-> h.entry[f].bufsize])
          /\ h.open = Cardinality({f \in F : h.entry[f].fd})
      BY <2>1, <2>2, BalancedIs
    <2> QED BY <2>1, <2>2, <2>3 DEF Released
  <1> HIDE DEF Inv
  <1> QED BY <1>1, <1>2, <1>3, PipelineSound, PTL DEF Spec

-----------------------------------------------------------------------------
(* The reader misses nothing. *)

\* How many entries of the list the reader has been at since it began it anew;
\* and that an entry is done, or its file needs no more data ever.
NPassed      == rlpos + (IF reader \in {"submit", "check"} THEN 1 ELSE 0)
SettledAt(i) == rl_done[i] \/ StateOf(readList[i].file) \in FinalStates

\* When done_files counts all that was passed, all of it is settled.
NothingMissed ==
  /\ done_files <= NPassed
  /\ done_files = NPassed => \A i \in 1 .. NPassed : SettledAt(i)
  /\ reader = "done" => \A i \in Positions : SettledAt(i)

\* An entry of the list is done for each block that its file has read, at most.
DoneOf(f) == {i \in Positions : readList[i].file = f /\ rl_done[i]}
WithinBlocks ==
  \A s \in Sets : \A f \in Active(set[s]) :
    Cardinality(DoneOf(f)) <= set[s].entry[f].next_read_block

\* An entry of the list is of some file of some set.
LEMMA EntryIs ==
  ASSUME NEW i \in Positions
  PROVE  readList[i].file \in Files
  <1>1. readList[i] \in [file : Files, block : Nat]
    BY ReadHashAssumption, ElementOfSeq DEF Positions
  <1> QED BY <1>1

\* A file that is in a final state stays in it.
LEMMA FinalStays ==
  ASSUME TypeOK, Working, ~Exited, Cautious, [Next]_vars, SetsOK',
         NEW f \in Files, StateOf(f) \in FinalStates
  PROVE  StateOf(f)' \in FinalStates
  <1>1. SetsOK
    BY DEF TypeOK
  <1>2. CASE set' = set
    BY <1>2 DEF StateOf
  <1>3. ASSUME NEW s \in Sets, NEW r, Changed(s, r) PROVE StateOf(f)' \in FinalStates
    <2>1. set'[s] = r /\ \A t \in Sets \ {s} : set'[t] = set[t]
      BY <1>1, <1>3, SetIs DEF Changed
    <2>2. CASE setOf[f] # s
      BY <2>1, <2>2, SetsAre DEF StateOf
    <2>3. CASE setOf[f] = s
      <3>1. PICK F, h : F = FilesOf(s) /\ h = set[s]
        OBVIOUS
      <3>2. /\ h \in PathListType(F) /\ r \in PathListType(F) /\ f \in F
            /\ Judges(h, r, content, unreliable)
        BY <1>1, <1>3, <2>3, <3>1, SetsAre DEF SetsOK, Changed, Moves
      <3>3. DOMAIN h.entry = F /\ DOMAIN r.entry = F
        BY <3>2, Zenon DEF PathListType
      <3>4. PICK st : st = h.entry[f].state
        OBVIOUS
      <3>5. st \in FinalStates
        BY <2>3, <3>1, <3>4 DEF StateOf
      <3>6. f \in InState(h, {st})
        BY <3>2, <3>3, <3>4 DEF InState
      <3>7. f \in InState(r, {st})
        BY <3>2, <3>5, <3>6 DEF Judges
      <3>8. r.entry[f].state = st
        BY <3>7 DEF InState
      <3> QED BY <2>1, <2>3, <3>5, <3>8 DEF StateOf
    <2> QED BY <2>2, <2>3
  <1> QED BY <1>2, <1>3, StepChanges

\* What a step does to the read list: nothing, or the entry the reader is at
\* may be done, which was not.
LEMMA ListStays ==
  ASSUME TypeOK, Working, ~Exited, [Next]_vars
  PROVE  \/ rl_done' = rl_done
         \/ \E b : rl_done' = [rl_done EXCEPT ![rlpos + 1] = b] /\ ~rl_done[rlpos + 1]
  <1>1. CASE ReadEntry
    <2>1. ~rl_done[rlpos + 1]
      BY <1>1, Zenon DEF ReadEntry
    <2> QED BY <1>1, <2>1, ReadChanges DEF Visits
  <1>2. CASE SkipDone \/ Submit \/ CheckBuffers \/ Flush \/ LoopEnd
    BY <1>2 DEF SkipDone, Submit, CheckBuffers, Flush, LoopEnd
  <1>3. CASE \E h \in Hashers : Get(h) \/ Hash(h) \/ SpuriousWakeup(h) \/ TellDone(h)
    BY <1>3 DEF Get, Hash, SpuriousWakeup, TellDone, rvars
  <1>4. CASE JoinReader \/ JoinHashers \/ UNCHANGED vars
    BY <1>4 DEF JoinReader, JoinHashers, vars, rvars
  <1> QED BY <1>1, <1>2, <1>3, <1>4, StepIs

\* What is settled stays so.
LEMMA SettledStays ==
  ASSUME TypeOK, Working, ~Exited, Cautious, [Next]_vars, SetsOK',
         NEW i \in Positions, SettledAt(i)
  PROVE  SettledAt(i)'
  <1>1. CASE StateOf(readList[i].file) \in FinalStates
    <2>1. PICK f \in Files : f = readList[i].file
      BY EntryIs
    <2>2. StateOf(f)' \in FinalStates
      BY <1>1, <2>1, FinalStays
    <2>3. StateOf(readList[i].file)' \in FinalStates
      BY <2>1, <2>2 DEF StateOf
    <2> QED BY <2>3 DEF SettledAt
  <1>2. CASE rl_done[i]
    <2>1. rl_done'[i]
      <3>1. rl_done \in [Positions -> BOOLEAN]
        BY DEF TypeOK, ReaderOK
      <3> QED BY <1>2, <3>1, ListStays
    <2> QED BY <2>1 DEF SettledAt
  <1> QED BY <1>1, <1>2 DEF SettledAt

\* What a step may do to the count: nothing, or the reader passes an entry and
\* counts it when that is settled, or it is at the end.
Counts ==
  \/ done_files' = done_files /\ NPassed' = NPassed /\ (reader' = "done" => reader = "done")
  \/ /\ NPassed' = NPassed + 1 /\ NPassed' \in Positions /\ reader' # "done"
     /\ \/ done_files' = done_files
        \/ done_files' = done_files + 1 /\ SettledAt(NPassed')
  \/ LoopEnd

\* No step does anything else to it.
LEMMA StepCounts ==
  ASSUME TypeOK, Working, ~Exited, [Next]_vars
  PROVE  Counts
  <1>1. /\ reader \in {"read", "submit", "check", "flush", "loop", "done"}
        /\ rlpos \in Nat /\ Len(readList) \in Nat
        /\ reader \in {"read", "submit", "check"} => rlpos < Len(readList)
    BY FirstSet DEF TypeOK, ReaderOK, Working, Places
  <1>2. PICK n \in Nat : n = Len(readList) /\ Positions = 1 .. n
    BY <1>1 DEF Positions
  <1>3. CASE SkipDone
    <2>1. reader = "read" /\ rl_done[rlpos + 1] /\ done_files' = done_files + 1 /\ ReaderGoesOn
      BY <1>3 DEF SkipDone
    <2>2. NPassed = rlpos /\ NPassed' = rlpos + 1 /\ reader' # "done"
      BY <1>1, <2>1 DEF NPassed, ReaderGoesOn
    <2>3. rlpos + 1 \in Positions
      BY <1>1, <1>2, <2>1
    <2> QED BY <2>1, <2>2, <2>3 DEF Counts, SettledAt
  <1>4. CASE ReadEntry
    <2>1. reader = "read" /\ rlpos' = rlpos
      BY <1>4, Zenon DEF ReadEntry
    <2>2. reader' \in {"submit", "check"}
      BY <1>4, ReadChanges DEF Visits
    <2>3. NPassed = rlpos /\ NPassed' = rlpos + 1 /\ reader' # "done"
      BY <1>1, <2>1, <2>2 DEF NPassed
    <2>4. rlpos + 1 \in Positions
      BY <1>1, <1>2, <2>1
    <2>5. PICK st : st = set[setOf[Entry.file]].entry[Entry.file].state
      OBVIOUS
    <2>6. done_files' = IF st \in {"FS_DONE", "FS_IGNORE", "FS_UNIQUE"}
                        THEN done_files + 1 ELSE done_files
      BY <1>4, <2>5, Zenon DEF ReadEntry
    <2>7. st \in {"FS_DONE", "FS_IGNORE", "FS_UNIQUE"} => SettledAt(rlpos + 1)
      BY <2>5 DEF SettledAt, StateOf, FinalStates, Entry
    <2> QED BY <2>3, <2>4, <2>6, <2>7 DEF Counts
  <1>5. CASE Submit
    BY <1>5 DEF Submit, Counts, NPassed
  <1>6. CASE CheckBuffers
    BY <1>1, <1>6 DEF CheckBuffers, ReaderGoesOn, Counts, NPassed
  <1>7. CASE Flush
    <2>1. /\ reader = "flush" /\ rlpos' = rlpos /\ done_files' = done_files
          /\ reader' \in {"read", "loop", "flush"}
      BY <1>7 DEF Flush
    <2> QED BY <2>1 DEF Counts, NPassed
  <1>8. CASE LoopEnd
    BY <1>8 DEF Counts
  <1>9. ASSUME UNCHANGED <<reader, rvars>> PROVE Counts
    BY <1>9 DEF rvars, Counts, NPassed
  <1>10. CASE \E h \in Hashers : Get(h) \/ Hash(h) \/ SpuriousWakeup(h) \/ TellDone(h)
    <2>1. UNCHANGED <<reader, rvars>>
      BY <1>10 DEF Get, Hash, SpuriousWakeup, TellDone
    <2> QED BY <1>9, <2>1
  <1>11. CASE JoinReader \/ JoinHashers \/ UNCHANGED vars
    BY <1>9, <1>11 DEF JoinReader, JoinHashers, vars, rvars
  <1> QED BY <1>3, <1>4, <1>5, <1>6, <1>7, <1>8, <1>10, <1>11, StepIs

\* So nothing is missed.
LEMMA StepMisses ==
  ASSUME TypeOK, Working, ~Exited, Cautious, NothingMissed, [Next]_vars, SetsOK'
  PROVE  NothingMissed'
  <1>1. PICK n \in Nat : n = Len(readList) /\ Positions = 1 .. n
    BY FirstSet DEF Positions
  <1>2. PICK k \in Nat : k = NPassed /\ k <= n
    <2>1. /\ rlpos \in Nat /\ rlpos <= n
          /\ reader \in {"submit", "check"} => rlpos < n
      BY <1>1 DEF TypeOK, ReaderOK, Working, Places
    <2> QED BY <1>1, <2>1 DEF NPassed
  <1>3. PICK d \in Nat : d = done_files
    BY DEF TypeOK, ReaderOK
  <1>4. /\ d <= k /\ (d = k => \A i \in 1 .. k : SettledAt(i))
        /\ reader = "done" => \A i \in Positions : SettledAt(i)
    BY <1>2, <1>3 DEF NothingMissed
  <1>5. \A i \in Positions : SettledAt(i) => SettledAt(i)'
    BY SettledStays
  <1>6. \A i \in 1 .. k : i \in Positions
    BY <1>1, <1>2
  <1>7. CASE done_files' = done_files /\ NPassed' = NPassed /\ (reader' = "done" => reader = "done")
    BY <1>2, <1>3, <1>4, <1>5, <1>6, <1>7 DEF NothingMissed
  <1>8. CASE /\ NPassed' = NPassed + 1 /\ NPassed' \in Positions /\ reader' # "done"
             /\ \/ done_files' = done_files
                \/ done_files' = done_files + 1 /\ SettledAt(NPassed')
    <2>1. NPassed' = k + 1 /\ k + 1 \in Positions
      BY <1>2, <1>8
    <2>2. CASE done_files' = done_files
      <3>1. done_files' <= NPassed' /\ done_files' # NPassed'
        BY <1>3, <1>4, <2>1, <2>2
      <3> QED BY <1>8, <3>1 DEF NothingMissed
    <2>3. CASE done_files' = done_files + 1 /\ SettledAt(NPassed')
      <3>1. done_files' = d + 1
        BY <1>3, <2>3
      <3>2. SettledAt(k + 1)'
        BY <1>5, <2>1, <2>3
      <3>3. ASSUME d + 1 = k + 1, NEW i \in 1 .. k + 1 PROVE SettledAt(i)'
        <4>1. i \in 1 .. k \/ i = k + 1
          BY <3>3
        <4>2. d = k
          BY <3>3
        <4> QED BY <1>4, <1>5, <1>6, <3>2, <4>1, <4>2
      <3>4. done_files' <= NPassed'
        BY <1>4, <2>1, <3>1
      <3> QED BY <1>8, <2>1, <3>1, <3>3, <3>4 DEF NothingMissed
    <2> QED BY <1>8, <2>2, <2>3
  <1>9. CASE LoopEnd
    <2>1. reader = "loop" /\ rlpos = n
      BY <1>1, <1>9 DEF LoopEnd, Working, Places
    <2>2. k = n
      BY <1>1, <1>2, <2>1 DEF NPassed
    <2>3. CASE done_files >= rlpos
      <3>1. reader' = "done" /\ done_files' = d /\ NPassed' = k
        BY <1>1, <1>3, <1>9, <2>1, <2>2, <2>3 DEF LoopEnd, NPassed
      <3>2. d = k
        BY <1>3, <1>4, <2>1, <2>2, <2>3
      <3> QED BY <1>1, <1>4, <1>5, <2>2, <3>1, <3>2 DEF NothingMissed
    <2>4. CASE ~(done_files >= rlpos)
      <3>1. reader' = "read" /\ done_files' = 0 /\ NPassed' = 0
        BY <1>9, <2>4 DEF LoopEnd, NPassed
      <3> QED BY <3>1 DEF NothingMissed
    <2> QED BY <2>3, <2>4
  <1> QED BY <1>7, <1>8, <1>9, StepCounts DEF Counts

\* What a step does to the sets and to the read list together.
LEMMA StepReads ==
  ASSUME TypeOK, Working, ~Exited, Cautious, [Next]_vars
  PROVE  \/ set' = set /\ rl_done' = rl_done
         \/ ReadEntry /\ \E s \in Sets, f \in Files : \E r : Visits(s, f, r)
         \/ /\ rl_done' = rl_done
            /\ \E s \in Sets : \E r : /\ Changed(s, r)
                                      /\ r.exited = "none" => r.state = "PLS_DONE" \/ StayAt(set[s], r)
  <1>1. CASE SkipDone \/ Submit \/ CheckBuffers \/ LoopEnd \/ JoinReader \/ JoinHashers
    BY <1>1 DEF SkipDone, Submit, CheckBuffers, LoopEnd, JoinReader, JoinHashers, rvars
  <1>2. CASE ReadEntry
    BY <1>2, ReadChanges
  <1>3. CASE Flush
    <2>1. rl_done' = rl_done
      BY <1>3 DEF Flush
    <2> QED BY <1>3, <2>1, FlushChanges
  <1>4. ASSUME NEW h \in Hashers, Get(h) \/ SpuriousWakeup(h) \/ TellDone(h)
        PROVE  set' = set /\ rl_done' = rl_done
    BY <1>4 DEF Get, SpuriousWakeup, TellDone, rvars
  <1>5. ASSUME NEW h \in Hashers, Hash(h)
        PROVE  /\ rl_done' = rl_done
               /\ \E s \in Sets : \E r : Changed(s, r) /\ (r.exited = "none" => StayAt(set[s], r))
    <2>1. rl_done' = rl_done
      BY <1>5 DEF Hash, rvars
    <2> QED BY <1>5, <2>1, HashChanges
  <1>6. CASE UNCHANGED vars
    BY <1>6 DEF vars
  <1> QED BY <1>1, <1>2, <1>3, <1>4, <1>5, <1>6, StepIs

\* The files that are compared after a step that changes a set.
LEMMA StaysActive ==
  ASSUME SetsOK, SetsSteady, NEW s \in Sets, NEW r, Changed(s, r), r.exited = "none"
  PROVE  /\ set'[s] = r /\ \A t \in Sets \ {s} : set'[t] = set[t]
         /\ Active(r) \subseteq FilesOf(s) /\ Active(set[s]) \subseteq FilesOf(s)
         /\ r.state = "PLS_DONE" => Active(r) = {}
         /\ \A f \in FilesOf(s) : /\ r.entry[f].next_read_block \in Nat
                                  /\ set[s].entry[f].next_read_block \in Nat
  <1>1. PICK F, h : F = FilesOf(s) /\ h = set[s]
    OBVIOUS
  <1>2. h \in PathListType(F) /\ r \in PathListType(F) /\ Counted(r)
    BY <1>1 DEF SetsOK, Changed, Moves, Steady
  <1>3. DOMAIN h.entry = F /\ DOMAIN r.entry = F /\ h.entry \in [F -> EntryType] /\ r.entry \in [F -> EntryType]
    BY <1>2, Zenon DEF PathListType
  <1>4. Active(h) \subseteq F /\ Active(r) \subseteq F
    BY <1>3 DEF Active, InState
  <1>5. \A e \in EntryType : e.next_read_block \in Nat
    BY Zenon DEF EntryType
  <1>6. set'[s] = r /\ \A t \in Sets \ {s} : set'[t] = set[t]
    BY SetIs DEF Changed
  <1> QED BY <1>1, <1>2, <1>3, <1>4, <1>5, <1>6 DEF Counted

\* No more entries of a file are done than it has read blocks.
LEMMA StepWithin ==
  ASSUME TypeOK, Working, ~Exited, Cautious, WithinBlocks, [Next]_vars,
         \A s \in Sets : set'[s].exited = "none"
  PROVE  WithinBlocks'
  <1>1. SetsOK /\ SetsSteady /\ rl_done \in [Positions -> BOOLEAN]
    BY DEF TypeOK, Working, ReaderOK
  <1>2. \A f : rl_done' = rl_done => DoneOf(f)' = DoneOf(f)
    BY DEF DoneOf
  <1>3. CASE set' = set /\ rl_done' = rl_done
    BY <1>2, <1>3 DEF WithinBlocks
  <1>4. ASSUME NEW s \in Sets, NEW r, Changed(s, r), rl_done' = rl_done,
               r.exited = "none" => r.state = "PLS_DONE" \/ StayAt(set[s], r)
        PROVE  WithinBlocks'
    <2>1. set'[s] = r /\ \A t \in Sets \ {s} : set'[t] = set[t]
      BY <1>1, <1>4, SetIs DEF Changed
    <2>2. r.exited = "none"
      BY <2>1
    <2>3. r.state = "PLS_DONE" => Active(r) = {}
      BY <1>1, <1>4, <2>2, StaysActive
    <2>4. ASSUME NEW f \in Active(r)
          PROVE  Cardinality(DoneOf(f)) <= r.entry[f].next_read_block
      <3>1. f \in Active(set[s]) /\ r.entry[f].next_read_block = set[s].entry[f].next_read_block
        BY <1>4, <2>2, <2>3, <2>4 DEF StayAt
      <3> QED BY <3>1 DEF WithinBlocks
    <2> QED BY <1>2, <1>4, <2>1, <2>4 DEF WithinBlocks
  <1>5. ASSUME ReadEntry, NEW s \in Sets, NEW f \in Files, NEW r, Visits(s, f, r) PROVE WithinBlocks'
    <2>1. PICK p : p = rlpos + 1
      OBVIOUS
    <2>2. ~rl_done[p]
      BY <1>5, <2>1, Zenon DEF ReadEntry
    <2>3. /\ f = readList[p].file /\ f \in FilesOf(s) /\ Changed(s, r)
          /\ r.exited = "none" => MovedOn(set[s], f, r)
          /\ rl_done' = [rl_done EXCEPT ![p] =
                           r.entry[f].next_read_block > set[s].entry[f].next_read_block]
      BY <1>5, <2>1 DEF Visits
    <2>4. set'[s] = r /\ \A t \in Sets \ {s} : set'[t] = set[t]
      BY <1>1, <2>3, SetIs DEF Changed
    <2>5. r.exited = "none"
      BY <2>4
    <2>6. /\ Active(r) \subseteq FilesOf(s) /\ Active(r) \subseteq Active(set[s])
          /\ \A k \in Active(r) \ {f} : r.entry[k] = set[s].entry[k]
          /\ f \in Active(r) => \/ r.entry[f].next_read_block = set[s].entry[f].next_read_block
                                \/ r.entry[f].next_read_block = set[s].entry[f].next_read_block + 1
      BY <1>1, <2>3, <2>5, StaysActive DEF MovedOn
    <2>7. \A k \in Files : k # f => DoneOf(k)' = DoneOf(k)
      BY <1>1, <2>3 DEF DoneOf
    <2>8. ASSUME f \in Active(r)
          PROVE  Cardinality(DoneOf(f)') <= r.entry[f].next_read_block
      <3>1. PICK a, b : a = set[s].entry[f].next_read_block /\ b = r.entry[f].next_read_block
        OBVIOUS
      <3>2. a \in Nat /\ b \in Nat
        BY <1>1, <2>3, <2>5, <3>1, StaysActive
      <3>3. PICK D : D = DoneOf(f)
        OBVIOUS
      <3>4. IsFiniteSet(D) /\ Cardinality(D) \in Nat /\ Cardinality(D) <= a
        <4>1. D \subseteq Positions /\ IsFiniteSet(Positions)
          BY <3>3, FirstSet, FS_Interval DEF DoneOf, Positions
        <4>2. Cardinality(D) <= a
          BY <2>6, <2>8, <3>1, <3>3 DEF WithinBlocks
        <4> QED BY <4>1, <4>2, FS_Subset, FS_CardinalityType
      <3>5. CASE b = a
        <4>1. rl_done' = [rl_done EXCEPT ![p] = FALSE]
          <5>1. (b > a) = FALSE
            BY <3>2, <3>5
          <5>2. rl_done' = [rl_done EXCEPT ![p] = (b > a)]
            BY <2>3, <3>1
          <5> QED BY <5>1, <5>2
        <4>2. rl_done' = rl_done
          BY <1>1, <2>2, <4>1
        <4> QED BY <1>2, <3>1, <3>3, <3>4, <3>5, <4>2
      <3>6. CASE b = a + 1
        <4>1. DoneOf(f)' \subseteq D \cup {p}
          BY <1>1, <2>3, <3>3 DEF DoneOf
        <4>2. IsFiniteSet(D \cup {p}) /\ Cardinality(D \cup {p}) <= Cardinality(D) + 1
              /\ Cardinality(D \cup {p}) \in Nat
          <5>1. /\ IsFiniteSet(D \cup {p})
                /\ Cardinality(D \cup {p}) = IF p \in D THEN Cardinality(D) ELSE Cardinality(D) + 1
            BY <3>4, FS_AddElement
          <5> QED BY <3>4, <5>1
        <4>3. PICK E : E = DoneOf(f)'
          OBVIOUS
        <4>4. Cardinality(E) <= Cardinality(D \cup {p}) /\ Cardinality(E) \in Nat
          BY <4>1, <4>2, <4>3, FS_Subset, FS_CardinalityType
        <4> QED BY <3>1, <3>2, <3>4, <3>6, <4>2, <4>3, <4>4
      <3> QED BY <2>6, <2>8, <3>1, <3>5, <3>6
    <2>9. ASSUME NEW k \in Active(r), k # f
          PROVE  Cardinality(DoneOf(k)') <= r.entry[k].next_read_block
      <3>1. k \in Files /\ k \in Active(set[s]) /\ r.entry[k] = set[s].entry[k]
        BY <2>6, <2>9, SetsAre
      <3> QED BY <2>7, <2>9, <3>1 DEF WithinBlocks
    <2>10. ASSUME NEW t \in Sets, t # s, NEW k \in Active(set[t])
           PROVE  Cardinality(DoneOf(k)') <= set[t].entry[k].next_read_block
      <3>1. k \in FilesOf(t)
        <4>1. PICK F, h : F = FilesOf(t) /\ h = set[t]
          OBVIOUS
        <4>2. h \in PathListType(F)
          BY <1>1, <4>1 DEF SetsOK
        <4>3. DOMAIN h.entry = F
          BY <4>2, Zenon DEF PathListType
        <4> QED BY <2>10, <4>1, <4>3 DEF Active, InState
      <3>2. k \in Files /\ k # f
        BY <2>3, <2>10, <3>1 DEF FilesOf
      <3> QED BY <2>7, <2>10, <3>2 DEF WithinBlocks
    <2> QED BY <2>4, <2>8, <2>9, <2>10 DEF WithinBlocks
  <1> QED BY <1>3, <1>4, <1>5, StepReads

-----------------------------------------------------------------------------
(* The end. *)

\* The hashers are told when the reader is done, and leave when they were told
\* and have nothing left.
Leaving ==
  /\ main # "join reader" => reader = "done"
  /\ \A h \in Hashers : done[h] => main # "join reader"
  /\ \A h \in Hashers : hasher[h] = "done" \/ (hasher[h] = "hash" /\ last[h])
       => done[h] /\ queue[h] = << >>
AllFinished == main = "done" => \A s \in Sets : set[s].state = "PLS_DONE"

\* They leave only then.
LEMMA StepLeaves ==
  ASSUME TypeOK, Leaving, [Next]_vars
  PROVE  Leaving'
  <1>1. /\ queue \in [Hashers -> Seq(Sets)] /\ done \in [Hashers -> BOOLEAN]
        /\ hasher \in [Hashers -> {"get", "hash", "wait", "done"}]
        /\ last \in [Hashers -> BOOLEAN]
    BY DEF TypeOK, HashersOK
  <1>2. CASE SkipDone \/ CheckBuffers \/ Flush \/ LoopEnd
    <2>1. /\ reader # "done" /\ UNCHANGED <<main, done, hasher, last, queue>>
      BY <1>2 DEF SkipDone, CheckBuffers, Flush, LoopEnd, hvars
    <2> QED BY <2>1 DEF Leaving
  <1>3. CASE ReadEntry
    <2>1. /\ reader # "done" /\ UNCHANGED <<main, done, hasher, last, queue>>
      BY <1>3, Zenon DEF ReadEntry, hvars
    <2> QED BY <2>1 DEF Leaving
  <1>4. CASE Submit
    <2>1. reader = "submit" /\ UNCHANGED <<main, done, last>>
      BY <1>4 DEF Submit, hvars
    <2>2. \A g \in Hashers : hasher'[g] = hasher[g] \/ hasher'[g] = "get"
      BY <1>1, <1>4 DEF Submit, SignalHasher
    <2>3. main = "join reader" /\ \A g \in Hashers : ~done[g]
      BY <2>1 DEF Leaving
    <2>4. \A g \in Hashers : ~(hasher'[g] = "done" \/ (hasher'[g] = "hash" /\ last'[g]))
      BY <2>1, <2>2, <2>3 DEF Leaving
    <2> QED BY <2>1, <2>3, <2>4 DEF Leaving
  <1>5. ASSUME NEW h \in Hashers, Get(h) PROVE Leaving'
    <2>1. UNCHANGED <<reader, done, main>> /\ hasher[h] = "get"
      BY <1>5 DEF Get
    <2>2. PICK q : q = queue[h] /\ q \in Seq(Sets) /\ Len(q) \in Nat
      BY <1>1, LenProperties
    <2>3. PICK n \in Nat : n = Len(q)
      BY <2>2
    <2>6. n \in Nat
      BY <2>3
    <2>4. CASE n = 0 /\ ~done[h]
      <3>1. hasher' = [hasher EXCEPT ![h] = "wait"] /\ UNCHANGED <<queue, last>>
        BY <1>5, <2>2, <2>3, <2>4 DEF Get
      <3> QED BY <1>1, <2>1, <3>1 DEF Leaving
    <2>5. CASE ~(n = 0 /\ ~done[h])
      <3>1. /\ queue' = [queue EXCEPT ![h] = IF n > 0 THEN Popped(q) ELSE q]
            /\ last' = [last EXCEPT ![h] = done[h] /\ n <= 1]
            /\ hasher' = [hasher EXCEPT ![h] = IF n > 0 THEN "hash" ELSE "done"]
        BY <1>5, <2>2, <2>3, <2>5 DEF Get
      <3>2. \A g \in Hashers \ {h} :
              queue'[g] = queue[g] /\ last'[g] = last[g] /\ hasher'[g] = hasher[g]
        BY <1>1, <3>1
      <3>3. last'[h] <=> done[h] /\ n <= 1
        BY <1>1, <3>1
      <3>4. queue'[h] = IF n > 0 THEN Popped(q) ELSE q
        BY <1>1, <3>1
      <3>5. n = 0 => queue'[h] = << >> /\ done[h]
        <4>1. n = 0 => q = << >>
          BY <2>2, <2>3, EmptySeq
        <4>2. n = 0 => queue'[h] = q
          BY <2>6, <3>4
        <4> QED BY <2>5, <4>1, <4>2
      <3>6. n = 1 => queue'[h] = << >>
        <4>1. ASSUME n = 1 PROVE Popped(q) = << >>
          <5>1. n > 0 /\ n <= 1
            BY <2>6, <4>1
          <5> QED BY <2>2, <2>3, <5>1, PoppedIs
        <4> QED BY <2>6, <3>4, <4>1
      <3>8. hasher'[h] = IF n > 0 THEN "hash" ELSE "done"
        BY <1>1, <3>1
      <3>7. hasher'[h] = "done" \/ (hasher'[h] = "hash" /\ last'[h]) => done'[h] /\ queue'[h] = << >>
        BY <2>1, <2>6, <3>3, <3>5, <3>6, <3>8
      <3> QED BY <2>1, <3>2, <3>7 DEF Leaving
    <2> QED BY <2>4, <2>5
  <1>6. ASSUME NEW h \in Hashers, Hash(h) PROVE Leaving'
    <2>1. /\ UNCHANGED <<reader, done, main, queue, last>> /\ hasher[h] = "hash"
          /\ hasher' = [hasher EXCEPT ![h] = IF last[h] THEN "done" ELSE "get"]
      BY <1>6 DEF Hash
    <2> QED BY <1>1, <2>1 DEF Leaving
  <1>7. ASSUME NEW h \in Hashers, SpuriousWakeup(h) PROVE Leaving'
    <2>1. /\ UNCHANGED <<reader, done, main, queue, last>>
          /\ hasher' = [hasher EXCEPT ![h] = "get"]
      BY <1>7 DEF SpuriousWakeup, hvars
    <2> QED BY <1>1, <2>1 DEF Leaving
  <1>8. ASSUME NEW h \in Hashers, TellDone(h) PROVE Leaving'
    <2>1. /\ UNCHANGED <<reader, queue, last>> /\ main = "signal"
          /\ main' \in {"signal", "join hashers"} /\ done' = [done EXCEPT ![h] = TRUE]
      BY <1>8 DEF TellDone, hvars
    <2>2. \A g \in Hashers : hasher'[g] = hasher[g] \/ hasher'[g] = "get"
      BY <1>1, <1>8 DEF TellDone, SignalHasher
    <2>3. \A g \in Hashers : done[g] => done'[g]
      BY <1>1, <2>1
    <2> QED BY <2>1, <2>2, <2>3 DEF Leaving
  <1>9. CASE JoinReader
    BY <1>9 DEF JoinReader, hvars, Leaving
  <1>10. CASE JoinHashers
    BY <1>10 DEF JoinHashers, hvars, Leaving
  <1>11. CASE UNCHANGED vars
    BY <1>11 DEF vars, Leaving
  <1> QED BY <1>2, <1>3, <1>4, <1>5, <1>6, <1>7, <1>8, <1>9, <1>10, <1>11, StepIs

\* When the reader is done no file needs data any more.
LEMMA NoneNeedsData ==
  ASSUME TypeOK, Working, NothingMissed, WithinBlocks, reader = "done",
         NEW s \in Sets, NEW f \in FilesOf(s)
  PROVE  set[s].entry[f].state # "FS_NEED_DATA"
  <1> SUFFICES ASSUME set[s].entry[f].state = "FS_NEED_DATA" PROVE FALSE
    OBVIOUS
  <1>1. PICK F, h, bl : F = FilesOf(s) /\ h = set[s] /\ bl = blocksOf[f]
    OBVIOUS
  <1>2. /\ Steady(F, h, content, blocksOf) /\ IsFiniteSet(F) /\ SizeOf(s) \in Nat
        /\ EqualSize(F, content, SizeOf(s)) /\ BlockList(bl, content[f])
    BY <1>1, SetsAre, GivenIs DEF Working, SetsSteady, TypeOK
  <1>3. PICK size \in Nat : size = SizeOf(s)
    BY <1>2
  <1>4. f \in Active(h) /\ h.entry[f].next_read_block < Len(bl)
    BY <1>1, <1>2, <1>3, NeedsDataIs
  <1>5. f \in Files /\ setOf[f] = s
    BY DEF FilesOf
  <1>6. StateOf(f) \notin FinalStates
    BY <1>5 DEF StateOf, FinalStates
  <1>7. \A i \in Positions : readList[i].file = f => rl_done[i]
    BY <1>6 DEF NothingMissed, SettledAt
  <1>8. DoneOf(f) = {n \in 1 .. Len(readList) : readList[n].file = f}
    BY <1>7 DEF DoneOf, Positions
  <1>9. Cardinality(DoneOf(f)) = Len(bl)
    BY <1>1, <1>5, <1>8, ReadHashAssumption
  <1>10. Cardinality(DoneOf(f)) <= h.entry[f].next_read_block
    BY <1>1, <1>4 DEF WithinBlocks
  <1>11. h.entry[f].next_read_block \in Nat
    <2>1. \A e \in EntryType : e.next_read_block \in Nat
      BY Zenon DEF EntryType
    <2>2. h \in PathListType(F) /\ f \in F
      BY <1>1, <1>2 DEF Steady
    <2>3. h.entry \in [F -> EntryType]
      BY <2>2, Zenon DEF PathListType
    <2> QED BY <2>1, <2>2, <2>3
  <1>12. PICK a, n : a = h.entry[f].next_read_block /\ n = Len(bl)
    OBVIOUS
  <1>13. a \in Nat /\ a < n /\ n <= a /\ n \in Nat
    <2>1. bl \in Seq(BlockType)
      BY <1>2 DEF BlockList
    <2> QED BY <1>4, <1>9, <1>10, <1>11, <1>12, <2>1, LenProperties
  <1> QED BY <1>13

\* A set without such a file is ready, or done.
LEMMA ReadyOrDone ==
  ASSUME NEW F, IsFiniteSet(F), NEW h \in PathListType(F), Counted(h),
         \A f \in F : h.entry[f].state # "FS_NEED_DATA", h.state # "PLS_DONE"
  PROVE  h.state = "PLS_ALL_BUFFERS_READY"
  <1>1. DOMAIN h.entry = F
    BY Zenon DEF PathListType
  <1>2. Active(h) = ReadyFiles(h)
    BY <1>1 DEF Active, ReadyFiles, InState
  <1> QED BY <1>2 DEF Counted

\* A set that no thread holds is not ready.
LEMMA NotHeld ==
  ASSUME SubmittedOnce, NEW s \in Sets, \A h \in Hashers : queue[h] = << >> /\ job[h] = NoSet,
         reader = "done"
  PROVE  set[s].state # "PLS_ALL_BUFFERS_READY"
  <1>1. JobsOf(job, s) = 0
    <2>1. {h \in Hashers : job[h] = s} = {}
      BY SetsAre
    <2> QED BY <2>1, FS_EmptySet DEF JobsOf
  <1>2. QueuedIn(queue, s) = 0
    <2> DEFINE g == [h \in Hashers |-> InQueue(queue[h], s)]
    <2>1. \A h \in Hashers : g[h] = 0
      <3>1. InQueue(<< >>, s) = 0
        <4>1. {i \in 1 .. Len(<< >>) : << >>[i] = s} = {}
          <5>1. Len(<< >>) = 0
            OBVIOUS
          <5> QED BY <5>1
        <4> QED BY <4>1, FS_EmptySet DEF InQueue
      <3> QED BY <3>1
    <2>2. QueuedIn(queue, s) = SumFunctionOnSet(g, DOMAIN g) /\ DOMAIN g = Hashers
      BY DEF QueuedIn, SumFunction
    <2> HIDE DEF g
    <2> QED BY <2>1, <2>2, SetsAre, SumZero
  <1>3. Held(job, queue, reader, at, s) = 0
    BY <1>1, <1>2 DEF Held
  <1>4. ReadyNow(set[s]) = 0
    BY <1>3, SubmittedOnceIs
  <1> QED BY <1>4 DEF ReadyNow

\* A set that is done holds nothing.
LEMMA DoneHoldsNothing ==
  ASSUME NEW F, IsFiniteSet(F), NEW h \in PathListType(F), Balanced(h), Released(h), Counted(h),
         h.state = "PLS_DONE"
  PROVE  h.allocated = 0 /\ h.open = 0
  <1>1. /\ DOMAIN h.entry = F
        /\ h.allocated = SumFunction([f \in F |-> h.entry[f].bufsize])
        /\ h.open = Cardinality({f \in F : h.entry[f].fd})
    BY BalancedIs
  <1>2. \A f \in F : h.entry[f].bufsize = 0 /\ ~h.entry[f].fd
    BY <1>1 DEF Released, Counted
  <1>3. PICK b : b = [f \in F |-> h.entry[f].bufsize]
    OBVIOUS
  <1>4. DOMAIN b = F /\ \A f \in F : b[f] = 0
    BY <1>2, <1>3
  <1>5. SumFunctionOnSet(b, F) = 0
    BY <1>4, SumZero
  <1>6. h.allocated = 0
    BY <1>1, <1>3, <1>4, <1>5 DEF SumFunction
  <1>7. {f \in F : h.entry[f].fd} = {}
    BY <1>2
  <1> QED BY <1>1, <1>6, <1>7, FS_EmptySet

\* When all threads left, all sets are done and hold nothing.
LEMMA AllEnd ==
  ASSUME TypeOK, Working, AllSized, NothingMissed, WithinBlocks, Leaving,
         \A h \in Hashers : hasher[h] = "done", main = "join hashers"
  PROVE  /\ \A s \in Sets : set[s].state = "PLS_DONE"
         /\ stats_read_buffers_allocated = 0 /\ current_open_files = 0
  <1>1. reader = "done" /\ \A h \in Hashers : queue[h] = << >> /\ job[h] = NoSet
    BY DEF Leaving, Working, Places
  <1>2. SetsOK /\ SetsSteady /\ SubmittedOnce
    BY DEF TypeOK, Working
  <1>3. ASSUME NEW s \in Sets
        PROVE  set[s].state = "PLS_DONE" /\ set[s].allocated = 0 /\ set[s].open = 0
    <2>1. PICK F, h : F = FilesOf(s) /\ h = set[s]
      OBVIOUS
    <2>2. /\ h \in PathListType(F) /\ Counted(h) /\ Balanced(h) /\ Released(h) /\ IsFiniteSet(F)
      BY <1>2, <2>1, SetsAre DEF SetsSteady, Steady, AllSized
    <2>3. h.state # "PLS_ALL_BUFFERS_READY"
      BY <1>1, <1>2, <2>1, NotHeld
    <2>4. \A f \in F : h.entry[f].state # "FS_NEED_DATA"
      BY <1>1, <2>1, NoneNeedsData
    <2>5. h.state = "PLS_DONE"
      BY <2>2, <2>3, <2>4, ReadyOrDone
    <2>6. h.allocated = 0 /\ h.open = 0
      BY <2>2, <2>5, DoneHoldsNothing
    <2> QED BY <2>1, <2>5, <2>6
  <1>4. stats_read_buffers_allocated = 0
    <2>1. PICK f : f = [t \in Sets |-> set[t].allocated]
      OBVIOUS
    <2>2. DOMAIN f = Sets /\ \A t \in Sets : f[t] = 0
      BY <1>3, <2>1
    <2>3. stats_read_buffers_allocated = SumFunction(f)
      BY <2>1 DEF stats_read_buffers_allocated, Total
    <2> QED BY <2>2, <2>3, SetsAre, SumZero DEF SumFunction
  <1>5. current_open_files = 0
    <2>1. PICK f : f = [t \in Sets |-> set[t].open]
      OBVIOUS
    <2>2. DOMAIN f = Sets /\ \A t \in Sets : f[t] = 0
      BY <1>3, <2>1
    <2>3. current_open_files = SumFunction(f)
      BY <2>1 DEF current_open_files, Total
    <2> QED BY <2>2, <2>3, SetsAre, SumZero DEF SumFunction
  <1> QED BY <1>3, <1>4, <1>5

(* What keeps all checks from stopping the program. *)
Undisturbed ==
  /\ AllGoing /\ AllSized /\ NothingMissed /\ WithinBlocks /\ Leaving /\ AllFinished

\* Each step leaves it so.
LEMMA StepUndisturbed ==
  ASSUME GrowingBuffers, TypeOK, Working, ~Exited, Cautious, Unhindered, Undisturbed,
         [Next]_vars, TypeOK'
  PROVE  ~Exited' /\ Undisturbed'
  <1> USE DEF Undisturbed
  <1>1. AllGoing' /\ \A s \in Sets : set'[s].exited = "none"
    BY StepGoes
  <1>2. SetsOK'
    BY DEF TypeOK
  <1>3. NothingMissed' /\ Leaving' /\ WithinBlocks'
    BY <1>1, <1>2, StepMisses, StepLeaves, StepWithin
  <1>4. main' # "exit(1)" /\ AllFinished'
    <2>1. CASE JoinHashers
      <3>1. main = "join hashers" /\ (\A h \in Hashers : hasher[h] = "done") /\ set' = set
        BY <2>1 DEF JoinHashers
      <3>2. /\ \A s \in Sets : set[s].state = "PLS_DONE"
            /\ stats_read_buffers_allocated = 0 /\ current_open_files = 0
        BY <3>1, AllEnd
      <3>3. main' = "done" /\ \A s \in Sets : set'[s].state = "PLS_DONE"
        BY <2>1, <3>1, <3>2 DEF JoinHashers
      <3> QED BY <3>3 DEF AllFinished
    <2>2. CASE ~JoinHashers
      <3>1. main' # "exit(1)" /\ (main' = "done" => main = "done")
        <4>1. main # "exit(1)"
          BY DEF Exited
        <4>2. CASE SkipDone \/ Submit \/ CheckBuffers \/ Flush \/ LoopEnd
          BY <4>1, <4>2 DEF SkipDone, Submit, CheckBuffers, Flush, LoopEnd
        <4>3. CASE ReadEntry
          <5>1. main' = main
            BY <4>3, Zenon DEF ReadEntry
          <5> QED BY <4>1, <5>1
        <4>4. CASE \E h \in Hashers : Get(h) \/ Hash(h) \/ SpuriousWakeup(h) \/ TellDone(h)
          BY <4>1, <4>4 DEF Get, Hash, SpuriousWakeup, TellDone
        <4>5. CASE JoinReader \/ UNCHANGED vars
          BY <4>1, <4>5 DEF JoinReader, vars
        <4> QED BY <2>2, <4>2, <4>3, <4>4, <4>5, StepIs
      <3>2. AllFinished'
        <4> SUFFICES ASSUME main = "done" PROVE \A s \in Sets : set'[s].state = "PLS_DONE"
          BY <3>1 DEF AllFinished
        <4>1. \A s \in Sets : set[s].state = "PLS_DONE"
          BY DEF AllFinished
        <4>2. set' = set
          BY <4>1, StepChanges
        <4> QED BY <4>1, <4>2
      <3> QED BY <3>1, <3>2
    <2> QED BY <2>1, <2>2
  <1>5. ~Exited'
    BY <1>1, <1>4 DEF Exited
  <1>6. AllSized'
    BY <1>5, StepSized
  <1> QED BY <1>1, <1>3, <1>4, <1>5, <1>6

\* At first nothing does.
LEMMA InitUndisturbed ==
  ASSUME Init, GrowingBuffers, PlainBlocks
  PROVE  ~Exited /\ Undisturbed
  <1>1. AllGoing /\ AllSized /\ \A s \in Sets : set[s].exited = "none"
    BY InitGoes
  <1>2. /\ rl_done = [i \in Positions |-> FALSE] /\ rlpos = 0 /\ done_files = 0
        /\ reader = IF readList = << >> THEN "done" ELSE "read"
        /\ done = [h \in Hashers |-> FALSE] /\ hasher = [h \in Hashers |-> "get"]
        /\ main = "join reader"
    BY DEF Init, Positions
  <1>3. NothingMissed
    <2>1. NPassed = 0
      <3>1. reader \in {"read", "done"} /\ rlpos = 0
        BY <1>2
      <3>2. reader \notin {"submit", "check"}
        BY <3>1
      <3> QED BY <3>1, <3>2 DEF NPassed
    <2>2. readList = << >> => Positions = {}
      <3>1. Len(<< >>) = 0
        OBVIOUS
      <3> QED BY <3>1 DEF Positions
    <2>3. \A i \in 1 .. 0 : SettledAt(i)
      OBVIOUS
    <2>4. reader = "done" => Positions = {}
      BY <1>2, <2>2
    <2>5. done_files = 0
      BY <1>2
    <2>6. PICK a, b : a = done_files /\ b = NPassed
      OBVIOUS
    <2>7. a <= b /\ 1 .. b = 1 .. 0
      BY <2>1, <2>5, <2>6
    <2>8. \A i \in 1 .. NPassed : SettledAt(i)
      BY <2>3, <2>6, <2>7
    <2> QED BY <2>4, <2>6, <2>7, <2>8 DEF NothingMissed
  <1>4. WithinBlocks
    <2> SUFFICES ASSUME NEW s \in Sets, NEW f \in Active(set[s])
                 PROVE  Cardinality(DoneOf(f)) <= set[s].entry[f].next_read_block
      BY DEF WithinBlocks
    <2>1. DoneOf(f) = {}
      BY <1>2 DEF DoneOf
    <2>2. set[s].entry[f] = NewEntry
      <3>1. set[s] = NewSet(FilesOf(s), SizeOf(s))
        BY DEF Init
      <3> QED BY <3>1 DEF NewSet, Active, InState
    <2>3. set[s].entry[f].next_read_block = 0
      BY <2>2 DEF NewEntry
    <2> QED BY <2>1, <2>3, FS_EmptySet
  <1>5. Leaving /\ AllFinished
    BY <1>2 DEF Leaving, AllFinished
  <1>6. ~Exited
    BY <1>1, <1>2 DEF Exited
  <1> QED BY <1>1, <1>3, <1>4, <1>5, <1>6 DEF Undisturbed

(* None of the sanity checks of the reader, the hashers, the flusher, the
   marking functions and process_size_list() ever stops the program
   (SanityChecksHold), for any files and blocks and any interleaving: when the
   sets are not too large and the blocks in order, as long as no gap between
   blocks fills a buffer exactly (Unfilled) and the flusher runs only when all
   files can be read (Cautious). *)
THEOREM ChecksHold ==
  GrowingBuffers /\ FewFiles /\ PlainBlocks
    => (Spec /\ []Cautious /\ []Unfilled => []SanityChecksHold)
  <1> SUFFICES ASSUME GrowingBuffers, FewFiles, PlainBlocks
               PROVE  Spec /\ []Cautious /\ []Unfilled => []SanityChecksHold
    OBVIOUS
  <1> DEFINE Inv == ~Exited /\ Undisturbed
  <1>1. Init => Inv
    BY InitUndisturbed
  <1>2. IInv /\ IInv' /\ Inv /\ Cautious /\ Unfilled /\ [Next]_vars => Inv'
    BY StepUndisturbed DEF IInv, Unhindered
  <1>3. Inv => SanityChecksHold
    BY DEF SanityChecksHold
  <1> HIDE DEF Inv
  <1> QED BY <1>1, <1>2, <1>3, PipelineSound, PTL DEF Spec

(* In the end the status counters account for every file (AccountedFor). *)
THEOREM AllAccountedFor ==
  GrowingBuffers /\ FewFiles /\ PlainBlocks
    => (Spec /\ []Cautious /\ []Unfilled => []AccountedFor)
  <1> SUFFICES ASSUME GrowingBuffers, FewFiles, PlainBlocks
               PROVE  Spec /\ []Cautious /\ []Unfilled => []AccountedFor
    OBVIOUS
  <1> DEFINE Inv == ~Exited /\ Undisturbed
  <1>1. Init => Inv
    BY InitUndisturbed
  <1>2. IInv /\ IInv' /\ Inv /\ Cautious /\ Unfilled /\ [Next]_vars => Inv'
    BY StepUndisturbed DEF IInv, Unhindered
  <1>3. IInv /\ Inv => AccountedFor
    <2> SUFFICES ASSUME IInv, Inv, main = "done", NEW s \in Sets, NEW h, h = set[s]
                 PROVE  /\ h.dups = Cardinality(InState(h, {"FS_DONE"}))
                        /\ h.unique = Cardinality(InState(h, {"FS_UNIQUE"}))
                        /\ h.processed <= 1
                        /\ h.processed = 1 \/ InState(h, {"FS_IGNORE"}) # {}
      BY DEF AccountedFor
    <2>1. h.state = "PLS_DONE" /\ Tallied(h)
      BY DEF IInv, Working, SetsSteady, Steady, Undisturbed, AllFinished
    <2> QED BY <2>1 DEF Tallied
  <1> HIDE DEF Inv
  <1> QED BY <1>1, <1>2, <1>3, PipelineSound, PTL DEF Spec

(* No file has a gap between its blocks. *)
Seamless == \A f \in Files : Joined(blocksOf[f])

(* Where no file has gaps, no check ever stops the program (SanityChecksHold) and
   the counters account for every file (AccountedFor), without a condition on the
   buffers: the reader leaves room in each buffer that it is to go on with, and a
   pass of a hasher empties it. *)
THEOREM SeamlessChecksHold ==
  GrowingBuffers /\ FewFiles /\ PlainBlocks /\ Seamless
    => (Spec /\ []Cautious => []SanityChecksHold /\ []AccountedFor)
  <1> SUFFICES ASSUME GrowingBuffers, FewFiles, PlainBlocks, Seamless
               PROVE  Spec /\ []Cautious => []SanityChecksHold /\ []AccountedFor
    OBVIOUS
  <1>1. Unfilled
    BY SetsAre DEF Unfilled, Seamless
  <1>2. Spec /\ []Cautious /\ []Unfilled => []SanityChecksHold
    BY ChecksHold
  <1>3. Spec /\ []Cautious /\ []Unfilled => []AccountedFor
    BY AllAccountedFor
  <1> QED BY <1>1, <1>2, <1>3, PTL
=============================================================================
