--------------------------- MODULE FillBlockProofs ---------------------------
(***************************************************************************)
(* What fill_data_block() and the hasher make of one file is right for     *)
(* files of every size, however they lie on disk, and for buffers of every *)
(* size: the bytes are the file's, each pass hashes as many of them as it  *)
(* does for any other file of that size, and the block list is not left.   *)
(***************************************************************************)
EXTENDS FillBlock, PathSetProofs

IInv ==
  /\ layout \in Layouts /\ blocks = BlocksOf(layout)
  /\ wanted_bufsize \in Nat /\ hash_passes \in Nat
  /\ EntrySound(entry, FileContent(layout), wanted_bufsize, blocks)

-----------------------------------------------------------------------------
(* Files and their block lists. *)

\* The content of a file is as many bytes as it has.
LEMMA ContentTyped ==
  ASSUME NEW l \in Layouts
  PROVE  FileContent(l) \in Seq(Nat) /\ Len(FileContent(l)) = l.size /\ l.size \in Nat \ {0}
  <1>1. l.size \in Nat \ {0}
    BY LayoutsAssumption
  <1>2. FileContent(l) \in [1 .. l.size -> Nat]
    BY <1>1 DEF FileContent
  <1> QED BY <1>1, <1>2

(* get_block_info_from_path() gives every file a block list that the reader
   can go by. *)
LEMMA BlocksSound ==
  ASSUME NEW l \in Layouts
  PROVE  BlockList(BlocksOf(l), FileContent(l))
  <1> DEFINE c  == FileContent(l)
             x  == l.extents
             bl == BlocksOf(l)
             n  == IF Len(x) < MaxExtents THEN Len(x) ELSE MaxExtents
  <1>1. c \in Seq(Nat) /\ Len(c) = l.size /\ l.size \in Nat \ {0}
    BY ContentTyped
  <1>2. x \in Seq([fe_logical : Nat, fe_length : Nat \ {0}, fe_physical : Nat])
    BY LayoutsAssumption
  <1>2a. Len(x) \in Nat /\ \A i \in 1 .. Len(x) :
           /\ x[i].fe_logical \in Nat /\ x[i].fe_length \in Nat \ {0}
           /\ x[i].fe_physical \in Nat
    <2>1. Len(x) \in Nat /\ \A i \in 1 .. Len(x) :
            x[i] \in [fe_logical : Nat, fe_length : Nat \ {0}, fe_physical : Nat]
      BY <1>2, ElementOfSeq, LenProperties
    <2> QED BY <2>1
  <1>3. \A i, j \in 1 .. Len(x) : i < j => x[i].fe_logical + x[i].fe_length <= x[j].fe_logical
    BY LayoutsAssumption
  <1>4. \A i \in 1 .. Len(x) : x[i].fe_logical < l.size
    BY LayoutsAssumption
  <1>5. MaxExtents \in Nat \ {0}
    BY BlockInfoAssumption
  <1>6. CASE x = << >>
    <2>1. bl = <<[start |-> 0, len |-> l.size, block |-> 0]>>
      BY <1>6 DEF BlocksOf, get_block_info_from_path, block_list_inode_only
    <2>2. bl \in Seq(BlockType) /\ Len(bl) = 1 /\ bl[1].start = 0 /\ bl[1].len = l.size
      BY <2>1, <1>1 DEF BlockType
    <2>3. bl # << >>
      BY <2>2
    <2> QED BY <2>2, <2>3, <1>1 DEF BlockList, End
  <1>7. CASE x # << >>
    <2> DEFINE B(i) == [start |-> x[i].fe_logical,
                        len   |-> IF i = n THEN l.size - x[i].fe_logical ELSE x[i].fe_length,
                        block |-> BlockNumber(x[i].fe_physical)]
    <2>0. n \in 1 .. Len(x)
      BY <1>2, <1>2a, <1>5, <1>7, EmptySeq
    <2>1. bl = [i \in 1 .. n |-> B(i)]
      BY <1>7 DEF BlocksOf, get_block_info_from_path, BlocksOfExtents
    <2>2. \A i \in 1 .. n : B(i) \in BlockType
      <3>1. \A m \in Nat : BlockNumber(m) \in Nat
        BY DEF BlockNumber
      <3> SUFFICES ASSUME NEW i \in 1 .. n PROVE B(i) \in BlockType
        OBVIOUS
      <3>2. i \in 1 .. Len(x)
        BY <2>0
      <3>3. /\ x[i].fe_logical \in Nat /\ x[i].fe_length \in Nat /\ x[i].fe_physical \in Nat
            /\ l.size - x[i].fe_logical \in Nat
        BY <3>2, <1>1, <1>2a, <1>4
      <3> QED BY <3>1, <3>3 DEF BlockType
    <2>3. bl \in [1 .. n -> BlockType]
      BY <2>1, <2>2
    <2>4. bl \in Seq(BlockType) /\ Len(bl) = n
      BY <2>0, <2>3, FunctionIsSeq
    <2>5. \A i \in 1 .. n : /\ bl[i].start = x[i].fe_logical
                            /\ End(bl, i) = IF i = n THEN l.size ELSE x[i].fe_logical + x[i].fe_length
      <3> SUFFICES ASSUME NEW i \in 1 .. n
                   PROVE  /\ bl[i].start = x[i].fe_logical
                          /\ End(bl, i) = IF i = n THEN l.size
                                          ELSE x[i].fe_logical + x[i].fe_length
        OBVIOUS
      <3>1. bl[i] = B(i)
        BY <2>1
      <3>2. x[i].fe_logical \in Nat /\ l.size \in Nat
        BY <2>0, <1>1, <1>2a
      <3>3. l.size = x[i].fe_logical + (l.size - x[i].fe_logical)
        BY <3>2
      <3> QED BY <3>1, <3>3 DEF End
    <2> HIDE DEF bl, B, c, x, n
    <2>6. bl # << >> /\ End(bl, Len(bl)) = Len(c)
      BY <2>0, <2>4, <2>5, <1>1, EmptySeq
    <2>7. \A i \in 1 .. n : bl[i].start <= Len(c) /\ End(bl, i) <= Len(c)
      <3> SUFFICES ASSUME NEW i \in 1 .. n PROVE bl[i].start <= Len(c) /\ End(bl, i) <= Len(c)
        OBVIOUS
      <3>1. CASE i = n
        BY <3>1, <2>0, <2>5, <1>1, <1>2a, <1>4
      <3>2. CASE i # n
        <4>1. i \in 1 .. Len(x) /\ n \in 1 .. Len(x) /\ i < n
          BY <3>2, <2>0
        <4>2. x[i].fe_logical + x[i].fe_length <= x[n].fe_logical
          BY <4>1, <1>3
        <4>3. /\ x[n].fe_logical < l.size /\ x[i].fe_logical \in Nat
              /\ x[i].fe_length \in Nat /\ x[n].fe_logical \in Nat /\ l.size \in Nat
          BY <4>1, <1>1, <1>2a, <1>4
        <4>4. bl[i].start = x[i].fe_logical /\ End(bl, i) = x[i].fe_logical + x[i].fe_length
          BY <3>2, <2>5
        <4> QED BY <4>2, <4>3, <4>4, <1>1
      <3> QED BY <3>1, <3>2
    <2>8. ASSUME NEW i \in 1 .. n, NEW p \in 1 .. Len(c), p <= bl[i].start,
                 i > 1 => p > End(bl, i - 1)
          PROVE  c[p] = 0
      <3>1. i \in 1 .. Len(x) /\ p <= x[i].fe_logical
        BY <2>0, <2>5, <2>8
      <3>2. ASSUME NEW j \in 1 .. Len(x), p > x[j].fe_logical,
                   p <= x[j].fe_logical + x[j].fe_length
            PROVE  FALSE
        <4>1. j < i
          <5>1. ASSUME i < j PROVE FALSE
            <6>1. x[i].fe_logical + x[i].fe_length <= x[j].fe_logical
              BY <5>1, <3>1, <1>3
            <6>2. /\ x[i].fe_logical \in Nat /\ x[i].fe_length \in Nat
                  /\ x[j].fe_logical \in Nat
              BY <3>1, <1>2a
            <6> QED BY <6>1, <6>2, <3>1, <3>2
          <5>2. i # j
            BY <3>1, <3>2, <1>2a
          <5> QED BY <5>1, <5>2, <3>1
        <4>2. i - 1 \in 1 .. n /\ i - 1 # n /\ i - 1 \in 1 .. Len(x) /\ j <= i - 1
          BY <4>1, <2>0
        <4>3. p > x[i - 1].fe_logical + x[i - 1].fe_length
          BY <4>1, <4>2, <2>5, <2>8
        <4>4. CASE j = i - 1
          <5>1. x[j].fe_logical \in Nat /\ x[j].fe_length \in Nat
            BY <1>2a
          <5> QED BY <5>1, <4>3, <4>4, <3>2
        <4>5. CASE j < i - 1
          <5>1. x[j].fe_logical + x[j].fe_length <= x[i - 1].fe_logical
            BY <4>2, <4>5, <1>3
          <5>2. /\ x[i - 1].fe_logical \in Nat /\ x[i - 1].fe_length \in Nat
                /\ x[j].fe_logical \in Nat /\ x[j].fe_length \in Nat
            BY <4>2, <1>2a
          <5> QED BY <5>1, <5>2, <4>3, <3>2
        <4> QED BY <4>2, <4>4, <4>5
      <3>3. c = [q \in 1 .. l.size |->
                   IF \E j \in 1 .. Len(x) : /\ q > x[j].fe_logical
                                             /\ q <= x[j].fe_logical + x[j].fe_length
                   THEN q ELSE 0]
        BY DEF c, x, FileContent
      <3> QED BY <3>2, <3>3, <1>1
    <2> QED BY <2>4, <2>6, <2>7, <2>8 DEF BlockList, c, bl
  <1> QED BY <1>6, <1>7

-----------------------------------------------------------------------------
(* The invariant is inductive. *)
LEMMA InitSound ==
  ASSUME FillInit PROVE IInv
  <1> DEFINE c == FileContent(layout)
  <1>1. layout \in Layouts /\ blocks = BlocksOf(layout) /\ hash_passes = 0
    BY DEF FillInit
  <1>2. c \in Seq(Nat) /\ Len(c) = layout.size /\ layout.size \in Nat \ {0}
    BY <1>1, ContentTyped
  <1>3. wanted_bufsize \in Nat
    BY <1>2, BufsizesTyped DEF FillInit
  <1>4. /\ entry.state = "FS_NEED_DATA" /\ entry.buffer = << >> /\ entry.bufsize = 0
        /\ entry.next_read_block = 0 /\ entry.next_read_byte = 0 /\ entry.hashed = << >>
    BY DEF FillInit, NewEntry, hash_fn_buf_init
  <1>5. << >> \in Seq(Nat) /\ Len(<< >>) = 0
    BY EmptySeq
  <1>6. entry \in EntryType
    BY <1>5, Zenon DEF FillInit, NewEntry, hash_fn_buf_init, EntryType, FileStates
  <1>7. First(c, 0) = << >>
    BY <1>2, FirstAndPart, EmptySeq
  <1>8. IsPrefixOf(<< >>, << >>, c, 0)
    BY <1>7, <1>5, ConcatEmptySeq DEF IsPrefixOf
  <1>9. BlockList(blocks, c)
    BY <1>1, BlocksSound
  <1>10. Len(blocks) \in Nat
    BY <1>9, LenProperties DEF BlockList
  <1> HIDE DEF c
  <1>11. Data(entry, c, wanted_bufsize) /\ AtBlock(entry, blocks)
    BY <1>2, <1>4, <1>5, <1>6, <1>8, <1>10 DEF Data, AtBlock
  <1>12. EntrySound(entry, c, wanted_bufsize, blocks)
    BY <1>2, <1>4, <1>11 DEF EntrySound
  <1> QED BY <1>1, <1>3, <1>12 DEF IInv, c

\* Every step keeps the invariant.
LEMMA StepSound ==
  ASSUME IInv, [FillNext]_fillvars PROVE IInv'
  <1> DEFINE c == FileContent(layout)
  <1>1. /\ layout \in Layouts /\ blocks = BlocksOf(layout)
        /\ wanted_bufsize \in Nat /\ hash_passes \in Nat
        /\ EntrySound(entry, c, wanted_bufsize, blocks)
    BY DEF IInv
  <1>2. c \in Seq(Nat) /\ Len(c) = layout.size /\ layout.size \in Nat
    BY <1>1, ContentTyped
  <1>3. BlockList(blocks, c)
    BY <1>1, BlocksSound
  <1>4. CASE Fill
    <2> DEFINE r == Visit(entry, wanted_bufsize, blocks, c)
               s == IF r.outcome = "ready" THEN "FS_BUFFER_READY" ELSE r.entry.state
    <2>1. /\ entry.state = "FS_NEED_DATA"
          /\ UNCHANGED <<layout, blocks, wanted_bufsize, hash_passes>>
      BY <1>4 DEF Fill
    <2>2. IF r.outcome \in {"ready", "filling"}
          THEN entry' = [r.entry EXCEPT !.state = s] ELSE entry' = entry
      BY <1>4, Zenon DEF Fill, Visit
    <2> HIDE DEF c, r, s
    <2>3. EntrySound(entry', c, wanted_bufsize, blocks)
      <3>1. CASE r.outcome \in {"ready", "filling"}
        <4>1. entry' = [r.entry EXCEPT !.state = s]
          BY <2>2, <3>1
        <4> QED BY <1>1, <1>2, <1>3, <2>1, <3>1, <4>1, FillSound DEF r, s
      <3>2. CASE r.outcome \notin {"ready", "filling"}
        BY <1>1, <2>2, <3>2
      <3> QED BY <3>1, <3>2
    <2> QED BY <1>1, <2>1, <2>3 DEF IInv, c
  <1>5. CASE Hash
    <2> DEFINE s == IF entry.next_read_byte >= Len(c) THEN "FS_DONE" ELSE "FS_NEED_DATA"
               h == update_node_hash(entry)
    <2>1. /\ entry.state = "FS_BUFFER_READY" /\ hash_passes' = hash_passes + 1
          /\ UNCHANGED <<layout, blocks>>
      BY <1>5 DEF Hash
    <2>2. entry' = WithHashed(entry, h, s)
      BY <1>2, <1>5 DEF Hash, WithHashed
    <2>3. wanted_bufsize' \in Nat
      <3>1. wanted_bufsize' = IF entry.next_read_byte >= layout.size THEN wanted_bufsize
                              ELSE NextBufsize(wanted_bufsize, hash_passes + 1, layout.size)
        BY <1>5 DEF Hash
      <3>2. hash_passes + 1 \in Nat
        BY <1>1
      <3>3. NextBufsize(wanted_bufsize, hash_passes + 1, layout.size) \in Nat
        BY <1>1, <1>2, <3>2, BufsizesTyped
      <3> QED BY <1>1, <3>1, <3>3
    <2>4. EntrySound(entry', c, wanted_bufsize', blocks)
      <3>1. /\ c \in Seq(Nat) /\ wanted_bufsize \in Nat
            /\ EntrySound(entry, c, wanted_bufsize, blocks)
        BY <1>1, <1>2
      <3>2. h = update_node_hash(entry)
        OBVIOUS
      <3>3. s = IF entry.next_read_byte >= Len(c) THEN "FS_DONE" ELSE "FS_NEED_DATA"
        OBVIOUS
      <3> HIDE DEF c, h, s
      <3> DEFINE g == entry'
                 w2 == wanted_bufsize'
      <3>4. w2 \in Nat
        BY <2>3
      <3>5. g = WithHashed(entry, h, s)
        BY <2>2
      <3> HIDE DEF g, w2
      <3>6. EntrySound(g, c, w2, blocks)
        BY <3>1, <2>1, <3>2, <3>3, <3>4, <3>5, HashSound
      <3> QED BY <3>6 DEF g, w2
    <2> HIDE DEF c
    <2> QED BY <1>1, <2>1, <2>3, <2>4 DEF IInv, c
  <1>6. CASE UNCHANGED fillvars
    BY <1>6 DEF IInv, fillvars
  <1>7. CASE Finished
    BY <1>6, <1>7 DEF Finished
  <1> QED BY <1>4, <1>5, <1>6, <1>7 DEF FillNext

(* Every reachable state has the invariant. *)
THEOREM Invariance == FillSpec => []IInv
  <1>1. FillInit => IInv
    BY InitSound
  <1>2. IInv /\ [FillNext]_fillvars => IInv'
    BY StepSound
  <1> QED BY <1>1, <1>2, PTL DEF FillSpec

-----------------------------------------------------------------------------
(* fill_data_block() hands the hash the bytes of the file, in order and without
   loss, however the file lies on disk. *)
THEOREM ReadsThePrefix == FillSpec => []DataIsFilePrefix
  <1>1. IInv => DataIsFilePrefix
    BY DEF IInv, EntrySound, Data, IsPrefixOf, First, DataIsFilePrefix
  <1> QED BY <1>1, Invariance, PTL

(* The reader indexes only blocks that the file has. *)
THEOREM StaysInList == FillSpec => []BlockInList
  <1>1. ASSUME IInv, entry.state = "FS_NEED_DATA" PROVE entry.next_read_block < Len(blocks)
    <2> DEFINE c == FileContent(layout)
    <2>1. /\ layout \in Layouts /\ blocks = BlocksOf(layout) /\ wanted_bufsize \in Nat
          /\ Data(entry, c, wanted_bufsize) /\ AtBlock(entry, blocks)
          /\ entry.next_read_byte < Len(c)
      BY <1>1 DEF IInv, EntrySound
    <2>2. c \in Seq(Nat) /\ BlockList(blocks, c)
      BY <2>1, ContentTyped, BlocksSound
    <2> HIDE DEF c
    <2> QED BY <2>1, <2>2, WithinList
  <1>2. IInv => BlockInList
    BY <1>1 DEF BlockInList
  <1> QED BY <1>2, Invariance, PTL

(* Each pass hashes as many bytes of a file as of the others of its size: what
   is ready depends on the size of the file and of the buffer, and not on how
   the file lies on disk. *)
THEOREM RoundsAreAligned == FillSpec => []RoundsAligned
  <1>1. ASSUME IInv, entry.state = "FS_BUFFER_READY"
        PROVE  /\ entry.data_in_buffer = Len(entry.buffer)
               /\ entry.data_in_buffer = Smaller(wanted_bufsize, layout.size - Len(entry.hashed))
    <2> DEFINE c == FileContent(layout)
               h == Len(entry.hashed)
               b == Len(entry.buffer)
               n == entry.next_read_byte
               size == layout.size
               w == wanted_bufsize
    <2>1. /\ layout \in Layouts /\ w \in Nat
          /\ Data(entry, c, w) /\ Ready(entry, c, w)
      BY <1>1 DEF IInv, EntrySound
    <2>2. c \in Seq(Nat) /\ Len(c) = size /\ size \in Nat
      BY <2>1, ContentTyped
    <2>3. entry \in EntryType /\ IsPrefixOf(entry.hashed, entry.buffer, c, n) /\ n <= size
      BY <2>1, <2>2 DEF Data
    <2>4. entry.hashed \in Seq(Nat) /\ entry.buffer \in Seq(Nat) /\ n \in Nat
      BY <2>3 DEF EntryType
    <2>5. h + b = n
      <3> DEFINE hashed == entry.hashed
                 buffer == entry.buffer
      <3> HIDE DEF c, n, size, hashed, buffer
      <3>1. c \in Seq(Nat) /\ n \in Nat /\ n <= Len(c)
        BY <2>2, <2>3, <2>4
      <3>2. /\ hashed \in Seq(Nat) /\ buffer \in Seq(Nat)
            /\ IsPrefixOf(hashed, buffer, c, n)
        BY <2>3, <2>4 DEF hashed, buffer
      <3>3. Len(hashed) + Len(buffer) = n
        BY <3>1, <3>2, LengthsAddUp
      <3> QED BY <3>3 DEF hashed, buffer
    <2>6. h \in Nat /\ b \in Nat
      BY <2>4, LenProperties
    <2>7. entry.data_in_buffer = b /\ b <= w /\ (b = w \/ n = size)
      BY <2>1, <2>2 DEF Data, Ready
    <2> HIDE DEF c, h, b, n, size, w
    <2>8. b = Smaller(w, size - h)
      BY <2>1, <2>2, <2>3, <2>4, <2>5, <2>6, <2>7 DEF Smaller
    <2> QED BY <2>7, <2>8 DEF b, h, size, w
  <1>2. IInv => RoundsAligned
    BY <1>1 DEF RoundsAligned
  <1> QED BY <1>2, Invariance, PTL
=============================================================================
