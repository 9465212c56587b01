----------------------------- MODULE BlockReader -----------------------------
(***************************************************************************)
(* fill_data_block() of src/sizelist.c: one visit of the reader thread to  *)
(* one file.  The file is a list of blocks on disk (extents), which may    *)
(* leave gaps between them; a visit reads from the block the file is at,   *)
(* zero-fills the gaps, and makes the file's buffer ready once it is full  *)
(* or the file ends.                                                       *)
(*                                                                         *)
(* A file's entry is a record with the fields of struct path_list_entry.   *)
(* buffer is the sequence of the bytes put into the read buffer, so its    *)
(* length is next_buffer_pos; a bufsize of 0 stands for a NULL buffer.     *)
(* hashed is what hash_ctx was fed so far.                                 *)
(***************************************************************************)
EXTENDS Integers, Sequences, Hash

CONSTANTS
  WordSize,              (* 2^32: gap sizes are computed in a uint32_t       *)
  hash_one_block_size,   (* the first buffer of a large file                 *)
  round1_max_bytes,      (* files up to this size are read at once           *)
  use_hash_cache,
  K512, MB2, MB16        (* the later buffers                                *)

ASSUME BufferSizesAssumption ==
  /\ {WordSize, hash_one_block_size, K512, MB2, MB16} \subseteq Nat \ {0}
  /\ round1_max_bytes \in Nat
  /\ use_hash_cache \in BOOLEAN

(* What the reader relies on in the block list bl of a file with the bytes c:
   the last block ends where the file does, and what no block has is zero. *)
BlockType  == [start : Nat, len : Nat, block : Nat]
End(bl, i) == bl[i].start + bl[i].len
BlockList(bl, c) ==
  /\ bl \in Seq(BlockType) /\ bl # << >>
  /\ End(bl, Len(bl)) = Len(c)
  /\ \A i \in 1 .. Len(bl) : bl[i].start <= Len(c) /\ End(bl, i) <= Len(c)
  /\ \A i \in 1 .. Len(bl), p \in 1 .. Len(c) :
       p <= bl[i].start /\ (i > 1 => p > End(bl, i - 1)) => c[p] = 0

Word(n) == n % WordSize
Smaller(m, n) == IF m <= n THEN m ELSE n

(* The buffer size a set of files of this size starts with, and the one it
   goes on with after a pass that did not complete it. *)
FirstBufsize(size) ==
  IF size <= round1_max_bytes THEN size ELSE hash_one_block_size

NextBufsize(wanted, hash_passes, size) ==
  Smaller(size, CASE use_hash_cache                      -> K512
                  [] ~use_hash_cache /\ hash_passes = 1 -> MB2
                  [] ~use_hash_cache /\ hash_passes > 2 -> MB16
                  [] OTHER                              -> wanted)

NewEntry ==
  [state |-> "FS_NEED_DATA", buffer |-> << >>, bufsize |-> 0,
   data_in_buffer |-> 0, next_read_block |-> 0, next_read_byte |-> 0,
   hashed |-> hash_fn_buf_init, fd |-> FALSE]

(* The hash of all that was read so far: that of the buffer is added. *)
update_node_hash(e) == hash_fn_buf_update(e.hashed, SubSeq(e.buffer, 1, e.data_in_buffer))

(* A definition called a mutant of another is a mutated form of it, for
   checking that the properties notice; nothing uses it. *)
GapNotZeroed(n) == [i \in 1 .. n |-> -1]     \* mutant of Zeroes

Zeroes(n) == [i \in 1 .. n |-> 0]
Space(e)  == e.bufsize - Len(e.buffer)

GrowthOfAll(e, wanted) == Word(wanted)       \* mutant of Growth

(* What the allocation counter grows by when the buffer becomes wanted bytes. *)
Growth(e, wanted) == Word(wanted - e.bufsize)

\* A first buffer, or one of the newly wanted size.
Allocate(e, wanted) ==
  IF e.bufsize = wanted THEN e
  ELSE [e EXCEPT !.bufsize = wanted, !.buffer = << >>]

\* size zero bytes, as far as they fit.
Pad(e, size) ==
  LET zeroes == Smaller(Space(e), size)
  IN  [e EXCEPT !.buffer = @ \o Zeroes(zeroes), !.next_read_byte = @ + zeroes]

\* The caller marks the entry, when ready, with mark_path_entry_ready().
Visited(e, ready, consumed) ==
  [entry |-> e, outcome |-> IF ready THEN "ready" ELSE "filling", consumed |-> consumed]
Stopped(e, outcome) == [entry |-> e, outcome |-> outcome, consumed |-> FALSE]

GapTo(e, start) == Word(start - e.next_read_byte)

(* The read itself, with e positioned in block: how much is wanted, and what
   is done with it.  content is the whole file, blocks its block list. *)
WantBytes(e, block) == Smaller(Space(e), block.start + block.len - e.next_read_byte)

\* Whether the read gets to the block's end, and a mutant of it.
ConsumesLate(e, block)   == Space(e) > block.start + block.len - e.next_read_byte
Consumes(e, block)       == Space(e) >= block.start + block.len - e.next_read_byte

\* The gap after a block read to its end, when there is a next block.
PadAfter(e, blocks) ==
  IF e.next_read_block < Len(blocks)
       /\ blocks[e.next_read_block + 1].start > e.next_read_byte
  THEN Pad(e, GapTo(e, blocks[e.next_read_block + 1].start))
  ELSE e

\* Mutant of CutByGap: a gap fills the buffer, whatever its size.
CutByAnyGap(e, blocks) ==
  /\ e.next_read_block < Len(blocks)
  /\ blocks[e.next_read_block + 1].start > e.next_read_byte

\* The gap did not fit, so the buffer is full.
CutByGap(e, blocks) ==
  /\ e.next_read_block < Len(blocks)
  /\ blocks[e.next_read_block + 1].start > e.next_read_byte
  /\ Space(e) < GapTo(e, blocks[e.next_read_block + 1].start)

AfterRead(e, blocks, content) ==
  LET block    == blocks[e.next_read_block + 1]
      want     == WantBytes(e, block)
      consumed == Consumes(e, block)
      got      == [e EXCEPT !.buffer = @ \o SubSeq(content, e.next_read_byte + 1,
                                                   e.next_read_byte + want),
                            !.next_read_byte = @ + want,
                            !.next_read_block = IF consumed THEN @ + 1 ELSE @]
      padded   == IF consumed THEN PadAfter(got, blocks) ELSE got
      filling  == want = Space(e) \/ (consumed /\ CutByGap(got, blocks))
  IN  IF padded.next_read_byte >= Len(content)
      THEN Visited([padded EXCEPT !.data_in_buffer = Len(padded.buffer)], TRUE, consumed)
      ELSE IF filling
      THEN Visited([padded EXCEPT !.data_in_buffer = padded.bufsize], TRUE, consumed)
      ELSE Visited(padded, FALSE, consumed)

(* The part after the gap before the block: the position must be within the
   block, and read_entry_bytes() does not accept a request for no bytes. *)
ReadBlock(e, blocks, content, readable) ==
  LET block == blocks[e.next_read_block + 1]
  IN  IF e.next_read_byte < block.start \/ e.next_read_byte > block.start + block.len
      THEN Stopped(e, "position_outside_block")
      ELSE IF WantBytes(e, block) = 0
      THEN Stopped(e, "requested_zero_bytes")
      ELSE IF ~readable
      THEN Stopped(e, "unreadable")
      ELSE AfterRead(e, blocks, content)

(* Whether the visit reads at all: it does not when a gap fills the buffer. *)
GapFills(e, wanted, blocks) ==
  LET a     == Allocate(e, wanted)
      start == blocks[e.next_read_block + 1].start
  IN  a.next_read_byte < start /\ Space(a) <= GapTo(a, start)

(* The entry with its buffer, and the gap before its block filled in. *)
Positioned(e, wanted, blocks) ==
  LET a     == Allocate(e, wanted)
      start == blocks[e.next_read_block + 1].start
  IN  IF a.next_read_byte < start THEN Pad(a, GapTo(a, start)) ELSE a

fill_data_block(e, wanted, blocks, content, readable) ==
  LET p == Positioned(e, wanted, blocks)
  IN  IF GapFills(e, wanted, blocks)
      THEN Visited([p EXCEPT !.data_in_buffer = p.bufsize], TRUE, FALSE)
      ELSE ReadBlock(p, blocks, content, readable)
=============================================================================
