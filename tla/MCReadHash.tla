---------------------------- MODULE MCReadHash ----------------------------
(***************************************************************************)
(* ReadHash for TLC: a set of three files of 4 bytes, and one of two files *)
(* of 2 bytes.  The first set takes three passes (1, 2 and 1 bytes), the   *)
(* second one two.  File 1 is in two blocks with a gap between them that   *)
(* are on disk in reverse order, so that the reader needs several loops.   *)
(***************************************************************************)
EXTENDS ReadHash

MCFiles == 1 .. 5
MCSetOf == [f \in MCFiles |-> IF f <= 3 THEN 1 ELSE 2]

Block(start, len, block) == [start |-> start, len |-> len, block |-> block]
MCBlocksOf ==
  [f \in MCFiles |-> CASE f = 1 -> <<Block(0, 1, 50), Block(2, 2, 10)>>
                       [] f = 2 -> <<Block(0, 4, 20)>>
                       [] f = 3 -> <<Block(0, 3, 30), Block(3, 1, 60)>>
                       [] OTHER -> <<Block(0, 2, f * 10 + 1)>>]

\* In the order of the disk blocks above.
Read(f, b) == [file |-> f, block |-> b]
MCReadList ==
  <<Read(1, 10), Read(2, 20), Read(3, 30), Read(4, 41), Read(1, 50), Read(5, 51), Read(3, 60)>>

(* Files that differ from the first one of their set in the first, second or
   last byte, or not at all.  The second byte of file 1 is in its gap. *)
Long  == {<<1, 0, 1, 1>>, <<2, 0, 1, 1>>, <<1, 2, 1, 1>>, <<1, 0, 1, 2>>}
Short == {<<1, 1>>, <<1, 2>>}
MCContents ==
  {c \in [MCFiles -> Long \cup Short] :
     /\ \A f \in MCFiles : c[f] \in IF f <= 3 THEN Long ELSE Short
     /\ c[1] = <<1, 0, 1, 1>> /\ c[4] = <<1, 1>>}

(* Fewer of them for the run in which reads fail. *)
FailContents ==
  {c \in MCContents : /\ c[2] \in {c[1], <<1, 0, 1, 2>>}
                      /\ c[3] \in {c[1], <<2, 0, 1, 1>>, <<1, 0, 1, 2>>}
                      /\ c[5] = c[4]}

(* Options and files that fail: memory that makes the flusher run while all
   files can be read, files that fail while there is memory enough, and both. *)
Instance(contents, failing, limit) ==
  {[content |-> c, unreliable |-> failing, buffer_limit |-> limit] : c \in contents}
FlushOrFail  == Instance(MCContents, {}, 7) \cup Instance(FailContents, {1, 2, 4}, 1000)
FlushAndFail == Instance(FailContents, {1, 2, 4}, 6)
Fail         == Instance(FailContents, {1, 2, 4}, 1000)
=============================================================================
