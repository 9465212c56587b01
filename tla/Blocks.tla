------------------------------- MODULE Blocks -------------------------------
(***************************************************************************)
(* The memory that is only ever taken, never given back one by one:        *)
(* dirbuf_alloc() of src/dirtree.c for directories and their names,        *)
(* check_space() of src/paths.c for path lists.  Both hand out consecutive *)
(* regions of the last block and go on to a new block, of twice the size,  *)
(* when a request does not fit; neither looks whether it fits there.       *)
(***************************************************************************)
EXTENDS Naturals, Sequences

CONSTANTS
  init_size,       (* of the first block                                     *)
  Growth,          (* 2; 1 for path blocks with --x-small-buffers            *)
  Reserve,         (* 0; 3 for path blocks, `end - next - 2 <= needed'       *)
  MaxRequest       (* the largest request                                    *)

(* What a new block must hold.  A directory name has at most 255 bytes; its
   first block has 128 or 4096.  A path list head, an entry and a name need
   less than 4096 bytes. *)
ASSUME BlocksAssumption ==
  /\ {init_size, Reserve, MaxRequest} \subseteq Nat
  /\ Growth \in {1, 2}
  /\ MaxRequest <= Growth * init_size

VARIABLE dirbuf    (* sizes of the blocks, what is used of the last one, and
                      the regions handed out, oldest first                   *)

EmptyBuf == [sizes |-> <<init_size>>, used |-> 0, regions |-> << >>]

LastSize(buf) == buf.sizes[Len(buf.sizes)]

\* Mutant of Fits: what is used of the block is forgotten.
FitsBlock(buf, size) == LastSize(buf) >= size + Reserve

Fits(buf, size) == LastSize(buf) - buf.used >= size + Reserve

NewBlock(buf) == [buf EXCEPT !.sizes = Append(@, Growth * LastSize(buf)), !.used = 0]

Take(buf, size) ==
  [buf EXCEPT !.used = @ + size,
              !.regions = Append(@, [block |-> Len(buf.sizes), pos |-> buf.used, size |-> size])]

dirbuf_alloc(buf, size) == Take(IF Fits(buf, size) THEN buf ELSE NewBlock(buf), size)

AllocNext == \E size \in 0 .. MaxRequest : dirbuf' = dirbuf_alloc(dirbuf, size)

AllocSpec == dirbuf = EmptyBuf /\ [][AllocNext]_dirbuf

-----------------------------------------------------------------------------
(* Every region lies in its block, and no two of them overlap: what is stored
   about one directory or path is never overwritten by another. *)
RegionsApart ==
  \A i \in 1 .. Len(dirbuf.regions) :
    LET r == dirbuf.regions[i] IN
    /\ r.pos + r.size <= dirbuf.sizes[r.block]
    /\ \A j \in 1 .. i - 1 :
         dirbuf.regions[j].block = r.block =>
           dirbuf.regions[j].pos + dirbuf.regions[j].size <= r.pos
=============================================================================
