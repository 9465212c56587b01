---------------------------- MODULE MCFillBlock ----------------------------
(***************************************************************************)
(* FillBlock for TLC: every layout of extents and holes of a file of up to *)
(* 7 bytes, with buffers of 2 bytes for the first three passes, then of 3. *)
(***************************************************************************)
EXTENDS FillBlock, FiniteSets

Sizes == 1 .. 7

(* Which byte starts an extent, continues one, or lies in a hole. *)
Patterns(size) ==
  {l \in [0 .. size - 1 -> {"start", "more", "hole"}] :
     \A p \in 0 .. size - 1 : l[p] = "more" => p > 0 /\ l[p - 1] # "hole"}

ExtentsOf(l, size) ==
  LET starts   == {p \in 0 .. size - 1 : l[p] = "start"}
      Start(i) == CHOOSE p \in starts : Cardinality({q \in starts : q < p}) = i - 1
      EndOf(p) == CHOOSE e \in p + 1 .. size :
                  /\ \A q \in p + 1 .. e - 1 : l[q] = "more"
                  /\ e < size => l[e] # "more"
  IN  [i \in 1 .. Cardinality(starts) |->
         [fe_logical |-> Start(i), fe_physical |-> 1,
          fe_length  |-> (EndOf(Start(i)) - Start(i)) + (IF EndOf(Start(i)) = size THEN 1 ELSE 0)]]

\* An extent that gets to the end of the file goes one byte beyond it.
AllLayouts ==
  UNION {{[size |-> size, extents |-> ExtentsOf(l, size)] : l \in Patterns(size)} :
         size \in Sizes}

(* Where the passes over a file larger than round1_max_bytes end, with the
   sizes of the configuration. *)
PassEnds == {2, 4, 6}

\* A gap that begins within a pass and ends exactly where that pass does.
GapEndsPass(l) ==
  LET bl == BlocksOf(l) IN
  \E i \in 1 .. Len(bl) - 1 :
    LET from == bl[i].start + bl[i].len
        to   == bl[i + 1].start
    IN  /\ l.size > round1_max_bytes
        /\ from < to
        /\ to \in PassEnds
        /\ \A e \in PassEnds : ~(from <= e /\ e < to)

(* The files the code reads to the end. *)
ReadableLayouts == {l \in AllLayouts : ~GapEndsPass(l)}
=============================================================================
