-------------------------- MODULE ScanDriverProofs --------------------------
(***************************************************************************)
(* dirbuf_alloc() and check_space() never look whether a request fits into *)
(* the new block they make for it.  It does, whatever the sizes: regions   *)
(* lie within their blocks and never overlap.  So it is with the           *)
(* directories of a scan: whatever the file system, the options and the    *)
(* order in which main thread, worker and status thread run, each          *)
(* directory and each name keeps the memory it was given.                  *)
(*                                                                         *)
(* Then, with the same freedom: what stops a scan, and what the command    *)
(* line leads to; that each file is given to the size tree once, since the *)
(* walk is a partition of what is below the start paths into what it found *)
(* and what is still ahead of it; and that the path of a file comes back   *)
(* from the names of its directories.                                      *)
(***************************************************************************)
EXTENDS ScanDriver, FiniteSetTheorems, SequenceTheorems, WellFoundedInduction, TLAPS

Region == [block : Nat, pos : Nat, size : Nat]
Buf    == [sizes : Seq(Nat), used : Nat, regions : Seq(Region)]

(* All blocks are as large as the first; what is used of the last one covers
   every region in it. *)
BlocksOK(buf) ==
  /\ Len(buf.sizes) > 0
  /\ \A b \in 1 .. Len(buf.sizes) : buf.sizes[b] >= init_size
  /\ buf.used <= LastSize(buf)

RegionOK(buf, r) ==
  /\ r.block \in 1 .. Len(buf.sizes)
  /\ r.pos + r.size <= buf.sizes[r.block]
  /\ r.block = Len(buf.sizes) => r.pos + r.size <= buf.used

After(r, s) == s.block = r.block => s.pos + s.size <= r.pos

RegionsOK(buf) ==
  \A i \in 1 .. Len(buf.regions) :
    /\ RegionOK(buf, buf.regions[i])
    /\ \A j \in 1 .. i - 1 : After(buf.regions[i], buf.regions[j])

Sound(buf) == buf \in Buf /\ BlocksOK(buf) /\ RegionsOK(buf)

-----------------------------------------------------------------------------
(* The elements of a sequence with one more at its end. *)
LEMMA Appended ==
  ASSUME NEW S, NEW s \in Seq(S), NEW e \in S
  PROVE  /\ Append(s, e) \in Seq(S)
         /\ Len(Append(s, e)) = Len(s) + 1
         /\ Append(s, e)[Len(s) + 1] = e
         /\ \A i \in 1 .. Len(s) : Append(s, e)[i] = s[i]
  OBVIOUS

(* A new block is no smaller than the first one, and holds any request. *)
LEMMA NewBlockHolds ==
  ASSUME NEW buf, Sound(buf)
  PROVE  /\ LastSize(buf) \in Nat /\ LastSize(buf) >= init_size
         /\ Growth * LastSize(buf) \in Nat
         /\ Growth * LastSize(buf) >= init_size
         /\ Growth * LastSize(buf) >= MaxRequest
  <1>1. LastSize(buf) \in Nat /\ LastSize(buf) >= init_size
    BY DEF Sound, Buf, BlocksOK, LastSize
  <1>2. init_size \in Nat /\ MaxRequest \in Nat /\ Growth \in {1, 2}
        /\ MaxRequest <= Growth * init_size
    BY BlocksAssumption
  <1>3. CASE Growth = 1
    BY <1>1, <1>2, <1>3
  <1>4. CASE Growth = 2
    BY <1>1, <1>2, <1>4
  <1> QED BY <1>2, <1>3, <1>4

(* With a new block everything is as sound as before. *)
LEMMA NewBlockSound ==
  ASSUME NEW buf, Sound(buf)
  PROVE  Sound(NewBlock(buf)) /\ LastSize(NewBlock(buf)) - NewBlock(buf).used >= MaxRequest
  <1> DEFINE n == Len(buf.sizes)
             b == NewBlock(buf)
             next == Growth * LastSize(buf)
  <1>1. /\ buf \in Buf /\ buf.sizes \in Seq(Nat) /\ n \in Nat /\ n > 0
        /\ init_size \in Nat /\ MaxRequest \in Nat
    BY BlocksAssumption DEF Sound, Buf, BlocksOK
  <1>2. next \in Nat /\ next >= init_size /\ next >= MaxRequest
    BY NewBlockHolds
  <1>3. /\ b \in Buf /\ b.sizes = Append(buf.sizes, next)
        /\ b.used = 0 /\ b.regions = buf.regions
    <2> HIDE DEF next
    <2>1. Append(buf.sizes, next) \in Seq(Nat)
      BY <1>1, <1>2, Appended
    <2>2. b = [buf EXCEPT !.sizes = Append(buf.sizes, next), !.used = 0]
      BY DEF NewBlock, next
    <2>3. b = [sizes |-> Append(buf.sizes, next), used |-> 0, regions |-> buf.regions]
      BY <1>1, <2>2 DEF Buf
    <2> QED BY <1>1, <2>1, <2>3 DEF Buf
  <1>4. /\ Len(b.sizes) = n + 1 /\ b.sizes[n + 1] = next
        /\ \A i \in 1 .. n : b.sizes[i] = buf.sizes[i]
    BY <1>1, <1>2, <1>3, Appended
  <1>5. LastSize(b) = next
    BY <1>4 DEF LastSize
  <1>6. BlocksOK(b)
    <2>1. ASSUME NEW i \in 1 .. Len(b.sizes) PROVE b.sizes[i] >= init_size
      <3>1. CASE i \in 1 .. n
        BY <1>4, <3>1 DEF Sound, BlocksOK
      <3>2. CASE i = n + 1
        BY <1>2, <1>4, <3>2
      <3> QED BY <1>1, <1>4, <2>1, <3>1, <3>2
    <2> QED BY <1>1, <1>2, <1>3, <1>4, <1>5, <2>1 DEF BlocksOK
  <1>7. ASSUME NEW r \in Region, RegionOK(buf, r) PROVE RegionOK(b, r)
    <2> HIDE DEF b, n
    <2>1. r.block \in 1 .. n /\ r.pos + r.size <= buf.sizes[r.block]
      BY <1>7 DEF RegionOK, n
    <2>2. b.sizes[r.block] = buf.sizes[r.block] /\ r.block \in 1 .. n + 1 /\ r.block # n + 1
      BY <1>1, <1>4, <2>1
    <2> QED BY <1>4, <2>1, <2>2 DEF RegionOK
  <1>8. RegionsOK(b)
    <2>1. \A i \in 1 .. Len(buf.regions) : buf.regions[i] \in Region
      BY <1>1 DEF Buf
    <2> QED BY <1>3, <1>7, <2>1 DEF Sound, RegionsOK
  <1> QED BY <1>1, <1>2, <1>3, <1>5, <1>6, <1>8 DEF Sound

(* A region taken where there is room for it is apart from all others. *)
LEMMA TakeSound ==
  ASSUME NEW buf, Sound(buf), NEW size \in Nat, LastSize(buf) - buf.used >= size
  PROVE  Sound(Take(buf, size))
  <1> DEFINE n == Len(buf.sizes)
             m == Len(buf.regions)
             t == Take(buf, size)
             new == [block |-> n, pos |-> buf.used, size |-> size]
  <1>1. /\ buf \in Buf /\ n \in Nat /\ n > 0 /\ m \in Nat /\ buf.used \in Nat
        /\ buf.regions \in Seq(Region) /\ \A i \in 1 .. m : buf.regions[i] \in Region
        /\ LastSize(buf) \in Nat
    <2>1. buf \in Buf /\ Len(buf.sizes) > 0
      BY DEF Sound, BlocksOK
    <2>2. /\ buf.sizes \in Seq(Nat) /\ buf.used \in Nat /\ buf.regions \in Seq(Region)
      BY <2>1 DEF Buf
    <2>3. n \in Nat /\ m \in Nat /\ \A i \in 1 .. m : buf.regions[i] \in Region
      BY <2>2
    <2>4. LastSize(buf) \in Nat
      BY NewBlockHolds
    <2> QED BY <2>1, <2>2, <2>3, <2>4
  <1>2. new \in Region
    BY <1>1 DEF Region
  <1>3. /\ t \in Buf /\ t.sizes = buf.sizes
        /\ t.used = buf.used + size /\ t.regions = Append(buf.regions, new)
    <2> HIDE DEF new
    <2>1. Append(buf.regions, new) \in Seq(Region) /\ buf.used + size \in Nat
      BY <1>1, <1>2, Appended
    <2>2. t = [buf EXCEPT !.used = buf.used + size, !.regions = Append(buf.regions, new)]
      BY DEF Take, new
    <2>3. t = [sizes |-> buf.sizes, used |-> buf.used + size,
               regions |-> Append(buf.regions, new)]
      BY <1>1, <2>2 DEF Buf
    <2> QED BY <1>1, <2>1, <2>3 DEF Buf
  <1>4. /\ Len(t.regions) = m + 1 /\ t.regions[m + 1] = new
        /\ \A i \in 1 .. m : t.regions[i] = buf.regions[i]
    BY <1>1, <1>2, <1>3, Appended
  <1>5. BlocksOK(t)
    BY <1>1, <1>3 DEF Sound, BlocksOK, LastSize
  <1>6. RegionOK(t, new)
    BY <1>1, <1>3 DEF RegionOK, LastSize
  <1>7. ASSUME NEW r \in Region, RegionOK(buf, r) PROVE RegionOK(t, r) /\ After(new, r)
    BY <1>1, <1>3, <1>7 DEF RegionOK, Region, After
  <1>8. RegionsOK(t)
    <2>1. ASSUME NEW i \in 1 .. Len(t.regions)
          PROVE  /\ RegionOK(t, t.regions[i])
                 /\ \A j \in 1 .. i - 1 : After(t.regions[i], t.regions[j])
      <3>1. CASE i \in 1 .. m
        <4>1. /\ RegionOK(buf, buf.regions[i])
              /\ \A j \in 1 .. i - 1 : After(buf.regions[i], buf.regions[j])
          BY <3>1 DEF Sound, RegionsOK
        <4>2. \A j \in 1 .. i - 1 : j \in 1 .. m
          BY <1>1, <3>1
        <4> QED BY <1>1, <1>4, <1>7, <3>1, <4>1, <4>2
      <3>2. CASE i = m + 1
        <4>1. \A j \in 1 .. m : After(new, buf.regions[j])
          BY <1>1, <1>7 DEF Sound, RegionsOK
        <4>2. \A j \in 1 .. i - 1 : j \in 1 .. m
          BY <1>1, <3>2
        <4> QED BY <1>4, <1>6, <3>2, <4>1, <4>2
      <3> QED BY <1>1, <1>4, <2>1, <3>1, <3>2
    <2> QED BY <2>1 DEF RegionsOK
  <1> QED BY <1>3, <1>5, <1>8 DEF Sound

(* A request is served soundly, whether it fits or needs a block. *)
LEMMA AllocSound ==
  ASSUME NEW buf, Sound(buf), NEW size \in 0 .. MaxRequest
  PROVE  Sound(dirbuf_alloc(buf, size))
  <1>1. size \in Nat /\ size <= MaxRequest /\ MaxRequest \in Nat /\ Reserve \in Nat
    BY BlocksAssumption
  <1>2. CASE Fits(buf, size)
    <2>1. LastSize(buf) \in Nat /\ buf.used \in Nat
      BY NewBlockHolds DEF Sound, Buf
    <2>2. LastSize(buf) - buf.used >= size
      BY <1>1, <1>2, <2>1 DEF Fits
    <2> QED BY <1>1, <1>2, <2>2, TakeSound DEF dirbuf_alloc
  <1>3. CASE ~Fits(buf, size)
    <2> DEFINE b == NewBlock(buf)
    <2>1. Sound(b) /\ LastSize(b) - b.used >= MaxRequest
      BY NewBlockSound
    <2>2. LastSize(b) \in Nat /\ b.used \in Nat
      BY <2>1, NewBlockHolds DEF Sound, Buf
    <2>3. LastSize(b) - b.used >= size
      BY <1>1, <2>1, <2>2
    <2> HIDE DEF b
    <2>4. Sound(Take(b, size))
      BY <1>1, <2>1, <2>3, TakeSound
    <2> QED BY <1>3, <2>4 DEF dirbuf_alloc, b
  <1> QED BY <1>2, <1>3

(* The block made at the start. *)
LEMMA EmptySound == Sound(EmptyBuf)
  <1>1. init_size \in Nat
    BY BlocksAssumption
  <1>2. EmptyBuf \in Buf /\ Len(EmptyBuf.sizes) = 1 /\ EmptyBuf.sizes[1] = init_size
        /\ EmptyBuf.used = 0 /\ Len(EmptyBuf.regions) = 0
    BY <1>1 DEF EmptyBuf, Buf
  <1> QED BY <1>1, <1>2 DEF Sound, BlocksOK, RegionsOK, LastSize

\* Sound blocks are what the invariant of the run asks for.
LEMMA SoundApart == Sound(dirbuf) => RegionsApart
  BY DEF Sound, RegionsOK, RegionOK, After, RegionsApart

(* What dirbuf_alloc() hands out never overlaps and stays within its block, for
   any size of the first block, growth, reserve and largest request that meet
   BlocksAssumption, and for every sequence of requests. *)
THEOREM AllocationsApart == AllocSpec => []RegionsApart
  <1>1. dirbuf = EmptyBuf => Sound(dirbuf)
    BY EmptySound
  <1>2. Sound(dirbuf) /\ [AllocNext]_dirbuf => Sound(dirbuf)'
    <2> SUFFICES ASSUME Sound(dirbuf), [AllocNext]_dirbuf PROVE Sound(dirbuf')
      BY DEF Sound
    <2>1. CASE AllocNext
      BY <2>1, AllocSound DEF AllocNext
    <2>2. CASE UNCHANGED dirbuf
      BY <2>2
    <2> QED BY <2>1, <2>2
  <1> QED BY <1>1, <1>2, SoundApart, PTL DEF AllocSpec

-----------------------------------------------------------------------------
Names == Seq(STRING)

(* The names that readdir() has yet to return are names: new_child_dir() asks
   for no more than their length, cut to a byte. *)
WalkInv ==
  /\ \E i \in Instances : fs = i.fs
  /\ left \subseteq Names
  /\ Sound(dirbuf)

Untouched == UNCHANGED <<fs, left, dirbuf>>

-----------------------------------------------------------------------------
(* A new directory takes two regions, or one if it is the root. *)
LEMMA ChildSound ==
  ASSUME Sound(dirbuf), NEW name \in Names, NEW parent, new_child_dir(name, parent)
  PROVE  Sound(dirbuf')
  <1> DEFINE len == IF name = Root THEN 0 ELSE Len(name) % ByteSize
             entry == dirbuf_alloc(dirbuf, direntry_size)
  <1>1. /\ ByteSize \in Nat /\ ByteSize > 0 /\ MaxRequest \in Nat
        /\ ByteSize - 1 <= MaxRequest /\ direntry_size \in 0 .. MaxRequest
    BY DirTreeAssumption, BlocksAssumption
  <1>2. len \in 0 .. MaxRequest
    <2>1. Len(name) \in Nat
      BY DEF Names
    <2>2. Len(name) % ByteSize \in 0 .. ByteSize - 1
      BY <1>1, <2>1
    <2> QED BY <1>1, <2>2
  <1>3. Sound(entry)
    BY <1>1, AllocSound
  <1>4. dirbuf' = IF name = Root THEN entry ELSE dirbuf_alloc(entry, len)
    BY DEF new_child_dir
  <1> HIDE DEF len, entry
  <1>5. Sound(dirbuf_alloc(entry, len))
    BY <1>2, <1>3, AllocSound
  <1> QED BY <1>3, <1>4, <1>5

-----------------------------------------------------------------------------
(* The walk. *)
LEMMA StartWalkKeeps ==
  ASSUME WalkInv, NEW path \in Names, StartWalk(path), UNCHANGED fs
  PROVE  WalkInv'
  <1>1. Sound(dirbuf')
    BY ChildSound DEF StartWalk, WalkInv
  <1> QED BY <1>1 DEF StartWalk, WalkInv, Sound, Buf, BlocksOK, RegionsOK

\* What readdir() has to return after opendir() are names.
LEMMA OpenDirKeeps ==
  ASSUME WalkInv, OpenDir
  PROVE  UNCHANGED <<fs, dirbuf>> /\ left' \subseteq Names
  <1>1. UNCHANGED <<fs, dirbuf>>
    BY DEF OpenDir, treevars
  <1>2. CASE UNCHANGED left
    BY <1>1, <1>2 DEF WalkInv
  <1>3. CASE \E dir \in DOMAIN fs.names : left' = fs.names[dir]
    BY <1>1, <1>3, InstancesAssumption DEF WalkInv, Names
  <1>4. \/ UNCHANGED left
        \/ \E dir \in DOMAIN fs.names : left' = fs.names[dir]
    BY DEF OpenDir
  <1> QED BY <1>1, <1>2, <1>3, <1>4

(* Of the names read, only that of a directory takes memory. *)
LEMMA TakeNameKeeps ==
  ASSUME WalkInv, NEW name \in Names, TakeName(name)
  PROVE  Sound(dirbuf')
  <1>1. ASSUME NEW path, NEW dev, FoundDir(name, path, dev) PROVE Sound(dirbuf')
    <2>1. CASE UNCHANGED dirbuf
      BY <2>1 DEF WalkInv
    <2>2. CASE new_child_dir(name, current.dir)
      BY <2>2, ChildSound DEF WalkInv
    <2> QED BY <1>1, <2>1, <2>2 DEF FoundDir, treevars
  <1>2. ASSUME NEW path, NEW dev, NEW looked_up, FoundFile(name, path, dev, looked_up)
        PROVE  Sound(dirbuf')
    BY <1>2 DEF FoundFile, treevars, WalkInv
  <1>3. ASSUME NEW type, NEW dev, SkipType(type, dev) PROVE Sound(dirbuf')
    BY <1>3 DEF SkipType, treevars, WalkInv
  <1> QED BY <1>1, <1>2, <1>3 DEF TakeName

\* An entry read: a directory gets its memory.
LEMMA ReadEntryKeeps ==
  ASSUME WalkInv, ReadEntry
  PROVE  UNCHANGED fs /\ left' \subseteq Names /\ Sound(dirbuf')
  <1>1. PICK name \in left : /\ left' = left \ {name}
                             /\ SkipHidden(name) \/ SkipSeparator(name) \/ TakeName(name)
    BY DEF ReadEntry
  <1>2. name \in Names /\ left' \subseteq Names
    BY <1>1 DEF WalkInv
  <1>3. UNCHANGED fs
    BY DEF ReadEntry
  <1>4. CASE SkipHidden(name) \/ SkipSeparator(name)
    BY <1>2, <1>3, <1>4 DEF SkipHidden, SkipSeparator, treevars, WalkInv
  <1>5. CASE TakeName(name)
    BY <1>2, <1>3, <1>5, TakeNameKeeps
  <1> QED BY <1>1, <1>4, <1>5

\* An entry that is gone gets no memory.
LEMMA MissEntryKeeps ==
  ASSUME WalkInv, MissEntry
  PROVE  UNCHANGED <<fs, dirbuf>> /\ left' \subseteq Names
  BY DEF MissEntry, treevars, WalkInv

-----------------------------------------------------------------------------
(* Everything else leaves the walk's memory alone. *)
LEMMA OthersKeep ==
  ASSUME \/ ProcessArgs \/ CheckFiemap \/ EndWalk \/ EndScan \/ ReturnEarly \/ Process
         \/ Processed \/ Report \/ StatusStep \/ Worker \/ Vanish \/ Ended
  PROVE  Untouched
  <1>1. CASE ProcessArgs
    BY <1>1 DEF ProcessArgs, Untouched, walkvars, treevars
  <1>2. CASE CheckFiemap \/ EndWalk \/ EndScan
    BY <1>2 DEF CheckFiemap, EndWalk, EndScan, NotWalking, Untouched, walkvars, treevars
  <1>3. CASE ReturnEarly \/ Process \/ Processed \/ Report
    BY <1>3 DEF ReturnEarly, Process, Processed, Report, NotWalking, Untouched, walkvars, treevars
  <1>4. CASE StatusStep
    BY <1>4 DEF StatusStep, StatusCounting, StatusSets, Timeout, NotMain, NotWalking, Untouched,
                walkvars, treevars
  <1>5. CASE Worker
    BY <1>5 DEF Worker, WorkerAdd, Untouched, walkvars, treevars
  <1>6. CASE Vanish
    BY <1>6 DEF Vanish, Untouched, walkvars, treevars
  <1>7. CASE Ended
    BY <1>7 DEF Ended, vars, Untouched, walkvars, treevars
  <1> QED BY <1>1, <1>2, <1>3, <1>4, <1>5, <1>6, <1>7

\* The walk of the next start directory keeps the invariant.
LEMMA NextPathKeeps ==
  ASSUME WalkInv, NextPath
  PROVE  WalkInv'
  <1> DEFINE path == start_path[next_path]
  <1>1. UNCHANGED fs
    BY DEF NextPath
  <1>2. CASE Exists(path) /\ StartWalk(path)
    <2>1. path \in Names
      BY <1>2, InstancesAssumption DEF Exists, WalkInv, Names
    <2> QED BY <1>1, <1>2, <2>1, StartWalkKeeps
  <1>3. CASE UNCHANGED <<walkvars, treevars>>
    BY <1>1, <1>3 DEF walkvars, treevars, WalkInv, Sound, Buf, BlocksOK, RegionsOK
  <1> QED BY <1>2, <1>3 DEF NextPath

\* Every step of any thread keeps the invariant.
LEMMA InvKept == WalkInv /\ [Next]_vars => WalkInv'
  <1> SUFFICES ASSUME WalkInv, [Next]_vars PROVE WalkInv'
    OBVIOUS
  <1>1. ASSUME UNCHANGED fs, left' \subseteq Names, Sound(dirbuf') PROVE WalkInv'
    BY <1>1 DEF WalkInv, Sound
  <1>2. ASSUME Untouched PROVE WalkInv'
    BY <1>1, <1>2 DEF WalkInv, Untouched
  <1>3. CASE NextPath
    BY <1>3, NextPathKeeps
  <1>4. CASE WalkStep
    <2>1. CASE OpenDir
      BY <1>1, <2>1, OpenDirKeeps DEF WalkInv
    <2>2. CASE CloseDir
      BY <1>2, <2>2 DEF CloseDir, Untouched, treevars
    <2>3. CASE ReadEntry
      BY <1>1, <2>3, ReadEntryKeeps
    <2>4. CASE MissEntry
      BY <1>1, <2>4, MissEntryKeeps DEF WalkInv
    <2> QED BY <1>4, <2>1, <2>2, <2>3, <2>4 DEF WalkStep, Walk
  <1>5. CASE UNCHANGED vars
    BY <1>2, <1>5 DEF vars, walkvars, treevars, Untouched
  <1>6. CASE \/ ProcessArgs \/ CheckFiemap \/ EndWalk \/ EndScan \/ ReturnEarly \/ Process
             \/ Processed \/ Report \/ StatusStep \/ Worker \/ Vanish \/ Ended
    BY <1>2, <1>6, OthersKeep
  <1> QED BY <1>3, <1>4, <1>5, <1>6 DEF Next, MainStep

(* No two regions that a scan keeps its directories in overlap, and each is
   within its block. *)
THEOREM DirectoriesApart == Spec => []RegionsApart
  <1>1. Init => WalkInv
    BY EmptySound DEF Init, WalkInit, WalkInv
  <1>2. WalkInv => RegionsApart
    BY SoundApart DEF WalkInv
  <1> QED BY <1>1, <1>2, InvKept, PTL DEF Spec

-----------------------------------------------------------------------------
(* The start paths: the callback is called for one --path after the other.
   FoldLeft() is a value of a function defined by recursion over sets of
   positions, the last one first; there is one, and it is made of the state
   before the last call. *)

\* A nonempty set of sets has a member that none of the others is part of.
LEMMA MinimalSubset ==
  ASSUME NEW S, IsFiniteSet(S), NEW F, F \subseteq SUBSET S, F # {}
  PROVE  \E U \in F : \A V \in F : V \subseteq U => V = U
  <1>1. IsWellFoundedOn(StrictSubsetOrdering(S), FiniteSubsetsOf(S))
    BY FS_StrictSubsetOrderingWellFounded
  <1>2. FiniteSubsetsOf(S) = SUBSET S
    BY FS_FiniteSubsetsOfFinite
  <1>3. PICK U \in F : \A V \in F : ~(<<V, U>> \in StrictSubsetOrdering(S))
    BY <1>1, <1>2, WFMin
  <1>4. ASSUME NEW V \in F, V \subseteq U PROVE V = U
    BY <1>3, <1>4 DEF StrictSubsetOrdering
  <1> QED BY <1>4

\* Positions have a last one.
LEMMA LastOne ==
  ASSUME NEW n \in Nat, NEW S, S \subseteq 1 .. n, S # {}
  PROVE  Max(S) \in S
  <1> DEFINE Bounds == {m \in Nat : \A x \in S : x <= m}
  <1>1. n \in Bounds
    OBVIOUS
  <1>2. PICK m \in Bounds : \A k \in Bounds : ~(<<k, m>> \in OpToRel(<, Nat))
    <2>1. Bounds \subseteq Nat /\ Bounds # {}
      BY <1>1
    <2> HIDE DEF Bounds
    <2> QED BY <2>1, NatLessThanWellFounded, WFMin
  <1>3. m \in Nat /\ \A x \in S : x <= m
    OBVIOUS
  <1>4. m \in S
    <2> SUFFICES ASSUME m \notin S PROVE FALSE
      OBVIOUS
    <2>1. PICK z : z \in S
      OBVIOUS
    <2>2. PICK x \in S : x \in Nat /\ x > 0
      <3>1. z \in 1 .. n
        BY <2>1
      <3> QED BY <2>1, <3>1
    <2>3. m - 1 \in Nat
      BY <1>3, <2>2
    <2>4. \A y \in S : y <= m - 1
      BY <1>3
    <2>5. m - 1 \in Bounds
      BY <2>3, <2>4
    <2>6. <<m - 1, m>> \in OpToRel(<, Nat)
      BY <1>3, <2>3 DEF OpToRel
    <2> QED BY <1>2, <2>5, <2>6
  <1>5. \A y \in S : m >= y
    BY <1>3
  <1> QED BY <1>4, <1>5 DEF Max

Lasts(S) == \A U \in SUBSET S : U # {} => Max(U) \in U

\* So have their sets.
LEMMA Positions ==
  ASSUME NEW n \in Nat, NEW S, S = 1 .. n
  PROVE  IsFiniteSet(S) /\ Lasts(S)
  <1>1. IsFiniteSet(S)
    BY FS_Interval
  <1>2. ASSUME NEW U, U \subseteq S, U # {} PROVE Max(U) \in U
    BY <1>2, LastOne
  <1> QED BY <1>1, <1>2 DEF Lasts

NoPaths == [paths |-> << >>, state |-> "START_PATH_NULL"]

CallStep(dirs, args, s, g) ==
  IF s = {} THEN NoPaths ELSE opt_add_path(g[s \ {Max(s)}], args[Max(s)], dirs)
Calls(dirs, args, S, g) == g = [s \in SUBSET S |-> CallStep(dirs, args, s, g)]
Called(dirs, args, S) == (CHOOSE g : Calls(dirs, args, S, g))[S]

\* There is only one such function, whatever the set it is defined on.
LEMMA CallsUnique ==
  ASSUME NEW dirs, NEW args, NEW S, IsFiniteSet(S), Lasts(S), NEW T, T \subseteq S,
         NEW g, Calls(dirs, args, S, g), NEW k, Calls(dirs, args, T, k)
  PROVE  \A U \in SUBSET T : g[U] = k[U]
  <1> DEFINE Bad == {U \in SUBSET T : g[U] # k[U]}
  <1>1. SUFFICES ASSUME Bad # {} PROVE FALSE
    OBVIOUS
  <1>2. Bad \subseteq SUBSET S
    OBVIOUS
  <1>3. PICK U \in Bad : \A V \in Bad : V \subseteq U => V = U
    <2> HIDE DEF Bad
    <2> QED BY <1>1, <1>2, MinimalSubset
  <1>4. U # {}
    BY DEF Calls, CallStep
  <1>5. Max(U) \in U
    BY <1>4 DEF Lasts
  <1> DEFINE V == U \ {Max(U)}
  <1>6. g[V] = k[V]
    <2>1. V \subseteq U /\ V # U /\ V \in SUBSET T
      BY <1>5
    <2> QED BY <1>3, <2>1
  <1>7. /\ g[U] = opt_add_path(g[V], args[Max(U)], dirs)
        /\ k[U] = opt_add_path(k[V], args[Max(U)], dirs)
    <2>1. U \in SUBSET S /\ U \in SUBSET T
      OBVIOUS
    <2>2. g[U] = CallStep(dirs, args, U, g) /\ k[U] = CallStep(dirs, args, U, k)
      BY <2>1, Zenon DEF Calls
    <2> QED BY <1>4, <2>2 DEF CallStep
  <1> QED BY <1>6, <1>7

\* There is one.
LEMMA CallsExist ==
  ASSUME NEW dirs, NEW args, NEW S, IsFiniteSet(S), Lasts(S)
  PROVE  \A T \in SUBSET S : \E g : Calls(dirs, args, T, g)
  <1> DEFINE Bad == {U \in SUBSET S : ~ \E g : Calls(dirs, args, U, g)}
  <1>1. SUFFICES ASSUME Bad # {} PROVE FALSE
    OBVIOUS
  <1>2. PICK T \in Bad : \A V \in Bad : V \subseteq T => V = T
    <2>1. Bad \subseteq SUBSET S
      OBVIOUS
    <2> HIDE DEF Bad
    <2> QED BY <1>1, <2>1, MinimalSubset
  <1> DEFINE G(U) == CHOOSE g : Calls(dirs, args, U, g)
             Next1(v, U) == opt_add_path(v, args[Max(U)], dirs)
             g0 == [U \in SUBSET T |-> IF U = {} THEN NoPaths
                      ELSE Next1(G(U \ {Max(U)})[U \ {Max(U)}], U)]
  <1>3. ASSUME NEW V \in SUBSET T, V # T PROVE Calls(dirs, args, V, G(V))
    <2>1. \E g : Calls(dirs, args, V, g)
      BY <1>2, <1>3
    <2> QED BY <2>1
  <1>4. ASSUME NEW U \in SUBSET T, U # {}
        PROVE  /\ Max(U) \in U
               /\ g0[U \ {Max(U)}] = G(U \ {Max(U)})[U \ {Max(U)}]
    <2>1. Max(U) \in U
      BY <1>4 DEF Lasts
    <2> DEFINE V == U \ {Max(U)}
    <2>2. V \in SUBSET T /\ V # T
      BY <2>1
    <2>3. Calls(dirs, args, V, G(V))
      BY <1>3, <2>2
    <2> HIDE DEF V
    <2>4. G(V)[V] = CallStep(dirs, args, V, G(V))
      <3>1. V \in SUBSET V OBVIOUS
      <3> HIDE DEF G
      <3> QED BY <2>3, <3>1, Zenon DEF Calls
    <2>5. CASE V = {}
      <3>1. g0[V] = NoPaths
        BY <2>2, <2>5
      <3> QED BY <3>1, <2>1, <2>4, <2>5 DEF CallStep, V
    <2>6. CASE V # {}
      <3>1. Max(V) \in V
        BY <2>2, <2>6 DEF Lasts
      <3> DEFINE W == V \ {Max(V)}
      <3>2. g0[V] = Next1(G(W)[W], V)
        BY <2>2, <2>6
      <3>3. G(V)[V] = Next1(G(V)[W], V)
        BY <2>4, <2>6 DEF CallStep
      <3>4. W \in SUBSET T /\ W # T /\ W \subseteq V
        BY <2>2, <3>1
      <3>5. Calls(dirs, args, W, G(W))
        BY <1>3, <3>4
      <3>6. G(V)[W] = G(W)[W]
        <4>1. IsFiniteSet(V) /\ Lasts(V)
          BY <2>2, FS_Subset DEF Lasts
        <4>2. W \in SUBSET W OBVIOUS
        <4> HIDE DEF G, W
        <4> QED BY <4>1, <4>2, <2>3, <3>4, <3>5, CallsUnique
      <3> QED BY <3>2, <3>3, <3>6, <2>1 DEF V
    <2> QED BY <2>5, <2>6
  <1>5. Calls(dirs, args, T, g0)
    <2>1. \A U \in SUBSET T : g0[U] = CallStep(dirs, args, U, g0)
      <3> SUFFICES ASSUME NEW U \in SUBSET T PROVE g0[U] = CallStep(dirs, args, U, g0)
        OBVIOUS
      <3>1. CASE U = {}
        BY <3>1 DEF CallStep
      <3>2. CASE U # {}
        <4>1. g0[U] = Next1(G(U \ {Max(U)})[U \ {Max(U)}], U)
          BY <3>2
        <4>2. g0[U \ {Max(U)}] = G(U \ {Max(U)})[U \ {Max(U)}]
          BY <1>4, <3>2
        <4> HIDE DEF g0, G
        <4> QED BY <4>1, <4>2, <3>2 DEF CallStep
      <3> QED BY <3>1, <3>2
    <2>2. g0 = [U \in SUBSET T |-> g0[U]]
      OBVIOUS
    <2> HIDE DEF g0
    <2> QED BY <2>1, <2>2 DEF Calls
  <1> QED BY <1>2, <1>5

\* The state before a call or after it.
PathStates == {"START_PATH_NULL", "START_PATH_GIVEN", "START_PATH_ERROR", "exit"}
Apart(paths) == \A i, j \in 1 .. Len(paths) : i # j => ~Overlap(paths[i], paths[j])
PathsOK(st, D) ==
  /\ st \in [paths : Seq(D), state : PathStates]
  /\ Apart(st.paths)
  /\ st.state = "START_PATH_NULL" => st.paths = << >>
  /\ st.state = "START_PATH_GIVEN" => st.paths # << >>
  /\ st.state \in {"START_PATH_NULL", "START_PATH_GIVEN"} => Len(st.paths) < MAX_START_PATH

\* A call keeps it, and no call leaves it without a path, an error or an exit.
LEMMA AddPathKeeps ==
  ASSUME NEW D, NEW dirs, dirs \subseteq D, NEW st, PathsOK(st, D), NEW path,
         NEW r, r = opt_add_path(st, path, dirs)
  PROVE  PathsOK(r, D) /\ r.state # "START_PATH_NULL"
  <1>1. /\ st \in [paths : Seq(D), state : PathStates]
        /\ st.paths \in Seq(D) /\ st.state \in PathStates
        /\ Len(st.paths) \in Nat
    BY LenProperties DEF PathsOK
  <1>2. CASE st.state = "exit"
    <2>1. r = st
      BY <1>2 DEF opt_add_path
    <2> QED BY <1>2, <2>1
  <1>3. CASE r = [st EXCEPT !.state = "exit"] \/ r = [st EXCEPT !.state = "START_PATH_ERROR"]
    <2>1. PICK e : /\ e \in {"exit", "START_PATH_ERROR"} /\ r = [st EXCEPT !.state = e]
      BY <1>3
    <2>2. e \in PathStates
      BY <2>1 DEF PathStates
    <2>3. r \in [paths : Seq(D), state : PathStates] /\ r.state = e
      BY <1>1, <2>1, <2>2
    <2> QED BY <2>1, <2>3 DEF PathsOK
  <1>4. CASE /\ st.state # "exit" /\ path \in dirs
             /\ \A p \in ToSet(st.paths) : ~Overlap(p, path)
             /\ r = [paths |-> Append(st.paths, path),
                     state |-> IF Len(st.paths) + 1 = MAX_START_PATH THEN "exit"
                               ELSE IF st.state = "START_PATH_NULL" THEN "START_PATH_GIVEN"
                               ELSE st.state]
    <2>1. path \in D
      BY <1>4
    <2>2. PICK q : q = Append(st.paths, path)
      OBVIOUS
    <2>3. q \in Seq(D) /\ Len(q) = Len(st.paths) + 1 /\ q # << >>
      <3>1. q \in Seq(D) /\ Len(q) = Len(st.paths) + 1
        BY <1>1, <2>1, <2>2, AppendProperties
      <3> QED BY <1>1, <3>1
    <2>4. r.paths = q /\ r.state \in PathStates /\ r.state # "START_PATH_NULL"
          /\ r \in [paths : Seq(D), state : PathStates]
      BY <1>1, <1>4, <2>2, <2>3 DEF PathStates
    <2>5. r.state = "START_PATH_GIVEN" => Len(q) < MAX_START_PATH
      <3>1. r.state = "START_PATH_GIVEN" =>
               /\ Len(st.paths) + 1 # MAX_START_PATH
               /\ st.state \in {"START_PATH_NULL", "START_PATH_GIVEN"}
        BY <1>4, <1>1
      <3>2. r.state = "START_PATH_GIVEN" => Len(st.paths) < MAX_START_PATH
        BY <3>1 DEF PathsOK
      <3>3. MAX_START_PATH \in Nat
        BY SettingsAssumption
      <3> QED BY <1>1, <2>3, <3>1, <3>2, <3>3
    <2>6. Apart(q)
      <3>1. PICK s, n : s = st.paths /\ n = Len(s) /\ n \in Nat /\ s \in Seq(D)
        BY <1>1
      <3>2. /\ Len(q) = n + 1 /\ q[n + 1] = path
            /\ \A i \in 1 .. n : q[i] = s[i] /\ s[i] \in ToSet(s)
        <4>1. \A i \in 1 .. n : s[i] \in ToSet(s)
          BY <3>1, LenProperties DEF ToSet
        <4> QED BY <2>1, <2>2, <3>1, <4>1, AppendProperties
      <3>3. \A p \in ToSet(s) : ~Overlap(p, path) /\ ~Overlap(path, p)
        BY <1>4, <3>1 DEF Overlap
      <3>4. Apart(s)
        BY <3>1 DEF PathsOK
      <3> QED BY <3>1, <3>2, <3>3, <3>4 DEF Apart
    <2> QED BY <2>3, <2>4, <2>5, <2>6 DEF PathsOK
  <1>5. \/ st.state = "exit"
        \/ r = [st EXCEPT !.state = "exit"] \/ r = [st EXCEPT !.state = "START_PATH_ERROR"]
        \/ /\ path \in dirs
           /\ \A p \in ToSet(st.paths) : ~Overlap(p, path)
           /\ r = [paths |-> Append(st.paths, path),
                   state |-> IF Len(st.paths) + 1 = MAX_START_PATH THEN "exit"
                             ELSE IF st.state = "START_PATH_NULL" THEN "START_PATH_GIVEN"
                             ELSE st.state]
    BY DEF opt_add_path
  <1> QED BY <1>2, <1>3, <1>4, <1>5

\* So does a series of calls.
LEMMA CallsKeep ==
  ASSUME NEW D, NEW dirs, dirs \subseteq D, NEW args, NEW S, IsFiniteSet(S), Lasts(S)
  PROVE  /\ PathsOK(Called(dirs, args, S), D)
         /\ S # {} => Called(dirs, args, S).state # "START_PATH_NULL"
         /\ S = {} => Called(dirs, args, S) = NoPaths
  <1>1. \E g : Calls(dirs, args, S, g)
    BY CallsExist
  <1>2. PICK g : Calls(dirs, args, S, g) /\ Called(dirs, args, S) = g[S]
    BY <1>1, Zenon DEF Called
  <1>3. ASSUME NEW U \in SUBSET S
        PROVE  /\ U = {} => g[U] = NoPaths
               /\ U # {} => g[U] = opt_add_path(g[U \ {Max(U)}], args[Max(U)], dirs)
    <2>1. g[U] = CallStep(dirs, args, U, g)
      BY <1>2, Zenon DEF Calls
    <2> QED BY <2>1 DEF CallStep
  <1>4. PathsOK(NoPaths, D)
    <2>1. MAX_START_PATH \in Nat /\ 0 < MAX_START_PATH
      BY SettingsAssumption
    <2>2. << >> \in Seq(D) /\ Len(<< >>) = 0
      OBVIOUS
    <2>3. Apart(<< >>)
      BY <2>2 DEF Apart
    <2> QED BY <2>1, <2>2, <2>3 DEF PathsOK, NoPaths, PathStates
  <1> DEFINE Bad == {U \in SUBSET S : ~PathsOK(g[U], D)}
  <1>5. Bad = {}
    <2> SUFFICES ASSUME Bad # {} PROVE FALSE
      OBVIOUS
    <2>1. PICK U \in Bad : \A V \in Bad : V \subseteq U => V = U
      <3>1. Bad \subseteq SUBSET S
        OBVIOUS
      <3> HIDE DEF Bad
      <3> QED BY <3>1, MinimalSubset
    <2>2. U # {}
      BY <1>3, <1>4
    <2>3. Max(U) \in U
      BY <2>2 DEF Lasts
    <2> DEFINE V == U \ {Max(U)}
    <2>4. V \in SUBSET S /\ V \subseteq U /\ V # U
      BY <2>3
    <2>5. PathsOK(g[V], D)
      BY <2>1, <2>4
    <2>6. g[U] = opt_add_path(g[V], args[Max(U)], dirs)
      BY <1>3, <2>2
    <2> HIDE DEF V
    <2>7. PathsOK(g[U], D)
      BY <2>5, <2>6, AddPathKeeps
    <2> QED BY <2>7
  <1>6. ASSUME S # {} PROVE g[S].state # "START_PATH_NULL"
    <2> DEFINE V == S \ {Max(S)}
    <2>1. V \in SUBSET S
      OBVIOUS
    <2>2. PathsOK(g[V], D)
      BY <1>5, <2>1
    <2>3. g[S] = opt_add_path(g[V], args[Max(S)], dirs)
      BY <1>3, <1>6
    <2> HIDE DEF V
    <2> QED BY <2>2, <2>3, AddPathKeeps
  <1>7. S \in SUBSET S
    OBVIOUS
  <1>8. PathsOK(g[S], D)
    BY <1>5, <1>7
  <1> QED BY <1>2, <1>3, <1>6, <1>7, <1>8

\* The start paths are directories; there are some, and not too many, unless
\* the command line was refused.
LEMMA StartPathsAre ==
  ASSUME NEW D, NEW dirs, dirs \subseteq D, NEW T, NEW args \in Seq(T), NEW cwd,
         args = << >> => cwd \in D, NEW st, st = start_paths(args, cwd, dirs)
  PROVE  /\ st.paths \in Seq(D) /\ Apart(st.paths)
         /\ st.state \notin {"exit", "START_PATH_ERROR"} =>
              st.paths # << >> /\ Len(st.paths) < MAX_START_PATH
  <1> DEFINE S == 1 .. Len(args)
             given == Called(dirs, args, S)
  <1>1. Len(args) \in Nat /\ DOMAIN args = S
    BY LenProperties
  <1>2. st = IF given.state = "START_PATH_NULL" THEN [given EXCEPT !.paths = <<cwd>>] ELSE given
    BY <1>1 DEF start_paths, FoldLeft, MapThenFoldSet, Called, Calls, CallStep, NoPaths
  <1>3. IsFiniteSet(S) /\ Lasts(S)
    BY <1>1, Positions
  <1> HIDE DEF S
  <1>4. /\ PathsOK(given, D)
        /\ S # {} => given.state # "START_PATH_NULL"
        /\ S = {} => given = NoPaths
    BY <1>3, CallsKeep
  <1>5. MAX_START_PATH \in Nat /\ 1 < MAX_START_PATH
    BY SettingsAssumption
  <1> HIDE DEF given
  <1>6. CASE given.state = "START_PATH_NULL"
    <2>1. S = {}
      BY <1>4, <1>6
    <2>2. Len(args) = 0
      BY <1>1, <2>1 DEF S
    <2>3. cwd \in D
      BY <2>2, EmptySeq
    <2>4. st.paths = <<cwd>>
      BY <1>2, <1>4, <1>6, <2>1 DEF NoPaths
    <2>5. <<cwd>> \in Seq(D) /\ Len(<<cwd>>) = 1 /\ <<cwd>> # << >>
      BY <2>3
    <2>6. Apart(<<cwd>>)
      <3>1. Len(<<cwd>>) = 1
        OBVIOUS
      <3> QED BY <3>1 DEF Apart
    <2> QED BY <1>5, <2>4, <2>5, <2>6
  <1>7. CASE given.state # "START_PATH_NULL"
    BY <1>2, <1>4, <1>7 DEF PathsOK, PathStates
  <1> QED BY <1>6, <1>7

-----------------------------------------------------------------------------
(* Why a scan stops.  Nothing is lost between the walk and add_file(), if no
   file disappeared and no path is too long for the system. *)
Calm == gone = {} /\ \A path \in DOMAIN fs.kind : Len(path) < DUPD_PATH_MAX

\* Nothing but the reasons given has stopped the program.
Reason ==
  \/ exited \in {"none", "path", "path too long"}
  \/ exited = "mismatch files_accepted" /\ ~Calm

\* The names still to be read are those of paths, as are the files found.
Reading ==
  current # NoDir => current.path \in DOMAIN fs.names /\ left \subseteq fs.names[current.path]
Queued ==
  /\ queue \in Seq(ToSet(queue))
  /\ \A file \in ToSet(queue) : file.path \in DOMAIN fs.kind

Skipped == s_files_skip_notfile + s_files_skip_error + s_files_skip_badsep
Numbers ==
  {s_total_files_seen, s_files_skip_notfile, s_files_skip_error, s_files_skip_badsep,
   s_files_too_small, s_files_in_sizetree} \subseteq Nat
Balanced == s_total_files_seen = Skipped + s_files_too_small + s_files_in_sizetree + Len(queue)

\* What walk and worker know.
FilesKnown ==
  /\ \E i \in Instances : fs = i.fs /\ options = i.options
  /\ Reading /\ Queued /\ Numbers
  /\ Calm => Balanced

\* After the walks nothing is left in the queue.
Emptied == phase \in {"scanned", "processed", "joining"} => queue = << >>

Prepared ==
  /\ start_path \in Seq(DOMAIN fs.names)
  /\ next_path \in Nat \ {0} /\ stats_fiemap_total_blocks \in Nat
  /\ using_fiemap \in BOOLEAN
  /\ phase = "args" => s_total_files_seen = 0 /\ next_path = 1

\* A scan that is to sort by blocks and has none had no start path to walk.
Pathless(n) == \A k \in 1 .. n : k <= Len(start_path) => ~Exists(start_path[k])
Blockless ==
  using_fiemap /\ stats_fiemap_total_blocks = 0 =>
    /\ phase # "walk"
    /\ s_total_files_seen = 0
    /\ phase = "fiemap" => Pathless(next_path - 1)
    /\ phase \in {"paths", "scanned"} => Pathless(Len(start_path))

StopInv == FilesKnown /\ Reason /\ Emptied /\ Prepared /\ Blockless

-----------------------------------------------------------------------------
\* A sequence is one of its own members.
LEMMA OfMembers ==
  ASSUME NEW D, NEW s \in Seq(D)
  PROVE  s \in Seq(ToSet(s))
  <1>1. Len(s) \in Nat /\ DOMAIN s = 1 .. Len(s)
    BY LenProperties
  <1>2. \A i \in 1 .. Len(s) : s[i] \in ToSet(s)
    BY <1>1 DEF ToSet
  <1> QED BY <1>1, <1>2, IsASeq

\* The queue with a file more, and with one less.
LEMMA QueueLonger ==
  ASSUME Queued, NEW file, file.path \in DOMAIN fs.kind, NEW q, q = Append(queue, file)
  PROVE  /\ q \in Seq(ToSet(q)) /\ Len(queue) \in Nat /\ Len(q) = Len(queue) + 1
         /\ \A f \in ToSet(q) : f.path \in DOMAIN fs.kind
  <1> DEFINE D == ToSet(queue) \cup {file}
  <1>1. queue \in Seq(D) /\ file \in D /\ Len(queue) \in Nat
    <2>1. queue \in Seq(ToSet(queue)) /\ ToSet(queue) \subseteq D
      BY DEF Queued
    <2> HIDE DEF D
    <2>2. queue \in Seq(D) /\ Len(queue) \in Nat
      BY <2>1
    <2> QED BY <2>2 DEF D
  <1>2. \A f \in D : f.path \in DOMAIN fs.kind
    BY DEF Queued
  <1> HIDE DEF D
  <1>3. q \in Seq(D) /\ Len(q) = Len(queue) + 1
    BY <1>1, AppendProperties
  <1>4. ToSet(q) \subseteq D
    BY <1>3 DEF ToSet
  <1> QED BY <1>1, <1>2, <1>3, <1>4, OfMembers

\* What is left when the worker takes the first file.
LEMMA QueueShorter ==
  ASSUME Queued, queue # << >>, NEW q, q = Tail(queue)
  PROVE  /\ q \in Seq(ToSet(q)) /\ Len(queue) \in Nat \ {0} /\ Len(q) = Len(queue) - 1
         /\ \A f \in ToSet(q) : f.path \in DOMAIN fs.kind
         /\ Head(queue).path \in DOMAIN fs.kind
  <1>1. PICK D : /\ queue \in Seq(D)
                 /\ \A f \in D : f.path \in DOMAIN fs.kind
    BY DEF Queued
  <1>2. /\ Len(queue) \in Nat \ {0} /\ Head(queue) \in D
        /\ q \in Seq(D) /\ Len(q) = Len(queue) - 1
    BY <1>1, HeadTailProperties, LenProperties, EmptySeq
  <1>3. ToSet(q) \subseteq D
    BY <1>2 DEF ToSet
  <1> QED BY <1>1, <1>2, <1>3, OfMembers

-----------------------------------------------------------------------------
(* What walk and worker know, step by step. *)
FilesFrame == UNCHANGED <<fs, gone, current, left, queue, countvars, addvars, options>>

\* A step that is not about files leaves what is known of them.
LEMMA FilesStay == FilesKnown /\ FilesFrame => FilesKnown'
  <1> SUFFICES ASSUME FilesKnown, FilesFrame PROVE FilesKnown'
    OBVIOUS
  <1>1. UNCHANGED <<fs, gone, current, left, queue, options>>
    BY DEF FilesFrame
  <1>2. UNCHANGED <<s_total_files_seen, s_files_skip_notfile, s_files_skip_error,
                    s_files_skip_badsep, s_files_too_small, s_files_in_sizetree>>
    BY DEF FilesFrame, countvars, addvars
  <1> QED BY <1>1, <1>2
          DEF FilesKnown, Reading, Queued, Numbers, Calm, Balanced, Skipped

\* add_file() counts a file once, unless it disappeared.
LEMMA AddFileCounts ==
  ASSUME FilesKnown, NEW file, file.path \in DOMAIN fs.kind, AddFile(file)
  PROVE  /\ s_files_too_small' \in Nat /\ s_files_in_sizetree' \in Nat
         /\ Calm => s_files_too_small' + s_files_in_sizetree'
                      = s_files_too_small + s_files_in_sizetree + 1
  <1>1. s_files_too_small \in Nat /\ s_files_in_sizetree \in Nat
    BY DEF FilesKnown, Numbers
  <1>2. \/ UNCHANGED addvars /\ ~Exists(file.path)
        \/ s_files_too_small' = s_files_too_small + 1 /\ UNCHANGED s_files_in_sizetree
        \/ s_files_in_sizetree' = s_files_in_sizetree + 1 /\ UNCHANGED s_files_too_small
    BY DEF AddFile
  <1>3. Calm => Exists(file.path)
    BY DEF Calm, Exists
  <1> QED BY <1>1, <1>2, <1>3 DEF addvars

\* Adding up.
LEMMA OneOn ==
  ASSUME NEW t \in Nat, NEW k \in Nat, NEW x \in Nat, NEW y \in Nat, NEW n \in Nat
  PROVE  /\ t = k + x + y + n => t + 1 = k + x + y + (n + 1)
         /\ \A u, v \in Nat : t = k + x + y + n /\ u + v = x + y + 1 =>
              t + 1 = k + u + v + n /\ t = k + u + v + (n - 1)
  OBVIOUS

\* The worker takes a file from the queue and counts it.
LEMMA WorkerKnows == FilesKnown /\ Worker => FilesKnown'
  <1> SUFFICES ASSUME FilesKnown, Worker PROVE FilesKnown'
    OBVIOUS
  <1>1. /\ queue # << >> /\ AddFile(Head(queue)) /\ queue' = Tail(queue)
        /\ UNCHANGED <<fs, gone, current, left, options>>
        /\ UNCHANGED <<s_total_files_seen, s_files_skip_notfile, s_files_skip_error,
                       s_files_skip_badsep>>
    BY DEF Worker, WorkerAdd, walkvars, countvars, mainvars
  <1>2. /\ queue' \in Seq(ToSet(queue')) /\ Len(queue) \in Nat \ {0}
        /\ Len(queue') = Len(queue) - 1
        /\ \A f \in ToSet(queue') : f.path \in DOMAIN fs.kind
        /\ Head(queue).path \in DOMAIN fs.kind
    BY <1>1, QueueShorter DEF FilesKnown
  <1>3. /\ s_files_too_small' \in Nat /\ s_files_in_sizetree' \in Nat
        /\ Calm => s_files_too_small' + s_files_in_sizetree'
                     = s_files_too_small + s_files_in_sizetree + 1
    BY <1>1, <1>2, AddFileCounts
  <1>4. Queued'
    BY <1>1, <1>2 DEF Queued
  <1>5. Numbers'
    BY <1>1, <1>3 DEF FilesKnown, Numbers
  <1>6. Calm' => Balanced'
    <2>1. Calm' => Calm /\ Balanced
      BY <1>1 DEF Calm, FilesKnown
    <2>2. PICK n, m : n = Len(queue) /\ n \in Nat /\ m = Len(queue') /\ m = n - 1
      BY <1>2
    <2>3. PICK t, k : t = s_total_files_seen /\ t \in Nat /\ k = Skipped /\ k \in Nat
      BY DEF FilesKnown, Numbers, Skipped
    <2>4. PICK x, y, u, v : /\ x = s_files_too_small /\ x \in Nat
                            /\ y = s_files_in_sizetree /\ y \in Nat
                            /\ u = s_files_too_small' /\ u \in Nat
                            /\ v = s_files_in_sizetree' /\ v \in Nat
      BY <1>3 DEF FilesKnown, Numbers
    <2>5. Balanced => t = k + x + y + n
      BY <2>2, <2>3, <2>4 DEF Balanced
    <2>6. Balanced' <=> t = k + u + v + m
      BY <1>1, <2>2, <2>3, <2>4 DEF Balanced, Skipped
    <2>7. Calm => u + v = x + y + 1
      BY <1>3, <2>4
    <2>8. t \in Nat /\ k \in Nat /\ x \in Nat /\ y \in Nat /\ u \in Nat /\ v \in Nat /\ n \in Nat
      BY <2>2, <2>3, <2>4
    <2>9. t = k + x + y + n /\ u + v = x + y + 1 => t = k + u + v + (n - 1)
      BY <2>8, OneOn
    <2> QED BY <2>1, <2>2, <2>5, <2>6, <2>7, <2>9
  <1>7. Reading' /\ \E i \in Instances : fs' = i.fs /\ options' = i.options
    BY <1>1 DEF FilesKnown, Reading
  <1> QED BY <1>4, <1>5, <1>6, <1>7 DEF FilesKnown

\* A directory is opened or closed, or a name deleted meanwhile passed over.
LEMMA OpenDirKnows == FilesKnown /\ OpenDir /\ UNCHANGED options => FilesKnown'
  <1> SUFFICES ASSUME FilesKnown, OpenDir, UNCHANGED options PROVE FilesKnown'
    OBVIOUS
  <1>1. UNCHANGED <<fs, gone, queue, countvars, addvars, options>>
    BY DEF OpenDir
  <1>2. \/ UNCHANGED <<current, left>>
        \/ \E top : current' = top /\ top.path \in DOMAIN fs.names /\ left' = fs.names[top.path]
    BY DEF OpenDir
  <1>3. CASE UNCHANGED <<current, left>>
    BY <1>1, <1>3, FilesStay DEF FilesFrame
  <1>4. CASE \E top : current' = top /\ top.path \in DOMAIN fs.names /\ left' = fs.names[top.path]
    <2>1. Reading'
      BY <1>1, <1>4 DEF Reading
    <2> QED BY <1>1, <2>1
            DEF FilesKnown, Queued, Numbers, Calm, Balanced, Skipped, countvars, addvars
  <1> QED BY <1>2, <1>3, <1>4

\* Nothing is found: at most a directory is left, or a name passed over.
LEMMA SameFiles ==
  ASSUME FilesKnown, UNCHANGED <<fs, gone, queue, countvars, addvars, options>>,
         \/ current' = NoDir
         \/ UNCHANGED current /\ left' \subseteq left
  PROVE  FilesKnown'
  <1>1. Reading'
    BY DEF FilesKnown, Reading
  <1> QED BY <1>1 DEF FilesKnown, Queued, Numbers, Calm, Balanced, Skipped, countvars, addvars

\* closedir() finds nothing.
LEMMA CloseDirKnows == FilesKnown /\ CloseDir /\ UNCHANGED options => FilesKnown'
  BY SameFiles DEF CloseDir

\* A name that was deleted is neither seen nor counted.
LEMMA MissEntryKnows == FilesKnown /\ MissEntry /\ UNCHANGED options => FilesKnown'
  <1> SUFFICES ASSUME FilesKnown, MissEntry, UNCHANGED options PROVE FilesKnown'
    OBVIOUS
  <1>1. UNCHANGED <<fs, gone, queue, countvars, addvars, options, current>>
    BY DEF MissEntry
  <1>2. left' \subseteq left
    BY DEF MissEntry
  <1> QED BY <1>1, <1>2, SameFiles

\* Deleting a file only makes what holds of the calm scan void.
LEMMA VanishKnows == FilesKnown /\ Vanish /\ UNCHANGED options => FilesKnown'
  <1> SUFFICES ASSUME FilesKnown, Vanish, UNCHANGED options PROVE FilesKnown'
    OBVIOUS
  <1>1. UNCHANGED <<fs, current, left, queue, countvars, addvars, options>>
    BY DEF Vanish, walkvars
  <1>2. gone \subseteq gone'
    BY DEF Vanish
  <1>3. Calm' => Calm
    BY <1>1, <1>2 DEF Calm
  <1> QED BY <1>1, <1>3
          DEF FilesKnown, Reading, Queued, Numbers, Balanced, Skipped, countvars, addvars

\* A file found is seen, and queued or given to add_file(), or the program stops.
LEMMA FoundFileKnows ==
  ASSUME FilesKnown, NEW name, NEW path \in DOMAIN fs.kind, NEW dev, NEW looked_up,
         FoundFile(name, path, dev, looked_up), UNCHANGED <<fs, gone, current, options>>,
         left' \subseteq left
  PROVE  FilesKnown'
  <1> DEFINE file == [path |-> path, name |-> name, dir |-> current.dir, looked_up |-> looked_up]
  <1>1. file.path \in DOMAIN fs.kind
    OBVIOUS
  <1>2. /\ \/ UNCHANGED <<queue, addvars>> /\ Len(path) >= DUPD_PATH_MAX
           \/ queue' = Append(queue, file) /\ UNCHANGED addvars
           \/ AddFile(file) /\ UNCHANGED queue
        /\ s_total_files_seen' = s_total_files_seen + 1
        /\ UNCHANGED <<s_files_skip_badsep, s_files_skip_notfile, s_files_skip_error>>
    BY DEF FoundFile
  <1> HIDE DEF file
  <1>3. /\ s_total_files_seen \in Nat /\ s_files_skip_notfile \in Nat
        /\ s_files_skip_error \in Nat /\ s_files_skip_badsep \in Nat
        /\ s_files_too_small \in Nat /\ s_files_in_sizetree \in Nat
    BY DEF FilesKnown, Numbers
  <1>4. Queued
    BY DEF FilesKnown
  <1>5. Calm' => Calm /\ Balanced
    BY DEF Calm, FilesKnown
  <1>6. PICK n : n = Len(queue) /\ n \in Nat
    BY <1>4, LenProperties DEF Queued
  <1>7. PICK t, k, x, y : /\ t = s_total_files_seen /\ t \in Nat /\ k = Skipped /\ k \in Nat
                          /\ x = s_files_too_small /\ x \in Nat
                          /\ y = s_files_in_sizetree /\ y \in Nat
    BY <1>3 DEF Skipped
  <1>8. /\ Balanced => t = k + x + y + n
        /\ Balanced' <=> t + 1 = k + s_files_too_small' + s_files_in_sizetree' + Len(queue')
    BY <1>2, <1>6, <1>7 DEF Balanced, Skipped
  <1>9. Reading' /\ \E i \in Instances : fs' = i.fs /\ options' = i.options
    BY DEF FilesKnown, Reading
  <1>10. ASSUME Queued', s_files_too_small' \in Nat, s_files_in_sizetree' \in Nat,
                Calm' => Balanced'
         PROVE  FilesKnown'
    <2>1. s_total_files_seen' \in Nat
      BY <1>2, <1>3
    <2>2. Numbers'
      BY <1>2, <1>3, <1>10, <2>1 DEF Numbers
    <2> QED BY <1>9, <1>10, <2>2 DEF FilesKnown
  <1>11. CASE UNCHANGED <<queue, addvars>> /\ Len(path) >= DUPD_PATH_MAX
    <2>1. ~Calm'
      BY <1>11, InstancesAssumption DEF Calm, FilesKnown
    <2> QED BY <1>3, <1>4, <1>10, <1>11, <2>1 DEF Queued, addvars
  <1>12. CASE queue' = Append(queue, file) /\ UNCHANGED addvars
    <2>1. /\ queue' \in Seq(ToSet(queue')) /\ Len(queue') = n + 1
          /\ \A f \in ToSet(queue') : f.path \in DOMAIN fs.kind
      BY <1>1, <1>4, <1>6, <1>12, QueueLonger
    <2>2. Queued'
      BY <2>1 DEF Queued
    <2>3. UNCHANGED <<s_files_too_small, s_files_in_sizetree>>
      BY <1>12 DEF addvars
    <2>4. Balanced => Balanced'
      <3>1. PICK m : m = Len(queue') /\ m = n + 1 /\ m \in Nat
        BY <1>6, <2>1
      <3>2. Balanced' <=> t + 1 = k + x + y + m
        BY <1>7, <1>8, <2>3, <3>1
      <3>3. t \in Nat /\ k \in Nat /\ x \in Nat /\ y \in Nat /\ n \in Nat
        BY <1>6, <1>7
      <3>4. t = k + x + y + n => t + 1 = k + x + y + (n + 1)
        BY <3>3, OneOn
      <3>5. t = k + x + y + n => Balanced'
        BY <3>1, <3>2, <3>4
      <3> QED BY <1>8, <3>5
    <2> QED BY <1>3, <1>5, <1>10, <2>2, <2>3, <2>4
  <1>13. CASE AddFile(file) /\ UNCHANGED queue
    <2>1. /\ s_files_too_small' \in Nat /\ s_files_in_sizetree' \in Nat
          /\ Calm => s_files_too_small' + s_files_in_sizetree'
                       = s_files_too_small + s_files_in_sizetree + 1
      BY <1>1, <1>13, AddFileCounts
    <2>2. Queued'
      BY <1>4, <1>13 DEF Queued
    <2>3. Calm /\ Balanced => Balanced'
      <3>1. PICK u, v : u = s_files_too_small' /\ u \in Nat /\ v = s_files_in_sizetree' /\ v \in Nat
        BY <2>1
      <3>2. Calm => u + v = x + y + 1
        BY <1>7, <2>1, <3>1
      <3>3. Balanced' <=> t + 1 = k + u + v + n
        BY <1>6, <1>8, <1>13, <3>1
      <3>4. /\ t \in Nat /\ k \in Nat /\ x \in Nat /\ y \in Nat
            /\ u \in Nat /\ v \in Nat /\ n \in Nat
        BY <1>6, <1>7, <3>1
      <3>5. t = k + x + y + n /\ u + v = x + y + 1 => t + 1 = k + u + v + n
        BY <3>4, OneOn
      <3> QED BY <1>8, <3>2, <3>3, <3>5
    <2> QED BY <1>5, <1>10, <2>1, <2>2, <2>3
  <1> QED BY <1>2, <1>11, <1>12, <1>13

\* Two sums that grow alike.
LEMMA AsMuchMore ==
  ASSUME NEW t \in Nat, NEW u \in Nat, NEW k \in Nat, NEW l \in Nat,
         NEW x \in Nat, NEW y \in Nat, NEW n \in Nat, u - t = l - k
  PROVE  t = k + x + y + n => u = l + x + y + n
  OBVIOUS

\* What is skipped for its type is seen and counted.
LEMMA SkipsKnow ==
  ASSUME FilesKnown, UNCHANGED <<fs, gone, current, options, queue, addvars>>,
         left' \subseteq left, Numbers',
         s_total_files_seen' - s_total_files_seen = Skipped' - Skipped
  PROVE  FilesKnown'
  <1>1. /\ s_total_files_seen \in Nat /\ s_files_skip_notfile \in Nat
        /\ s_files_skip_error \in Nat /\ s_files_skip_badsep \in Nat
        /\ s_files_too_small \in Nat /\ s_files_in_sizetree \in Nat
    BY DEF FilesKnown, Numbers
  <1>2. /\ s_total_files_seen' \in Nat /\ s_files_skip_notfile' \in Nat
        /\ s_files_skip_error' \in Nat /\ s_files_skip_badsep' \in Nat
    BY DEF Numbers
  <1>3. PICK n : n = Len(queue) /\ n \in Nat
    BY LenProperties DEF FilesKnown, Queued
  <1>4. PICK k, l : k = Skipped /\ k \in Nat /\ l = Skipped' /\ l \in Nat
    BY <1>1, <1>2 DEF Skipped
  <1>5. UNCHANGED <<s_files_too_small, s_files_in_sizetree>>
    BY DEF addvars
  <1>6. PICK t, u, x, y : /\ t = s_total_files_seen /\ t \in Nat
                          /\ u = s_total_files_seen' /\ u \in Nat
                          /\ x = s_files_too_small /\ x \in Nat
                          /\ y = s_files_in_sizetree /\ y \in Nat
    BY <1>1, <1>2
  <1>7. /\ Balanced => t = k + x + y + n
        /\ Balanced' <=> u = l + x + y + n
    BY <1>3, <1>4, <1>5, <1>6 DEF Balanced
  <1>8. Balanced => Balanced'
    <2>1. /\ t \in Nat /\ u \in Nat /\ k \in Nat /\ l \in Nat
          /\ x \in Nat /\ y \in Nat /\ n \in Nat
      BY <1>3, <1>4, <1>6
    <2>2. u - t = l - k
      BY <1>4, <1>6
    <2>3. t = k + x + y + n => u = l + x + y + n
      BY <2>1, <2>2, AsMuchMore
    <2> QED BY <1>7, <2>3
  <1>9. Calm' => Calm
    BY DEF Calm
  <1> QED BY <1>8, <1>9 DEF FilesKnown, Reading, Queued

\* A name read, whatever it is.
LEMMA ReadEntryKnows == FilesKnown /\ ReadEntry /\ UNCHANGED options => FilesKnown'
  <1> SUFFICES ASSUME FilesKnown, ReadEntry, UNCHANGED options PROVE FilesKnown'
    OBVIOUS
  <1>1. PICK name \in left : /\ left' = left \ {name}
                             /\ SkipHidden(name) \/ SkipSeparator(name) \/ TakeName(name)
    BY DEF ReadEntry
  <1>2. /\ UNCHANGED <<fs, gone, current, options>> /\ left' \subseteq left
        /\ current # NoDir
    BY <1>1 DEF ReadEntry
  <1>3. Join(current.path, name) \in DOMAIN fs.kind
    <2>1. current.path \in DOMAIN fs.names /\ name \in fs.names[current.path]
      BY <1>1, <1>2 DEF FilesKnown, Reading
    <2>2. PICK i \in Instances : fs = i.fs
      BY DEF FilesKnown
    <2> QED BY <2>1, <2>2, InstancesAssumption
  <1>4. /\ s_total_files_seen \in Nat /\ s_files_skip_notfile \in Nat
        /\ s_files_skip_error \in Nat /\ s_files_skip_badsep \in Nat
        /\ s_files_too_small \in Nat /\ s_files_in_sizetree \in Nat
    BY DEF FilesKnown, Numbers
  <1>5. ASSUME UNCHANGED <<queue, countvars, addvars>> PROVE FilesKnown'
    BY <1>2, <1>5, SameFiles
  <1>6. CASE SkipHidden(name)
    BY <1>5, <1>6 DEF SkipHidden
  <1>7. CASE SkipSeparator(name)
    <2>1. /\ s_total_files_seen' = s_total_files_seen + 1
          /\ s_files_skip_badsep' = s_files_skip_badsep + 1
          /\ UNCHANGED <<s_files_skip_notfile, s_files_skip_error, queue, addvars>>
      BY <1>7 DEF SkipSeparator
    <2>2. Numbers' /\ s_total_files_seen' - s_total_files_seen = Skipped' - Skipped
      BY <1>4, <2>1 DEF Numbers, Skipped, addvars
    <2> QED BY <1>2, <2>1, <2>2, SkipsKnow
  <1>8. ASSUME NEW type, NEW dev, SkipType(type, dev) PROVE FilesKnown'
    <2>1. PICK x \in {0, 1}, y \in {0, 1} :
            /\ s_total_files_seen' = s_total_files_seen + 1
            /\ s_files_skip_notfile' = s_files_skip_notfile + x
            /\ s_files_skip_error' = s_files_skip_error + y
            /\ x + y = 1
            /\ UNCHANGED <<s_files_skip_badsep, queue, addvars>>
      BY <1>8 DEF SkipType
    <2>2. Numbers' /\ s_total_files_seen' - s_total_files_seen = Skipped' - Skipped
      BY <1>4, <2>1 DEF Numbers, Skipped, addvars
    <2> QED BY <1>2, <2>1, <2>2, SkipsKnow
  <1>9. ASSUME NEW path, NEW dev, FoundDir(name, path, dev) PROVE FilesKnown'
    <2>1. UNCHANGED <<countvars, queue, addvars>>
      BY <1>9 DEF FoundDir
    <2> QED BY <1>5, <2>1
  <1>10. ASSUME NEW dev, NEW looked_up,
                FoundFile(name, Join(current.path, name), dev, looked_up)
         PROVE  FilesKnown'
    BY <1>2, <1>3, <1>10, FoundFileKnows
  <1>11. CASE TakeName(name)
    BY <1>8, <1>9, <1>10, <1>11 DEF TakeName
  <1> QED BY <1>1, <1>6, <1>7, <1>11

-----------------------------------------------------------------------------
(* What the main thread knows, step by step. *)
MainKnown == Reason /\ Emptied /\ Prepared /\ Blockless

\* Paths do not come back.
LEMMA PathlessStays ==
  ASSUME UNCHANGED <<fs, start_path>>, gone \subseteq gone', NEW n, Pathless(n)
  PROVE  Pathless(n)'
  BY DEF Pathless, Exists

\* Other threads, and the walk, leave to the main thread what it knows.
LEMMA OthersLeaveMain ==
  ASSUME MainKnown, UNCHANGED <<fs, mainvars>>, gone \subseteq gone',
         queue = << >> => queue' = << >>,
         exited' \in {exited, "path too long"},
         phase = "walk" \/ s_total_files_seen' = s_total_files_seen
  PROVE  MainKnown'
  <1>1. UNCHANGED <<fs, options, phase, start_path, next_path, using_fiemap,
                    stats_fiemap_total_blocks>>
    BY DEF mainvars
  <1>2. Calm' => Calm
    BY DEF Calm
  <1>3. Reason'
    BY <1>2 DEF MainKnown, Reason
  <1>4. Emptied' /\ Prepared'
    BY <1>1 DEF MainKnown, Emptied, Prepared
  <1>5. \A n : Pathless(n) => Pathless(n)'
    BY <1>1, PathlessStays
  <1>6. Blockless'
    BY <1>1, <1>5 DEF MainKnown, Blockless
  <1> QED BY <1>3, <1>4, <1>6 DEF MainKnown

\* The start paths are directories there are.
LEMMA ProcessArgsKnows == FilesKnown /\ MainKnown /\ ProcessArgs => MainKnown'
  <1> SUFFICES ASSUME FilesKnown, MainKnown, ProcessArgs PROVE MainKnown'
    OBVIOUS
  <1>1. PICK i \in Instances : fs = i.fs /\ options = i.options
    BY DEF FilesKnown
  <1>2. /\ options.path \in Seq(Seq(STRING))
        /\ options.path = << >> => options.cwd \in DOMAIN fs.names
        /\ DOMAIN fs.names = {dir \in DOMAIN fs.kind : fs.kind[dir] = "dir"}
    BY <1>1, OptionsAssumption, InstancesAssumption
  <1> DEFINE st == start_paths(options.path, options.cwd, Directories)
  <1>3. Directories \subseteq DOMAIN fs.names
    BY <1>2 DEF Directories
  <1>4. st.paths \in Seq(DOMAIN fs.names)
    <2> DEFINE args == options.path
               cwd  == options.cwd
    <2>1. args \in Seq(Seq(STRING)) /\ (args = << >> => cwd \in DOMAIN fs.names)
      BY <1>2
    <2> HIDE DEF args, cwd
    <2>2. st = start_paths(args, cwd, Directories)
      BY DEF args, cwd
    <2> HIDE DEF st
    <2> QED BY <1>3, <2>1, <2>2, StartPathsAre
  <1>5. /\ phase = "args" /\ exited = "none"
        /\ start_path' = st.paths
        /\ using_fiemap' = process_args(options, options.ram).using_fiemap
        /\ \/ phase' = "args" /\ exited' = "path"
           \/ phase' \in {"end", "fiemap"} /\ exited' = exited
        /\ UNCHANGED <<fs, gone, queue, s_total_files_seen, next_path, stats_fiemap_total_blocks>>
    BY DEF ProcessArgs, Main, countvars
  <1> HIDE DEF st
  <1>6. using_fiemap' \in BOOLEAN
    <2>1. PICK o : o = options /\ o = i.options
      BY <1>1
    <2>2. o.x_nofie \in BOOLEAN
      BY <1>1, <2>1, OptionsAssumption
    <2>3. using_fiemap' = (~o.x_nofie /\ opt_arg(o.sort_by, "def") \notin {"inode", "none"})
      BY <1>5, <2>1 DEF process_args
    <2> QED BY <2>2, <2>3
  <1>7. Prepared'
    BY <1>4, <1>5, <1>6 DEF MainKnown, Prepared
  <1>8. Reason' /\ Emptied'
    BY <1>5 DEF Reason, Emptied
  <1>9. Blockless'
    <2>1. s_total_files_seen' = 0 /\ next_path' = 1
      BY <1>5 DEF MainKnown, Prepared
    <2>2. phase' \notin {"walk", "paths", "scanned"}
      BY <1>5
    <2>3. Pathless(next_path - 1)'
      <3>1. ASSUME NEW k \in 1 .. next_path' - 1 PROVE FALSE
        BY <2>1
      <3> QED BY <3>1 DEF Pathless
    <2> QED BY <2>1, <2>2, <2>3 DEF Blockless
  <1> QED BY <1>7, <1>8, <1>9 DEF MainKnown

\* A start path that has a block is counted, or FIEMAP is given up.
LEMMA CheckFiemapKnows == FilesKnown /\ MainKnown /\ CheckFiemap => MainKnown'
  <1> SUFFICES ASSUME FilesKnown, MainKnown, CheckFiemap PROVE MainKnown'
    OBVIOUS
  <1> DEFINE path == start_path[next_path]
             bl   == get_block_info_from_path(1, 1, TRUE, TRUE, fs.extents[path])
             More == using_fiemap /\ next_path <= Len(start_path)
  <1>1. /\ phase = "fiemap" /\ exited = "none"
        /\ UNCHANGED <<fs, gone, queue, s_total_files_seen, start_path, exited>>
        /\ IF More
           THEN /\ next_path' = next_path + 1 /\ phase' = phase
                /\ IF Exists(path)
                   THEN /\ using_fiemap' = (bl[1].block # 0)
                        /\ stats_fiemap_total_blocks' =
                             stats_fiemap_total_blocks + Len(fs.extents[path])
                   ELSE UNCHANGED <<using_fiemap, stats_fiemap_total_blocks>>
           ELSE /\ next_path' = 1 /\ phase' = "paths"
                /\ UNCHANGED <<using_fiemap, stats_fiemap_total_blocks>>
    BY DEF CheckFiemap, Main, NotWalking, countvars
  <1>2. /\ start_path \in Seq(DOMAIN fs.names) /\ next_path \in Nat \ {0}
        /\ stats_fiemap_total_blocks \in Nat /\ using_fiemap \in BOOLEAN
    BY DEF MainKnown, Prepared
  <1>3. PICK n : n = Len(start_path) /\ n \in Nat
    BY <1>2, LenProperties
  <1>4. Reason' /\ Emptied'
    BY <1>1 DEF Reason, Emptied
  <1>5. CASE ~More
    <2>1. /\ next_path' = 1 /\ phase' = "paths"
          /\ UNCHANGED <<fs, start_path, using_fiemap, stats_fiemap_total_blocks>>
      BY <1>1, <1>5
    <2>2. Prepared'
      BY <1>2, <2>1 DEF Prepared
    <2>3. using_fiemap /\ stats_fiemap_total_blocks = 0 => Pathless(Len(start_path))
      <3>1. SUFFICES ASSUME using_fiemap, stats_fiemap_total_blocks = 0
            PROVE  Pathless(Len(start_path))
        OBVIOUS
      <3>2. Pathless(next_path - 1) /\ n <= next_path - 1
        BY <1>1, <1>2, <1>3, <1>5, <3>1 DEF MainKnown, Blockless
      <3> QED BY <1>2, <1>3, <3>2 DEF Pathless
    <2>4. using_fiemap /\ stats_fiemap_total_blocks = 0 => Pathless(Len(start_path))'
      BY <1>1, <2>3 DEF Pathless, Exists
    <2>5. Blockless'
      BY <1>1, <1>5, <2>4 DEF MainKnown, Blockless
    <2> QED BY <1>4, <2>2, <2>5 DEF MainKnown
  <1>6. CASE More /\ Exists(path)
    <2>1. PICK x : x = fs.extents[path]
      OBVIOUS
    <2>2. x \in Seq([fe_logical : Nat, fe_length : Nat, fe_physical : Nat])
      <3>1. path \in DOMAIN fs.names
        BY <1>2, <1>3, <1>6, ElementOfSeq
      <3>2. PICK i \in Instances : fs = i.fs
        BY DEF FilesKnown
      <3> QED BY <2>1, <3>1, <3>2, OptionsAssumption
    <2>3. PICK l : l = Len(x) /\ l \in Nat
      BY <2>2, LenProperties
    <2>4. stats_fiemap_total_blocks' = stats_fiemap_total_blocks + l
      BY <1>1, <1>6, <2>1, <2>3
    <2>5. using_fiemap' = (bl[1].block # 0)
      BY <1>1, <1>6
    <2>6. ~(using_fiemap' /\ stats_fiemap_total_blocks' = 0)
      <3>1. SUFFICES ASSUME using_fiemap', stats_fiemap_total_blocks' = 0 PROVE FALSE
        OBVIOUS
      <3>2. l = 0
        BY <1>2, <2>3, <2>4, <3>1
      <3>3. x = << >>
        BY <2>2, <2>3, <3>2, EmptySeq
      <3>4. bl = <<[start |-> 0, len |-> 1, block |-> 0]>>
        BY <2>1, <3>3 DEF get_block_info_from_path, block_list_inode_only
      <3>5. bl[1].block = 0
        <4> HIDE DEF bl
        <4> QED BY <3>4
      <3> QED BY <2>5, <3>1, <3>5
    <2>7. Blockless'
      BY <2>6 DEF Blockless
    <2>8. Prepared'
      BY <1>1, <1>2, <1>6, <2>3, <2>4, <2>5 DEF Prepared
    <2> QED BY <1>4, <2>7, <2>8 DEF MainKnown
  <1>7. CASE More /\ ~Exists(path)
    <2>1. /\ next_path' = next_path + 1 /\ phase' = "fiemap"
          /\ UNCHANGED <<using_fiemap, stats_fiemap_total_blocks>>
      BY <1>1, <1>7
    <2>2. Prepared'
      BY <1>1, <1>2, <2>1 DEF Prepared
    <2>3. Pathless(next_path - 1) => Pathless(next_path)
      BY <1>2, <1>7 DEF Pathless
    <2>4. next_path' - 1 = next_path
      BY <1>2, <2>1
    <2>5. Pathless(next_path) => Pathless(next_path - 1)'
      BY <1>1, <2>4 DEF Pathless, Exists
    <2>6. Blockless'
      BY <1>1, <2>1, <2>3, <2>5 DEF MainKnown, Blockless
    <2> QED BY <1>4, <2>2, <2>6 DEF MainKnown
  <1> QED BY <1>5, <1>6, <1>7

\* The walk starts at a path there is.
LEMMA NextPathKnows == FilesKnown /\ MainKnown /\ NextPath => MainKnown'
  <1> SUFFICES ASSUME FilesKnown, MainKnown, NextPath PROVE MainKnown'
    OBVIOUS
  <1>1. /\ phase = "paths" /\ exited = "none" /\ next_path <= Len(start_path)
        /\ next_path' = next_path + 1
        /\ \/ Exists(start_path[next_path]) /\ phase' = "walk"
           \/ phase' = "paths"
        /\ UNCHANGED <<fs, gone, queue, s_total_files_seen, start_path, using_fiemap,
                       stats_fiemap_total_blocks, exited>>
    BY DEF NextPath, Main, countvars
  <1>2. Reason' /\ Emptied'
    BY <1>1 DEF Reason, Emptied
  <1>3. Prepared'
    BY <1>1 DEF MainKnown, Prepared
  <1>4. Blockless'
    <2>1. SUFFICES ASSUME using_fiemap, stats_fiemap_total_blocks = 0
          PROVE  /\ phase' = "paths" /\ s_total_files_seen' = 0
                 /\ Pathless(Len(start_path))'
      BY <1>1 DEF Blockless
    <2>2. Pathless(Len(start_path)) /\ s_total_files_seen = 0
      BY <1>1, <2>1 DEF MainKnown, Blockless
    <2>3. ~Exists(start_path[next_path])
      <3>1. next_path \in 1 .. Len(start_path)
        BY <1>1, LenProperties DEF MainKnown, Prepared
      <3> QED BY <1>1, <2>2, <3>1 DEF Pathless
    <2>4. Pathless(Len(start_path))'
      BY <1>1, <2>2 DEF Pathless, Exists
    <2> QED BY <1>1, <2>2, <2>3, <2>4
  <1> QED BY <1>2, <1>3, <1>4 DEF MainKnown

\* After the walk, what is known of the paths is as before.
LEMMA LaterSteps ==
  ASSUME MainKnown, phase # "args", phase' # "args",
         UNCHANGED <<fs, gone, queue, s_total_files_seen, start_path, next_path, using_fiemap,
                     stats_fiemap_total_blocks>>,
         phase' \in {phase, "end", "joining", "processed"} \/ phase = "walk"
           \/ (phase = "paths" /\ phase' = "scanned"),
         phase' \notin {"walk", "fiemap"},
         Emptied', Reason'
  PROVE  MainKnown'
  <1>1. Prepared'
    BY DEF MainKnown, Prepared
  <1>2. \A n : Pathless(n) => Pathless(n)'
    BY PathlessStays
  <1>3. Blockless'
    BY <1>2 DEF MainKnown, Blockless
  <1> QED BY <1>1, <1>3 DEF MainKnown

\* The scan ends when the worker has taken the last file.
LEMMA EndWalkKnows == MainKnown /\ (EndWalk \/ EndScan) => MainKnown'
  <1> SUFFICES ASSUME MainKnown, EndWalk \/ EndScan PROVE MainKnown'
    OBVIOUS
  <1>1. /\ UNCHANGED <<fs, gone, queue, s_total_files_seen, start_path, next_path, using_fiemap,
                       stats_fiemap_total_blocks, exited>>
        /\ \/ phase = "walk" /\ phase' = "paths"
           \/ phase = "paths" /\ phase' = "scanned" /\ queue = << >>
    BY DEF EndWalk, EndScan, Main, NotWalking, countvars
  <1>2. Emptied'
    BY <1>1 DEF Emptied
  <1>3. Reason'
    BY <1>1 DEF MainKnown, Reason, Calm
  <1> QED BY <1>1, <1>2, <1>3, LaterSteps

\* A scan without blocks returned early: nothing is divided by zero.
LEMMA ProcessKnows == MainKnown /\ (ReturnEarly \/ Process \/ Processed) => MainKnown'
  <1> SUFFICES ASSUME MainKnown, ReturnEarly \/ Process \/ Processed PROVE MainKnown'
    OBVIOUS
  <1>1. /\ UNCHANGED <<fs, gone, queue, s_total_files_seen, start_path, next_path, using_fiemap,
                       stats_fiemap_total_blocks>>
        /\ \/ phase = "scanned" /\ phase' \in {"end", "processed"}
           \/ phase = "processed" /\ phase' = "joining"
           \/ /\ phase = "scanned" /\ s_total_files_seen # 0
              /\ using_fiemap /\ stats_fiemap_total_blocks = 0
        /\ phase' # "args"
        /\ \/ UNCHANGED exited
           \/ /\ phase = "scanned" /\ s_total_files_seen # 0
              /\ using_fiemap /\ stats_fiemap_total_blocks = 0
    BY DEF ReturnEarly, Process, Processed, Main, NotWalking, NothingSeen, countvars
  <1>2. /\ phase \in {"scanned", "processed"} /\ phase' \in {"end", "processed", "joining"}
        /\ UNCHANGED exited
    BY <1>1 DEF MainKnown, Blockless
  <1>3. Emptied'
    BY <1>1, <1>2 DEF MainKnown, Emptied
  <1>4. Reason'
    BY <1>1, <1>2 DEF MainKnown, Reason, Calm
  <1> QED BY <1>1, <1>2, <1>3, <1>4, LaterSteps

\* The final check counts every file once, if none was lost.
LEMMA ReportKnows == FilesKnown /\ MainKnown /\ Report => MainKnown'
  <1> SUFFICES ASSUME FilesKnown, MainKnown, Report PROVE MainKnown'
    OBVIOUS
  <1> DEFINE Accepted == s_total_files_seen - s_files_too_small - s_files_skip_notfile
                           - s_files_skip_error - s_files_skip_badsep
  <1>1. /\ phase = "joining" /\ exited = "none"
        /\ UNCHANGED <<fs, gone, queue, s_total_files_seen, start_path, next_path, using_fiemap,
                       stats_fiemap_total_blocks>>
        /\ \/ phase' = "end" /\ UNCHANGED exited
           \/ /\ Accepted # s_files_in_sizetree
              /\ exited' = "mismatch files_accepted" /\ UNCHANGED phase
    BY DEF Report, Main, NotWalking, countvars
  <1>2. Calm => Accepted = s_files_in_sizetree
    <2>1. SUFFICES ASSUME Calm PROVE Accepted = s_files_in_sizetree
      OBVIOUS
    <2>2. PICK t, a, b, c, x, y : /\ t = s_total_files_seen /\ t \in Nat
                                  /\ a = s_files_skip_notfile /\ a \in Nat
                                  /\ b = s_files_skip_error /\ b \in Nat
                                  /\ c = s_files_skip_badsep /\ c \in Nat
                                  /\ x = s_files_too_small /\ x \in Nat
                                  /\ y = s_files_in_sizetree /\ y \in Nat
      BY DEF FilesKnown, Numbers
    <2>3. Len(queue) = 0
      <3>1. queue = << >>
        BY <1>1 DEF MainKnown, Emptied
      <3> QED BY <3>1, EmptySeq
    <2>4. t = a + b + c + x + y + 0
      BY <2>1, <2>2, <2>3 DEF FilesKnown, Balanced, Skipped
    <2>5. t \in Nat /\ a \in Nat /\ b \in Nat /\ c \in Nat /\ x \in Nat /\ y \in Nat
      BY <2>2
    <2>6. t - x - a - b - c = y
      BY <2>4, <2>5
    <2> QED BY <2>2, <2>6
  <1>3. Reason'
    <2>1. Calm' => Calm
      BY <1>1 DEF Calm
    <2> HIDE DEF Accepted
    <2> QED BY <1>1, <1>2, <2>1 DEF MainKnown, Reason
  <1>4. Emptied' /\ phase' \in {"joining", "end"}
    BY <1>1 DEF MainKnown, Emptied
  <1> QED BY <1>1, <1>3, <1>4, LaterSteps

-----------------------------------------------------------------------------
\* Initially nothing is known, and nothing has happened.
LEMMA StopInit == Init => StopInv
  <1> SUFFICES ASSUME Init PROVE StopInv
    OBVIOUS
  <1>1. /\ \E i \in Instances : fs = i.fs /\ options = i.options
        /\ gone = {} /\ current = NoDir /\ queue = << >> /\ exited = "none"
        /\ phase = "args" /\ start_path = << >> /\ next_path = 1
        /\ using_fiemap = FALSE /\ stats_fiemap_total_blocks = 0
        /\ s_total_files_seen = 0 /\ s_files_skip_badsep = 0
        /\ s_files_skip_notfile = 0 /\ s_files_skip_error = 0
        /\ s_files_too_small = 0 /\ s_files_in_sizetree = 0
    BY DEF Init, WalkInit
  <1>2. Reading /\ Queued
    <2>1. ToSet(queue) = {}
      BY <1>1 DEF ToSet
    <2>2. queue \in Seq(ToSet(queue))
      BY <1>1, EmptySeq
    <2> QED BY <1>1, <2>1, <2>2 DEF Reading, Queued
  <1>3. Numbers /\ Balanced
    <2>1. Len(queue) = 0
      BY <1>1
    <2> QED BY <1>1, <2>1 DEF Numbers, Balanced, Skipped
  <1>4. Reason /\ Emptied /\ Blockless
    BY <1>1 DEF Reason, Emptied, Blockless
  <1>5. Prepared
    <2>1. start_path \in Seq(DOMAIN fs.names)
      BY <1>1, EmptySeq
    <2>2. next_path \in Nat \ {0} /\ stats_fiemap_total_blocks \in Nat
      BY <1>1
    <2>3. using_fiemap \in BOOLEAN
      BY DEF Init
    <2>4. phase = "args" => s_total_files_seen = 0 /\ next_path = 1
      BY <1>1
    <2> QED BY <2>1, <2>2, <2>4, <2>3 DEF Prepared
  <1> QED BY <1>1, <1>2, <1>3, <1>4, <1>5 DEF StopInv, FilesKnown

\* Every step of any thread keeps what they know.
LEMMA StopInvKept == StopInv /\ [Next]_vars => StopInv'
  <1> SUFFICES ASSUME StopInv, [Next]_vars PROVE StopInv'
    OBVIOUS
  <1>1. FilesKnown /\ MainKnown
    BY DEF StopInv, MainKnown
  <1>2. SUFFICES FilesKnown' /\ MainKnown'
    BY DEF StopInv, MainKnown
  <1>3. CASE ProcessArgs \/ CheckFiemap \/ NextPath
    <2>1. FilesFrame
      BY <1>3 DEF ProcessArgs, CheckFiemap, NextPath, StartWalk, NotWalking, walkvars, FilesFrame
    <2> QED BY <1>1, <1>3, <2>1, FilesStay, ProcessArgsKnows, CheckFiemapKnows, NextPathKnows
  <1>4. CASE EndWalk \/ EndScan \/ ReturnEarly \/ Process \/ Processed \/ Report
    <2>1. FilesFrame
      BY <1>4 DEF EndWalk, EndScan, ReturnEarly, Process, Processed, Report, NotWalking, walkvars,
                  FilesFrame
    <2> QED BY <1>1, <1>4, <2>1, FilesStay, EndWalkKnows, ProcessKnows, ReportKnows
  <1>5. CASE StatusStep \/ UNCHANGED vars \/ Ended
    <2>1. /\ UNCHANGED <<fs, gone, queue, exited, mainvars, s_total_files_seen>> /\ FilesFrame
      BY <1>5 DEF StatusStep, StatusCounting, StatusSets, Timeout, NotMain, NotWalking, Ended, vars,
                  walkvars, mainvars, countvars, FilesFrame
    <2> QED BY <1>1, <2>1, FilesStay, OthersLeaveMain
  <1>6. CASE Worker
    <2>1. /\ UNCHANGED <<fs, gone, exited, mainvars, s_total_files_seen>>
          /\ queue # << >>
      BY <1>6 DEF Worker, WorkerAdd, countvars
    <2> QED BY <1>1, <1>6, <2>1, WorkerKnows, OthersLeaveMain
  <1>7. CASE Vanish /\ UNCHANGED <<mainvars, timevars>>
    <2>1. /\ UNCHANGED <<fs, queue, exited, mainvars, s_total_files_seen, options>>
          /\ gone \subseteq gone'
      BY <1>7 DEF Vanish, countvars, mainvars
    <2> QED BY <1>1, <1>7, <2>1, VanishKnows, OthersLeaveMain
  <1>8. CASE WalkStep
    <2>1. phase = "walk" /\ UNCHANGED <<mainvars, options>>
      BY <1>8 DEF WalkStep, Main, mainvars
    <2>2. CASE OpenDir \/ CloseDir \/ MissEntry
      <3>1. UNCHANGED <<fs, gone, queue, exited, s_total_files_seen>>
        BY <2>2 DEF OpenDir, CloseDir, MissEntry, countvars
      <3> QED BY <1>1, <2>1, <2>2, <3>1, OpenDirKnows, CloseDirKnows, MissEntryKnows,
                 OthersLeaveMain
    <2>3. CASE ReadEntry
      <3>1. UNCHANGED <<fs, gone>> /\ exited = "none"
        BY <2>3 DEF ReadEntry
      <3>2. exited' \in {exited, "path too long"}
        BY <2>3 DEF ReadEntry, SkipHidden, SkipSeparator, TakeName, FoundDir, FoundFile, SkipType
      <3>3. MainKnown'
        <4>1. Emptied' /\ Prepared' /\ Blockless'
          BY <1>1, <2>1, <3>1 DEF MainKnown, Emptied, Prepared, Blockless, mainvars
        <4>2. Reason'
          BY <3>1, <3>2 DEF Reason
        <4> QED BY <4>1, <4>2 DEF MainKnown
      <3> QED BY <1>1, <2>1, <2>3, <3>3, ReadEntryKnows
    <2> QED BY <1>8, <2>2, <2>3 DEF WalkStep, Walk
  <1> QED BY <1>3, <1>4, <1>5, <1>6, <1>7, <1>8 DEF Next, MainStep

(* However many paths there are, whatever is asked for and whenever files
   disappear: the final check fails only because a file did, or has too long a
   path, and the blocks are divided by only if there are some. *)
THEOREM StopsOnlyForReason == Spec => []StopsForReason
  <1>1. StopInv => StopsForReason
    <2>1. SUFFICES ASSUME StopInv PROVE StopsForReason
      OBVIOUS
    <2>2. ASSUME NEW path \in DOMAIN fs.kind PROVE Len(path) \in Nat
      <3>1. PICK i \in Instances : fs = i.fs
        BY <2>1 DEF StopInv, FilesKnown
      <3>2. path \in Seq(STRING)
        BY <3>1, InstancesAssumption
      <3> QED BY <3>2, LenProperties
    <2>3. DUPD_PATH_MAX \in Nat
      BY InstancesAssumption
    <2>4. ~Calm => gone # {} \/ \E path \in DOMAIN fs.kind : Len(path) >= DUPD_PATH_MAX
      BY <2>2, <2>3 DEF Calm
    <2> QED BY <2>1, <2>4 DEF StopInv, Reason, StopsForReason
  <1> QED BY <1>1, StopInit, StopInvKept, PTL DEF Spec

-----------------------------------------------------------------------------
(* What process_args() makes of the numbers on the command line. *)
OptionNumbers(o) ==
  /\ {o.firstblocksize, o.firstblocks, o.x_cache_min_size, o.minsize} \subseteq Seq(Int)
  /\ o.buflimit \in Seq([number : Int, suffix : STRING])
  /\ o.small_buffers \in BOOLEAN
  /\ o.ram \in Nat \ {0, 1}

\* opt_arg() gives a number, given or by default.
LEMMA OptionArgument ==
  ASSUME NEW o \in Seq(Int), NEW default \in Int
  PROVE  opt_arg(o, default) \in Int
  <1>1. CASE o = << >>
    BY <1>1 DEF opt_arg
  <1>2. CASE o # << >>
    <2>1. 1 \in 1 .. Len(o)
      BY <1>2, EmptySeq
    <2>2. o[1] \in Int
      BY <2>1, ElementOfSeq
    <2> QED BY <1>2, <2>2 DEF opt_arg
  <1> QED BY <1>1, <1>2

\* A number cut to the width of a variable is not negative.
LEMMA CutToWidth ==
  ASSUME NEW n \in Int
  PROVE  UInt32(n) \in Nat /\ UInt64(n) \in Nat
  <1>1. IntSize \in Nat \ {0} /\ LongSize \in Nat \ {0}
    BY SettingsAssumption
  <1> QED BY <1>1 DEF UInt32, UInt64

\* No --firstblocksize leads to blocks of nothing.
LEMMA BlockSizePositive ==
  ASSUME NEW o, OptionNumbers(o)
  PROVE  hash_one_block_size(o) \in Nat \ {0}
  <1>1. o.firstblocksize \in Seq(Int)
    BY DEF OptionNumbers
  <1>2. UInt32(opt_arg(o.firstblocksize, 0)) \in Nat
    <2>1. opt_arg(o.firstblocksize, 0) \in Int
      BY <1>1, OptionArgument
    <2> QED BY <2>1, CutToWidth
  <1>3. DEF_HDD_hash_one_block_size \in Nat \ {0}
    BY SettingsAssumption
  <1> QED BY <1>2, <1>3 DEF hash_one_block_size

\* No --x-cache-min-size and no size of the first round puts empty files in the cache.
LEMMA CacheSizePositive ==
  ASSUME NEW o, OptionNumbers(o)
  PROVE  cache_min_size(o) \in Nat \ {0}
  <1>1. o.firstblocks \in Seq(Int) /\ o.x_cache_min_size \in Seq(Int)
    BY DEF OptionNumbers
  <1>2. DefaultBlocks \in Nat /\ K512 \in Nat \ {0}
    BY SettingsAssumption
  <1>3. UInt64(opt_arg(o.x_cache_min_size, 0)) \in Nat
    <2>1. opt_arg(o.x_cache_min_size, 0) \in Int
      BY <1>1, OptionArgument
    <2> QED BY <2>1, CutToWidth
  <1>4. round1_max_bytes(o) \in Nat
    <2>1. hash_one_block_size(o) \in Nat
      BY BlockSizePositive
    <2>2. opt_arg(o.firstblocks, DefaultBlocks) \in Int
      BY <1>1, <1>2, OptionArgument
    <2>3. PICK n, m : /\ n = hash_one_block_size(o) /\ n \in Nat
                      /\ m = opt_arg(o.firstblocks, DefaultBlocks) /\ m \in Int
      BY <2>1, <2>2
    <2>4. n * m \in Int
      <3>1. n \in Int /\ m \in Int
        BY <2>3
      <3> QED BY <3>1
    <2>5. UInt32(n * m) \in Nat
      BY <2>4, CutToWidth
    <2> QED BY <2>3, <2>5 DEF round1_max_bytes
  <1> QED BY <1>2, <1>3, <1>4 DEF cache_min_size

\* No --minsize lets empty files in.
LEMMA FileSizePositive ==
  ASSUME NEW o, OptionNumbers(o)
  PROVE  minimum_file_size(o) \in Nat \ {0}
  <1>1. o.minsize \in Seq(Int)
    BY DEF OptionNumbers
  <1>2. UInt32(opt_arg(o.minsize, 1)) \in Nat
    <2>1. opt_arg(o.minsize, 1) \in Int
      BY <1>1, OptionArgument
    <2> QED BY <2>1, CutToWidth
  <1> QED BY <1>2 DEF minimum_file_size

\* No --buflimit and no memory leave the reader without buffers.
LEMMA BufferLimitPositive ==
  ASSUME NEW o, OptionNumbers(o), NEW ram, ram = o.ram
  PROVE  buffer_limit(o, ram) \in Nat \ {0}
  <1>1. ram \in Nat /\ ram > 1 /\ o.small_buffers \in BOOLEAN
    BY DEF OptionNumbers
  <1>2. {MB1, MB8, GB1} \subseteq Nat \ {0}
    BY SettingsAssumption
  <1>3. ASSUME ~NoLimit(o) PROVE user_ram_limit(o) \in Nat \ {0}
    <2>1. o.buflimit \in Seq([number : Int, suffix : STRING]) /\ o.buflimit # << >>
      BY <1>3 DEF OptionNumbers, NoLimit
    <2>2. 1 \in 1 .. Len(o.buflimit)
      BY <2>1, EmptySeq
    <2>3. o.buflimit[1] \in [number : Int, suffix : STRING]
      BY <2>1, <2>2, ElementOfSeq
    <2>4. PICK n, m : /\ n = o.buflimit[1].number /\ n \in Int
                      /\ m = (CASE o.buflimit[1].suffix = "M" -> MB1
                                [] o.buflimit[1].suffix = "G" -> GB1 [] OTHER -> 1)
                      /\ m \in Int
      BY <1>2, <2>3
    <2>5. n \in Int /\ m \in Int
      BY <2>4
    <2>6. n * m \in Int
      BY <2>5
    <2>7. UInt64(n * m) \in Nat
      BY <2>6, CutToWidth
    <2>8. user_ram_limit(o) = IF UInt64(n * m) < MB8 THEN MB8 ELSE UInt64(n * m)
      BY <2>4 DEF user_ram_limit
    <2> QED BY <1>2, <2>7, <2>8
  <1>4. (9 * ram) \div 10 \in Nat \ {0} /\ ram \div 2 \in Nat \ {0}
    BY <1>1
  <1> DEFINE asked == IF NoLimit(o) THEN 0
                      ELSE IF user_ram_limit(o) > ram THEN (9 * ram) \div 10 ELSE user_ram_limit(o)
  <1>5. asked \in Nat
    BY <1>3, <1>4
  <1>6. buffer_limit(o, ram) = CASE asked > 0                    -> asked
                                 [] asked = 0 /\ o.small_buffers -> MB1
                                 [] OTHER                        -> ram \div 2
    BY Zenon DEF buffer_limit
  <1> HIDE DEF asked
  <1>7. /\ buffer_limit(o, ram) \in {asked, MB1, ram \div 2}
        /\ asked = 0 => buffer_limit(o, ram) # asked
    BY <1>1, <1>2, <1>4, <1>5, <1>6
  <1> QED BY <1>2, <1>4, <1>5, <1>7

-----------------------------------------------------------------------------
\* The options and the settings, once made, do not change.
LEMMA SettingsStay ==
  ASSUME [Next]_vars, ~ProcessArgs
  PROVE  /\ UNCHANGED <<settings, start_path>>
         /\ phase \in {"args", "end"} => phase' \in {"args", "end"}
  <1>1. CASE CheckFiemap \/ NextPath \/ EndWalk \/ EndScan
    BY <1>1 DEF CheckFiemap, NextPath, EndWalk, EndScan, Main, NotWalking
  <1>2. CASE ReturnEarly \/ Process \/ Processed \/ Report
    BY <1>2 DEF ReturnEarly, Process, Processed, Report, Main, NotWalking
  <1>3. CASE StatusStep
    BY <1>3 DEF StatusStep, StatusCounting, StatusSets, Timeout, NotMain, NotWalking, mainvars
  <1>4. CASE Worker \/ (Vanish /\ UNCHANGED <<mainvars, timevars>>)
    BY <1>4 DEF Worker, WorkerAdd, Vanish, mainvars
  <1>5. CASE WalkStep
    BY <1>5 DEF WalkStep, Walk, OpenDir, CloseDir, ReadEntry, MissEntry, mainvars
  <1>6. CASE Ended \/ UNCHANGED vars
    BY <1>6 DEF Ended, vars, mainvars
  <1> QED BY <1>1, <1>2, <1>3, <1>4, <1>5, <1>6 DEF Next, MainStep

\* Whatever is asked for leads to settings that are of use, or is refused.
LEMMA SettingsMade == StopInv /\ ProcessArgs => SettingsMeetAssumptions'
  <1> SUFFICES ASSUME StopInv, ProcessArgs PROVE SettingsMeetAssumptions'
    OBVIOUS
  <1>1. PICK i \in Instances : fs = i.fs /\ options = i.options
    BY DEF StopInv, FilesKnown
  <1>2. PICK o : o = options
    OBVIOUS
  <1>3. OptionNumbers(o)
    BY <1>1, <1>2, OptionsAssumption DEF OptionNumbers
  <1>4. /\ o.path \in Seq(Seq(STRING))
        /\ o.path = << >> => o.cwd \in DOMAIN fs.names
        /\ DOMAIN fs.names = {dir \in DOMAIN fs.kind : fs.kind[dir] = "dir"}
    BY <1>1, <1>2, OptionsAssumption, InstancesAssumption
  <1>5. Directories \subseteq DOMAIN fs.names
    BY <1>4 DEF Directories
  <1>6. PICK st : st = start_paths(o.path, o.cwd, Directories)
    OBVIOUS
  <1>7. st.state \notin {"exit", "START_PATH_ERROR"} =>
          st.paths # << >> /\ Len(st.paths) < MAX_START_PATH
    <2>1. PICK args, cwd : args = o.path /\ cwd = o.cwd
      OBVIOUS
    <2>2. args \in Seq(Seq(STRING)) /\ (args = << >> => cwd \in DOMAIN fs.names)
      BY <1>4, <2>1
    <2>3. st = start_paths(args, cwd, Directories)
      BY <1>6, <2>1
    <2> QED BY <1>5, <2>2, <2>3, StartPathsAre
  <1>8. /\ settings' = process_args(o, o.ram) /\ start_path' = st.paths
        /\ \/ phase' = "args" \/ phase' = "end"
           \/ st.state \notin {"exit", "START_PATH_ERROR"}
    BY <1>2, <1>6 DEF ProcessArgs, Main
  <1>9. /\ settings'.minimum_file_size = minimum_file_size(o)
        /\ settings'.hash_one_block_size = hash_one_block_size(o)
        /\ settings'.buffer_limit = buffer_limit(o, o.ram)
        /\ settings'.cache_min_size = cache_min_size(o)
    BY <1>8 DEF process_args
  <1>10. minimum_file_size(o) > 0 /\ hash_one_block_size(o) > 0
    BY <1>3, FileSizePositive, BlockSizePositive
  <1>11. buffer_limit(o, o.ram) > 0 /\ cache_min_size(o) > 0
    BY <1>3, BufferLimitPositive, CacheSizePositive
  <1> QED BY <1>7, <1>8, <1>9, <1>10, <1>11 DEF SettingsMeetAssumptions

(* For every command line and every machine: what the reading and hashing of
   the files relies on holds from the moment they can be read. *)
THEOREM SettingsAreOfUse == Spec => []SettingsMeetAssumptions
  <1>1. Init => SettingsMeetAssumptions
    BY DEF Init, SettingsMeetAssumptions
  <1>2. StopInv /\ SettingsMeetAssumptions /\ [Next]_vars => SettingsMeetAssumptions'
    <2> SUFFICES ASSUME StopInv, SettingsMeetAssumptions, [Next]_vars
                 PROVE  SettingsMeetAssumptions'
      OBVIOUS
    <2>1. CASE ProcessArgs
      BY <2>1, SettingsMade
    <2>2. CASE ~ProcessArgs
      <3>1. /\ UNCHANGED <<settings, start_path>>
            /\ phase \in {"args", "end"} => phase' \in {"args", "end"}
        BY <2>2, SettingsStay
      <3> QED BY <3>1 DEF SettingsMeetAssumptions
    <2> QED BY <2>1, <2>2
  <1> QED BY <1>1, <1>2, StopInit, StopInvKept, PTL DEF Spec

-----------------------------------------------------------------------------
(* Paths and the directories above them. *)
Character  == STRING \cup {"/", "NUL"}     \* the provers do not know of the union
PathNames  == Seq(Character) \ {<< >>}
EntryNames == {name \in PathNames : \A k \in 1 .. Len(name) : name[k] # "/"}

\* Of a path and a directory.
AtOrBelow(path, dir) == path = dir \/ Below(path, dir)

\* A prefix, character by character.
LEMMA PrefixAt ==
  ASSUME NEW S, NEW s \in Seq(S), NEW t \in Seq(S)
  PROVE  IsPrefix(s, t) <=> Len(s) <= Len(t) /\ \A i \in 1 .. Len(s) : s[i] = t[i]
  <1>1. Len(s) \in Nat /\ Len(t) \in Nat /\ \A i \in 1 .. Len(s) : s[i] \in S
    BY LenProperties
  <1>2. SUFFICES ASSUME Len(s) <= Len(t)
        PROVE  SubSeq(s, 1, Len(s)) = SubSeq(t, 1, Len(s)) <=> \A i \in 1 .. Len(s) : s[i] = t[i]
    BY DEF IsPrefix
  <1> DEFINE n == Len(s)
             a == SubSeq(s, 1, n)
             b == SubSeq(t, 1, n)
  <1>3. \A i \in 1 .. n : t[i] \in S
    BY <1>1, <1>2
  <1>4. /\ a \in Seq(S) /\ b \in Seq(S) /\ Len(a) = n /\ Len(b) = n
        /\ \A i \in 1 .. n : a[i] = s[i] /\ b[i] = t[i]
    <2>1. 1 \in Int /\ n \in Int /\ n - 1 + 1 = n /\ (IF 1 <= n THEN n - 1 + 1 ELSE 0) = n
      BY <1>1
    <2>2. \A i \in 1 .. n : 1 + i - 1 = i
      BY <1>1
    <2> HIDE DEF n
    <2>3. a \in Seq(S) /\ Len(a) = n /\ \A i \in 1 .. n : a[i] = s[1 + i - 1]
      <3>1. \A i \in 1 .. n : s[i] \in S
        BY <1>1 DEF n
      <3> QED BY <2>1, <3>1, SubSeqProperties
    <2>4. b \in Seq(S) /\ Len(b) = n /\ \A i \in 1 .. n : b[i] = t[1 + i - 1]
      BY <1>3, <2>1, SubSeqProperties
    <2> QED BY <2>2, <2>3, <2>4
  <1>5. a = b <=> \A i \in 1 .. n : a[i] = b[i]
    <2> HIDE DEF a, b, n
    <2> QED BY <1>4, SeqEqual
  <1> QED BY <1>4, <1>5

\* What the paths in a directory begin with: its own path and a separator.
LEMMA BaseIs ==
  ASSUME NEW d \in PathNames
  PROVE  /\ Base(d) \in Seq(Character) /\ Len(d) \in Nat \ {0} /\ Len(Base(d)) \in Nat \ {0}
         /\ Len(Base(d)) = IF d = Root THEN 1 ELSE Len(d) + 1
         /\ Base(d)[Len(Base(d))] = "/"
         /\ \A i \in 1 .. Len(d) : Base(d)[i] = d[i]
         /\ Len(d) <= Len(Base(d))
         /\ Len(d) = 1 /\ d[1] = "/" => d = Root
  <1>1. d \in Seq(Character) /\ Len(d) \in Nat \ {0} /\ Root \in Seq(Character)
        /\ Len(Root) = 1 /\ Root[1] = "/"
    <2>1. d \in Seq(Character) /\ d # << >>
      BY DEF PathNames
    <2>2. Root \in Seq(Character) /\ Len(Root) = 1 /\ Root[1] = "/"
      <3>1. PICK c : c = "/" /\ c \in Character
        BY DEF Character
      <3>2. <<c>> \in Seq(Character) /\ Len(<<c>>) = 1 /\ <<c>>[1] = c
        BY <3>1
      <3> QED BY <3>1, <3>2 DEF Root
    <2> QED BY <2>1, <2>2, EmptySeq
  <1>2. Len(d) = 1 /\ d[1] = "/" => d = Root
    BY <1>1, SeqEqual
  <1>3. CASE d = Root
    BY <1>1, <1>2, <1>3 DEF Base
  <1>4. CASE d # Root
    <2>1. Base(d) = d \o Root
      BY <1>4 DEF Base
    <2>2. /\ d \o Root \in Seq(Character) /\ Len(d \o Root) = Len(d) + 1
          /\ \A i \in 1 .. Len(d) + 1 : (d \o Root)[i] = IF i <= Len(d) THEN d[i]
                                                      ELSE Root[i - Len(d)]
      <3> HIDE DEF Root
      <3>1. d \o Root \in Seq(Character)
        BY <1>1, ConcatProperties
      <3>2. Len(d \o Root) = Len(d) + Len(Root)
        BY <1>1, ConcatProperties
      <3>3. \A i \in 1 .. Len(d) + Len(Root) : (d \o Root)[i] = IF i <= Len(d) THEN d[i]
                                                               ELSE Root[i - Len(d)]
        BY <1>1, ConcatProperties
      <3> QED BY <1>1, <3>1, <3>2, <3>3
    <2>3. Len(d) + 1 - Len(d) = 1 /\ ~(Len(d) + 1 <= Len(d)) /\ Len(d) + 1 \in 1 .. Len(d) + 1
          /\ \A i \in 1 .. Len(d) : i <= Len(d) /\ i \in 1 .. Len(d) + 1
      BY <1>1
    <2> QED BY <1>1, <1>2, <1>4, <2>1, <2>2, <2>3
  <1> QED BY <1>3, <1>4

\* The path of a name in a directory.
LEMMA JoinIs ==
  ASSUME NEW d \in PathNames, NEW name \in PathNames
  PROVE  /\ Join(d, name) \in PathNames
         /\ Len(Join(d, name)) = Len(Base(d)) + Len(name)
         /\ \A i \in 1 .. Len(Base(d)) : Join(d, name)[i] = Base(d)[i]
         /\ \A i \in 1 .. Len(name) : Join(d, name)[Len(Base(d)) + i] = name[i]
         /\ Len(Base(d)) \in Nat \ {0} /\ Len(name) \in Nat \ {0}
  <1>1. Base(d) \in Seq(Character) /\ Len(Base(d)) \in Nat \ {0}
    BY BaseIs
  <1>2. name \in Seq(Character) /\ Len(name) \in Nat \ {0}
    BY EmptySeq DEF PathNames
  <1>3. /\ Join(d, name) \in Seq(Character) /\ Len(Join(d, name)) = Len(Base(d)) + Len(name)
        /\ \A i \in 1 .. Len(Base(d)) + Len(name) :
             Join(d, name)[i] = IF i <= Len(Base(d)) THEN Base(d)[i] ELSE name[i - Len(Base(d))]
    BY <1>1, <1>2, ConcatProperties DEF Join
  <1>4. Join(d, name) # << >>
    BY <1>1, <1>2, <1>3, EmptySeq
  <1>5. PICK b : b = Len(Base(d)) /\ b \in Nat \ {0}
    BY <1>1
  <1>6. \A i \in 1 .. Len(name) : /\ b + i \in 1 .. b + Len(name)
                                  /\ ~(b + i <= b) /\ b + i - b = i
    BY <1>2, <1>5
  <1> QED BY <1>1, <1>2, <1>3, <1>4, <1>5, <1>6 DEF PathNames

\* What is below a directory is longer, and begins with its base.
LEMMA BelowIs ==
  ASSUME NEW d \in PathNames, NEW p \in PathNames
  PROVE  /\ Below(p, d) <=> /\ p # d /\ Len(Base(d)) <= Len(p)
                            /\ \A i \in 1 .. Len(Base(d)) : Base(d)[i] = p[i]
         /\ Below(p, d) => Len(d) < Len(p)
  <1>1. d \in Seq(Character) /\ p \in Seq(Character)
    BY DEF PathNames
  <1>2. Below(p, d) <=> /\ p # d /\ Len(Base(d)) <= Len(p)
                        /\ \A i \in 1 .. Len(Base(d)) : Base(d)[i] = p[i]
    BY <1>1, BaseIs, PrefixAt DEF Below
  <1>3. ASSUME Below(p, d) PROVE Len(d) < Len(p)
    <2>1. CASE d = Root
      <3>1. Len(Base(d)) = 1 /\ Base(d)[1] = "/" /\ Len(d) = 1
        BY <2>1, BaseIs DEF Root
      <3>2. p[1] = "/" /\ p # Root
        BY <1>2, <1>3, <2>1, <3>1
      <3>3. Len(p) # 1 /\ Len(p) \in Nat \ {0}
        BY <3>2, BaseIs
      <3> QED BY <3>1, <3>3
    <2>2. CASE d # Root
      BY <1>2, <1>3, <2>2, BaseIs
    <2> QED BY <2>1, <2>2
  <1> QED BY <1>2, <1>3

\* Below is an order.
LEMMA BelowBelow ==
  ASSUME NEW d \in PathNames, NEW e \in PathNames, NEW p \in PathNames, Below(e, d), Below(p, e)
  PROVE  Below(p, d)
  <1>1. Len(d) < Len(e) /\ Len(e) < Len(p) /\ Len(d) \in Nat /\ Len(e) \in Nat /\ Len(p) \in Nat
    BY BelowIs, BaseIs
  <1> DEFINE b == Len(Base(d))
             c == Len(Base(e))
  <1>2. b \in Nat /\ c \in Nat /\ Len(e) <= c
    BY BaseIs
  <1>3. /\ b <= Len(e) /\ \A i \in 1 .. b : Base(d)[i] = e[i]
        /\ c <= Len(p) /\ \A i \in 1 .. c : Base(e)[i] = p[i]
        /\ \A i \in 1 .. Len(e) : Base(e)[i] = e[i]
    BY <1>2, BelowIs, BaseIs
  <1> HIDE DEF b, c
  <1>4. b <= Len(p) /\ \A i \in 1 .. b : Base(d)[i] = p[i]
    BY <1>1, <1>2, <1>3
  <1>5. p # d
    BY <1>1
  <1> QED BY <1>2, <1>4, <1>5, BelowIs DEF b

\* What is in a directory is below it, and what is above that is the directory
\* or above it.
LEMMA JoinBelow ==
  ASSUME NEW d \in PathNames, NEW name \in EntryNames
  PROVE  /\ Join(d, name) \in PathNames
         /\ Below(Join(d, name), d)
         /\ \A q \in PathNames : Below(Join(d, name), q) => AtOrBelow(d, q)
  <1> DEFINE p == Join(d, name)
  <1>1. /\ p \in PathNames /\ name \in PathNames
        /\ Len(p) = Len(Base(d)) + Len(name)
        /\ \A i \in 1 .. Len(Base(d)) : p[i] = Base(d)[i]
        /\ \A i \in 1 .. Len(name) : p[Len(Base(d)) + i] = name[i]
        /\ Len(Base(d)) \in Nat \ {0} /\ Len(name) \in Nat \ {0}
    BY JoinIs DEF EntryNames
  <1>2. /\ Len(d) \in Nat \ {0} /\ Len(d) <= Len(Base(d))
        /\ \A i \in 1 .. Len(d) : Base(d)[i] = d[i]
    BY BaseIs
  <1> HIDE DEF p
  <1>3. Below(p, d)
    <2>1. p # d
      BY <1>1, <1>2
    <2> QED BY <1>1, <2>1, BelowIs
  <1>4. ASSUME NEW q \in PathNames, Below(p, q), q # d PROVE Below(d, q)
    <2>1. PICK b, c, n : /\ b = Len(Base(q)) /\ b \in Nat \ {0}
                         /\ c = Len(Base(d)) /\ c \in Nat \ {0}
                         /\ n = Len(name) /\ n \in Nat \ {0} /\ Base(q)[b] = "/"
      <3>1. Base(q) \in Seq(Character) /\ Base(q)[Len(Base(q))] = "/"
            /\ Len(Base(q)) \in Nat \ {0}
        BY BaseIs
      <3> QED BY <1>1, <3>1
    <2>2. b <= Len(p) /\ \A i \in 1 .. b : Base(q)[i] = p[i]
      BY <1>1, <1>4, <2>1, BelowIs
    <2>3. b <= c
      <3>1. SUFFICES ASSUME ~(b <= c) PROVE FALSE
        OBVIOUS
      <3>2. b - c \in 1 .. n /\ c + (b - c) = b
        BY <1>1, <2>1, <2>2, <3>1
      <3>3. p[b] = name[b - c]
        BY <1>1, <2>1, <3>2
      <3>4. p[b] = "/"
        BY <2>1, <2>2
      <3> QED BY <2>1, <3>2, <3>3, <3>4 DEF EntryNames
    <2>4. \A i \in 1 .. b : Base(q)[i] = Base(d)[i]
      <3>1. \A i \in 1 .. b : i \in 1 .. c
        BY <2>1, <2>3
      <3> QED BY <1>1, <2>1, <2>2, <3>1
    <2>5. b <= Len(d)
      <3>1. SUFFICES ASSUME ~(b <= Len(d)) PROVE FALSE
        OBVIOUS
      <3>2. CASE d = Root
        <4>1. Len(d) = 1 /\ c = 1
          BY <2>1, <3>2, BaseIs DEF Root
        <4> QED BY <2>1, <2>3, <3>1, <4>1
      <3>3. CASE d # Root
        <4>1. c = Len(d) + 1
          BY <2>1, <3>3, BaseIs
        <4>2. b = c
          BY <1>2, <2>1, <2>3, <3>1, <4>1
        <4>3. CASE q = Root
          <5>1. b = 1
            BY <2>1, <4>3, BaseIs
          <5> QED BY <1>2, <4>1, <4>2, <5>1
        <4>4. CASE q # Root
          <5>1. b = Len(q) + 1 /\ Len(q) \in Nat /\ \A i \in 1 .. Len(q) : Base(q)[i] = q[i]
            BY <2>1, <4>4, BaseIs
          <5>2. Len(q) = Len(d)
            BY <1>2, <4>1, <4>2, <5>1
          <5>3. \A i \in 1 .. Len(q) : q[i] = d[i]
            <6>1. \A i \in 1 .. Len(q) : i \in 1 .. b /\ i \in 1 .. Len(d)
              BY <5>1, <5>2
            <6> QED BY <1>2, <2>4, <5>1, <6>1
          <5>4. q = d
            BY <5>2, <5>3, SeqEqual DEF PathNames
          <5> QED BY <1>4, <5>4
        <4> QED BY <4>3, <4>4
      <3> QED BY <3>2, <3>3
    <2>6. \A i \in 1 .. b : Base(q)[i] = d[i]
      <3>1. \A i \in 1 .. b : i \in 1 .. Len(d)
        BY <1>2, <2>1, <2>5
      <3> QED BY <1>2, <2>4, <3>1
    <2>7. d # q
      BY <1>4
    <2> QED BY <2>1, <2>5, <2>6, <2>7, BelowIs
  <1> QED BY <1>1, <1>3, <1>4 DEF p, AtOrBelow

\* A path has one directory and one name.
LEMMA JoinOnce ==
  ASSUME NEW d \in PathNames, NEW e \in PathNames, NEW m \in EntryNames, NEW n \in EntryNames,
         Join(d, m) = Join(e, n)
  PROVE  d = e /\ m = n
  <1>1. d = e
    <2>1. AtOrBelow(d, e) /\ AtOrBelow(e, d)
      BY JoinBelow
    <2>2. Below(d, e) /\ Below(e, d) => FALSE
      BY BelowIs, BaseIs
    <2> QED BY <2>1, <2>2 DEF AtOrBelow
  <1>2. m \in PathNames /\ n \in PathNames /\ m \in Seq(Character) /\ n \in Seq(Character)
    BY DEF EntryNames, PathNames
  <1> DEFINE b == Len(Base(d))
             l == Len(m)
             k == Len(n)
             p == Join(d, m)
  <1>3. /\ b \in Nat /\ l \in Nat /\ Len(p) = b + l
        /\ \A i \in 1 .. l : p[b + i] = m[i]
    BY <1>2, JoinIs
  <1>4. /\ k \in Nat /\ Len(p) = b + k
        /\ \A i \in 1 .. k : p[b + i] = n[i]
    <2>1. p = Join(d, n)
      BY <1>1
    <2> HIDE DEF p
    <2> QED BY <1>2, <2>1, JoinIs
  <1>5. l = k /\ \A i \in 1 .. l : m[i] = n[i]
    <2> HIDE DEF b, l, k, p
    <2> QED BY <1>3, <1>4
  <1> QED BY <1>1, <1>2, <1>5, SeqEqual

\* Of two directories above a path one is above the other.
LEMMA Comparable ==
  ASSUME NEW d \in PathNames, NEW e \in PathNames, NEW p \in PathNames,
         AtOrBelow(p, d), AtOrBelow(p, e)
  PROVE  AtOrBelow(d, e) \/ AtOrBelow(e, d)
  <1>1. CASE p = d \/ p = e
    BY <1>1 DEF AtOrBelow
  <1>2. ASSUME NEW x \in PathNames, NEW y \in PathNames, Below(p, x), Below(p, y),
               Len(x) <= Len(y)
        PROVE  AtOrBelow(y, x)
    <2> DEFINE b == Len(Base(x))
               c == Len(Base(y))
    <2>1. /\ b \in Nat \ {0} /\ c \in Nat \ {0}
          /\ Len(x) \in Nat \ {0} /\ Len(y) \in Nat \ {0}
          /\ b = IF x = Root THEN 1 ELSE Len(x) + 1
          /\ c = IF y = Root THEN 1 ELSE Len(y) + 1
          /\ Len(x) <= b /\ Len(y) <= c
      BY BaseIs
    <2>2. /\ \A i \in 1 .. b : Base(x)[i] = p[i]
          /\ \A i \in 1 .. c : Base(y)[i] = p[i]
          /\ \A i \in 1 .. Len(x) : Base(x)[i] = x[i]
          /\ \A i \in 1 .. Len(y) : Base(y)[i] = y[i]
          /\ Len(Root) = 1 /\ Root[1] = "/"
      BY <1>2, <2>1, BelowIs, BaseIs DEF Root
    <2> HIDE DEF b, c
    <2>3. CASE Len(x) = Len(y)
      <3>1. \A i \in 1 .. Len(x) : x[i] = y[i]
        <4>1. \A i \in 1 .. Len(x) : i \in 1 .. b /\ i \in 1 .. c /\ i \in 1 .. Len(y)
          BY <2>1, <2>3
        <4> QED BY <2>2, <4>1
      <3>2. x = y
        BY <2>3, <3>1, SeqEqual DEF PathNames
      <3> QED BY <3>2 DEF AtOrBelow
    <2>4. CASE Len(x) < Len(y)
      <3>1. b <= Len(y)
        BY <2>1, <2>4
      <3>2. \A i \in 1 .. b : Base(x)[i] = y[i]
        <4>1. \A i \in 1 .. b : i \in 1 .. c /\ i \in 1 .. Len(y)
          BY <2>1, <3>1
        <4> QED BY <2>2, <4>1
      <3>3. Below(y, x)
        <4>1. y # x
          BY <2>1, <2>4
        <4> QED BY <3>1, <3>2, <4>1, BelowIs DEF b
      <3> QED BY <3>3 DEF AtOrBelow
    <2> QED BY <1>2, <2>1, <2>3, <2>4
  <1>3. CASE Below(p, d) /\ Below(p, e)
    <2>1. Len(d) \in Nat /\ Len(e) \in Nat
      BY BaseIs
    <2>2. Len(d) <= Len(e) \/ Len(e) <= Len(d)
      BY <2>1
    <2> QED BY <1>2, <1>3, <2>2
  <1> QED BY <1>1, <1>3 DEF AtOrBelow

\* A path is not below two names of one directory.
LEMMA OneName ==
  ASSUME NEW d \in PathNames, NEW m \in EntryNames, NEW n \in EntryNames, NEW p \in PathNames,
         AtOrBelow(p, Join(d, m)), AtOrBelow(p, Join(d, n))
  PROVE  m = n
  <1> DEFINE x == Join(d, m)
             y == Join(d, n)
  <1>1. /\ x \in PathNames /\ y \in PathNames /\ Below(x, d) /\ Below(y, d)
        /\ \A q \in PathNames : Below(x, q) => AtOrBelow(d, q)
        /\ \A q \in PathNames : Below(y, q) => AtOrBelow(d, q)
    BY JoinBelow
  <1>2. ASSUME NEW q \in PathNames, Below(q, d), AtOrBelow(d, q) PROVE FALSE
    <2>1. CASE Below(d, q)
      BY <1>2, <2>1, BelowIs, BaseIs
    <2>2. CASE d = q
      BY <1>2, <2>2 DEF Below
    <2> QED BY <1>2, <2>1, <2>2 DEF AtOrBelow
  <1> HIDE DEF x, y
  <1>3. AtOrBelow(x, y) \/ AtOrBelow(y, x)
    BY <1>1, Comparable DEF x, y
  <1>4. x = y
    BY <1>1, <1>2, <1>3 DEF AtOrBelow
  <1> QED BY <1>4, JoinOnce DEF x, y

\* Start paths that do not overlap have no path in common.
LEMMA ApartBelow ==
  ASSUME NEW d \in PathNames, NEW e \in PathNames, NEW p \in PathNames,
         AtOrBelow(p, d), AtOrBelow(p, e)
  PROVE  Overlap(d, e)
  <1>1. ASSUME NEW x \in PathNames, NEW y \in PathNames, AtOrBelow(y, x)
        PROVE  IsPartOf(x, y)
    <2>1. /\ x \in Seq(Character) /\ y \in Seq(Character) /\ Len(x) \in Nat /\ Len(y) \in Nat
          /\ Len(Base(x)) \in Nat /\ Len(x) <= Len(Base(x))
          /\ \A i \in 1 .. Len(x) : Base(x)[i] = x[i]
      <3>1. Base(x) \in Seq(Character)
        BY BaseIs
      <3> QED BY <3>1, BaseIs DEF PathNames
    <2>2. Len(x) <= Len(y) /\ \A i \in 1 .. Len(x) : x[i] = y[i]
      <3>1. CASE x = y
        BY <2>1, <3>1
      <3>2. CASE Below(y, x)
        <4>1. Len(Base(x)) <= Len(y) /\ \A i \in 1 .. Len(Base(x)) : Base(x)[i] = y[i]
          BY <3>2, BelowIs
        <4>2. Len(x) <= Len(y) /\ \A i \in 1 .. Len(x) : i \in 1 .. Len(Base(x))
          BY <2>1, <4>1
        <4> QED BY <2>1, <4>1, <4>2
      <3> QED BY <1>1, <3>1, <3>2 DEF AtOrBelow
    <2>3. SubSeq(x, 1, Len(x)) = SubSeq(y, 1, Len(x))
      BY <2>1, <2>2, PrefixAt DEF IsPrefix
    <2>4. SubSeq(x, 1, Len(x)) = x
      BY <2>1, SubSeqFull
    <2>5. 0 \in 0 .. Len(y) - Len(x) /\ 0 + 1 = 1 /\ 0 + Len(x) = Len(x)
      BY <2>1, <2>2
    <2>6. SubSeq(y, 0 + 1, 0 + Len(x)) = x
      BY <2>3, <2>4, <2>5
    <2> QED BY <2>5, <2>6 DEF IsPartOf
  <1>2. AtOrBelow(d, e) \/ AtOrBelow(e, d)
    BY Comparable
  <1> QED BY <1>1, <1>2 DEF Overlap

-----------------------------------------------------------------------------
(* That files are given once.  The walk is a partition of the paths below its
   start: what is ahead of it is below a directory on the stack, or is a name of
   the current one that was not read, or below that.  No directory on the stack
   is ahead, and no file found: each path is got to in one way. *)
\* The paths of the files or directories of a list, and that none is there twice.
PathsOf(s) == {s[i].path : i \in 1 .. Len(s)}
Differ(s)  == \A i, j \in 1 .. Len(s) : s[i].path = s[j].path => i = j

Waiting == PathsOf(scan_list)
Unread  == {Join(current.path, name) : name \in {n \in left : current # NoDir}}
PathsIn(a, q) == {file.path : file \in ToSet(a) \cup ToSet(q)}
Found   == PathsIn(added, queue)

AheadOf(waiting, unread, path) ==
  (\E dir \in waiting : Below(path, dir)) \/ (\E c \in unread : AtOrBelow(path, c))
Ahead(path) == AheadOf(Waiting, Unread, path)

\* The start path of the walk that is going on.
Started == start_path[next_path - 1]

\* Every directory on the way is one that the options let the walk take.
Named(path) ==
  \E dir \in DOMAIN fs.names : \E name \in fs.names[dir] : path = Join(dir, name) /\ Taken(name)
Clear(dir, start) ==
  /\ AtOrBelow(dir, start)
  /\ \A p \in DOMAIN fs.kind :
       Below(p, start) /\ AtOrBelow(dir, p) =>
         Named(p) /\ (settings.one_file_system => fs.dev[p] = fs.dev[start])

Directed ==
  /\ scan_list \in Seq(ToSet(scan_list)) /\ Waiting \subseteq DOMAIN fs.names
  /\ current # NoDir => Clear(current.path, Started)
  /\ \A dir \in Waiting : AtOrBelow(dir, Started) /\ (Exists(dir) => Clear(dir, Started))

Partitioned ==
  /\ Differ(scan_list)
  /\ \A path \in Waiting \cup Found : ~Ahead(path)
  /\ current # NoDir => \A dir \in Waiting : ~AtOrBelow(current.path, dir)

\* Each file found is there once.
Once(a, q) ==
  /\ Differ(a) /\ Differ(q)
  /\ \A i \in 1 .. Len(a), j \in 1 .. Len(q) : a[i].path # q[j].path

FoundWanted ==
  \A path \in Found : \E k \in 1 .. Len(start_path) : k < next_path /\ Wanted(path, start_path[k])

\* Of what is wanted nothing is lost.
Small(path) == fs.size[path] < settings.minimum_file_size
NoneLost ==
  gone = {} =>
    \A k \in 1 .. Len(start_path), path \in DOMAIN fs.kind :
      k < next_path /\ Wanted(path, start_path[k]) =>
        Small(path) \/ path \in Found \/ Ahead(path)

Walked == phase \in {"paths", "walk", "scanned", "processed", "joining"}
WalkPlace ==
  /\ phase = "walk" => next_path - 1 \in 1 .. Len(start_path) /\ device = fs.dev[Started]
  /\ phase # "walk" => WalkOver
  /\ phase \in {"args", "fiemap"} => added = << >> /\ queue = << >>
  /\ phase \in {"scanned", "processed", "joining"} => next_path > Len(start_path)

FoundInv ==
  /\ Apart(start_path) /\ WalkPlace /\ Directed /\ Partitioned
  /\ added \in Seq(ToSet(added)) /\ Once(added, queue)
  /\ FoundWanted /\ (Walked => NoneLost)

-----------------------------------------------------------------------------
\* The file system is a tree of paths.
LEMMA TreeIs ==
  ASSUME FilesKnown
  PROVE  /\ DOMAIN fs.kind \subseteq PathNames
         /\ DOMAIN fs.names = {dir \in DOMAIN fs.kind : fs.kind[dir] = "dir"}
         /\ \A dir \in DOMAIN fs.names : \A name \in fs.names[dir] :
              name \in EntryNames /\ Join(dir, name) \in DOMAIN fs.kind
         /\ \A path, dir \in DOMAIN fs.kind : Below(path, dir) =>
              /\ dir \in DOMAIN fs.names
              /\ \E name \in fs.names[dir] : AtOrBelow(path, Join(dir, name))
         /\ \A path \in DOMAIN fs.kind : fs.dev[path] \in Nat \ {0}
         /\ \A path \in DOMAIN fs.kind : Len(path) \in Nat
         /\ DUPD_PATH_MAX \in Nat
  <1>1. PICK i \in Instances : fs = i.fs
    BY DEF FilesKnown
  <1>2. Seq(STRING) \ {<< >>} \subseteq PathNames
    <2>1. STRING \subseteq Character
      BY DEF Character
    <2>2. Seq(STRING) \subseteq Seq(Character)
      <3>1. ASSUME NEW S, NEW C, S \subseteq C PROVE Seq(S) \subseteq Seq(C)
        BY <3>1
      <3> HIDE DEF Character
      <3> QED BY <2>1, <3>1, Zenon
    <2> QED BY <2>2 DEF PathNames
  <1>3. DOMAIN fs.kind \subseteq PathNames
    BY <1>1, <1>2, InstancesAssumption
  <1>4. ASSUME NEW dir \in DOMAIN fs.names, NEW name \in fs.names[dir]
        PROVE  name \in EntryNames /\ Join(dir, name) \in DOMAIN fs.kind
    BY <1>1, <1>2, InstancesAssumption DEF EntryNames
  <1>5. ASSUME NEW path \in DOMAIN fs.kind, NEW dir \in DOMAIN fs.kind, Below(path, dir)
        PROVE  /\ dir \in DOMAIN fs.names
               /\ \E name \in fs.names[dir] : AtOrBelow(path, Join(dir, name))
    BY <1>1, <1>5, InstancesAssumption DEF AtOrBelow
  <1>6. \A path \in DOMAIN fs.kind : Len(path) \in Nat
    BY <1>3, BaseIs
  <1> QED BY <1>1, <1>3, <1>4, <1>5, <1>6, InstancesAssumption

\* What is wanted is below directories that are taken.
LEMMA WantedIs ==
  ASSUME FilesKnown, NEW s \in DOMAIN fs.kind, NEW c \in DOMAIN fs.kind, NEW p \in DOMAIN fs.kind,
         Wanted(p, s), AtOrBelow(p, c), Below(c, s)
  PROVE  /\ Named(c) /\ fs.kind[p] = "file"
         /\ Len(p) < DUPD_PATH_MAX /\ Len(c) < DUPD_PATH_MAX
         /\ c # p => /\ fs.kind[c] = "dir" /\ Below(p, c)
                     /\ settings.one_file_system => fs.dev[c] = fs.dev[s]
  <1> DEFINE Way == {q \in DOMAIN fs.kind : Below(q, s) /\ (q = p \/ Below(p, q))}
  <1>1. /\ fs.kind[p] = "file" /\ Len(p) < DUPD_PATH_MAX
        /\ \A q \in Way : Named(q) /\ (settings.one_file_system /\ q # p => fs.dev[q] = fs.dev[s])
    BY DEF Wanted, Named
  <1>2. c \in Way
    BY DEF AtOrBelow
  <1>3. p \in PathNames /\ c \in PathNames /\ Len(p) \in Nat /\ Len(c) \in Nat /\ DUPD_PATH_MAX \in Nat
    BY TreeIs
  <1>4. Len(c) <= Len(p)
    BY <1>3, BelowIs DEF AtOrBelow
  <1>5. c # p => fs.kind[c] = "dir" /\ Below(p, c)
    BY TreeIs DEF AtOrBelow
  <1> QED BY <1>1, <1>2, <1>3, <1>4, <1>5

\* What is wanted is below where the walk starts.
LEMMA WantedBelow ==
  ASSUME NEW p, NEW s, Wanted(p, s)
  PROVE  p \in DOMAIN fs.kind /\ Below(p, s) /\ Len(p) < DUPD_PATH_MAX
  BY DEF Wanted

\* The way to what is in a directory.
LEMMA ClearWay ==
  ASSUME FilesKnown, NEW s \in DOMAIN fs.kind, NEW d \in DOMAIN fs.names, Clear(d, s),
         NEW name \in fs.names[d], Taken(name), NEW c, c = Join(d, name)
  PROVE  /\ fs.kind[c] = "file" /\ Len(c) < DUPD_PATH_MAX => Wanted(c, s)
         /\ fs.dev[c] = fs.dev[s] \/ ~settings.one_file_system => Clear(c, s)
         /\ Below(c, s)
  <1>1. /\ c \in DOMAIN fs.kind /\ name \in EntryNames /\ d \in PathNames /\ c \in PathNames
        /\ d \in DOMAIN fs.kind /\ s \in PathNames
    BY TreeIs
  <1>2. Below(c, d) /\ \A q \in PathNames : Below(c, q) => AtOrBelow(d, q)
    BY <1>1, JoinBelow
  <1>3. Below(c, s)
    <2>1. AtOrBelow(d, s)
      BY DEF Clear
    <2> QED BY <1>1, <1>2, <2>1, BelowBelow DEF AtOrBelow
  <1>4. Named(c)
    BY DEF Named
  <1>5. ASSUME NEW q \in DOMAIN fs.kind, Below(q, s), q # c, AtOrBelow(c, q)
        PROVE  Named(q) /\ (settings.one_file_system => fs.dev[q] = fs.dev[s])
    <2>1. q \in PathNames
      BY TreeIs
    <2>2. AtOrBelow(d, q)
      BY <1>2, <1>5, <2>1 DEF AtOrBelow
    <2> QED BY <1>5, <2>2 DEF Clear
  <1>6. fs.kind[c] = "file" /\ Len(c) < DUPD_PATH_MAX => Wanted(c, s)
    BY <1>1, <1>3, <1>4, <1>5 DEF Wanted, Named, AtOrBelow
  <1>7. fs.dev[c] = fs.dev[s] \/ ~settings.one_file_system => Clear(c, s)
    BY <1>3, <1>4, <1>5 DEF Clear, AtOrBelow
  <1> QED BY <1>3, <1>6, <1>7

\* The way to where the walk starts.
LEMMA ClearStart ==
  ASSUME FilesKnown, NEW s \in DOMAIN fs.kind
  PROVE  Clear(s, s)
  <1>1. ASSUME NEW p \in DOMAIN fs.kind, Below(p, s), AtOrBelow(s, p) PROVE FALSE
    <2>1. p \in PathNames /\ s \in PathNames /\ Len(p) \in Nat /\ Len(s) \in Nat
      BY TreeIs
    <2>2. Len(s) < Len(p) /\ Len(p) <= Len(s)
      BY <1>1, <2>1, BelowIs DEF AtOrBelow
    <2> QED BY <2>1, <2>2
  <1> QED BY <1>1 DEF Clear, AtOrBelow

-----------------------------------------------------------------------------
(* The lists of files. *)

\* Of two lists the files are of one set.
LEMMA PathsInBoth ==
  ASSUME NEW A, NEW a \in Seq(A), NEW B, NEW q \in Seq(B), NEW p
  PROVE  p \in PathsIn(a, q) <=> \/ \E i \in 1 .. Len(a) : p = a[i].path
                                 \/ \E j \in 1 .. Len(q) : p = q[j].path
  <1>1. DOMAIN a = 1 .. Len(a) /\ DOMAIN q = 1 .. Len(q)
    BY LenProperties
  <1> QED BY <1>1 DEF PathsIn, ToSet

\* The first file of the queue leaves it, perhaps for the size tree.
LEMMA MoveOn ==
  ASSUME NEW a, a \in Seq(ToSet(a)), NEW q, q \in Seq(ToSet(q)), q # << >>, Once(a, q),
         NEW b, b = a \/ b = Append(a, Head(q))
  PROVE  /\ Once(b, Tail(q)) /\ b \in Seq(ToSet(b))
         /\ PathsIn(b, Tail(q)) \subseteq PathsIn(a, q)
         /\ PathsIn(a, q) \subseteq PathsIn(b, Tail(q)) \cup {Head(q).path}
         /\ b = Append(a, Head(q)) => PathsIn(a, q) \subseteq PathsIn(b, Tail(q))
  <1> DEFINE D == ToSet(a) \cup ToSet(q)
             r == Tail(q)
             h == Head(q)
             m == Len(a)
             n == Len(q)
  <1>1. a \in Seq(D) /\ q \in Seq(D)
    OBVIOUS
  <1> HIDE DEF D
  <1>2. /\ h \in D /\ r \in Seq(D) /\ Len(r) = n - 1 /\ n \in Nat \ {0} /\ m \in Nat
        /\ \A i \in 1 .. n - 1 : r[i] = q[i + 1]
        /\ h = q[1]
    <2>1. Len(q) \in Nat \ {0} /\ Len(a) \in Nat
      BY <1>1, EmptySeq, LenProperties
    <2> QED BY <1>1, <2>1, HeadTailProperties
  <1>3. /\ b \in Seq(D) /\ b \in Seq(ToSet(b))
        /\ b = a \/ (Len(b) = m + 1 /\ b[m + 1] = h /\ \A i \in 1 .. m : b[i] = a[i])
        /\ b = Append(a, h) => Len(b) = m + 1 /\ b[m + 1] = h /\ \A i \in 1 .. m : b[i] = a[i]
    <2>1. /\ Append(a, h) \in Seq(D) /\ Len(Append(a, h)) = m + 1 /\ Append(a, h)[m + 1] = h
          /\ \A i \in 1 .. m : Append(a, h)[i] = a[i]
      BY <1>1, <1>2, AppendProperties
    <2>2. b \in Seq(D)
      BY <1>1, <2>1
    <2>3. b \in Seq(ToSet(b))
      BY <2>2, OfMembers
    <2> HIDE DEF h, m
    <2> QED BY <2>1, <2>2, <2>3 DEF h
  <1> HIDE DEF h, m, n, r
  <1>4. /\ \A i, j \in 1 .. m : a[i].path = a[j].path => i = j
        /\ \A i, j \in 1 .. n : q[i].path = q[j].path => i = j
        /\ \A i \in 1 .. m, j \in 1 .. n : a[i].path # q[j].path
    BY DEF Once, Differ, m, n
  <1>5. Len(a) = m /\ Len(q) = n /\ Len(r) = n - 1 /\ n - 1 \in Nat
    BY <1>2 DEF m, n
  <1>6. /\ \A i \in 1 .. n - 1 : i + 1 \in 1 .. n /\ i + 1 # 1
        /\ 1 \in 1 .. n /\ \A j \in 2 .. n : j - 1 \in 1 .. n - 1 /\ (j - 1) + 1 = j
        /\ \A j \in 1 .. n : j = 1 \/ j \in 2 .. n
        /\ m + 1 \in 1 .. m + 1 /\ \A i \in 1 .. m + 1 : i = m + 1 \/ i \in 1 .. m
        /\ \A i \in 1 .. m : i \in 1 .. m + 1
    BY <1>2
  <1>7. Once(b, r)
    <2>0. \A j \in 1 .. n - 1 : r[j] = q[j + 1] /\ j + 1 \in 1 .. n /\ j + 1 # 1
      BY <1>2, <1>6
    <2>1. ASSUME NEW i \in 1 .. n - 1, NEW j \in 1 .. n - 1, r[i].path = r[j].path PROVE i = j
      <3>1. i + 1 = j + 1
        BY <1>4, <2>0, <2>1
      <3> QED BY <1>2, <3>1
    <2>2. CASE b = a
      <3>1. \A i \in 1 .. m, j \in 1 .. n - 1 : a[i].path # r[j].path
        BY <1>4, <2>0
      <3> QED BY <1>4, <1>5, <2>1, <2>2, <3>1 DEF Once, Differ
    <2>3. CASE Len(b) = m + 1 /\ b[m + 1] = h /\ \A i \in 1 .. m : b[i] = a[i]
      <3>1. \A i \in 1 .. m + 1, j \in 1 .. n - 1 : b[i].path # r[j].path
        <4>1. \A j \in 1 .. n - 1 : h.path # r[j].path
          BY <1>2, <1>4, <1>6
        <4>2. \A i \in 1 .. m, j \in 1 .. n - 1 : a[i].path # r[j].path
          BY <1>4, <2>0
        <4> QED BY <1>6, <2>3, <4>1, <4>2
      <3>2. \A i, j \in 1 .. m + 1 : b[i].path = b[j].path => i = j
        <4>1. \A i \in 1 .. m : a[i].path # h.path
          BY <1>2, <1>4, <1>6
        <4> QED BY <1>4, <1>6, <2>3, <4>1
      <3> QED BY <1>5, <2>1, <2>3, <3>1, <3>2 DEF Once, Differ
    <2> QED BY <1>3, <2>2, <2>3
  <1>8. ASSUME NEW p \in PathsIn(b, r) PROVE p \in PathsIn(a, q)
    <2>1. (\E i \in 1 .. Len(b) : p = b[i].path) \/ (\E j \in 1 .. n - 1 : p = r[j].path)
      <3>1. (\E i \in 1 .. Len(b) : p = b[i].path) \/ (\E j \in 1 .. Len(r) : p = r[j].path)
        BY <1>2, <1>3, <1>8, PathsInBoth
      <3> QED BY <1>5, <3>1
    <2>2. (\E i \in 1 .. m : p = a[i].path) \/ (\E j \in 1 .. n : p = q[j].path)
      BY <1>2, <1>3, <1>5, <1>6, <2>1
    <2> QED BY <1>1, <1>5, <2>2, PathsInBoth
  <1>9. ASSUME NEW p \in PathsIn(a, q)
        PROVE  p \in PathsIn(b, r) \/ (p = h.path /\ b # Append(a, h))
    <2>1. (\E i \in 1 .. m : p = a[i].path) \/ (\E j \in 1 .. n : p = q[j].path)
      BY <1>1, <1>5, <1>9, PathsInBoth
    <2>2. CASE \E i \in 1 .. m : p = a[i].path
      <3>1. \E i \in 1 .. Len(b) : p = b[i].path
        BY <1>3, <1>5, <1>6, <2>2
      <3> QED BY <1>2, <1>3, <3>1, PathsInBoth
    <2>3. CASE \E j \in 2 .. n : p = q[j].path
      <3>1. PICK j \in 2 .. n : p = q[j].path
        BY <2>3
      <3>2. j - 1 \in 1 .. n - 1 /\ r[j - 1] = q[(j - 1) + 1] /\ (j - 1) + 1 = j
        BY <1>2, <1>6
      <3>3. j - 1 \in 1 .. Len(r) /\ p = r[j - 1].path
        BY <1>5, <3>1, <3>2
      <3> QED BY <1>2, <1>3, <3>3, PathsInBoth
    <2>4. CASE p = h.path
      <3>1. b = Append(a, h) => \E i \in 1 .. Len(b) : p = b[i].path
        BY <1>3, <1>6, <2>4
      <3> QED BY <1>2, <1>3, <2>4, <3>1, PathsInBoth
    <2> QED BY <1>2, <1>6, <2>1, <2>2, <2>3, <2>4
  <1> QED BY <1>3, <1>7, <1>8, <1>9 DEF h, r

\* A file more, in the queue or in the size tree.
LEMMA OneMore ==
  ASSUME NEW a, a \in Seq(ToSet(a)), NEW q, q \in Seq(ToSet(q)), Once(a, q),
         NEW f, f.path \notin PathsIn(a, q), NEW b, NEW r,
         \/ b = Append(a, f) /\ r = q
         \/ b = a /\ r = Append(q, f)
  PROVE  /\ Once(b, r) /\ b \in Seq(ToSet(b))
         /\ PathsIn(b, r) = PathsIn(a, q) \cup {f.path}
  <1> DEFINE D == ToSet(a) \cup ToSet(q) \cup {f}
             m == Len(a)
             n == Len(q)
  <1>1. a \in Seq(D) /\ q \in Seq(D) /\ f \in D
    <2>1. ToSet(a) \subseteq D /\ ToSet(q) \subseteq D
      OBVIOUS
    <2> HIDE DEF D
    <2>2. a \in Seq(D) /\ q \in Seq(D)
      BY <2>1
    <2> QED BY <2>2 DEF D
  <1> HIDE DEF D
  <1>2. m \in Nat /\ n \in Nat
    BY <1>1, LenProperties
  <1>3. ASSUME NEW s \in Seq(D)
        PROVE  /\ Append(s, f) \in Seq(D) /\ Len(Append(s, f)) = Len(s) + 1
               /\ Append(s, f)[Len(s) + 1] = f /\ \A i \in 1 .. Len(s) : Append(s, f)[i] = s[i]
    BY <1>1, <1>3, AppendProperties
  <1>4. b \in Seq(D) /\ r \in Seq(D) /\ b \in Seq(ToSet(b))
    <2>1. b \in Seq(D) /\ r \in Seq(D)
      BY <1>1, <1>3
    <2> QED BY <2>1, OfMembers
  <1>5. /\ \A i \in 1 .. m : a[i].path # f.path
        /\ \A j \in 1 .. n : q[j].path # f.path
    BY <1>1, PathsInBoth
  <1>6. /\ \A i, j \in 1 .. m : a[i].path = a[j].path => i = j
        /\ \A i, j \in 1 .. n : q[i].path = q[j].path => i = j
        /\ \A i \in 1 .. m, j \in 1 .. n : a[i].path # q[j].path
    BY DEF Once, Differ
  <1>7. \A k \in Nat : /\ k + 1 \in 1 .. k + 1
                       /\ \A i \in 1 .. k + 1 : i = k + 1 \/ i \in 1 .. k
                       /\ \A i \in 1 .. k : i \in 1 .. k + 1
    OBVIOUS
  <1>8. CASE b = Append(a, f) /\ r = q
    <2>1. Len(b) = m + 1 /\ b[m + 1] = f /\ (\A i \in 1 .. m : b[i] = a[i]) /\ r = q
      BY <1>1, <1>3, <1>8
    <2> HIDE DEF m, n
    <2>2. Len(r) = n
      BY <2>1 DEF n
    <2>3. Once(b, r)
      <3>1. \A i, j \in 1 .. m + 1 : b[i].path = b[j].path => i = j
        BY <1>2, <1>5, <1>6, <1>7, <2>1
      <3>2. \A i \in 1 .. m + 1, j \in 1 .. n : b[i].path # r[j].path
        BY <1>2, <1>5, <1>6, <1>7, <2>1
      <3>3. \A i, j \in 1 .. n : r[i].path = r[j].path => i = j
        BY <1>6, <2>1
      <3> QED BY <2>1, <2>2, <3>1, <3>2, <3>3 DEF Once, Differ
    <2>4. ASSUME NEW p PROVE p \in PathsIn(b, r) <=> p \in PathsIn(a, q) \/ p = f.path
      <3>1. p \in PathsIn(b, r) <=> \/ \E i \in 1 .. m + 1 : p = b[i].path
                                    \/ \E j \in 1 .. n : p = q[j].path
        BY <1>1, <1>4, <2>1, <2>2, PathsInBoth
      <3>2. p \in PathsIn(a, q) <=> \/ \E i \in 1 .. m : p = a[i].path
                                    \/ \E j \in 1 .. n : p = q[j].path
        BY <1>1, PathsInBoth DEF m, n
      <3>3. (\E i \in 1 .. m + 1 : p = b[i].path) <=> (\E i \in 1 .. m : p = a[i].path) \/ p = f.path
        BY <1>2, <1>7, <2>1
      <3> QED BY <3>1, <3>2, <3>3
    <2> QED BY <1>4, <2>3, <2>4
  <1>9. CASE b = a /\ r = Append(q, f)
    <2>1. Len(r) = n + 1 /\ r[n + 1] = f /\ (\A i \in 1 .. n : r[i] = q[i]) /\ b = a
      BY <1>1, <1>3, <1>9
    <2> HIDE DEF m, n
    <2>2. Len(b) = m
      BY <2>1 DEF m
    <2>3. Once(b, r)
      <3>1. \A i, j \in 1 .. n + 1 : r[i].path = r[j].path => i = j
        BY <1>2, <1>5, <1>6, <1>7, <2>1
      <3>2. \A i \in 1 .. m, j \in 1 .. n + 1 : b[i].path # r[j].path
        BY <1>2, <1>5, <1>6, <1>7, <2>1
      <3>3. \A i, j \in 1 .. m : b[i].path = b[j].path => i = j
        BY <1>6, <2>1
      <3> QED BY <2>1, <2>2, <3>1, <3>2, <3>3 DEF Once, Differ
    <2>4. ASSUME NEW p PROVE p \in PathsIn(b, r) <=> p \in PathsIn(a, q) \/ p = f.path
      <3>1. p \in PathsIn(b, r) <=> \/ \E i \in 1 .. m : p = a[i].path
                                    \/ \E j \in 1 .. n + 1 : p = r[j].path
        BY <1>1, <1>4, <2>1, <2>2, PathsInBoth
      <3>2. p \in PathsIn(a, q) <=> \/ \E i \in 1 .. m : p = a[i].path
                                    \/ \E j \in 1 .. n : p = q[j].path
        BY <1>1, PathsInBoth DEF m, n
      <3>3. (\E j \in 1 .. n + 1 : p = r[j].path) <=> (\E j \in 1 .. n : p = q[j].path) \/ p = f.path
        BY <1>2, <1>7, <2>1
      <3> QED BY <3>1, <3>2, <3>3
    <2> QED BY <1>4, <2>3, <2>4
  <1> QED BY <1>8, <1>9

-----------------------------------------------------------------------------
(* The steps that find no file, and those of the worker. *)

\* What is wanted is told from the file system and the options.
LEMMA WantedStays ==
  ASSUME UNCHANGED <<fs, settings>>
  PROVE  /\ \A p, s : Wanted(p, s)' <=> Wanted(p, s)
         /\ \A p, s : Clear(p, s)' <=> Clear(p, s)
         /\ \A p : Small(p)' <=> Small(p)
  <1>1. \A name : Taken(name)' <=> Taken(name)
    BY DEF Taken
  <1>2. \A p : Named(p)' <=> Named(p)
    BY <1>1 DEF Named
  <1>3. \A p, s : Wanted(p, s)' <=> Wanted(p, s)
    BY <1>1 DEF Wanted
  <1> QED BY <1>2, <1>3 DEF Clear, Small

\* Before the first walk nothing is found.
LEMMA NothingFound ==
  ASSUME WalkOver', added' = << >>, queue' = << >>, Apart(start_path'),
         phase' \in {"args", "fiemap", "paths", "end"}, phase' = "paths" => next_path' = 1,
         start_path' \in Seq(DOMAIN fs.names)
  PROVE  FoundInv'
  <1>1. scan_list' = << >> /\ current' = NoDir /\ Len(<< >>) = 0 /\ << >> \in Seq(ToSet(<< >>))
        /\ ToSet(<< >>) = {}
    BY DEF WalkOver, ToSet, NoDir
  <1>2. Waiting' = {} /\ Unread' = {} /\ Found' = {}
    BY <1>1 DEF Waiting, Unread, Found, PathsIn, PathsOf
  <1>3. WalkPlace'
    BY <1>1 DEF WalkPlace
  <1>4. Directed' /\ Partitioned'
    BY <1>1, <1>2 DEF Directed, Partitioned, Differ
  <1>5. Once(added, queue)' /\ added' \in Seq(ToSet(added'))
    BY <1>1 DEF Once, Differ
  <1>6. FoundWanted'
    BY <1>2 DEF FoundWanted
  <1>7. Walked' => NoneLost'
    <2>1. Walked' => next_path' = 1
      BY DEF Walked
    <2>2. \A k \in 1 .. Len(start_path') : ~(k < 1)
      OBVIOUS
    <2> QED BY <2>1, <2>2 DEF NoneLost
  <1>8. Apart(start_path)'
    OBVIOUS
  <1> QED BY <1>3, <1>4, <1>5, <1>6, <1>7, <1>8 DEF FoundInv

\* A step that is not about files.
LEMMA FoundStays ==
  ASSUME FoundInv, UNCHANGED <<fs, gone, settings, walkvars, queue, added, start_path, next_path>>,
         \/ phase' = phase
         \/ /\ phase = "walk" => WalkOver
            /\ phase' \in {"paths", "scanned", "processed", "joining", "end"}
            /\ Walked' => Walked
            /\ phase' \in {"scanned", "processed", "joining"} => next_path > Len(start_path)
  PROVE  FoundInv'
  <1>1. UNCHANGED <<fs, gone, settings, scan_list, current, left, device, queue, added, start_path,
                    next_path>>
    BY DEF walkvars
  <1>2. /\ Waiting' = Waiting /\ Unread' = Unread /\ Found' = Found /\ Started' = Started
        /\ \A p : Exists(p)' <=> Exists(p)
        /\ \A p : Ahead(p)' <=> Ahead(p)
    BY <1>1 DEF Waiting, Unread, Found, PathsIn, Started, Exists, Ahead, AheadOf
  <1>3. /\ \A p, s : Wanted(p, s)' <=> Wanted(p, s)
        /\ \A p, s : Clear(p, s)' <=> Clear(p, s)
        /\ \A p : Small(p)' <=> Small(p)
    BY <1>1, WantedStays
  <1>4. Apart(start_path)' /\ Once(added, queue)' /\ added' \in Seq(ToSet(added'))
    BY <1>1 DEF FoundInv, Apart, Once
  <1>5. Directed'
    BY <1>1, <1>2, <1>3 DEF FoundInv, Directed
  <1>6. Partitioned'
    BY <1>1, <1>2 DEF FoundInv, Partitioned
  <1>7. FoundWanted'
    BY <1>1, <1>2, <1>3 DEF FoundInv, FoundWanted
  <1>8. Walked' => NoneLost'
    <2>1. Walked' => Walked
      BY DEF Walked
    <2> QED BY <1>1, <1>2, <1>3, <2>1 DEF FoundInv, NoneLost
  <1>9. WalkPlace'
    BY <1>1, <1>2 DEF FoundInv, WalkPlace, WalkOver
  <1> QED BY <1>4, <1>5, <1>6, <1>7, <1>8, <1>9 DEF FoundInv

\* The worker takes a file: it is in the size tree, or too small, or disappeared.
LEMMA WorkerFound == FilesKnown /\ FoundInv /\ Worker => FoundInv'
  <1> SUFFICES ASSUME FilesKnown, FoundInv, Worker PROVE FoundInv'
    OBVIOUS
  <1> DEFINE h == Head(queue)
  <1>1. /\ UNCHANGED <<fs, gone, settings, scan_list, current, left, device, start_path, next_path,
                       phase>>
        /\ queue # << >> /\ AddFile(h) /\ queue' = Tail(queue)
    BY DEF Worker, WorkerAdd, walkvars, mainvars
  <1>2. /\ Waiting' = Waiting /\ Unread' = Unread /\ Started' = Started
        /\ \A p : Exists(p)' <=> Exists(p)
        /\ \A p : Ahead(p)' <=> Ahead(p)
    BY <1>1 DEF Waiting, Unread, Started, Exists, Ahead, AheadOf
  <1>3. /\ \A p, s : Wanted(p, s)' <=> Wanted(p, s)
        /\ \A p, s : Clear(p, s)' <=> Clear(p, s)
        /\ \A p : Small(p)' <=> Small(p)
    BY <1>1, WantedStays
  <1>4. \/ added' = Append(added, h)
        \/ added' = added /\ (~Exists(h.path) \/ Small(h.path))
    BY <1>1 DEF AddFile, addvars, Small
  <1>5. /\ Once(added', queue') /\ added' \in Seq(ToSet(added'))
        /\ Found' \subseteq Found /\ Found \subseteq Found' \cup {h.path}
        /\ Found \subseteq Found' \/ ~Exists(h.path) \/ Small(h.path)
    <2>1. added \in Seq(ToSet(added)) /\ queue \in Seq(ToSet(queue)) /\ Once(added, queue)
      BY DEF FoundInv, FilesKnown, Queued
    <2>2. Found = PathsIn(added, queue) /\ Found' = PathsIn(added', Tail(queue))
      BY <1>1 DEF Found, PathsIn
    <2> QED BY <1>1, <1>4, <2>1, <2>2, MoveOn
  <1>6. Apart(start_path)' /\ Once(added, queue)'
    BY <1>1, <1>5 DEF FoundInv, Apart, Once
  <1>7. Directed'
    BY <1>1, <1>2, <1>3 DEF FoundInv, Directed
  <1>8. Partitioned'
    BY <1>1, <1>2, <1>5 DEF FoundInv, Partitioned
  <1>9. FoundWanted'
    BY <1>1, <1>2, <1>3, <1>5 DEF FoundInv, FoundWanted
  <1>10. Walked' => NoneLost'
    <2>1. Walked' <=> Walked
      BY <1>1 DEF Walked
    <2>2. SUFFICES ASSUME NoneLost, gone = {}, NEW k \in 1 .. Len(start_path),
                          NEW path \in DOMAIN fs.kind, k < next_path, Wanted(path, start_path[k])
          PROVE  Small(path) \/ path \in Found' \/ Ahead(path)
      BY <1>1, <1>2, <1>3, <2>1 DEF FoundInv, NoneLost
    <2>3. Small(path) \/ path \in Found \/ Ahead(path)
      BY <2>2 DEF NoneLost
    <2>4. Exists(path)
      <3>1. Len(path) < DUPD_PATH_MAX
        BY <2>2, WantedBelow
      <3> QED BY <2>2, <3>1 DEF Exists
    <2> QED BY <1>5, <2>3, <2>4
  <1>11. WalkPlace'
    BY <1>1, <1>2 DEF FoundInv, WalkPlace, WalkOver
  <1> QED BY <1>5, <1>6, <1>7, <1>8, <1>9, <1>10, <1>11 DEF FoundInv

\* When something is deleted nothing is lost that must be found.
LEMMA VanishFound ==
  FoundInv /\ Vanish /\ UNCHANGED mainvars => FoundInv'
  <1> SUFFICES ASSUME FoundInv, Vanish, UNCHANGED mainvars PROVE FoundInv'
    OBVIOUS
  <1>1. /\ UNCHANGED <<fs, settings, scan_list, current, left, device, queue, added, start_path,
                       next_path, phase>>
        /\ gone \subseteq gone'
    BY DEF Vanish, walkvars, mainvars, addvars
  <1>2. /\ Waiting' = Waiting /\ Unread' = Unread /\ Found' = Found /\ Started' = Started
        /\ \A p : Exists(p)' => Exists(p)
        /\ \A p : Ahead(p)' <=> Ahead(p)
    BY <1>1 DEF Waiting, Unread, Found, PathsIn, Started, Exists, Ahead, AheadOf
  <1>3. /\ \A p, s : Wanted(p, s)' <=> Wanted(p, s)
        /\ \A p, s : Clear(p, s)' <=> Clear(p, s)
        /\ \A p : Small(p)' <=> Small(p)
    BY <1>1, WantedStays
  <1>4. Apart(start_path)' /\ Once(added, queue)' /\ added' \in Seq(ToSet(added'))
    BY <1>1 DEF FoundInv, Apart, Once
  <1>5. Directed'
    BY <1>1, <1>2, <1>3 DEF FoundInv, Directed
  <1>6. Partitioned'
    BY <1>1, <1>2 DEF FoundInv, Partitioned
  <1>7. FoundWanted'
    BY <1>1, <1>2, <1>3 DEF FoundInv, FoundWanted
  <1>8. Walked' => NoneLost'
    BY <1>1, <1>2, <1>3 DEF FoundInv, NoneLost, Walked
  <1>9. WalkPlace'
    BY <1>1, <1>2 DEF FoundInv, WalkPlace, WalkOver
  <1> QED BY <1>4, <1>5, <1>6, <1>7, <1>8, <1>9 DEF FoundInv

-----------------------------------------------------------------------------
(* The steps of a walk. *)

\* Where the walk is.
LEMMA WalkKnows ==
  ASSUME FilesKnown, Prepared, FoundInv, phase = "walk"
  PROVE  /\ Started \in DOMAIN fs.names /\ Started \in DOMAIN fs.kind /\ Started \in PathNames
         /\ device = fs.dev[Started]
         /\ Waiting \subseteq DOMAIN fs.names /\ Waiting \subseteq PathNames
         /\ current # NoDir => /\ current.path \in DOMAIN fs.names /\ current.path \in PathNames
                               /\ left \subseteq fs.names[current.path]
                               /\ Clear(current.path, Started)
         /\ Found \subseteq DOMAIN fs.kind /\ DOMAIN fs.kind \subseteq PathNames
  <1>1. /\ DOMAIN fs.kind \subseteq PathNames /\ DOMAIN fs.names \subseteq DOMAIN fs.kind
    BY TreeIs
  <1>2. Started \in DOMAIN fs.names /\ device = fs.dev[Started]
    <2>1. next_path - 1 \in 1 .. Len(start_path) /\ device = fs.dev[Started]
      BY DEF FoundInv, WalkPlace
    <2> QED BY <2>1 DEF Prepared, Started
  <1>3. Found \subseteq DOMAIN fs.kind
    BY WantedBelow DEF FoundInv, FoundWanted
  <1>4. /\ Waiting \subseteq DOMAIN fs.names
        /\ current # NoDir => Clear(current.path, Started)
    BY DEF FoundInv, Directed
  <1>5. current # NoDir => current.path \in DOMAIN fs.names /\ left \subseteq fs.names[current.path]
    BY DEF FilesKnown, Reading
  <1> QED BY <1>1, <1>2, <1>3, <1>4, <1>5

\* Start paths are apart: what is wanted below this one is not below another.
LEMMA SameStart ==
  ASSUME FilesKnown, Prepared, FoundInv, phase = "walk",
         NEW p \in DOMAIN fs.kind, AtOrBelow(p, Started),
         NEW k \in 1 .. Len(start_path), Wanted(p, start_path[k])
  PROVE  start_path[k] = Started
  <1>1. /\ next_path - 1 \in 1 .. Len(start_path) /\ Apart(start_path)
        /\ start_path[k] \in PathNames /\ Started \in PathNames /\ p \in PathNames
    <2>1. start_path[k] \in DOMAIN fs.names
      BY DEF Prepared
    <2> QED BY <2>1, WalkKnows, TreeIs DEF FoundInv, WalkPlace
  <1>2. AtOrBelow(p, start_path[k])
    BY WantedBelow DEF AtOrBelow
  <1>3. Overlap(start_path[k], Started)
    BY <1>1, <1>2, ApartBelow
  <1> QED BY <1>1, <1>3 DEF Apart, Started

\* A step of the walk that keeps the partition.
LEMMA WalkOn ==
  ASSUME FilesKnown, Prepared, FoundInv, phase = "walk",
         UNCHANGED <<fs, gone, settings, phase, start_path, next_path, device>>,
         Directed', Once(added', queue'), added' \in Seq(ToSet(added')),
         Differ(scan_list'),
         current' # NoDir => \A dir \in Waiting' : ~AtOrBelow(current'.path, dir),
         \A path \in DOMAIN fs.kind : Ahead(path)' => Ahead(path),
         \A path \in Waiting' : path \in Waiting \/ ~Ahead(path)',
         Found \subseteq Found',
         \A path \in Found' : \/ path \in Found
                              \/ Wanted(path, Started) /\ ~Ahead(path)',
         gone = {} => \A path \in DOMAIN fs.kind :
           /\ \E k \in 1 .. Len(start_path) : Wanted(path, start_path[k])
           /\ Ahead(path)
           => Small(path) \/ path \in Found' \/ Ahead(path)'
  PROVE  FoundInv'
  <1>1. /\ \A p, s : Wanted(p, s)' <=> Wanted(p, s)
        /\ \A p, s : Clear(p, s)' <=> Clear(p, s)
        /\ \A p : Small(p)' <=> Small(p)
    BY WantedStays
  <1>2. /\ Waiting \subseteq DOMAIN fs.kind /\ Found \subseteq DOMAIN fs.kind
        /\ next_path - 1 \in 1 .. Len(start_path) /\ next_path \in Nat
        /\ device = fs.dev[Started] /\ Started' = Started
    BY WalkKnows, TreeIs DEF FoundInv, WalkPlace, Prepared, Started
  <1>3. WalkPlace'
    BY <1>2 DEF WalkPlace
  <1>4. Partitioned'
    <2>1. ASSUME NEW path \in Waiting' \cup Found' PROVE ~Ahead(path)'
      <3>1. path \in Waiting \cup Found => path \in DOMAIN fs.kind /\ ~Ahead(path)
        BY <1>2 DEF FoundInv, Partitioned
      <3> QED BY <2>1, <3>1
    <2> QED BY <2>1 DEF Partitioned
  <1>5. FoundWanted'
    <2>1. next_path - 1 < next_path
      BY <1>2
    <2>2. ASSUME NEW path \in Found'
          PROVE  \E k \in 1 .. Len(start_path) : k < next_path /\ Wanted(path, start_path[k])
      <3>1. CASE path \in Found
        BY <3>1 DEF FoundInv, FoundWanted
      <3>2. CASE Wanted(path, Started)
        BY <1>2, <2>1, <3>2 DEF Started
      <3> QED BY <3>1, <3>2
    <2> QED BY <1>1, <2>2 DEF FoundWanted
  <1>6. NoneLost'
    <2>1. NoneLost
      BY DEF FoundInv, Walked
    <2> QED BY <1>1, <2>1 DEF NoneLost
  <1>7. Apart(start_path)' /\ Once(added, queue)'
    BY DEF FoundInv, Apart, Once
  <1> QED BY <1>3, <1>4, <1>5, <1>6, <1>7 DEF FoundInv

\* The directory on top of the stack leaves it.
LEMMA StackTop ==
  ASSUME NEW s, s \in Seq(ToSet(s)), s # << >>,
         Differ(s), NEW r, r = Front(s), NEW top, top = s[Len(s)]
  PROVE  /\ r \in Seq(ToSet(r)) /\ Differ(r)
         /\ top.path \in PathsOf(s) /\ top.path \notin PathsOf(r)
         /\ PathsOf(r) \subseteq PathsOf(s) /\ PathsOf(s) \subseteq PathsOf(r) \cup {top.path}
  <1> DEFINE n == Len(s)
  <1>1. n \in Nat \ {0}
    BY LenProperties, EmptySeq
  <1>2. /\ r \in Seq(ToSet(s)) /\ Len(r) = n - 1 /\ \A i \in 1 .. n - 1 : r[i] = s[i]
    <2>1. r = SubSeq(s, 1, n - 1)
      BY DEF Front
    <2> DEFINE m == n - 1
    <2>2. m \in Nat /\ \A i \in 1 .. m : i \in 1 .. n
      BY <1>1
    <2> HIDE DEF m
    <2>3. m - 1 + 1 = m /\ (m = 0 \/ 1 <= m) /\ m \in Int /\ \A i \in 1 .. m : 1 + i - 1 = i
      BY <2>2
    <2>4. \A i \in 1 .. m : s[i] \in ToSet(s)
      BY <2>2
    <2>5. (IF 1 <= m THEN m - 1 + 1 ELSE 0) = m
      BY <2>3
    <2> HIDE DEF n
    <2>6. SubSeq(s, 1, m) \in Seq(ToSet(s)) /\ Len(SubSeq(s, 1, m)) = m
          /\ \A i \in 1 .. m : SubSeq(s, 1, m)[i] = s[1 + i - 1]
      BY <2>3, <2>4, <2>5, SubSeqProperties
    <2> QED BY <2>1, <2>3, <2>6 DEF m
  <1>3. r \in Seq(ToSet(r))
    BY <1>2, OfMembers
  <1> HIDE DEF n
  <1>4. /\ n \in 1 .. n /\ \A i \in 1 .. n - 1 : i \in 1 .. n /\ i # n
        /\ \A i \in 1 .. n : i \in 1 .. n - 1 \/ i = n
    BY <1>1
  <1>5. /\ \A i, j \in 1 .. n : s[i].path = s[j].path => i = j
        /\ top = s[n] /\ Len(s) = n
    BY DEF Differ, n
  <1>6. \A i \in 1 .. n - 1 : r[i].path = s[i].path /\ r[i].path # top.path
    BY <1>2, <1>4, <1>5
  <1>7. \A i, j \in 1 .. n - 1 : r[i].path = r[j].path => i = j
    BY <1>4, <1>5, <1>6
  <1>8. Len(r) = n - 1
    BY <1>2
  <1> QED BY <1>3, <1>4, <1>5, <1>6, <1>7, <1>8 DEF Differ, PathsOf

\* What is ahead in a directory is what was ahead below it.
LEMMA OpenedAhead ==
  ASSUME FilesKnown, NEW d \in DOMAIN fs.names, NEW W, NEW R, W \subseteq R \cup {d},
         R \subseteq W, d \in W,
         NEW U, U = {Join(d, name) : name \in fs.names[d]}, NEW p \in DOMAIN fs.kind
  PROVE  AheadOf(R, U, p) <=> AheadOf(W, {}, p)
  <1>1. p \in PathNames /\ d \in PathNames /\ d \in DOMAIN fs.kind
    BY TreeIs
  <1>2. Below(p, d) => \E c \in U : AtOrBelow(p, c)
    BY <1>1, TreeIs
  <1>3. ASSUME NEW c \in U, AtOrBelow(p, c) PROVE Below(p, d)
    <2>1. PICK name \in fs.names[d] : c = Join(d, name)
      OBVIOUS
    <2>2. name \in EntryNames
      BY TreeIs
    <2>3. c \in PathNames /\ Below(c, d)
      BY <1>1, <2>1, <2>2, JoinBelow
    <2> QED BY <1>1, <1>3, <2>3, BelowBelow DEF AtOrBelow
  <1> QED BY <1>2, <1>3 DEF AheadOf

\* A directory is opened, and what is below it is still ahead; or it disappeared.
LEMMA OpenDirFound ==
  FilesKnown /\ Prepared /\ FoundInv /\ WalkStep /\ OpenDir => FoundInv'
  <1> SUFFICES ASSUME FilesKnown, Prepared, FoundInv, WalkStep, OpenDir PROVE FoundInv'
    OBVIOUS
  <1> DEFINE top == scan_list[Len(scan_list)]
  <1>1. /\ phase = "walk" /\ scan_list # << >> /\ current = NoDir /\ scan_list' = Front(scan_list)
        /\ UNCHANGED <<fs, gone, settings, phase, start_path, next_path, device, queue, added>>
        /\ \/ Exists(top.path) /\ current' = top /\ left' = fs.names[top.path]
           \/ ~(Exists(top.path) /\ top.path \in DOMAIN fs.names) /\ UNCHANGED <<current, left>>
    BY DEF WalkStep, OpenDir, Main, mainvars, addvars
  <1>2. /\ scan_list' \in Seq(ToSet(scan_list')) /\ Differ(scan_list')
        /\ top.path \in Waiting /\ top.path \notin Waiting'
        /\ Waiting' \subseteq Waiting /\ Waiting \subseteq Waiting' \cup {top.path}
    <2>1. scan_list \in Seq(ToSet(scan_list)) /\ Differ(scan_list)
      BY DEF FoundInv, Directed, Partitioned
    <2>2. Waiting = PathsOf(scan_list) /\ Waiting' = PathsOf(scan_list')
      BY DEF Waiting, PathsOf
    <2> QED BY <1>1, <2>1, <2>2, StackTop
  <1> HIDE DEF top
  <1>3. /\ Waiting \subseteq DOMAIN fs.names /\ Waiting \subseteq PathNames
        /\ top.path \in DOMAIN fs.names /\ top.path \in DOMAIN fs.kind
        /\ Waiting \subseteq DOMAIN fs.kind
    BY <1>1, <1>2, WalkKnows, TreeIs
  <1>4. /\ Once(added', queue') /\ added' \in Seq(ToSet(added')) /\ Found' = Found
        /\ Started' = Started
    BY <1>1 DEF FoundInv, Once, Found, PathsIn, Started
  <1>5. Unread = {} /\ \A p : Ahead(p) <=> AheadOf(Waiting, {}, p)
    BY <1>1 DEF Unread, Ahead
  <1>6. /\ \A dir \in Waiting : ~Ahead(dir)
        /\ \A dir \in Waiting : AtOrBelow(dir, Started) /\ (Exists(dir) => Clear(dir, Started))
    BY DEF FoundInv, Partitioned, Directed
  <1>7. \A dir \in Waiting' :
          AtOrBelow(dir, Started) /\ (Exists(dir)' => Clear(dir, Started)')
    BY <1>1, <1>2, <1>4, <1>6, WantedStays DEF Exists
  <1>8. CASE Exists(top.path) /\ current' = top /\ left' = fs.names[top.path]
    <2>1. top # NoDir
      <3>1. top.path # NoDir.path
        BY <1>2, <1>3 DEF PathNames, NoDir
      <3> QED BY <3>1
    <2>2. Unread' = {Join(top.path, name) : name \in fs.names[top.path]}
      BY <1>8, <2>1 DEF Unread
    <2>3. \A p \in DOMAIN fs.kind : Ahead(p)' <=> AheadOf(Waiting, {}, p)
      <3>1. \A p \in DOMAIN fs.kind : AheadOf(Waiting', Unread', p) <=> AheadOf(Waiting, {}, p)
        BY <1>2, <1>3, <2>2, OpenedAhead
      <3> QED BY <3>1 DEF Ahead, AheadOf
    <2>4. Directed'
      <3>1. Clear(top.path, Started)
        BY <1>2, <1>6, <1>8
      <3>2. Clear(current.path, Started)'
        BY <1>1, <1>8, <1>4, <3>1, WantedStays
      <3>3. Waiting' \subseteq DOMAIN fs.names'
        BY <1>1, <1>2, <1>3
      <3>4. \A dir \in Waiting' :
              AtOrBelow(dir, Started') /\ (Exists(dir)' => Clear(dir, Started)')
        BY <1>4, <1>7
      <3> QED BY <1>2, <3>2, <3>3, <3>4 DEF Directed
    <2>5. \A dir \in Waiting' : ~AtOrBelow(current'.path, dir)
      <3>1. ASSUME NEW dir \in Waiting', AtOrBelow(top.path, dir) PROVE FALSE
        <4>1. dir # top.path /\ dir \in Waiting
          BY <1>2
        <4>2. Below(top.path, dir)
          BY <3>1, <4>1 DEF AtOrBelow
        <4> QED BY <1>2, <1>6, <4>1, <4>2 DEF Ahead, AheadOf
      <3> QED BY <1>8, <3>1
    <2> QED BY <1>1, <1>2, <1>3, <1>4, <1>5, <2>3, <2>4, <2>5, WalkOn
  <1>9. CASE ~(Exists(top.path) /\ top.path \in DOMAIN fs.names) /\ UNCHANGED <<current, left>>
    <2>1. Unread' = {} /\ current' = NoDir
      BY <1>1, <1>9 DEF Unread
    <2>2. \A p : Ahead(p)' => Ahead(p)
      BY <1>2, <1>5, <2>1 DEF Ahead, AheadOf
    <2>3. \A p : Ahead(p) => Ahead(p)' \/ Below(p, top.path)
      BY <1>2, <1>5 DEF Ahead, AheadOf
    <2>4. Directed'
      <3>1. Waiting' \subseteq DOMAIN fs.names'
        BY <1>1, <1>2, <1>3
      <3>2. \A dir \in Waiting' :
              AtOrBelow(dir, Started') /\ (Exists(dir)' => Clear(dir, Started)')
        BY <1>4, <1>7
      <3> QED BY <1>2, <2>1, <3>1, <3>2 DEF Directed
    <2>5. ASSUME gone = {}, NEW p \in DOMAIN fs.kind, NEW s, Wanted(p, s), Below(p, top.path)
          PROVE  FALSE
      <3>1. Len(top.path) >= DUPD_PATH_MAX
        BY <1>3, <1>9, <2>5, TreeIs DEF Exists
      <3>2. Len(p) < DUPD_PATH_MAX
        BY <2>5, WantedBelow
      <3>3. Len(top.path) < Len(p) /\ Len(p) \in Nat /\ Len(top.path) \in Nat
        BY <1>3, <2>5, TreeIs, BelowIs
      <3> QED BY <3>1, <3>2, <3>3, InstancesAssumption
    <2> QED BY <1>1, <1>2, <1>4, <2>1, <2>2, <2>3, <2>4, <2>5, WalkOn
  <1> QED BY <1>1, <1>8, <1>9

\* A directory of which every name was read is left.
LEMMA CloseDirFound ==
  FilesKnown /\ Prepared /\ FoundInv /\ WalkStep /\ CloseDir => FoundInv'
  <1> SUFFICES ASSUME FilesKnown, Prepared, FoundInv, WalkStep, CloseDir PROVE FoundInv'
    OBVIOUS
  <1>1. /\ phase = "walk" /\ current' = NoDir /\ left = {}
        /\ UNCHANGED <<fs, gone, settings, phase, start_path, next_path, device, queue, added,
                       scan_list>>
    BY DEF WalkStep, CloseDir, Main, mainvars, addvars
  <1>2. /\ Waiting' = Waiting /\ Found' = Found /\ Started' = Started /\ Unread = {} /\ Unread' = {}
        /\ \A p : Exists(p)' <=> Exists(p)
    BY <1>1 DEF Waiting, Unread, Found, PathsIn, Started, Exists
  <1>3. \A p : Ahead(p)' <=> Ahead(p)
    BY <1>2 DEF Ahead, AheadOf
  <1>4. Directed'
    BY <1>1, <1>2, WantedStays DEF FoundInv, Directed
  <1>5. Once(added', queue') /\ added' \in Seq(ToSet(added')) /\ Differ(scan_list')
    BY <1>1 DEF FoundInv, Partitioned
  <1> QED BY <1>1, <1>2, <1>3, <1>4, <1>5, WalkOn

\* A name that was deleted is passed over.
LEMMA MissEntryFound ==
  FilesKnown /\ Prepared /\ FoundInv /\ WalkStep /\ MissEntry => FoundInv'
  <1> SUFFICES ASSUME FilesKnown, Prepared, FoundInv, WalkStep, MissEntry PROVE FoundInv'
    OBVIOUS
  <1>1. /\ phase = "walk" /\ left' \subseteq left /\ gone # {}
        /\ UNCHANGED <<fs, gone, settings, phase, start_path, next_path, device, queue, added,
                       scan_list, current>>
    BY DEF WalkStep, MissEntry, Main, mainvars, addvars
  <1>2. /\ Waiting' = Waiting /\ Found' = Found /\ Started' = Started /\ Unread' \subseteq Unread
        /\ \A p : Exists(p)' <=> Exists(p)
    BY <1>1 DEF Waiting, Unread, Found, PathsIn, Started, Exists
  <1>3. \A p : Ahead(p)' => Ahead(p)
    BY <1>2 DEF Ahead, AheadOf
  <1>4. Directed'
    BY <1>1, <1>2, WantedStays DEF FoundInv, Directed
  <1>5. /\ Once(added', queue') /\ added' \in Seq(ToSet(added')) /\ Differ(scan_list')
        /\ current' # NoDir => \A dir \in Waiting' : ~AtOrBelow(current'.path, dir)
    BY <1>1, <1>2 DEF FoundInv, Partitioned
  <1> QED BY <1>1, <1>2, <1>3, <1>4, <1>5, WalkOn

\* The walk of the next start path: what is below that is ahead.
LEMMA NextPathFound ==
  FilesKnown /\ Prepared /\ FoundInv /\ NextPath => FoundInv'
  <1> SUFFICES ASSUME FilesKnown, Prepared, FoundInv, NextPath PROVE FoundInv'
    OBVIOUS
  <1> DEFINE s == start_path[next_path]
  <1>1. /\ phase = "paths" /\ next_path <= Len(start_path) /\ next_path' = next_path + 1
        /\ UNCHANGED <<fs, gone, settings, queue, added, start_path, current, left>>
        /\ \/ /\ phase' = "walk" /\ device' = fs.dev[s]
              /\ \E dir : scan_list' = <<[path |-> s, dir |-> dir]>>
           \/ ~Exists(s) /\ phase' = "paths" /\ UNCHANGED scan_list
    BY DEF NextPath, StartWalk, Main, walkvars, addvars
  <1>2. /\ scan_list = << >> /\ current = NoDir /\ WalkOver
        /\ next_path \in 1 .. Len(start_path) /\ next_path \in Nat
        /\ next_path + 1 - 1 = next_path
    BY <1>1, LenProperties DEF FoundInv, WalkPlace, WalkOver, Prepared
  <1>3. s \in DOMAIN fs.names /\ s \in DOMAIN fs.kind /\ s \in PathNames
    BY <1>2, TreeIs DEF Prepared
  <1>4. Started' = s
    BY <1>1, <1>2 DEF Started
  <1>5. Waiting = {} /\ Unread = {} /\ Unread' = {}
    BY <1>1, <1>2 DEF Waiting, PathsOf, Unread
  <1>6. /\ Found' = Found /\ Found \subseteq DOMAIN fs.kind
        /\ Once(added, queue)' /\ added' \in Seq(ToSet(added')) /\ Apart(start_path)'
        /\ Differ(scan_list')
    <2>1. Found' = Found /\ Found \subseteq DOMAIN fs.kind
      BY <1>1, WantedBelow DEF FoundInv, FoundWanted, Found, PathsIn
    <2>2. Once(added, queue)' /\ added' \in Seq(ToSet(added')) /\ Apart(start_path)'
      BY <1>1 DEF FoundInv, Once, Apart
    <2>3. Differ(scan_list')
      BY <1>1, <1>2 DEF Differ
    <2> QED BY <2>1, <2>2, <2>3
  <1>7. /\ \A p, r : Wanted(p, r)' <=> Wanted(p, r)
        /\ \A p, r : Clear(p, r)' <=> Clear(p, r)
        /\ \A p : Small(p)' <=> Small(p)
    BY <1>1, WantedStays
  <1> HIDE DEF s
  <1>8. FoundWanted'
    <2>1. \A k \in 1 .. Len(start_path) : k < next_path => k < next_path'
      BY <1>1, <1>2
    <2> QED BY <1>1, <1>6, <1>7, <2>1 DEF FoundInv, FoundWanted
  <1>9. /\ scan_list' \in Seq(ToSet(scan_list'))
        /\ Waiting' = IF phase' = "walk" THEN {s} ELSE {}
    <2>1. CASE phase' = "walk"
      <3>1. PICK top : scan_list' = <<top>> /\ top.path = s
        BY <1>1, <2>1
      <3>2. <<top>> \in Seq({top})
        OBVIOUS
      <3>3. scan_list' \in Seq(ToSet(scan_list'))
        BY <3>1, <3>2, OfMembers
      <3>4. Len(<<top>>) = 1 /\ <<top>>[1] = top
        OBVIOUS
      <3> QED BY <2>1, <3>1, <3>3, <3>4 DEF Waiting, PathsOf
    <2>2. CASE phase' # "walk"
      BY <1>1, <1>2, <1>5, <2>2 DEF FoundInv, Directed, Waiting
    <2> QED BY <2>1, <2>2
  <1>10. \A p : Ahead(p)' <=> phase' = "walk" /\ Below(p, s)
    BY <1>5, <1>9 DEF Ahead, AheadOf
  <1>11. Directed'
    <2>1. Clear(s, s)
      BY <1>3, ClearStart
    <2>2. AtOrBelow(s, s)
      BY DEF AtOrBelow
    <2>3. \A dir \in Waiting' : dir = s
      BY <1>9
    <2>4. Waiting' \subseteq DOMAIN fs.names'
      BY <1>1, <1>3, <1>9
    <2>5. \A dir \in Waiting' : AtOrBelow(dir, Started') /\ (Exists(dir)' => Clear(dir, Started)')
      BY <1>4, <1>7, <2>1, <2>2, <2>3
    <2> QED BY <1>1, <1>2, <1>9, <2>4, <2>5 DEF Directed
  <1>12. Partitioned'
    <2>1. ~Below(s, s)
      BY DEF Below
    <2>2. ASSUME NEW path \in Found, Below(path, s) PROVE FALSE
      <3>1. PICK k \in 1 .. Len(start_path) : k < next_path /\ Wanted(path, start_path[k])
        BY <2>2 DEF FoundInv, FoundWanted
      <3>2. start_path[k] \in PathNames /\ path \in PathNames /\ k # next_path
        <4>1. start_path[k] \in DOMAIN fs.names
          BY DEF Prepared
        <4> QED BY <1>2, <1>6, <3>1, <4>1, TreeIs
      <3>3. Overlap(start_path[k], s)
        BY <1>3, <2>2, <3>1, <3>2, WantedBelow, ApartBelow DEF AtOrBelow
      <3> QED BY <1>2, <3>2, <3>3 DEF FoundInv, Apart, s
    <2> QED BY <1>1, <1>2, <1>6, <1>9, <1>10, <2>1, <2>2 DEF Partitioned
  <1>13. NoneLost'
    <2>1. SUFFICES ASSUME gone = {}, NEW k \in 1 .. Len(start_path), NEW path \in DOMAIN fs.kind,
                          k < next_path + 1, Wanted(path, start_path[k])
          PROVE  Small(path) \/ path \in Found \/ Ahead(path)'
      BY <1>1, <1>6, <1>7 DEF NoneLost
    <2>2. CASE k < next_path
      <3>1. Small(path) \/ path \in Found \/ Ahead(path)
        BY <1>1, <2>1, <2>2 DEF FoundInv, NoneLost, Walked
      <3>2. ~Ahead(path)
        BY <1>5 DEF Ahead, AheadOf
      <3> QED BY <3>1, <3>2
    <2>3. CASE k = next_path
      <3>1. Below(path, s) /\ Len(path) < DUPD_PATH_MAX
        BY <2>1, <2>3, WantedBelow DEF s
      <3>2. phase' = "walk"
        <4>1. path \in PathNames /\ Len(path) \in Nat /\ Len(s) \in Nat
          BY <1>3, TreeIs
        <4>2. Len(s) < Len(path)
          BY <1>3, <3>1, <4>1, BelowIs
        <4>3. Len(s) < DUPD_PATH_MAX
          BY <3>1, <4>1, <4>2, InstancesAssumption
        <4>4. Exists(s)
          BY <1>3, <2>1, <4>3 DEF Exists
        <4> QED BY <1>1, <4>4 DEF s
      <3> QED BY <1>10, <3>1, <3>2
    <2>4. k < next_path \/ k = next_path
      BY <1>2, <2>1
    <2> QED BY <2>2, <2>3, <2>4
  <1>14. WalkPlace'
    <2>1. phase' = "walk" => /\ (next_path - 1)' \in 1 .. Len(start_path')
                             /\ device' = fs.dev'[Started']
      BY <1>1, <1>2, <1>4 DEF s
    <2>2. phase' # "walk" => WalkOver'
      BY <1>1, <1>2 DEF WalkOver
    <2>3. phase' \in {"walk", "paths"}
      BY <1>1
    <2> QED BY <2>1, <2>2, <2>3 DEF WalkPlace
  <1> QED BY <1>6, <1>8, <1>11, <1>12, <1>13, <1>14 DEF FoundInv

-----------------------------------------------------------------------------
(* A name is read. *)

\* Why it is passed over.
PassedFor(name, c) ==
  \/ ~Taken(name) \/ ~Exists(c) \/ fs.kind[c] \notin {"dir", "file"}
  \/ fs.kind[c] = "dir" /\ settings.one_file_system /\ fs.dev[c] # device
  \/ fs.kind[c] = "file" /\ Small(c)
Passed(name, c) == PassedFor(name, c) /\ UNCHANGED <<scan_list, queue, added>>

\* A directory goes on the stack, a file to the size tree or the queue.
Pushed(name, c) ==
  /\ fs.kind[c] = "dir" /\ Taken(name)
  /\ Exists(c) /\ settings.one_file_system => fs.dev[c] = device
  /\ \E dir : dir.path = c /\ scan_list' = Append(scan_list, dir)
  /\ UNCHANGED <<queue, added>>
Filed(name, c) ==
  /\ fs.kind[c] = "file" /\ Taken(name) /\ Len(c) < DUPD_PATH_MAX
  /\ \E file : /\ file.path = c
               /\ \/ added' = Append(added, file) /\ queue' = queue
                  \/ added' = added /\ queue' = Append(queue, file)
  /\ UNCHANGED scan_list

\* What reading a directory's name does.
LEMMA FoundDirDoes ==
  ASSUME NEW name, Taken(name), NEW c \in DOMAIN fs.kind, fs.kind[c] = "dir",
         NEW dev, FoundDir(name, c, dev), fs.dev[c] \in Nat \ {0}, device \in Nat \ {0},
         DUPD_PATH_MAX \in Nat, Len(c) \in Nat
  PROVE  Passed(name, c) \/ Pushed(name, c)
  <1>1. PICK known \in Values(IF settings.one_file_system THEN DeviceOf(c, dev) ELSE dev) :
          /\ \/ OtherDevice(known) /\ UNCHANGED scan_list
             \/ Len(c) >= DUPD_PATH_MAX /\ UNCHANGED scan_list
             \/ /\ ~OtherDevice(known)
                /\ scan_list' = Append(scan_list, [path |-> c, dir |-> Len(direntries) + 1])
          /\ UNCHANGED <<queue, added>>
    BY DEF FoundDir, addvars
  <1>2. settings.one_file_system /\ Exists(c) => known = fs.dev[c]
    <2>1. fs.dev[c] # Unknown
      BY DEF Unknown
    <2> QED BY <1>1, <2>1 DEF Values, DeviceOf
  <1>3. CASE OtherDevice(known) /\ UNCHANGED scan_list
    <2>1. settings.one_file_system /\ known # device
      BY <1>3 DEF OtherDevice
    <2>2. ~Exists(c) \/ fs.dev[c] # device
      BY <1>2, <2>1
    <2> QED BY <1>1, <1>3, <2>1, <2>2 DEF Passed, PassedFor
  <1>4. CASE Len(c) >= DUPD_PATH_MAX /\ UNCHANGED scan_list
    <2>1. ~Exists(c)
      BY <1>4 DEF Exists
    <2> QED BY <1>1, <1>4, <2>1 DEF Passed, PassedFor
  <1>5. CASE /\ ~OtherDevice(known)
             /\ scan_list' = Append(scan_list, [path |-> c, dir |-> Len(direntries) + 1])
    <2>1. device > 0
      OBVIOUS
    <2>2. Exists(c) /\ settings.one_file_system => fs.dev[c] = device
      BY <1>2, <1>5, <2>1 DEF OtherDevice
    <2>3. \E dir : dir.path = c /\ scan_list' = Append(scan_list, dir)
      <3>1. [path |-> c, dir |-> Len(direntries) + 1].path = c
        OBVIOUS
      <3> QED BY <1>5, <3>1
    <2> QED BY <1>1, <2>2, <2>3 DEF Pushed
  <1> QED BY <1>1, <1>3, <1>4, <1>5

\* What reading a file's name does.
LEMMA FoundFileDoes ==
  ASSUME NEW name, Taken(name), NEW c \in DOMAIN fs.kind, fs.kind[c] = "file",
         NEW dev, NEW looked_up, FoundFile(name, c, dev, looked_up), looked_up => Exists(c),
         DUPD_PATH_MAX \in Nat, Len(c) \in Nat
  PROVE  Passed(name, c) \/ Filed(name, c)
  <1> DEFINE file == [path |-> c, name |-> name, dir |-> current.dir, looked_up |-> looked_up]
  <1>1. /\ UNCHANGED scan_list
        /\ \/ Len(c) >= DUPD_PATH_MAX /\ UNCHANGED <<queue, addvars>>
           \/ Len(c) < DUPD_PATH_MAX /\ queue' = Append(queue, file) /\ UNCHANGED addvars
           \/ AddFile(file) /\ UNCHANGED queue
    BY DEF FoundFile
  <1>2. file.path = c /\ file.looked_up = looked_up
    OBVIOUS
  <1> HIDE DEF file
  <1>3. Exists(c) => Len(c) < DUPD_PATH_MAX
    BY DEF Exists
  <1>4. CASE Len(c) >= DUPD_PATH_MAX /\ UNCHANGED <<queue, addvars>>
    <2>1. ~Exists(c)
      BY <1>3, <1>4
    <2> QED BY <1>1, <1>4, <2>1 DEF Passed, PassedFor, addvars
  <1>5. CASE Len(c) < DUPD_PATH_MAX /\ queue' = Append(queue, file) /\ UNCHANGED addvars
    BY <1>1, <1>2, <1>5 DEF Filed, addvars
  <1>6. CASE AddFile(file) /\ UNCHANGED queue
    <2>1. \/ ~Exists(c) /\ UNCHANGED added
          \/ Small(c) /\ UNCHANGED added
          \/ Exists(c) /\ added' = Append(added, file)
      BY <1>2, <1>6 DEF AddFile, addvars, Small
    <2> QED BY <1>1, <1>2, <1>3, <1>6, <2>1 DEF Passed, PassedFor, Filed
  <1> QED BY <1>1, <1>4, <1>5, <1>6

\* What reading a name does, whatever it is.
LEMMA ReadEntryDoes ==
  ASSUME FilesKnown, NEW name, NEW c, c = Join(current.path, name), c \in DOMAIN fs.kind,
         fs.dev[c] \in Nat \ {0}, device \in Nat \ {0},
         SkipHidden(name) \/ SkipSeparator(name) \/ TakeName(name)
  PROVE  Passed(name, c) \/ Pushed(name, c) \/ Filed(name, c)
  <1>1. CASE SkipHidden(name)
    BY <1>1 DEF SkipHidden, Passed, PassedFor, Taken, addvars
  <1>2. CASE SkipSeparator(name)
    BY <1>2 DEF SkipSeparator, Passed, PassedFor, Taken, addvars
  <1>3. CASE TakeName(name)
    <2> DEFINE t == TypeOf(c)
               dev == IF t.looked_up THEN DeviceOf(c, st_dev) ELSE st_dev
    <2>1. /\ Taken(name)
          /\ \/ t.type = "dir"  /\ FoundDir(name, c, dev)
             \/ t.type = "file" /\ FoundFile(name, c, dev, t.looked_up)
             \/ SkipType(t.type, dev)
      BY <1>3 DEF TakeName, Taken
    <2>2. /\ t.type = fs.kind[c] \/ (t.type = "error" /\ ~Exists(c))
          /\ t.looked_up /\ t.type # "error" => Exists(c)
      BY DEF TypeOf
    <2> HIDE DEF t, dev
    <2>0. DUPD_PATH_MAX \in Nat /\ Len(c) \in Nat
      BY TreeIs
    <2>3. CASE t.type = "dir" /\ FoundDir(name, c, dev)
      BY <2>1, <2>2, <2>3, <2>0, FoundDirDoes
    <2>4. CASE t.type = "file" /\ FoundFile(name, c, dev, t.looked_up)
      BY <2>1, <2>2, <2>4, <2>0, FoundFileDoes
    <2>5. CASE SkipType(t.type, dev)
      <3>1. UNCHANGED <<scan_list, queue, added>> /\ t.type \in {"other", "error"}
        BY <2>5 DEF SkipType, addvars
      <3>2. fs.kind[c] \notin {"dir", "file"} \/ ~Exists(c)
        BY <2>2, <3>1
      <3> QED BY <3>1, <3>2 DEF Passed, PassedFor
    <2> QED BY <2>1, <2>3, <2>4, <2>5
  <1> QED BY <1>1, <1>2, <1>3

\* The stack with a directory more.
LEMMA StackMore ==
  ASSUME NEW s, s \in Seq(ToSet(s)), Differ(s), NEW e, e.path \notin PathsOf(s),
         NEW r, r = Append(s, e)
  PROVE  /\ r \in Seq(ToSet(r)) /\ Differ(r)
         /\ PathsOf(r) = PathsOf(s) \cup {e.path}
  <1> DEFINE D == ToSet(s) \cup {e}
             n == Len(s)
  <1>1. s \in Seq(D) /\ e \in D /\ n \in Nat
    <2>1. ToSet(s) \subseteq D
      OBVIOUS
    <2> HIDE DEF D
    <2>2. s \in Seq(D)
      BY <2>1
    <2> QED BY <2>2, LenProperties DEF D
  <1> HIDE DEF D
  <1>2. /\ r \in Seq(D) /\ Len(r) = n + 1 /\ r[n + 1] = e
        /\ \A i \in 1 .. n : r[i] = s[i]
    BY <1>1, AppendProperties
  <1>3. r \in Seq(ToSet(r))
    BY <1>2, OfMembers
  <1>4. /\ \A i, j \in 1 .. n : s[i].path = s[j].path => i = j
        /\ \A i \in 1 .. n : s[i].path # e.path
        /\ PathsOf(s) = {s[i].path : i \in 1 .. n}
    BY DEF Differ, PathsOf
  <1> HIDE DEF n
  <1>5. /\ n + 1 \in 1 .. n + 1 /\ \A i \in 1 .. n : i \in 1 .. n + 1
        /\ \A i \in 1 .. n + 1 : i = n + 1 \/ i \in 1 .. n
    BY <1>1
  <1>6. \A i, j \in 1 .. n + 1 : r[i].path = r[j].path => i = j
    BY <1>2, <1>4, <1>5
  <1>7. \A p : (\E i \in 1 .. n + 1 : p = r[i].path) <=> (\E i \in 1 .. n : p = s[i].path) \/ p = e.path
    BY <1>2, <1>5
  <1> QED BY <1>2, <1>3, <1>4, <1>6, <1>7 DEF Differ, PathsOf

\* The name read, and the names still to be read.
LEMMA NameRead ==
  ASSUME FilesKnown, Prepared, FoundInv, phase = "walk", current # NoDir, current' = current,
         NEW name \in left, left' = left \ {name}, NEW c, c = Join(current.path, name)
  PROVE  /\ name \in EntryNames /\ c \in DOMAIN fs.kind /\ c \in PathNames
         /\ name \in fs.names[current.path]
         /\ Below(c, current.path) /\ AtOrBelow(c, Started)
         /\ c \in Unread /\ Unread' \subseteq Unread /\ Unread \subseteq Unread' \cup {c}
         /\ \A d \in Unread' : ~AtOrBelow(c, d)
         /\ Ahead(c) /\ c \notin Waiting /\ c \notin Found
         /\ \A dir \in Waiting : ~Below(c, dir)
         /\ ~AtOrBelow(current.path, c)
  <1>1. /\ current.path \in DOMAIN fs.names /\ current.path \in PathNames
        /\ left \subseteq fs.names[current.path] /\ Clear(current.path, Started)
        /\ Started \in PathNames /\ Waiting \subseteq PathNames
    BY WalkKnows
  <1>2. \A n \in left : n \in EntryNames /\ Join(current.path, n) \in DOMAIN fs.kind
    BY <1>1, TreeIs
  <1>3. /\ name \in EntryNames /\ c \in DOMAIN fs.kind /\ c \in PathNames
        /\ name \in fs.names[current.path]
    BY <1>1, <1>2, TreeIs
  <1>4. /\ Below(c, current.path)
        /\ \A q \in PathNames : Below(c, q) => AtOrBelow(current.path, q)
    BY <1>1, <1>3, JoinBelow
  <1>5. AtOrBelow(c, Started)
    <2>1. AtOrBelow(current.path, Started)
      BY <1>1 DEF Clear
    <2> QED BY <1>1, <1>3, <1>4, <2>1, BelowBelow DEF AtOrBelow
  <1>6. c \in Unread /\ Unread' \subseteq Unread /\ Unread \subseteq Unread' \cup {c}
    BY DEF Unread
  <1>7. ASSUME NEW d \in Unread', AtOrBelow(c, d) PROVE FALSE
    <2>1. PICK n \in left : d = Join(current.path, n) /\ n # name
      BY DEF Unread
    <2>2. AtOrBelow(c, Join(current.path, name)) /\ AtOrBelow(c, Join(current.path, n))
      BY <1>7, <2>1 DEF AtOrBelow
    <2>3. n = name
      BY <1>1, <1>2, <1>3, <2>2, OneName
    <2> QED BY <2>1, <2>3
  <1>8. Ahead(c) /\ c \notin Waiting /\ c \notin Found
    <2>1. Ahead(c)
      BY <1>6 DEF Ahead, AheadOf, AtOrBelow
    <2> QED BY <2>1 DEF FoundInv, Partitioned
  <1>9. \A dir \in Waiting : ~Below(c, dir)
    BY <1>1, <1>4 DEF FoundInv, Partitioned
  <1>10. ~AtOrBelow(current.path, c)
    <2>1. SUFFICES ASSUME AtOrBelow(current.path, c) PROVE FALSE
      OBVIOUS
    <2>2. Len(current.path) \in Nat /\ Len(c) \in Nat
      BY <1>1, <1>3, BaseIs
    <2>3. Len(current.path) < Len(c) /\ Len(c) <= Len(current.path)
      BY <1>1, <1>3, <1>4, <2>1, <2>2, BelowIs DEF AtOrBelow
    <2> QED BY <2>2, <2>3
  <1> QED BY <1>3, <1>4, <1>5, <1>6, <1>7, <1>8, <1>9, <1>10

\* What is passed over was not wanted, nor anything below it.
LEMMA PassedNotWanted ==
  ASSUME FilesKnown, Prepared, FoundInv, phase = "walk", current # NoDir,
         NEW name \in left, NEW c, c = Join(current.path, name), c \in DOMAIN fs.kind,
         name \in EntryNames, Below(c, current.path), PassedFor(name, c), gone = {},
         NEW p \in DOMAIN fs.kind, AtOrBelow(p, c),
         NEW k \in 1 .. Len(start_path), Wanted(p, start_path[k])
  PROVE  Small(p)
  <1> DEFINE s == Started
  <1>1. /\ s \in DOMAIN fs.kind /\ s \in PathNames /\ device = fs.dev[s]
        /\ current.path \in PathNames /\ Clear(current.path, s)
        /\ p \in PathNames /\ c \in PathNames
    BY WalkKnows, TreeIs
  <1>2. Below(c, s)
    <2>1. AtOrBelow(current.path, s)
      BY <1>1 DEF Clear
    <2> QED BY <1>1, <2>1, BelowBelow DEF AtOrBelow
  <1>3. AtOrBelow(p, s)
    BY <1>1, <1>2, BelowBelow DEF AtOrBelow
  <1>4. start_path[k] = s
    BY <1>3, SameStart
  <1> HIDE DEF s
  <1>5. /\ Named(c) /\ fs.kind[p] = "file" /\ Len(c) < DUPD_PATH_MAX
        /\ c # p => /\ fs.kind[c] = "dir"
                    /\ settings.one_file_system => fs.dev[c] = fs.dev[s]
    BY <1>1, <1>2, <1>4, WantedIs
  <1>6. Taken(name)
    <2>1. PICK dir \in DOMAIN fs.names : \E n \in fs.names[dir] : c = Join(dir, n) /\ Taken(n)
      BY <1>5 DEF Named
    <2>2. PICK n \in fs.names[dir] : c = Join(dir, n) /\ Taken(n)
      BY <2>1
    <2>3. dir \in PathNames /\ n \in EntryNames
      BY TreeIs
    <2>4. n = name
      <3>1. PICK d : d = current.path
        OBVIOUS
      <3>2. d \in PathNames /\ Join(dir, n) = Join(d, name)
        BY <1>1, <2>2, <3>1
      <3> QED BY <2>3, <3>2, JoinOnce
    <2> QED BY <2>2, <2>4
  <1>7. Exists(c)
    BY <1>5 DEF Exists
  <1> QED BY <1>1, <1>5, <1>6, <1>7 DEF PassedFor

\* A name is read, and it and what is below it are ahead no more, or still.
LEMMA ReadEntryFound ==
  FilesKnown /\ Prepared /\ FoundInv /\ WalkStep /\ ReadEntry => FoundInv'
  <1> SUFFICES ASSUME FilesKnown, Prepared, FoundInv, WalkStep, ReadEntry PROVE FoundInv'
    OBVIOUS
  <1>1. PICK name \in left : /\ left' = left \ {name}
                             /\ SkipHidden(name) \/ SkipSeparator(name) \/ TakeName(name)
    BY DEF ReadEntry
  <1>2. /\ phase = "walk" /\ current # NoDir /\ current' = current
        /\ UNCHANGED <<fs, gone, settings, phase, start_path, next_path, device>>
    BY DEF WalkStep, ReadEntry, Main, mainvars
  <1>3. PICK c : c = Join(current.path, name)
    OBVIOUS
  <1>4. /\ name \in EntryNames /\ c \in DOMAIN fs.kind /\ c \in PathNames
        /\ name \in fs.names[current.path]
        /\ Below(c, current.path) /\ AtOrBelow(c, Started)
        /\ c \in Unread /\ Unread' \subseteq Unread /\ Unread \subseteq Unread' \cup {c}
        /\ \A d \in Unread' : ~AtOrBelow(c, d)
        /\ Ahead(c) /\ c \notin Waiting /\ c \notin Found
        /\ \A dir \in Waiting : ~Below(c, dir)
        /\ ~AtOrBelow(current.path, c)
    BY <1>1, <1>2, <1>3, NameRead
  <1>5. /\ Started \in DOMAIN fs.kind /\ device = fs.dev[Started] /\ Started' = Started
        /\ current.path \in DOMAIN fs.names /\ Clear(current.path, Started)
        /\ Waiting \subseteq DOMAIN fs.names
    BY <1>2, WalkKnows DEF Started
  <1>6. Passed(name, c) \/ Pushed(name, c) \/ Filed(name, c)
    <2>1. fs.dev[c] \in Nat \ {0} /\ device \in Nat \ {0}
      BY <1>4, <1>5, TreeIs
    <2> QED BY <1>1, <1>3, <1>4, <2>1, ReadEntryDoes
  <1>7. Taken(name) =>
          /\ fs.kind[c] = "file" /\ Len(c) < DUPD_PATH_MAX => Wanted(c, Started)
          /\ fs.dev[c] = fs.dev[Started] \/ ~settings.one_file_system => Clear(c, Started)
    BY <1>3, <1>4, <1>5, ClearWay
  <1>8. /\ \A p, s : Clear(p, s)' <=> Clear(p, s)
        /\ \A p : Exists(p)' <=> Exists(p)
    BY <1>2, WantedStays DEF Exists
  <1>9. \A path \in DOMAIN fs.kind :
          /\ AheadOf(Waiting, Unread', path) => Ahead(path)
          /\ Ahead(path) => AheadOf(Waiting, Unread', path) \/ AtOrBelow(path, c)
    BY <1>4 DEF Ahead, AheadOf
  <1>10. ~AheadOf(Waiting, Unread', c)
    BY <1>4 DEF AheadOf
  <1>11. CASE Passed(name, c)
    <2>1. UNCHANGED <<scan_list, queue, added>> /\ PassedFor(name, c)
      BY <1>11 DEF Passed
    <2>2. Waiting' = Waiting /\ Found' = Found
      BY <2>1 DEF Waiting, Found, PathsIn
    <2>3. \A path : Ahead(path)' <=> AheadOf(Waiting, Unread', path)
      BY <2>2 DEF Ahead, AheadOf
    <2>4. Directed'
      BY <1>2, <1>5, <1>8, <2>1, <2>2 DEF FoundInv, Directed
    <2>5. /\ Once(added', queue') /\ added' \in Seq(ToSet(added')) /\ Differ(scan_list')
          /\ current' # NoDir => \A dir \in Waiting' : ~AtOrBelow(current'.path, dir)
      BY <1>2, <2>1, <2>2 DEF FoundInv, Partitioned
    <2>6. gone = {} => \A path \in DOMAIN fs.kind :
            /\ \E k \in 1 .. Len(start_path) : Wanted(path, start_path[k])
            /\ Ahead(path)
            => Small(path) \/ path \in Found' \/ Ahead(path)'
      BY <1>2, <1>3, <1>4, <1>9, <2>1, <2>3, PassedNotWanted
    <2> QED BY <1>2, <1>9, <2>2, <2>3, <2>4, <2>5, <2>6, WalkOn
  <1>12. CASE Pushed(name, c)
    <2>1. PICK dir : dir.path = c /\ scan_list' = Append(scan_list, dir)
      BY <1>12 DEF Pushed
    <2>2. /\ UNCHANGED <<queue, added>> /\ fs.kind[c] = "dir" /\ Taken(name)
          /\ Exists(c) /\ settings.one_file_system => fs.dev[c] = device
      BY <1>12 DEF Pushed
    <2>3. /\ scan_list' \in Seq(ToSet(scan_list')) /\ Differ(scan_list')
          /\ Waiting' = Waiting \cup {c}
      BY <1>4, <2>1, StackMore DEF FoundInv, Directed, Partitioned, Waiting
    <2>4. Found' = Found
      BY <2>2 DEF Found, PathsIn
    <2>5. \A path : Ahead(path)' <=> AheadOf(Waiting, Unread', path) \/ Below(path, c)
      BY <2>3 DEF Ahead, AheadOf
    <2>6. Directed'
      <3>1. c \in DOMAIN fs.names
        BY <1>4, <2>2, TreeIs
      <3>2. Exists(c) => Clear(c, Started)
        BY <1>5, <1>7, <2>2
      <3>3. AtOrBelow(c, Started)
        BY <1>4
      <3>4. \A dirpath \in Waiting' : /\ AtOrBelow(dirpath, Started')
                                      /\ Exists(dirpath)' => Clear(dirpath, Started)'
        BY <1>5, <1>8, <2>3, <3>2, <3>3 DEF FoundInv, Directed
      <3>5. Clear(current.path, Started)'
        BY <1>2, <1>5, <1>8
      <3>6. Waiting' \subseteq DOMAIN fs.names'
        BY <1>2, <1>5, <2>3, <3>1
      <3> QED BY <2>3, <3>4, <3>5, <3>6 DEF Directed
    <2>7. /\ Once(added', queue') /\ added' \in Seq(ToSet(added'))
          /\ current' # NoDir => \A path \in Waiting' : ~AtOrBelow(current'.path, path)
      BY <1>2, <1>4, <2>2, <2>3 DEF FoundInv, Partitioned
    <2>8. \A path \in DOMAIN fs.kind : Ahead(path)' => Ahead(path)
      BY <1>4, <1>9, <2>5 DEF Ahead, AheadOf, AtOrBelow
    <2>9. ~Ahead(c)'
      BY <1>10, <2>5 DEF Below
    <2>10. ASSUME NEW path \in DOMAIN fs.kind, NEW k \in 1 .. Len(start_path),
                  Wanted(path, start_path[k]), Ahead(path)
           PROVE  Ahead(path)'
      <3>1. path # c
        BY <2>2, <2>10 DEF Wanted
      <3> QED BY <1>9, <2>5, <2>10, <3>1 DEF AtOrBelow
    <2> QED BY <1>2, <2>3, <2>4, <2>6, <2>7, <2>8, <2>9, <2>10, WalkOn
  <1>13. CASE Filed(name, c)
    <2>1. PICK file : /\ file.path = c
                      /\ \/ added' = Append(added, file) /\ queue' = queue
                         \/ added' = added /\ queue' = Append(queue, file)
      BY <1>13 DEF Filed
    <2>2. /\ UNCHANGED scan_list /\ fs.kind[c] = "file" /\ Wanted(c, Started)
      BY <1>7, <1>13 DEF Filed
    <2>3. /\ Once(added', queue') /\ added' \in Seq(ToSet(added')) /\ Found' = Found \cup {c}
      <3>1. added \in Seq(ToSet(added)) /\ queue \in Seq(ToSet(queue)) /\ Once(added, queue)
        BY DEF FoundInv, FilesKnown, Queued
      <3>2. Found = PathsIn(added, queue) /\ Found' = PathsIn(added', queue')
        BY DEF Found, PathsIn
      <3> QED BY <1>4, <2>1, <3>1, <3>2, OneMore
    <2>4. Waiting' = Waiting
      BY <2>2 DEF Waiting
    <2>5. \A path : Ahead(path)' <=> AheadOf(Waiting, Unread', path)
      BY <2>4 DEF Ahead, AheadOf
    <2>6. Directed'
      BY <1>2, <1>5, <1>8, <2>2, <2>4 DEF FoundInv, Directed
    <2>7. /\ Differ(scan_list')
          /\ current' # NoDir => \A dir \in Waiting' : ~AtOrBelow(current'.path, dir)
      BY <1>2, <2>2, <2>4 DEF FoundInv, Partitioned
    <2>8. ASSUME NEW path \in DOMAIN fs.kind, NEW k \in 1 .. Len(start_path),
                 Wanted(path, start_path[k]), Ahead(path)
          PROVE  path \in Found' \/ Ahead(path)'
      <3>1. AtOrBelow(path, c) => path = c
        <4>1. ~Below(path, c)
          BY <1>4, <2>2, TreeIs
        <4> QED BY <4>1 DEF AtOrBelow
      <3> QED BY <1>9, <2>3, <2>5, <2>8, <3>1
    <2>9. ~Ahead(c)'
      BY <1>10, <2>5
    <2> QED BY <1>2, <1>9, <2>2, <2>3, <2>4, <2>5, <2>6, <2>7, <2>8, <2>9, WalkOn
  <1> QED BY <1>6, <1>11, <1>12, <1>13

-----------------------------------------------------------------------------
(* The scan. *)

\* The start paths are apart.
LEMMA ProcessArgsFound == StopInv /\ FoundInv /\ ProcessArgs => FoundInv'
  <1> SUFFICES ASSUME StopInv, FoundInv, ProcessArgs PROVE FoundInv'
    OBVIOUS
  <1>1. FilesKnown /\ phase = "args" /\ Prepared
    BY DEF StopInv, ProcessArgs, Main
  <1>2. PICK i \in Instances : fs = i.fs /\ options = i.options
    BY <1>1 DEF FilesKnown
  <1>3. /\ options.path \in Seq(Seq(STRING))
        /\ options.path = << >> => options.cwd \in DOMAIN fs.names
        /\ DOMAIN fs.names = {dir \in DOMAIN fs.kind : fs.kind[dir] = "dir"}
    BY <1>2, OptionsAssumption, InstancesAssumption
  <1>4. PICK st : /\ st = start_paths(options.path, options.cwd, Directories)
                  /\ start_path' = st.paths
                  /\ phase' \in {"args", "end", "fiemap"}
                  /\ UNCHANGED <<walkvars, added, queue, fs>>
    BY <1>1 DEF ProcessArgs, addvars
  <1>5. Directories \subseteq DOMAIN fs.names
    BY <1>3 DEF Directories
  <1>6. st.paths \in Seq(DOMAIN fs.names) /\ Apart(st.paths)
    BY <1>3, <1>4, <1>5, StartPathsAre
  <1>7. WalkOver' /\ added' = << >> /\ queue' = << >>
    BY <1>1, <1>4 DEF FoundInv, WalkPlace, WalkOver, walkvars
  <1> QED BY <1>4, <1>6, <1>7, NothingFound

\* The sanity check finds no file.
LEMMA CheckFiemapFound == StopInv /\ FoundInv /\ CheckFiemap => FoundInv'
  <1> SUFFICES ASSUME StopInv, FoundInv, CheckFiemap PROVE FoundInv'
    OBVIOUS
  <1>1. /\ phase = "fiemap" /\ phase' \in {"fiemap", "paths"}
        /\ phase' = "paths" => next_path' = 1
        /\ UNCHANGED <<walkvars, added, queue, start_path>>
    BY DEF CheckFiemap, Main, NotWalking, addvars
  <1>2. WalkOver' /\ added' = << >> /\ queue' = << >>
    BY <1>1 DEF FoundInv, WalkPlace, WalkOver, walkvars
  <1>3. start_path' \in Seq(DOMAIN fs.names) /\ Apart(start_path')
    BY <1>1 DEF StopInv, Prepared, FoundInv
  <1> QED BY <1>1, <1>2, <1>3, NothingFound

\* Before the scan nothing is found.
LEMMA FoundInit == Init => FoundInv
  <1> SUFFICES ASSUME Init PROVE FoundInv
    OBVIOUS
  <1>1. /\ WalkOver /\ added = << >> /\ queue = << >> /\ phase = "args" /\ start_path = << >>
        /\ Len(<< >>) = 0 /\ << >> \in Seq({}) /\ ToSet(<< >>) = {}
    <2>1. WalkOver /\ added = << >> /\ queue = << >> /\ phase = "args" /\ start_path = << >>
      BY DEF Init, WalkInit, WalkOver
    <2>2. Len(<< >>) = 0 /\ << >> \in Seq({})
      OBVIOUS
    <2>3. ToSet(<< >>) = {}
      BY DEF ToSet
    <2> QED BY <2>1, <2>2, <2>3
  <1>2. /\ scan_list = << >> /\ current = NoDir
    BY <1>1 DEF WalkOver
  <1>3. /\ Waiting = {} /\ Unread = {} /\ Found = {}
    BY <1>1, <1>2 DEF Waiting, PathsOf, Unread, Found, PathsIn
  <1>4. Apart(start_path) /\ WalkPlace /\ Once(added, queue) /\ added \in Seq(ToSet(added))
    BY <1>1 DEF Apart, WalkPlace, Once, Differ
  <1>5. Directed /\ Partitioned
    BY <1>1, <1>2, <1>3 DEF Directed, Partitioned, Differ
  <1>6. FoundWanted /\ ~Walked
    BY <1>1, <1>3 DEF FoundWanted, Walked
  <1> QED BY <1>4, <1>5, <1>6 DEF FoundInv

\* Every step of any thread keeps what is known of the files found.
LEMMA FoundInvKept == StopInv /\ FoundInv /\ [Next]_vars => FoundInv'
  <1> SUFFICES ASSUME StopInv, FoundInv, [Next]_vars PROVE FoundInv'
    OBVIOUS
  <1>1. FilesKnown /\ Prepared
    BY DEF StopInv
  <1>2. CASE ProcessArgs \/ CheckFiemap \/ NextPath
    BY <1>1, <1>2, ProcessArgsFound, CheckFiemapFound, NextPathFound
  <1>3. CASE EndWalk \/ EndScan \/ ReturnEarly \/ Process \/ Processed \/ Report
    <2>1. /\ UNCHANGED <<fs, gone, settings, walkvars, queue, added, start_path, next_path>>
          /\ \/ phase' = phase
             \/ phase = "walk" /\ WalkOver /\ phase' = "paths"
             \/ phase = "paths" /\ next_path > Len(start_path) /\ phase' = "scanned"
             \/ phase = "scanned" /\ phase' \in {"processed", "end"}
             \/ phase = "processed" /\ phase' = "joining"
             \/ phase = "joining" /\ phase' = "end"
      BY <1>3 DEF EndWalk, EndScan, ReturnEarly, Process, Processed, Report, Main, NotWalking,
                  addvars
    <2>2. phase \in {"scanned", "processed", "joining"} => next_path > Len(start_path)
      BY DEF FoundInv, WalkPlace
    <2> QED BY <2>1, <2>2, FoundStays DEF Walked
  <1>4. CASE StatusStep \/ UNCHANGED vars \/ Ended
    <2>1. /\ UNCHANGED <<fs, gone, settings, walkvars, queue, added, start_path, next_path>>
          /\ phase' = phase
      BY <1>4 DEF StatusStep, StatusCounting, StatusSets, Timeout, NotMain, NotWalking, Ended, vars,
                  mainvars, addvars
    <2> QED BY <2>1, FoundStays
  <1>5. CASE Worker
    BY <1>1, <1>5, WorkerFound
  <1>6. CASE Vanish /\ UNCHANGED <<mainvars, timevars>>
    BY <1>6, VanishFound
  <1>7. CASE WalkStep
    <2>1. OpenDir \/ CloseDir \/ ReadEntry \/ MissEntry
      BY <1>7 DEF WalkStep, Walk
    <2> QED BY <1>1, <1>7, <2>1, OpenDirFound, CloseDirFound, ReadEntryFound, MissEntryFound
  <1> QED BY <1>2, <1>3, <1>4, <1>5, <1>6, <1>7 DEF Next, MainStep

\* The files given, one by one.
LEMMA GivenIs ==
  ASSUME added \in Seq(ToSet(added)), queue \in Seq(ToSet(queue)),
         NEW i \in 1 .. Len(Given)
  PROVE  \/ i \in 1 .. Len(added) /\ Given[i] = added[i]
         \/ /\ i - Len(added) \in 1 .. Len(queue)
            /\ Given[i] = queue[i - Len(added)]
  <1> DEFINE D == ToSet(added) \cup ToSet(queue)
  <1>1. added \in Seq(D) /\ queue \in Seq(D)
    OBVIOUS
  <1> HIDE DEF D
  <1>2. /\ Len(Given) = Len(added) + Len(queue) /\ Len(added) \in Nat /\ Len(queue) \in Nat
        /\ \A j \in 1 .. Len(added) + Len(queue) :
             Given[j] = IF j <= Len(added) THEN added[j] ELSE queue[j - Len(added)]
    BY <1>1, ConcatProperties, LenProperties DEF Given
  <1> QED BY <1>2

\* What is known of the files found is what is asked for.
LEMMA FoundIsGiven == StopInv /\ FoundInv => FilesGivenOnce
  <1> SUFFICES ASSUME StopInv, FoundInv PROVE FilesGivenOnce
    OBVIOUS
  <1>1. added \in Seq(ToSet(added)) /\ queue \in Seq(ToSet(queue)) /\ Once(added, queue)
    BY DEF StopInv, FoundInv, FilesKnown, Queued
  <1>2. Len(added) \in Nat /\ Len(queue) \in Nat
    BY <1>1, LenProperties
  <1>3. ASSUME NEW i \in 1 .. Len(Given), NEW j \in 1 .. Len(Given), Given[i].path = Given[j].path
        PROVE  i = j
    <2>1. /\ \/ i \in 1 .. Len(added) /\ Given[i] = added[i]
             \/ i - Len(added) \in 1 .. Len(queue) /\ Given[i] = queue[i - Len(added)]
          /\ \/ j \in 1 .. Len(added) /\ Given[j] = added[j]
             \/ j - Len(added) \in 1 .. Len(queue) /\ Given[j] = queue[j - Len(added)]
      BY <1>1, GivenIs
    <2>2. i \in Int /\ j \in Int
      OBVIOUS
    <2>3. /\ \A k, l \in 1 .. Len(added) : added[k].path = added[l].path => k = l
          /\ \A k, l \in 1 .. Len(queue) : queue[k].path = queue[l].path => k = l
          /\ \A k \in 1 .. Len(added), l \in 1 .. Len(queue) : added[k].path # queue[l].path
      BY <1>1 DEF Once, Differ
    <2>4. i = j \/ i - Len(added) = j - Len(added)
      BY <1>3, <2>1, <2>3
    <2> QED BY <1>2, <2>2, <2>4
  <1>4. ASSUME NEW i \in 1 .. Len(Given)
        PROVE  \E s \in ToSet(start_path) : Wanted(Given[i].path, s)
    <2>1. Given[i].path \in Found
      BY <1>1, GivenIs, PathsInBoth DEF Found
    <2>2. PICK k \in 1 .. Len(start_path) : Wanted(Given[i].path, start_path[k])
      BY <2>1 DEF FoundInv, FoundWanted
    <2>3. DOMAIN start_path = 1 .. Len(start_path)
      BY LenProperties DEF StopInv, Prepared
    <2> QED BY <2>2, <2>3 DEF ToSet
  <1>5. ASSUME phase \in {"scanned", "processed", "joining"}, gone = {},
               NEW path \in DOMAIN fs.kind, NEW s \in ToSet(start_path), Wanted(path, s)
        PROVE  \/ fs.size[path] < settings.minimum_file_size
               \/ \E i \in 1 .. Len(added) : added[i].path = path
    <2>1. PICK k \in 1 .. Len(start_path) : s = start_path[k]
      BY LenProperties DEF StopInv, Prepared, ToSet
    <2>2. k < next_path
      <3>1. next_path > Len(start_path) /\ next_path \in Nat /\ Len(start_path) \in Nat
        BY <1>5, LenProperties DEF FoundInv, WalkPlace, StopInv, Prepared
      <3> QED BY <3>1
    <2>3. Small(path) \/ path \in Found \/ Ahead(path)
      BY <1>5, <2>1, <2>2 DEF FoundInv, Walked, NoneLost
    <2>4. ~Ahead(path)
      <3>1. scan_list = << >> /\ current = NoDir
        BY <1>5 DEF FoundInv, WalkPlace, WalkOver
      <3>2. Waiting = {} /\ Unread = {}
        BY <3>1 DEF Waiting, PathsOf, Unread
      <3> QED BY <3>2 DEF Ahead, AheadOf
    <2>5. path \in Found => \E i \in 1 .. Len(added) : added[i].path = path
      <3>1. queue = << >> /\ Len(<< >>) = 0
        BY <1>5 DEF StopInv, Emptied
      <3>2. path \in Found <=> \/ \E i \in 1 .. Len(added) : path = added[i].path
                               \/ \E i \in 1 .. Len(queue) : path = queue[i].path
        BY <1>1, PathsInBoth DEF Found
      <3> QED BY <3>1, <3>2
    <2> QED BY <2>3, <2>4, <2>5 DEF Small
  <1> QED BY <1>3, <1>4, <1>5 DEF FilesGivenOnce

(* Whatever the file system, the options and the start paths, and whenever files
   disappear: the scan gives the size tree no file twice and none that was not
   asked for, and if none disappeared, every one that was. *)
THEOREM EachFileGivenOnce == Spec => []FilesGivenOnce
  <1>1. Init => StopInv /\ FoundInv
    BY StopInit, FoundInit
  <1>2. (StopInv /\ FoundInv) /\ [Next]_vars => (StopInv /\ FoundInv)'
    BY StopInvKept, FoundInvKept
  <1>3. StopInv /\ FoundInv => FilesGivenOnce
    BY FoundIsGiven
  <1> QED BY <1>1, <1>2, <1>3, PTL DEF Spec
-----------------------------------------------------------------------------
(* Paths put together again.  The root directory has no name; any other path
   begins with that of its directory. *)
Stem(path) == IF path = Root THEN << >> ELSE path

\* Strings one after the other.
LEMMA Concatenated ==
  ASSUME NEW S, NEW s \in Seq(S), NEW t \in Seq(S)
  PROVE  /\ s \o t \in Seq(S) /\ Len(s) \in Nat /\ Len(t) \in Nat
         /\ Len(s \o t) = Len(s) + Len(t)
         /\ \A i \in 1 .. Len(s) + Len(t) :
              (s \o t)[i] = IF i <= Len(s) THEN s[i] ELSE t[i - Len(s)]
  BY ConcatProperties, LenProperties

\* It does not matter which are joined first.
LEMMA InTurn ==
  ASSUME NEW S, NEW s \in Seq(S), NEW t \in Seq(S), NEW u \in Seq(S)
  PROVE  (s \o t) \o u = s \o (t \o u)
  <1> DEFINE l == (s \o t) \o u
             r == s \o (t \o u)
             n == Len(s) + Len(t) + Len(u)
  <1>1. /\ s \o t \in Seq(S) /\ Len(s \o t) = Len(s) + Len(t)
        /\ \A i \in 1 .. Len(s) + Len(t) :
             (s \o t)[i] = IF i <= Len(s) THEN s[i] ELSE t[i - Len(s)]
        /\ t \o u \in Seq(S) /\ Len(t \o u) = Len(t) + Len(u)
        /\ \A i \in 1 .. Len(t) + Len(u) :
             (t \o u)[i] = IF i <= Len(t) THEN t[i] ELSE u[i - Len(t)]
        /\ Len(s) \in Nat /\ Len(t) \in Nat /\ Len(u) \in Nat
    BY Concatenated
  <1>2. /\ l \in Seq(S) /\ Len(l) = Len(s \o t) + Len(u)
        /\ \A i \in 1 .. Len(s \o t) + Len(u) :
             l[i] = IF i <= Len(s \o t) THEN (s \o t)[i] ELSE u[i - Len(s \o t)]
    BY <1>1, Concatenated
  <1>3. /\ r \in Seq(S) /\ Len(r) = Len(s) + Len(t \o u)
        /\ \A i \in 1 .. Len(s) + Len(t \o u) :
             r[i] = IF i <= Len(s) THEN s[i] ELSE (t \o u)[i - Len(s)]
    BY <1>1, Concatenated
  <1> DEFINE a == s \o t
             b == t \o u
  <1> HIDE DEF l, r, n
  <1>4. /\ Len(l) = n /\ Len(r) = n /\ n \in Nat
    BY <1>1, <1>2, <1>3 DEF n
  <1>5. ASSUME NEW i \in 1 .. n PROVE l[i] = r[i]
    <2>1. l[i] = IF i <= Len(s) + Len(t) THEN a[i] ELSE u[i - (Len(s) + Len(t))]
      BY <1>1, <1>2 DEF n
    <2>2. r[i] = IF i <= Len(s) THEN s[i] ELSE b[i - Len(s)]
      BY <1>1, <1>3 DEF n
    <2>3. \A k \in 1 .. Len(s) + Len(t) : a[k] = IF k <= Len(s) THEN s[k] ELSE t[k - Len(s)]
      BY <1>1
    <2>4. \A k \in 1 .. Len(t) + Len(u) : b[k] = IF k <= Len(t) THEN t[k] ELSE u[k - Len(t)]
      BY <1>1
    <2> HIDE DEF a, b
    <2>5. CASE i <= Len(s)
      BY <1>1, <2>1, <2>2, <2>3, <2>5
    <2>6. CASE i > Len(s) /\ i <= Len(s) + Len(t)
      BY <1>1, <2>1, <2>2, <2>3, <2>4, <2>6
    <2>7. CASE i > Len(s) + Len(t)
      <3>1. i - Len(s) \in 1 .. Len(t) + Len(u) /\ ~(i - Len(s) <= Len(t))
            /\ (i - Len(s)) - Len(t) = i - (Len(s) + Len(t)) /\ ~(i <= Len(s))
        BY <1>1, <2>7 DEF n
      <3> QED BY <1>1, <2>1, <2>2, <2>4, <2>7, <3>1
    <2> QED BY <1>1, <2>5, <2>6, <2>7
  <1> QED BY <1>2, <1>3, <1>4, <1>5, SeqEqual

\* The same of strings.
LEMMA StringsInTurn ==
  \A s, t, u \in Seq(Character) : (s \o t) \o u = s \o (t \o u)
  BY InTurn

\* The root as a string.
LEMMA RootIs == Root \in Seq(Character) /\ Len(Root) = 1 /\ Root[1] = "/"
  <1>1. PICK c : c = "/" /\ c \in Character
    BY DEF Character
  <1>2. <<c>> \in Seq(Character) /\ Len(<<c>>) = 1 /\ <<c>>[1] = c
    BY <1>1
  <1> QED BY <1>1, <1>2 DEF Root

\* The path of what is in a directory, from that of the directory.
LEMMA StemIs ==
  ASSUME NEW d \in PathNames, NEW name \in PathNames
  PROVE  /\ Stem(d) \in Seq(Character)
         /\ Join(d, name) = Stem(d) \o (Root \o name)
         /\ Join(d, name) \in PathNames /\ Stem(Join(d, name)) = Join(d, name)
         /\ Len(Join(d, name)) = Len(Stem(d)) + 1 + Len(name)
         /\ Len(name) \in Nat \ {0} /\ Len(Stem(d)) \in Nat
  <1>1. /\ d \in Seq(Character) /\ name \in Seq(Character) /\ name # << >>
        /\ << >> \in Seq(Character)
    BY DEF PathNames
  <1>2. Stem(d) \in Seq(Character)
    BY <1>1 DEF Stem
  <1>3. Base(d) = Stem(d) \o Root
    <2>1. << >> \o Root = Root
      BY RootIs, ConcatEmptySeq
    <2> QED BY <2>1 DEF Base, Stem
  <1>4. Join(d, name) = Stem(d) \o (Root \o name)
    <2>1. (Stem(d) \o Root) \o name = Stem(d) \o (Root \o name)
      BY <1>1, <1>2, RootIs, StringsInTurn, Zenon
    <2> QED BY <1>3, <2>1 DEF Join
  <1>5. /\ Len(Root \o name) = 1 + Len(name) /\ Root \o name \in Seq(Character)
        /\ Len(name) \in Nat
    BY <1>1, RootIs, Concatenated
  <1>6. /\ Len(Join(d, name)) = Len(Stem(d)) + (1 + Len(name)) /\ Len(Stem(d)) \in Nat
        /\ Join(d, name) \in Seq(Character)
    <2> DEFINE t == Root \o name
    <2>1. t \in Seq(Character) /\ Len(t) = 1 + Len(name) /\ Join(d, name) = Stem(d) \o t
      BY <1>4, <1>5
    <2> HIDE DEF t
    <2>2. /\ Len(Stem(d) \o t) = Len(Stem(d)) + Len(t) /\ Len(Stem(d)) \in Nat
          /\ Stem(d) \o t \in Seq(Character)
      BY <1>2, <2>1, Concatenated
    <2> QED BY <2>1, <2>2
  <1>7. Len(name) # 0
    BY <1>1, EmptySeq
  <1>8. Join(d, name) # Root /\ Join(d, name) # << >>
    <2>1. Len(Join(d, name)) > 1
      BY <1>5, <1>6, <1>7
    <2>2. Len(<< >>) = 0
      OBVIOUS
    <2>3. Len(Root) = 1 /\ ~(1 > 1) /\ ~(0 > 1)
      BY RootIs
    <2> QED BY <2>1, <2>2, <2>3, Zenon
  <1>9. Join(d, name) \in PathNames /\ Stem(Join(d, name)) = Join(d, name)
    BY <1>6, <1>8 DEF Stem, PathNames
  <1>10. Len(Join(d, name)) = Len(Stem(d)) + 1 + Len(name)
    BY <1>5, <1>6
  <1> QED BY <1>2, <1>4, <1>5, <1>6, <1>7, <1>9, <1>10

\* What is written at a position.
LEMMA AtIs ==
  ASSUME NEW S, NEW s \in Seq(S), NEW pos \in Int
  PROVE  /\ DOMAIN At(pos, s) = pos .. pos + Len(s) - 1
         /\ At(pos, s) = [p \in pos .. pos + Len(s) - 1 |-> s[p - pos + 1]]
         /\ \A p \in pos .. pos + Len(s) - 1 : At(pos, s)[p] = s[p - pos + 1]
  BY DEF At

\* A string, and the next one where it ends.
LEMMA AtJoined ==
  ASSUME NEW S, NEW s \in Seq(S), NEW t \in Seq(S)
  PROVE  Over(At(0, s), At(Len(s), t)) = At(0, s \o t)
  <1> DEFINE n == Len(s)
             m == Len(t)
             f == At(0, s)
             g == At(n, t)
             u == s \o t
             h == At(0, u)
  <1>1. n \in Nat /\ m \in Nat /\ u \in Seq(S) /\ Len(u) = n + m
        /\ \A i \in 1 .. n + m : u[i] = IF i <= n THEN s[i] ELSE t[i - n]
    BY Concatenated
  <1>2. DOMAIN f = 0 .. n - 1 /\ \A p \in 0 .. n - 1 : f[p] = s[p + 1]
    BY <1>1, AtIs
  <1>3. DOMAIN g = n .. n + m - 1 /\ \A p \in n .. n + m - 1 : g[p] = t[p - n + 1]
    BY <1>1, AtIs
  <1>4. h = [p \in 0 .. n + m - 1 |-> u[p + 1]]
    <2>1. h = [p \in 0 .. 0 + Len(u) - 1 |-> u[p - 0 + 1]]
      BY DEF At
    <2>2. 0 + Len(u) - 1 = n + m - 1 /\ \A p \in 0 .. n + m - 1 : p - 0 + 1 = p + 1
      BY <1>1
    <2> HIDE DEF h, n, m, u
    <2> QED BY <2>1, <2>2
  <1> HIDE DEF f, g, h, n, m, u
  <1>5. Over(f, g) = [p \in (DOMAIN f) \cup (DOMAIN g) |-> IF p \in DOMAIN f THEN f[p] ELSE g[p]]
    BY DEF Over
  <1>6. (DOMAIN f) \cup (DOMAIN g) = 0 .. n + m - 1
    BY <1>1, <1>2, <1>3
  <1>7. ASSUME NEW p \in 0 .. n + m - 1
        PROVE  (IF p \in DOMAIN f THEN f[p] ELSE g[p]) = u[p + 1]
    <2>1. p + 1 \in 1 .. n + m
      BY <1>1
    <2>2. CASE p < n
      <3>1. p \in 0 .. n - 1 /\ p + 1 <= n
        BY <1>1, <2>2
      <3> QED BY <1>1, <1>2, <2>1, <3>1
    <2>3. CASE p >= n
      <3>1. p \notin 0 .. n - 1 /\ p \in n .. n + m - 1 /\ ~(p + 1 <= n) /\ (p + 1) - n = p - n + 1
        BY <1>1, <2>3
      <3> QED BY <1>1, <1>2, <1>3, <2>1, <3>1
    <2> QED BY <1>1, <2>2, <2>3
  <1>8. Over(f, g) = h
    BY <1>4, <1>5, <1>6, <1>7
  <1> QED BY <1>8 DEF f, g, h, n, u

\* Where nothing is written nothing changes.
LEMMA AtNothing ==
  ASSUME NEW pos \in Int, NEW f, f = [p \in DOMAIN f |-> f[p]]
  PROVE  /\ Over(f, At(pos, << >>)) = f /\ Over(At(pos, << >>), f) = f
         /\ At(pos, << >>) = At(0, << >>)
  <1>1. At(pos, << >>) = [p \in {} |-> << >>[p - pos + 1]]
    <2>1. pos .. pos + Len(<< >>) - 1 = {}
      OBVIOUS
    <2> QED BY <2>1 DEF At
  <1>2. At(0, << >>) = [p \in {} |-> << >>[p - 0 + 1]]
    <2>1. 0 .. 0 + Len(<< >>) - 1 = {}
      OBVIOUS
    <2> QED BY <2>1 DEF At
  <1> DEFINE g == At(pos, << >>)
             h == At(0, << >>)
  <1>3. DOMAIN g = {} /\ g = h
    BY <1>1, <1>2
  <1> HIDE DEF g, h
  <1>4. Over(f, g) = f
    <2>1. Over(f, g) = [p \in (DOMAIN f) \cup (DOMAIN g) |-> IF p \in DOMAIN f THEN f[p] ELSE g[p]]
      BY DEF Over
    <2>2. (DOMAIN f) \cup (DOMAIN g) = DOMAIN f
      BY <1>3
    <2> QED BY <2>1, <2>2
  <1>5. Over(g, f) = f
    <2>1. Over(g, f) = [p \in (DOMAIN g) \cup (DOMAIN f) |-> IF p \in DOMAIN g THEN g[p] ELSE f[p]]
      BY DEF Over
    <2>2. (DOMAIN g) \cup (DOMAIN f) = DOMAIN f
      BY <1>3
    <2> QED BY <1>3, <2>1, <2>2
  <1> QED BY <1>3, <1>4, <1>5 DEF g, h

-----------------------------------------------------------------------------
(* internal_build_path(): the names above a directory, last one first.  A
   directory comes after its parent. *)
AboveStep(f, d, pos) ==
  IF d = NULL THEN At(0, << >>)
  ELSE LET e     == direntries[d]
           start == IF e.name_size > 0 THEN pos - e.name_size - 1 ELSE pos
       IN  Over(Over(f[e.parent][start],
                     At(start, IF e.parent # NULL THEN Root ELSE << >>)),
                At(start + 1, e.name))

Goes(f, n) == f = [d \in 0 .. n |-> [pos \in Int |-> AboveStep(f, d, pos)]]
Above == CHOOSE f : Goes(f, Len(direntries))

Linked ==
  /\ Len(direntries) \in Nat
  /\ \A d \in 1 .. Len(direntries) : direntries[d].parent \in 0 .. d - 1

\* What internal_build_path() leaves in the buffer, from what it does for each directory.
LEMMA Unfold ==
  ASSUME NEW name, NEW dir
  PROVE  internal_build_path(name, dir) =
          Over(Above[dir][direntries[dir].total_size],
               At(direntries[dir].total_size, Root \o name \o <<"NUL">>))
  BY Zenon DEF internal_build_path, Above, Goes, AboveStep

\* What is done for one directory.
LEMMA GoesAt ==
  ASSUME NEW f, NEW n \in Nat, Goes(f, n), NEW d \in 0 .. n, NEW pos \in Int
  PROVE  f[d] = [p \in Int |-> AboveStep(f, d, p)] /\ f[d][pos] = AboveStep(f, d, pos)
  <1>1. f[d] = [p \in Int |-> AboveStep(f, d, p)]
    BY DEF Goes
  <1> QED BY <1>1

\* A step looks at the parent only.
LEMMA StepOfParent ==
  ASSUME Linked, NEW d \in 0 .. Len(direntries), NEW f, NEW g, NEW pos,
         d # 0 => f[direntries[d].parent] = g[direntries[d].parent]
  PROVE  AboveStep(f, d, pos) = AboveStep(g, d, pos)
  <1>1. CASE d = 0
    BY <1>1 DEF AboveStep, NULL
  <1>2. CASE d # 0
    BY <1>2 DEF AboveStep, NULL
  <1> QED BY <1>1, <1>2

\* The recursion is well-founded: there is no first directory for which it is not defined.
LEMMA AboveExists ==
  ASSUME Linked
  PROVE  Goes(Above, Len(direntries))
  <1> DEFINE N == Len(direntries)
             S == {n \in 0 .. N : ~\E f : Goes(f, n)}
  <1>0. N \in Nat
    BY DEF Linked
  <1>1. SUFFICES ASSUME S # {} PROVE FALSE
    <2>1. N \notin S
      BY <1>1
    <2>2. \E f : Goes(f, N)
      BY <1>0, <2>1
    <2> QED BY <2>2 DEF Above
  <1>2. PICK n \in S : \A k \in S : n <= k
    <2>1. S \subseteq Nat
      BY <1>0
    <2> HIDE DEF S
    <2>2. PICK m \in S : \A k \in S : ~(<<k, m>> \in OpToRel(<, Nat))
      BY <1>1, <2>1, WFMin, NatLessThanWellFounded
    <2>3. \A k \in S : ~(k < m)
      BY <2>1, <2>2 DEF OpToRel
    <2> QED BY <2>1, <2>3
  <1>3. n \in 0 .. N /\ ~\E f : Goes(f, n)
    OBVIOUS
  <1>4. CASE n = 0
    <2> DEFINE f == [d \in 0 .. 0 |-> [pos \in Int |-> At(0, << >>)]]
    <2>1. f = [d \in 0 .. 0 |-> [pos \in Int |-> AboveStep(f, d, pos)]]
      <3>1. \A d \in 0 .. 0 : \A pos : AboveStep(f, d, pos) = At(0, << >>)
        BY DEF AboveStep, NULL
      <3> QED BY <3>1
    <2> QED BY <1>3, <1>4, <2>1 DEF Goes
  <1>5. CASE n # 0
    <2>1. n - 1 \in 0 .. N /\ n - 1 < n /\ n \in Nat /\ n - 1 \in Nat
      BY <1>0, <1>3, <1>5
    <2>2. PICK g : Goes(g, n - 1)
      BY <1>2, <2>1
    <2> DEFINE f == [d \in 0 .. n |-> [pos \in Int |-> AboveStep(g, d, pos)]]
    <2>3. \A d \in 0 .. n - 1 : f[d] = g[d]
      <3> TAKE d \in 0 .. n - 1
      <3>1. d \in 0 .. n
        BY <2>1
      <3>2. f[d] = [pos \in Int |-> AboveStep(g, d, pos)]
        BY <3>1
      <3>3. g[d] = [pos \in Int |-> AboveStep(g, d, pos)]
        BY <2>1, <2>2, GoesAt
      <3> QED BY <3>2, <3>3
    <2> HIDE DEF f
    <2>4. \A d \in 0 .. n : \A pos \in Int : AboveStep(f, d, pos) = AboveStep(g, d, pos)
      <3> TAKE d \in 0 .. n
      <3>1. d \in 0 .. N
        BY <1>0, <1>3
      <3>2. d # 0 => direntries[d].parent \in 0 .. n - 1
        BY <1>3, <2>1, <3>1 DEF Linked
      <3>3. d # 0 => f[direntries[d].parent] = g[direntries[d].parent]
        BY <2>3, <3>2
      <3> QED BY <3>1, <3>3, StepOfParent
    <2>5. f = [d \in 0 .. n |-> [pos \in Int |-> AboveStep(f, d, pos)]]
      <3>1. f = [d \in 0 .. n |-> [pos \in Int |-> AboveStep(g, d, pos)]]
        BY DEF f
      <3>2. \A d \in 0 .. n : [pos \in Int |-> AboveStep(g, d, pos)]
                              = [pos \in Int |-> AboveStep(f, d, pos)]
        BY <2>4
      <3> QED BY <3>1, <3>2
    <2> QED BY <1>3, <2>5 DEF Goes
  <1> QED BY <1>4, <1>5

\* What a directory keeps of its path: a name, and where the rest of it is.
Entered(P, d) ==
  LET e == direntries[d]
  IN  /\ e.name \in Seq(Character) /\ e.name_size = Len(e.name)
      /\ e.total_size = Len(Stem(P[d]))
      /\ \/ e.parent = NULL /\ e.name = Stem(P[d])
         \/ /\ e.parent \in 1 .. d - 1
            /\ e.name \in PathNames /\ P[d] = Join(P[e.parent], e.name)

Known(P) ==
  /\ Len(direntries) \in Nat
  /\ P \in [1 .. Len(direntries) -> PathNames]
  /\ \A d \in 1 .. Len(direntries) : Entered(P, d)

\* Directories that have paths come after their parents.
LEMMA KnownLinked ==
  ASSUME NEW P, Known(P)
  PROVE  Linked
  BY DEF Known, Entered, Linked, NULL

\* What is written is a function of the positions.
LEMMA AtFunction ==
  ASSUME NEW pos, NEW s
  PROVE  At(pos, s) = [p \in DOMAIN At(pos, s) |-> At(pos, s)[p]]
  BY DEF At

\* What is written for a directory without a parent.
LEMMA AboveTop ==
  ASSUME NEW P, Known(P), NEW d \in 1 .. Len(direntries), direntries[d].parent = NULL
  PROVE  Above[d][direntries[d].total_size] = At(0, Stem(P[d]))
  <1> DEFINE e     == direntries[d]
             name  == e.name
             pos   == e.total_size
             start == IF e.name_size > 0 THEN pos - e.name_size - 1 ELSE pos
  <1>0. Len(direntries) \in Nat /\ d \in 0 .. Len(direntries) /\ 0 \in 0 .. Len(direntries)
        /\ d # 0
    BY DEF Known
  <1>1. /\ name \in Seq(Character) /\ e.name_size = Len(name) /\ pos = Len(name)
        /\ name = Stem(P[d]) /\ Len(name) \in Nat /\ e.parent = NULL
    BY LenProperties DEF Known, Entered, NULL
  <1>2. Goes(Above, Len(direntries))
    BY KnownLinked, AboveExists
  <1>3. pos \in Int /\ start \in Int
    BY <1>1
  <1>4. Above[d][pos] = AboveStep(Above, d, pos)
    BY <1>0, <1>2, <1>3, GoesAt
  <1>5. AboveStep(Above, d, pos)
          = Over(Over(Above[NULL][start], At(start, << >>)), At(start + 1, name))
    <2>1. d # NULL
      BY <1>0 DEF NULL
    <2> QED BY <1>1, <2>1 DEF AboveStep
  <1>6. Above[NULL][start] = At(0, << >>)
    <2>1. Above[0][start] = AboveStep(Above, 0, start)
      BY <1>0, <1>2, <1>3, GoesAt
    <2> QED BY <2>1 DEF AboveStep, NULL
  <1>7. Over(At(0, << >>), At(start, << >>)) = At(0, << >>)
    BY <1>3, AtFunction, AtNothing
  <1>8. Over(At(0, << >>), At(start + 1, name)) = At(start + 1, name)
    BY AtFunction, AtNothing
  <1>9. At(start + 1, name) = At(0, name)
    <2>1. CASE Len(name) > 0
      <3>1. start + 1 = 0
        BY <1>1, <2>1
      <3> QED BY <3>1
    <2>2. CASE Len(name) = 0
      <3>1. name = << >> /\ start + 1 \in Int
        BY <1>1, <1>3, <2>2, EmptySeq
      <3>2. At(0, << >>) = [p \in DOMAIN At(0, << >>) |-> At(0, << >>)[p]]
        BY AtFunction
      <3> QED BY <3>1, <3>2, AtNothing
    <2> QED BY <1>1, <2>1, <2>2
  <1> HIDE DEF e, name, pos, start
  <1>10. Above[d][pos] = At(0, Stem(P[d]))
    BY <1>1, <1>4, <1>5, <1>6, <1>7, <1>8, <1>9
  <1> QED BY <1>10 DEF pos, e

\* And for one with a parent.
LEMMA AboveBelow ==
  ASSUME NEW P, Known(P), NEW d \in 1 .. Len(direntries), NEW up, up = direntries[d].parent,
         up # NULL, Above[up][direntries[up].total_size] = At(0, Stem(P[up]))
  PROVE  Above[d][direntries[d].total_size] = At(0, Stem(P[d]))
  <1> DEFINE e     == direntries[d]
             name  == e.name
             pos   == e.total_size
             start == IF e.name_size > 0 THEN pos - e.name_size - 1 ELSE pos
             stem  == Stem(P[up])
  <1>0. Len(direntries) \in Nat /\ d \in 0 .. Len(direntries) /\ d # NULL
    BY DEF Known, NULL
  <1>1. /\ e.name_size = Len(name) /\ pos = Len(Stem(P[d])) /\ up \in 1 .. d - 1
        /\ name \in PathNames /\ P[d] = Join(P[up], name) /\ name \in Seq(Character)
        /\ direntries[up].total_size = Len(Stem(P[up]))
        /\ up \in 1 .. Len(direntries)
    <2>1. Entered(P, d) /\ e.parent = up /\ up # NULL
      BY DEF Known
    <2>2. /\ e.name_size = Len(name) /\ pos = Len(Stem(P[d])) /\ up \in 1 .. d - 1
          /\ name \in PathNames /\ P[d] = Join(P[up], name) /\ name \in Seq(Character)
      BY <2>1 DEF Entered
    <2>3. up \in 1 .. Len(direntries)
      BY <1>0, <2>2
    <2>4. direntries[up].total_size = Len(Stem(P[up]))
      BY <2>3 DEF Known, Entered
    <2> QED BY <2>2, <2>3, <2>4
  <1>2. /\ stem \in Seq(Character) /\ Len(stem) \in Nat /\ Len(name) \in Nat \ {0}
        /\ Stem(P[d]) = stem \o (Root \o name)
        /\ pos = Len(stem) + 1 + Len(name)
    <2>1. P[up] \in PathNames
      BY <1>1 DEF Known
    <2>2. /\ Stem(P[up]) \in Seq(Character)
          /\ Join(P[up], name) = Stem(P[up]) \o (Root \o name)
          /\ Stem(Join(P[up], name)) = Join(P[up], name)
          /\ Len(Join(P[up], name)) = Len(Stem(P[up])) + 1 + Len(name)
          /\ Len(name) \in Nat \ {0} /\ Len(Stem(P[up])) \in Nat
      BY <1>1, <2>1, StemIs
    <2> QED BY <1>1, <2>2
  <1>3. start = Len(stem) /\ pos \in Int /\ start \in Int
    <2>1. e.name_size > 0 /\ pos - e.name_size - 1 = Len(stem)
      <3>1. e.name_size = Len(name)
        BY <1>1
      <3> HIDE DEF stem, name, pos, e
      <3> QED BY <1>2, <3>1
    <2>2. start = pos - e.name_size - 1
      BY <2>1
    <2> HIDE DEF start, stem, pos, name
    <2>3. start = Len(stem)
      BY <2>1, <2>2
    <2>4. pos \in Int /\ Len(stem) \in Int
      BY <1>2
    <2> QED BY <2>3, <2>4
  <1>4. Above[d][pos] = AboveStep(Above, d, pos)
    <2>1. Goes(Above, Len(direntries))
      BY KnownLinked, AboveExists
    <2> QED BY <1>0, <1>3, <2>1, GoesAt
  <1>5. AboveStep(Above, d, pos)
          = Over(Over(Above[up][start], At(start, Root)), At(start + 1, name))
    BY <1>0 DEF AboveStep
  <1>6. Above[up][start] = At(0, stem)
    BY <1>1, <1>3
  <1> HIDE DEF start, stem, name, pos
  <1>7. Over(At(0, stem), At(start, Root)) = At(0, stem \o Root)
    BY <1>2, <1>3, RootIs, AtJoined
  <1>8. Over(At(0, stem \o Root), At(start + 1, name)) = At(0, (stem \o Root) \o name)
    <2>1. stem \o Root \in Seq(Character) /\ Len(stem \o Root) = start + 1
      <3>1. stem \o Root \in Seq(Character) /\ Len(stem \o Root) = Len(stem) + Len(Root)
        BY <1>2, RootIs, Concatenated
      <3> QED BY <1>2, <1>3, <3>1, RootIs
    <2> QED BY <1>1, <2>1, AtJoined
  <1>9. (stem \o Root) \o name = Stem(P[d])
    <2>1. stem \in Seq(Character) /\ name \in Seq(Character) /\ Root \in Seq(Character)
      BY <1>1, <1>2, RootIs
    <2>2. (stem \o Root) \o name = stem \o (Root \o name)
      BY <2>1, StringsInTurn, Zenon
    <2> QED BY <1>2, <2>2
  <1>10. Above[d][pos] = At(0, Stem(P[d]))
    BY <1>4, <1>5, <1>6, <1>7, <1>8, <1>9
  <1> QED BY <1>10 DEF pos

\* What is written for a directory is its path: there is no first one for which it is not.
LEMMA AboveIs ==
  ASSUME NEW P, Known(P)
  PROVE  \A d \in 1 .. Len(direntries) :
           Above[d][direntries[d].total_size] = At(0, Stem(P[d]))
  <1> DEFINE S == {d \in 1 .. Len(direntries) :
                     Above[d][direntries[d].total_size] # At(0, Stem(P[d]))}
  <1>1. SUFFICES ASSUME S # {} PROVE FALSE
    OBVIOUS
  <1>2. PICK d \in S : \A k \in S : d <= k
    <2>1. S \subseteq Nat
      BY DEF Known
    <2> HIDE DEF S
    <2>2. PICK m \in S : \A k \in S : ~(<<k, m>> \in OpToRel(<, Nat))
      BY <1>1, <2>1, WFMin, NatLessThanWellFounded
    <2>3. \A k \in S : ~(k < m)
      BY <2>1, <2>2 DEF OpToRel
    <2> QED BY <2>1, <2>3
  <1>3. d \in 1 .. Len(direntries) /\ Above[d][direntries[d].total_size] # At(0, Stem(P[d]))
    OBVIOUS
  <1>4. PICK up : up = direntries[d].parent
    OBVIOUS
  <1>5. up # NULL
    BY <1>3, <1>4, AboveTop
  <1>6. up \in 1 .. d - 1
    BY <1>3, <1>4, <1>5 DEF Known, Entered
  <1>7. up \in 1 .. Len(direntries) /\ ~(d <= up)
    BY <1>3, <1>6 DEF Known
  <1>8. Above[up][direntries[up].total_size] = At(0, Stem(P[up]))
    BY <1>2, <1>7
  <1> QED BY <1>3, <1>4, <1>5, <1>8, AboveBelow

-----------------------------------------------------------------------------
\* Neither the path of a directory nor the name of a file holds the end of a string.
Endless(s) == \A k \in 1 .. Len(s) : s[k] # "NUL"

\* A buffer is read up to the first end of a string in it.
LEMMA ReadBack ==
  ASSUME NEW s \in Seq(Character), Endless(s), NEW buffer, buffer = At(0, s \o <<"NUL">>),
         NEW len, len = CHOOSE n \in DOMAIN buffer :
           buffer[n] = "NUL" /\ \A m \in DOMAIN buffer : buffer[m] = "NUL" => m >= n
  PROVE  [i \in 1 .. len |-> IF i - 1 \in DOMAIN buffer THEN buffer[i - 1] ELSE "unknown"] = s
  <1> DEFINE nul == <<"NUL">>
             t == s \o nul
             n == Len(s)
  <1>1. nul \in Seq(Character) /\ Len(nul) = 1 /\ nul[1] = "NUL"
    <2>1. "NUL" \in Character
      BY DEF Character
    <2> QED BY <2>1
  <1> HIDE DEF nul
  <1>2. t \in Seq(Character) /\ n \in Nat /\ Len(t) = n + 1
        /\ \A i \in 1 .. n + 1 : t[i] = IF i <= n THEN s[i] ELSE nul[i - n]
    BY <1>1, Concatenated
  <1>3. DOMAIN buffer = 0 .. 0 + Len(t) - 1
        /\ \A p \in 0 .. 0 + Len(t) - 1 : buffer[p] = t[p - 0 + 1]
    <2>1. buffer = At(0, t)
      BY DEF nul
    <2> HIDE DEF t
    <2>2. At(0, t) = [p \in 0 .. 0 + Len(t) - 1 |-> t[p - 0 + 1]]
      BY DEF At
    <2>3. DOMAIN At(0, t) = 0 .. 0 + Len(t) - 1
          /\ \A p \in 0 .. 0 + Len(t) - 1 : At(0, t)[p] = t[p - 0 + 1]
      BY <2>2
    <2> QED BY <2>1, <2>2, <2>3
  <1> HIDE DEF t
  <1>4. /\ DOMAIN buffer = 0 .. n /\ buffer[n] = "NUL"
        /\ \A p \in 0 .. n - 1 : buffer[p] = s[p + 1] /\ buffer[p] # "NUL"
    <2>1. DOMAIN buffer = 0 .. n /\ \A p \in 0 .. n : buffer[p] = t[p + 1]
      BY <1>2, <1>3
    <2>2. buffer[n] = "NUL"
      BY <1>1, <1>2, <2>1
    <2>3. ASSUME NEW p \in 0 .. n - 1 PROVE buffer[p] = s[p + 1] /\ buffer[p] # "NUL"
      <3>1. p \in 0 .. n /\ p + 1 \in 1 .. n /\ p + 1 \in 1 .. n + 1 /\ p + 1 <= n
        BY <1>2
      <3>2. buffer[p] = s[p + 1]
        BY <1>2, <2>1, <3>1
      <3>3. s[p + 1] # "NUL"
        BY <3>1 DEF Endless
      <3> QED BY <3>2, <3>3
    <2> QED BY <2>1, <2>2, <2>3
  <1>5. len = n
    <2>1. n \in DOMAIN buffer /\ \A m \in DOMAIN buffer : buffer[m] = "NUL" => m >= n
      BY <1>2, <1>4
    <2>2. /\ len \in DOMAIN buffer /\ buffer[len] = "NUL"
          /\ \A m \in DOMAIN buffer : buffer[m] = "NUL" => m >= len
      BY <1>4, <2>1, Zenon
    <2> QED BY <1>2, <1>4, <2>1, <2>2
  <1> DEFINE r == [i \in 1 .. n |-> IF i - 1 \in DOMAIN buffer THEN buffer[i - 1] ELSE "unknown"]
  <1>6. ASSUME NEW i \in 1 .. n PROVE r[i] = s[i]
    <2>1. i - 1 \in 0 .. n - 1 /\ i - 1 \in 0 .. n /\ (i - 1) + 1 = i
      BY <1>2
    <2>2. r[i] = IF i - 1 \in DOMAIN buffer THEN buffer[i - 1] ELSE "unknown"
      OBVIOUS
    <2> HIDE DEF r
    <2> QED BY <1>4, <2>1, <2>2
  <1>7. DOMAIN s = 1 .. n /\ s = [i \in 1 .. n |-> s[i]]
    BY LenProperties
  <1>8. r = s
    <2>1. r = [i \in 1 .. n |-> s[i]]
      BY <1>6
    <2> QED BY <1>7, <2>1
  <1> QED BY <1>5, <1>8

\* The path of a file, from its directory and its name.
LEMMA BuildsPath ==
  ASSUME NEW P, Known(P), NEW dir \in 1 .. Len(direntries), NEW name \in PathNames,
         Endless(Join(P[dir], name))
  PROVE  build_path(name, dir) = Join(P[dir], name)
  <1> DEFINE stem == Stem(P[dir])
             nul == <<"NUL">>
             c == Join(P[dir], name)
             buffer == internal_build_path(name, dir)
  <1>1. /\ stem \in Seq(Character) /\ Len(stem) \in Nat
        /\ c = stem \o (Root \o name) /\ c \in PathNames /\ c \in Seq(Character)
        /\ name \in Seq(Character)
    BY StemIs DEF Known, PathNames
  <1>2. nul \in Seq(Character)
    <2>1. "NUL" \in Character
      BY DEF Character
    <2> QED BY <2>1
  <1>3. direntries[dir].total_size = Len(stem)
    BY DEF Known, Entered
  <1>4. buffer = Over(At(0, stem), At(Len(stem), Root \o name \o nul))
    BY <1>3, AboveIs, Unfold
  <1> HIDE DEF nul, stem
  <1>5. Root \o name \in Seq(Character) /\ (Root \o name) \o nul \in Seq(Character)
    BY <1>1, <1>2, RootIs, Concatenated
  <1>6. buffer = At(0, stem \o ((Root \o name) \o nul))
    <2> HIDE DEF buffer
    <2> QED BY <1>1, <1>4, <1>5, AtJoined
  <1>7. stem \o ((Root \o name) \o nul) = c \o nul
    <2> DEFINE t == Root \o name
    <2>1. t \in Seq(Character) /\ t \o nul \in Seq(Character) /\ c = stem \o t
      BY <1>1, <1>5
    <2> HIDE DEF t, c
    <2>2. stem \o (t \o nul) = (stem \o t) \o nul
      <3>1. stem \in Seq(Character) /\ t \in Seq(Character) /\ nul \in Seq(Character)
        BY <1>1, <1>2, <2>1
      <3>2. (stem \o t) \o nul = stem \o (t \o nul)
        BY <3>1, StringsInTurn, Zenon
      <3> QED BY <3>2
    <2>3. stem \o (t \o nul) = c \o nul
      BY <2>1, <2>2
    <2> QED BY <2>3 DEF t
  <1>8. buffer = At(0, c \o <<"NUL">>)
    BY <1>6, <1>7 DEF nul
  <1> DEFINE len == CHOOSE n \in DOMAIN buffer :
                      buffer[n] = "NUL" /\ \A m \in DOMAIN buffer : buffer[m] = "NUL" => m >= n
  <1>9. build_path(name, dir)
          = [i \in 1 .. len |-> IF i - 1 \in DOMAIN buffer THEN buffer[i - 1] ELSE "unknown"]
    BY Zenon DEF build_path
  <1> HIDE DEF buffer, c
  <1>10. Endless(c)
    BY DEF c
  <1>11. [i \in 1 .. len |-> IF i - 1 \in DOMAIN buffer THEN buffer[i - 1] ELSE "unknown"] = c
    <2>1. c \in Seq(Character)
      BY <1>1 DEF c
    <2> HIDE DEF len
    <2>2. ASSUME NEW l, l = CHOOSE n \in DOMAIN buffer :
                      buffer[n] = "NUL" /\ \A m \in DOMAIN buffer : buffer[m] = "NUL" => m >= n
          PROVE  [i \in 1 .. l |-> IF i - 1 \in DOMAIN buffer THEN buffer[i - 1] ELSE "unknown"] = c
      BY <1>8, <1>10, <2>1, <2>2, ReadBack
    <2> QED BY <2>2, Zenon DEF len
  <1>12. build_path(name, dir) = c
    BY <1>9, <1>11
  <1> QED BY <1>12 DEF c

-----------------------------------------------------------------------------
(* What the directories kept say of the scan: each has the name and the parent
   of a path, and what the walk and the lists of files refer to by a directory
   is that path.  A name keeps its length in a byte, which is enough for the
   names in a directory, but for a start path only if it is short. *)
StartsFit == \A k \in 1 .. Len(start_path) : Len(start_path[k]) < ByteSize

HeldDir(P, h) == h.dir \in 1 .. Len(direntries) /\ P[h.dir] = h.path
HeldFile(P, file) ==
  /\ file.dir \in 1 .. Len(direntries) /\ file.name \in PathNames
  /\ file.path = Join(P[file.dir], file.name)

Registered(P) ==
  /\ Known(P)
  /\ \A i \in 1 .. Len(scan_list) : HeldDir(P, scan_list[i])
  /\ current # NoDir => HeldDir(P, current)
  /\ \A file \in ToSet(added) \cup ToSet(queue) : HeldFile(P, file)

TreeInv ==
  /\ direntries \in Seq(ToSet(direntries))
  /\ phase \in {"args", "fiemap"} => direntries = << >>
  /\ StartsFit => \E P : Registered(P)

-----------------------------------------------------------------------------
\* The members of a list with one more, and of one that is shorter.
LEMMA MoreMembers ==
  ASSUME NEW s, s \in Seq(ToSet(s)), NEW e, NEW r, r = Append(s, e)
  PROVE  /\ ToSet(r) = ToSet(s) \cup {e} /\ r \in Seq(ToSet(r))
         /\ Len(s) \in Nat /\ Len(r) = Len(s) + 1 /\ r[Len(s) + 1] = e
         /\ \A i \in 1 .. Len(s) : r[i] = s[i]
  <1> DEFINE D == ToSet(s) \cup {e}
  <1>1. s \in Seq(D) /\ e \in D /\ Len(s) \in Nat
    <2>1. ToSet(s) \subseteq D /\ e \in D
      OBVIOUS
    <2> HIDE DEF D
    <2> QED BY <2>1
  <1> HIDE DEF D
  <1>2. /\ r \in Seq(D) /\ Len(r) = Len(s) + 1 /\ r[Len(s) + 1] = e
        /\ \A i \in 1 .. Len(s) : r[i] = s[i]
    BY <1>1, Appended
  <1>3. DOMAIN s = 1 .. Len(s) /\ DOMAIN r = 1 .. Len(s) + 1
    BY <1>1, <1>2, LenProperties
  <1>4. ToSet(r) = ToSet(s) \cup {e}
    <2>1. 1 .. Len(s) + 1 = (1 .. Len(s)) \cup {Len(s) + 1}
      BY <1>1
    <2> QED BY <1>2, <1>3, <2>1 DEF ToSet
  <1> QED BY <1>1, <1>2, <1>4, OfMembers

\* Of a list without its first.
LEMMA FewerMembers ==
  ASSUME NEW s, s \in Seq(ToSet(s)), s # << >>
  PROVE  ToSet(Tail(s)) \subseteq ToSet(s) /\ Head(s) \in ToSet(s)
  <1>1. Head(s) \in ToSet(s) /\ Tail(s) \in Seq(ToSet(s))
    BY HeadTailProperties, EmptySeq
  <1> QED BY <1>1 DEF ToSet

\* Of a list without its last.
LEMMA FrontIs ==
  ASSUME NEW s, s \in Seq(ToSet(s)), s # << >>
  PROVE  /\ Len(s) \in 1 .. Len(s)
         /\ \A i \in 1 .. Len(Front(s)) : i \in 1 .. Len(s) /\ Front(s)[i] = s[i]
  <1> DEFINE n == Len(s)
             m == n - 1
             r == SubSeq(s, 1, m)
  <1>1. n \in Nat \ {0}
    BY LenProperties, EmptySeq
  <1>2. m \in Nat /\ n \in 1 .. n /\ \A i \in 1 .. m : i \in 1 .. n
    BY <1>1
  <1>3. \A i \in 1 .. m : s[i] \in ToSet(s)
    BY <1>2
  <1> HIDE DEF m
  <1>4. /\ 1 \in Int /\ m \in Int /\ (IF 1 <= m THEN m - 1 + 1 ELSE 0) = m
        /\ \A i \in 1 .. m : 1 + i - 1 = i
    BY <1>2
  <1> HIDE DEF n
  <1>5. Len(r) = m /\ \A i \in 1 .. m : r[i] = s[1 + i - 1]
    BY <1>3, <1>4, SubSeqProperties
  <1>6. Front(s) = r
    BY DEF Front, m, n
  <1> HIDE DEF r
  <1> QED BY <1>2, <1>4, <1>5, <1>6 DEF n

-----------------------------------------------------------------------------
(* Steps that make no directory. *)

\* A file found in the current directory.
NewFile(file) ==
  /\ current # NoDir /\ file.dir = current.dir
  /\ file.name \in PathNames /\ file.path = Join(current.path, file.name)

\* What the directories say stays as it is, if the lists refer to no others.
LEMMA TreeStays ==
  ASSUME TreeInv, UNCHANGED <<direntries, start_path>>,
         phase' \in {"args", "fiemap"} => phase \in {"args", "fiemap"},
         \A i \in 1 .. Len(scan_list') :
           \E j \in 1 .. Len(scan_list) : scan_list'[i] = scan_list[j],
         current' # NoDir =>
           current' = current \/ \E j \in 1 .. Len(scan_list) : current' = scan_list[j],
         \A file \in ToSet(added') \cup ToSet(queue') :
           file \in ToSet(added) \cup ToSet(queue) \/ NewFile(file)
  PROVE  TreeInv'
  <1>1. StartsFit' <=> StartsFit
    BY DEF StartsFit
  <1>2. ASSUME NEW P, Registered(P) PROVE Registered(P)'
    <2>1. Known(P)'
      BY <1>2 DEF Registered, Known, Entered
    <2>2. \A h : HeldDir(P, h) => HeldDir(P, h)'
      BY DEF HeldDir
    <2>3. \A file : HeldFile(P, file) => HeldFile(P, file)'
      BY DEF HeldFile
    <2>4. ASSUME NEW file, NewFile(file) PROVE HeldFile(P, file)
      <3>1. HeldDir(P, current)
        BY <1>2, <2>4 DEF NewFile, Registered
      <3> QED BY <2>4, <3>1 DEF NewFile, HeldDir, HeldFile
    <2>5. ASSUME NEW i \in 1 .. Len(scan_list') PROVE HeldDir(P, scan_list[i])'
      <3>1. PICK j \in 1 .. Len(scan_list) : scan_list'[i] = scan_list[j]
        OBVIOUS
      <3>2. HeldDir(P, scan_list[j])
        BY <1>2 DEF Registered
      <3> QED BY <3>1, <3>2 DEF HeldDir
    <2>6. current' # NoDir => HeldDir(P, current)'
      <3>1. SUFFICES ASSUME current' # NoDir PROVE HeldDir(P, current)'
        OBVIOUS
      <3>2. HeldDir(P, current')
        BY <1>2, <3>1 DEF Registered
      <3> QED BY <3>2 DEF HeldDir
    <2>7. ASSUME NEW file \in ToSet(added') \cup ToSet(queue') PROVE HeldFile(P, file)'
      BY <1>2, <2>3, <2>4 DEF Registered
    <2> QED BY <2>1, <2>5, <2>6, <2>7 DEF Registered
  <1> QED BY <1>1, <1>2 DEF TreeInv

-----------------------------------------------------------------------------
(* A new directory. *)

\* What new_child_dir() keeps of a name: all of it, if it is short enough.
LEMMA ChildIs ==
  ASSUME NEW name \in PathNames, NEW parent, new_child_dir(name, parent)
  PROVE  \E e : /\ direntries' = Append(direntries, e)
                /\ Len(name) < ByteSize =>
                     /\ e.name = Stem(name) /\ e.name \in Seq(Character)
                     /\ e.name_size = Len(e.name) /\ e.parent = parent
                     /\ e.total_size = total_size(Len(e.name), parent)
  <1> DEFINE len == IF name = Root THEN 0 ELSE Len(name) % ByteSize
             e == [name |-> SubSeq(name, 1, len), name_size |-> len, parent |-> parent,
                   total_size |-> total_size(len, parent)]
  <1>1. direntries' = Append(direntries, e)
    BY DEF new_child_dir
  <1>2. SUFFICES ASSUME Len(name) < ByteSize
                 PROVE  /\ e.name = Stem(name) /\ e.name \in Seq(Character)
                        /\ e.name_size = Len(e.name) /\ e.parent = parent
                        /\ e.total_size = total_size(Len(e.name), parent)
    BY <1>1
  <1>3. name \in Seq(Character) /\ Len(name) \in Nat /\ ByteSize \in Nat \ {0}
    BY DirTreeAssumption, LenProperties DEF PathNames
  <1>4. /\ len \in Nat /\ len <= Len(name)
        /\ name = Root => len = 0
        /\ name # Root => len = Len(name)
    BY <1>2, <1>3
  <1>5. /\ e.name = SubSeq(name, 1, len) /\ e.name_size = len /\ e.parent = parent
        /\ e.total_size = total_size(len, parent)
    OBVIOUS
  <1> HIDE DEF len, e
  <1>6. /\ SubSeq(name, 1, len) \in Seq(Character) /\ Len(SubSeq(name, 1, len)) = len
        /\ \A i \in 1 .. len : SubSeq(name, 1, len)[i] = name[i]
    <2>1. /\ 1 \in Int /\ len \in Int /\ (IF 1 <= len THEN len - 1 + 1 ELSE 0) = len
          /\ \A i \in 1 .. len : 1 + i - 1 = i
      BY <1>4
    <2>2. \A i \in 1 .. len : name[i] \in Character
      BY <1>3, <1>4
    <2>3. /\ SubSeq(name, 1, len) \in Seq(Character) /\ Len(SubSeq(name, 1, len)) = len
          /\ \A i \in 1 .. len : SubSeq(name, 1, len)[i] = name[1 + i - 1]
      BY <2>1, <2>2, SubSeqProperties
    <2> QED BY <2>1, <2>3
  <1>7. SubSeq(name, 1, len) = Stem(name)
    <2>1. CASE name = Root
      BY <1>4, <1>6, <2>1, EmptySeq DEF Stem
    <2>2. CASE name # Root
      <3>1. Len(SubSeq(name, 1, len)) = Len(name)
            /\ \A i \in 1 .. Len(name) : SubSeq(name, 1, len)[i] = name[i]
        BY <1>4, <1>6, <2>2
      <3>2. SubSeq(name, 1, len) = name
        BY <1>3, <1>6, <3>1, SeqEqual
      <3> QED BY <2>2, <3>2 DEF Stem
    <2> QED BY <2>1, <2>2
  <1> QED BY <1>5, <1>6, <1>7

\* What a new directory's entry is, if its path is p.
NewDir(P, e, p) ==
  /\ e.name \in Seq(Character) /\ e.name_size = Len(e.name) /\ e.total_size = Len(Stem(p))
  /\ \/ e.parent = NULL /\ e.name = Stem(p)
     \/ /\ e.parent \in 1 .. Len(direntries)
        /\ e.name \in PathNames /\ p = Join(P[e.parent], e.name)

\* It stays so with one more, if that is the directory of its path.
LEMMA TreeGrows ==
  ASSUME TreeInv, UNCHANGED <<start_path, current, added, queue>>,
         phase' \notin {"args", "fiemap"},
         NEW e, direntries' = Append(direntries, e), NEW p \in PathNames,
         \A i \in 1 .. Len(scan_list') :
           \/ scan_list'[i].path = p /\ scan_list'[i].dir = Len(direntries) + 1
           \/ \E j \in 1 .. Len(scan_list) : scan_list'[i] = scan_list[j],
         StartsFit => \A P : Registered(P) => NewDir(P, e, p)
  PROVE  TreeInv'
  <1>0. PICK n : n = Len(direntries)
    OBVIOUS
  <1> DEFINE m == n + 1
  <1>1. /\ n \in Nat /\ direntries' \in Seq(ToSet(direntries')) /\ Len(direntries') = n + 1
        /\ direntries'[n + 1] = e /\ \A d \in 1 .. n : direntries'[d] = direntries[d]
    <2>1. direntries \in Seq(ToSet(direntries))
      BY DEF TreeInv
    <2>2. PICK s : s = direntries
      OBVIOUS
    <2>3. PICK r : r = direntries'
      OBVIOUS
    <2>4. s \in Seq(ToSet(s)) /\ r = Append(s, e) /\ n = Len(s)
      BY <1>0, <2>1, <2>2, <2>3
    <2>5. /\ r \in Seq(ToSet(r)) /\ Len(s) \in Nat /\ Len(r) = Len(s) + 1 /\ r[Len(s) + 1] = e
          /\ \A d \in 1 .. Len(s) : r[d] = s[d]
      <3>1. r \in Seq(ToSet(r)) /\ Len(s) \in Nat
        BY <2>4, MoreMembers
      <3>2. Len(r) = Len(s) + 1 /\ r[Len(s) + 1] = e
        BY <2>4, MoreMembers
      <3>3. \A d \in 1 .. Len(s) : r[d] = s[d]
        BY <2>4, MoreMembers
      <3> QED BY <3>1, <3>2, <3>3
    <2> QED BY <2>2, <2>3, <2>4, <2>5
  <1>2. StartsFit' <=> StartsFit
    BY DEF StartsFit
  <1>3. ASSUME StartsFit, NEW P, Registered(P) PROVE \E R : Registered(R)'
    <2>0. PICK R : R = [d \in 1 .. m |-> IF d <= n THEN P[d] ELSE p]
      OBVIOUS
    <2>1. /\ Known(P) /\ NewDir(P, e, p) /\ P \in [1 .. n -> PathNames]
          /\ \A d \in 1 .. n : Entered(P, d)
      BY <1>0, <1>3 DEF Registered, Known
    <2>2. /\ \A d \in 1 .. n : d \in 1 .. m /\ d <= n /\ \A k \in 1 .. d - 1 : k \in 1 .. n
          /\ m \in 1 .. m /\ ~(m <= n) /\ m - 1 = n /\ m \in Nat
          /\ \A d \in 1 .. m : d \in 1 .. n \/ d = m
      BY <1>1
    <2> HIDE DEF m
    <2>3. /\ R \in [1 .. m -> PathNames] /\ R[m] = p
          /\ \A d \in 1 .. n : R[d] = P[d]
      BY <2>0, <2>1, <2>2
    <2>4. /\ Len(direntries') = m /\ direntries'[m] = e
          /\ \A d \in 1 .. n : direntries'[d] = direntries[d]
      BY <1>1 DEF m
    <2>5. ASSUME NEW d \in 1 .. n PROVE Entered(R, d)'
      <3>1. Entered(P, d) /\ direntries'[d] = direntries[d] /\ R[d] = P[d]
        BY <2>1, <2>3, <2>4
      <3>2. direntries[d].parent \in 1 .. d - 1 =>
              R[direntries[d].parent] = P[direntries[d].parent]
        BY <2>2, <2>3
      <3> QED BY <3>1, <3>2 DEF Entered
    <2>6. Entered(R, m)'
      <3>1. e.parent \in 1 .. n => R[e.parent] = P[e.parent]
        BY <2>3
      <3> QED BY <1>0, <2>1, <2>2, <2>3, <2>4, <3>1 DEF NewDir, Entered
    <2>7. Known(R)'
      BY <2>2, <2>3, <2>4, <2>5, <2>6 DEF Known
    <2>8. \A h : HeldDir(P, h) => h.dir \in 1 .. m /\ R[h.dir] = h.path
      BY <1>0, <2>2, <2>3 DEF HeldDir
    <2>9. ASSUME NEW i \in 1 .. Len(scan_list') PROVE HeldDir(R, scan_list[i])'
      <3>1. CASE scan_list'[i].path = p /\ scan_list'[i].dir = m
        BY <2>2, <2>3, <2>4, <3>1 DEF HeldDir
      <3>2. CASE \E j \in 1 .. Len(scan_list) : scan_list'[i] = scan_list[j]
        <4>1. PICK j \in 1 .. Len(scan_list) : scan_list'[i] = scan_list[j]
          BY <3>2
        <4>2. HeldDir(P, scan_list[j])
          BY <1>3 DEF Registered
        <4> QED BY <2>4, <2>8, <4>1, <4>2 DEF HeldDir
      <3> QED BY <1>0, <3>1, <3>2 DEF m
    <2>10. current' # NoDir => HeldDir(R, current)'
      <3>1. current # NoDir => HeldDir(P, current)
        BY <1>3 DEF Registered
      <3> QED BY <2>4, <2>8, <3>1 DEF HeldDir
    <2>11. ASSUME NEW file \in ToSet(added') \cup ToSet(queue') PROVE HeldFile(R, file)'
      <3>1. HeldFile(P, file)
        BY <1>3 DEF Registered
      <3> QED BY <1>0, <2>2, <2>3, <2>4, <3>1 DEF HeldFile
    <2>12. Registered(R)'
      BY <2>7, <2>9, <2>10, <2>11 DEF Registered
    <2> QED BY <2>12
  <1> QED BY <1>1, <1>2, <1>3 DEF TreeInv

-----------------------------------------------------------------------------
(* Every step keeps what the directories say. *)

\* What add_file() does to the list.
LEMMA AddFileDoes ==
  ASSUME NEW file, AddFile(file)
  PROVE  added' = added \/ added' = Append(added, file)
  BY DEF AddFile, addvars

\* The files, the directories and the names of what is read.
LEMMA ListsAre ==
  ASSUME FilesKnown, FoundInv
  PROVE  /\ added \in Seq(ToSet(added)) /\ queue \in Seq(ToSet(queue))
         /\ scan_list \in Seq(ToSet(scan_list))
         /\ DOMAIN fs.names \subseteq PathNames
         /\ current # NoDir => /\ current.path \in PathNames
                               /\ \A name \in left : /\ name \in EntryNames /\ name # Root
                                                     /\ Len(name) < ByteSize
  <1>1. /\ added \in Seq(ToSet(added)) /\ queue \in Seq(ToSet(queue))
        /\ scan_list \in Seq(ToSet(scan_list))
    BY DEF FoundInv, Directed, FilesKnown, Queued
  <1>2. DOMAIN fs.names \subseteq PathNames
    BY TreeIs
  <1>3. current # NoDir => current.path \in DOMAIN fs.names /\ left \subseteq fs.names[current.path]
    BY DEF FilesKnown, Reading
  <1>4. ASSUME NEW dir \in DOMAIN fs.names, NEW name \in fs.names[dir]
        PROVE  name \in EntryNames /\ name # Root /\ Len(name) < ByteSize
    <2>1. name \in EntryNames
      BY TreeIs
    <2>2. name # Root
      <3>1. 1 \in 1 .. 1
        OBVIOUS
      <3> QED BY <2>1, <3>1, RootIs DEF EntryNames
    <2>3. Len(name) < ByteSize
      <3>1. PICK i \in Instances : fs = i.fs
        BY DEF FilesKnown
      <3> QED BY <3>1, InstancesAssumption
    <2> QED BY <2>1, <2>2, <2>3
  <1> QED BY <1>1, <1>2, <1>3, <1>4

\* The first directory of a walk.
LEMMA NextPathRegisters ==
  FilesKnown /\ Prepared /\ FoundInv /\ TreeInv /\ NextPath => TreeInv'
  <1> SUFFICES ASSUME FilesKnown, Prepared, FoundInv, TreeInv, NextPath PROVE TreeInv'
    OBVIOUS
  <1> DEFINE s == start_path[next_path]
  <1>1. /\ phase = "paths" /\ next_path <= Len(start_path)
        /\ phase' \in {"paths", "walk"} /\ current' = current
        /\ UNCHANGED <<start_path, added, queue>>
        /\ \/ StartWalk(s)
           \/ UNCHANGED <<scan_list, direntries>>
    BY DEF NextPath, StartWalk, Main, walkvars, addvars, treevars
  <1>2. s \in PathNames /\ (StartsFit => Len(s) < ByteSize)
    <2>1. next_path \in 1 .. Len(start_path)
      BY <1>1, LenProperties DEF Prepared
    <2>2. s \in DOMAIN fs.names
      BY <2>1 DEF Prepared
    <2> QED BY <2>1, <2>2, ListsAre DEF StartsFit
  <1> HIDE DEF s
  <1>3. CASE UNCHANGED <<scan_list, direntries>>
    BY <1>1, <1>3, TreeStays
  <1>4. CASE StartWalk(s)
    <2>1. new_child_dir(s, NULL) /\ scan_list' = <<[path |-> s, dir |-> Len(direntries) + 1]>>
      BY <1>4 DEF StartWalk
    <2>2. PICK e : /\ direntries' = Append(direntries, e)
                   /\ Len(s) < ByteSize =>
                        /\ e.name = Stem(s) /\ e.name \in Seq(Character)
                        /\ e.name_size = Len(e.name) /\ e.parent = NULL
                        /\ e.total_size = total_size(Len(e.name), NULL)
      BY <1>2, <2>1, ChildIs
    <2>3. ASSUME NEW i \in 1 .. Len(scan_list')
          PROVE  scan_list'[i].path = s /\ scan_list'[i].dir = Len(direntries) + 1
      <3>1. ASSUME NEW h, NEW k \in 1 .. Len(<<h>>) PROVE <<h>>[k] = h
        OBVIOUS
      <3>2. scan_list'[i] = [path |-> s, dir |-> Len(direntries) + 1]
        BY <2>1, <3>1
      <3> QED BY <3>2
    <2>4. StartsFit => \A P : Registered(P) => NewDir(P, e, s)
      BY <1>2, <2>2 DEF NewDir, total_size
    <2> QED BY <1>1, <1>2, <2>2, <2>3, <2>4, TreeGrows
  <1> QED BY <1>1, <1>3, <1>4

\* A directory that is found.
LEMMA FoundDirRegisters ==
  ASSUME FilesKnown, Prepared, FoundInv, TreeInv, phase' = "walk",
         UNCHANGED <<start_path, current, added, queue>>, current # NoDir,
         NEW name \in left, NEW c, c = Join(current.path, name), new_child_dir(name, current.dir),
         scan_list' = Append(scan_list, [path |-> c, dir |-> Len(direntries) + 1])
  PROVE  TreeInv'
  <1>1. /\ name \in PathNames /\ name # Root /\ Len(name) < ByteSize
        /\ current.path \in PathNames
    BY ListsAre DEF EntryNames
  <1>2. PICK e : /\ direntries' = Append(direntries, e)
                 /\ e.name = name /\ e.name \in Seq(Character)
                 /\ e.name_size = Len(e.name) /\ e.parent = current.dir
                 /\ e.total_size = total_size(Len(e.name), current.dir)
    <2>1. Stem(name) = name
      BY <1>1 DEF Stem
    <2> QED BY <1>1, <2>1, ChildIs
  <1>3. c \in PathNames
    BY <1>1, StemIs
  <1>4. ASSUME NEW P, Registered(P) PROVE NewDir(P, e, c)
    <2>1. Known(P) /\ current.dir \in 1 .. Len(direntries) /\ P[current.dir] = current.path
      BY <1>4 DEF Registered, HeldDir
    <2>2. current.dir # NULL
      BY <2>1 DEF Known, NULL
    <2>3. direntries[current.dir].total_size = Len(Stem(current.path))
      BY <2>1 DEF Known, Entered
    <2>4. e.total_size = Len(name) + 1 + Len(Stem(current.path))
      BY <1>2, <2>2, <2>3 DEF total_size
    <2>5. /\ Stem(c) = c /\ Len(c) = Len(Stem(current.path)) + 1 + Len(name)
          /\ Len(name) \in Nat /\ Len(Stem(current.path)) \in Nat
      BY <1>1, StemIs
    <2>6. e.total_size = Len(Stem(c))
      BY <2>4, <2>5
    <2> QED BY <1>1, <1>2, <2>1, <2>6 DEF NewDir
  <1>5. ASSUME NEW i \in 1 .. Len(scan_list')
        PROVE  \/ scan_list'[i].path = c /\ scan_list'[i].dir = Len(direntries) + 1
               \/ \E j \in 1 .. Len(scan_list) : scan_list'[i] = scan_list[j]
    <2>1. PICK h : /\ h = [path |-> c, dir |-> Len(direntries) + 1]
                   /\ scan_list' = Append(scan_list, h)
      OBVIOUS
    <2>2. scan_list \in Seq(ToSet(scan_list))
      BY ListsAre
    <2>3. Len(scan_list) \in Nat /\ Len(scan_list') = Len(scan_list) + 1
      BY <2>1, <2>2, MoreMembers
    <2>4. scan_list'[Len(scan_list) + 1] = h
      BY <2>1, <2>2, MoreMembers
    <2>5. \A j \in 1 .. Len(scan_list) : scan_list'[j] = scan_list[j]
      BY <2>1, <2>2, MoreMembers
    <2>6. i \in 1 .. Len(scan_list) \/ i = Len(scan_list) + 1
      BY <2>3
    <2>7. h.path = c /\ h.dir = Len(direntries) + 1
      BY <2>1
    <2> QED BY <2>4, <2>5, <2>6, <2>7
  <1> QED BY <1>2, <1>3, <1>4, <1>5, TreeGrows

\* A name is read.
LEMMA ReadEntryRegisters ==
  FilesKnown /\ Prepared /\ FoundInv /\ TreeInv /\ WalkStep /\ ReadEntry => TreeInv'
  <1> SUFFICES ASSUME FilesKnown, Prepared, FoundInv, TreeInv, WalkStep, ReadEntry PROVE TreeInv'
    OBVIOUS
  <1>1. PICK name \in left : SkipHidden(name) \/ SkipSeparator(name) \/ TakeName(name)
    BY DEF ReadEntry
  <1>2. /\ phase = "walk" /\ phase' = "walk" /\ current # NoDir /\ current' = current
        /\ UNCHANGED start_path
    BY DEF WalkStep, ReadEntry, Main, mainvars
  <1>3. PICK c : c = Join(current.path, name)
    OBVIOUS
  <1> DEFINE file(k) == [path |-> c, name |-> name, dir |-> current.dir, looked_up |-> k]
  <1>4. \/ UNCHANGED <<scan_list, direntries, added, queue>>
        \/ /\ new_child_dir(name, current.dir)
           /\ scan_list' = Append(scan_list, [path |-> c, dir |-> Len(direntries) + 1])
           /\ UNCHANGED <<added, queue>>
        \/ /\ UNCHANGED <<scan_list, direntries>>
           /\ \E k : \/ queue' = Append(queue, file(k)) /\ added' = added
                     \/ AddFile(file(k)) /\ queue' = queue
    <2>1. CASE SkipHidden(name) \/ SkipSeparator(name)
      BY <2>1 DEF SkipHidden, SkipSeparator, treevars, addvars
    <2>2. CASE TakeName(name)
      <3>1. \/ \E dev : FoundDir(name, c, dev)
            \/ \E dev, k : FoundFile(name, c, dev, k)
            \/ \E type, dev : SkipType(type, dev)
        BY <1>3, <2>2 DEF TakeName
      <3>2. CASE \E dev : FoundDir(name, c, dev)
        BY <3>2 DEF FoundDir, treevars, addvars
      <3>3. CASE \E dev, k : FoundFile(name, c, dev, k)
        BY <3>3 DEF FoundFile, treevars, addvars
      <3>4. CASE \E type, dev : SkipType(type, dev)
        BY <3>4 DEF SkipType, treevars, addvars
      <3> QED BY <3>1, <3>2, <3>3, <3>4
    <2> QED BY <1>1, <2>1, <2>2
  <1>5. CASE UNCHANGED <<scan_list, direntries, added, queue>>
    BY <1>2, <1>5, TreeStays
  <1>6. CASE /\ new_child_dir(name, current.dir)
             /\ scan_list' = Append(scan_list, [path |-> c, dir |-> Len(direntries) + 1])
             /\ UNCHANGED <<added, queue>>
    BY <1>2, <1>3, <1>6, FoundDirRegisters
  <1>7. CASE /\ UNCHANGED <<scan_list, direntries>>
             /\ \E k : \/ queue' = Append(queue, file(k)) /\ added' = added
                       \/ AddFile(file(k)) /\ queue' = queue
    <2>1. PICK k : \/ queue' = Append(queue, file(k)) /\ added' = added
                   \/ AddFile(file(k)) /\ queue' = queue
      BY <1>7
    <2>2. PICK f : f = file(k)
      OBVIOUS
    <2>3. NewFile(f)
      <3>1. f.path = c /\ f.name = name /\ f.dir = current.dir
        BY <2>2
      <3>2. name \in PathNames
        BY <1>2, ListsAre DEF EntryNames
      <3> QED BY <1>2, <1>3, <3>1, <3>2 DEF NewFile
    <2>4. \/ queue' = Append(queue, f) /\ added' = added
          \/ added' = Append(added, f) /\ queue' = queue
          \/ added' = added /\ queue' = queue
      BY <2>1, <2>2, AddFileDoes
    <2>5. ToSet(added') \cup ToSet(queue') \subseteq ToSet(added) \cup ToSet(queue) \cup {f}
      <3>1. queue' = Append(queue, f) => ToSet(queue') = ToSet(queue) \cup {f}
        BY ListsAre, MoreMembers
      <3>2. added' = Append(added, f) => ToSet(added') = ToSet(added) \cup {f}
        BY ListsAre, MoreMembers
      <3> QED BY <2>4, <3>1, <3>2
    <2>6. \A g \in ToSet(added') \cup ToSet(queue') :
            g \in ToSet(added) \cup ToSet(queue) \/ NewFile(g)
      BY <2>3, <2>5
    <2> QED BY <1>2, <1>7, <2>6, TreeStays
  <1> QED BY <1>4, <1>5, <1>6, <1>7

\* The other steps of the walk make no directory.
LEMMA WalkRegisters ==
  FilesKnown /\ FoundInv /\ TreeInv /\ WalkStep /\ (OpenDir \/ CloseDir \/ MissEntry) => TreeInv'
  <1> SUFFICES ASSUME FilesKnown, FoundInv, TreeInv, WalkStep, OpenDir \/ CloseDir \/ MissEntry
               PROVE  TreeInv'
    OBVIOUS
  <1>1. /\ phase = "walk" /\ phase' = "walk" /\ scan_list \in Seq(ToSet(scan_list))
        /\ UNCHANGED <<direntries, start_path, added, queue>>
    BY ListsAre DEF WalkStep, OpenDir, CloseDir, MissEntry, Main, mainvars, treevars, addvars
  <1>2. CASE OpenDir
    <2>1. /\ scan_list # << >> /\ scan_list' = Front(scan_list)
          /\ current' = current \/ current' = scan_list[Len(scan_list)]
      BY <1>2 DEF OpenDir
    <2>2. /\ Len(scan_list) \in 1 .. Len(scan_list)
          /\ \A i \in 1 .. Len(Front(scan_list)) :
               i \in 1 .. Len(scan_list) /\ Front(scan_list)[i] = scan_list[i]
      BY <1>1, <2>1, FrontIs
    <2> QED BY <1>1, <2>1, <2>2, TreeStays
  <1>3. CASE CloseDir \/ MissEntry
    <2>1. scan_list' = scan_list /\ (current' = current \/ current' = NoDir)
      BY <1>3 DEF CloseDir, MissEntry
    <2> QED BY <1>1, <2>1, TreeStays
  <1> QED BY <1>2, <1>3

\* The worker takes the first file of the queue.
LEMMA WorkerRegisters == FilesKnown /\ FoundInv /\ TreeInv /\ Worker => TreeInv'
  <1> SUFFICES ASSUME FilesKnown, FoundInv, TreeInv, Worker PROVE TreeInv'
    OBVIOUS
  <1>1. /\ UNCHANGED <<direntries, start_path, scan_list, current, phase>>
        /\ queue # << >> /\ AddFile(Head(queue)) /\ queue' = Tail(queue)
    BY DEF Worker, WorkerAdd, walkvars, treevars, mainvars
  <1>2. PICK h : h = Head(queue)
    OBVIOUS
  <1>3. ToSet(queue') \subseteq ToSet(queue) /\ h \in ToSet(queue)
    BY <1>1, <1>2, ListsAre, FewerMembers
  <1>4. added' = added \/ added' = Append(added, h)
    BY <1>1, <1>2, AddFileDoes
  <1>5. added' = Append(added, h) => ToSet(added') = ToSet(added) \cup {h}
    BY ListsAre, MoreMembers
  <1>6. ToSet(added') \cup ToSet(queue') \subseteq ToSet(added) \cup ToSet(queue)
    BY <1>3, <1>4, <1>5
  <1> QED BY <1>1, <1>6, TreeStays

\* Before the first walk there is nothing.
LEMMA NothingRegistered ==
  ASSUME direntries = << >>, scan_list = << >>, current = NoDir, added = << >>, queue = << >>
  PROVE  direntries \in Seq(ToSet(direntries)) /\ \E P : Registered(P)
  <1>1. << >> \in Seq({}) /\ Len(<< >>) = 0 /\ DOMAIN << >> = {} /\ 1 .. 0 = {}
    OBVIOUS
  <1>2. ToSet(<< >>) = {}
    BY <1>1 DEF ToSet
  <1>3. PICK P : P = [d \in 1 .. 0 |-> Root]
    OBVIOUS
  <1>4. Known(P)
    <2>1. P \in [1 .. 0 -> PathNames]
      BY <1>1, <1>3
    <2> QED BY <1>1, <2>1 DEF Known
  <1>5. Registered(P)
    BY <1>1, <1>2, <1>4 DEF Registered
  <1> QED BY <1>1, <1>2, <1>5

\* At the start there is nothing.
LEMMA TreeInit == Init => TreeInv
  <1> SUFFICES ASSUME Init PROVE TreeInv
    OBVIOUS
  <1>1. /\ direntries = << >> /\ scan_list = << >> /\ current = NoDir
        /\ added = << >> /\ queue = << >>
    BY DEF Init, WalkInit
  <1> QED BY <1>1, NothingRegistered DEF TreeInv

\* The start paths are set while there is nothing yet.
LEMMA ProcessArgsRegisters == FoundInv /\ TreeInv /\ ProcessArgs => TreeInv'
  <1> SUFFICES ASSUME FoundInv, TreeInv, ProcessArgs PROVE TreeInv'
    OBVIOUS
  <1>1. phase = "args" /\ UNCHANGED <<direntries, scan_list, current, added, queue>>
    BY DEF ProcessArgs, Main, walkvars, treevars, addvars
  <1>2. /\ direntries = << >> /\ scan_list = << >> /\ current = NoDir
        /\ added = << >> /\ queue = << >>
    BY <1>1 DEF TreeInv, FoundInv, WalkPlace, WalkOver
  <1>3. (direntries \in Seq(ToSet(direntries)) /\ \E P : Registered(P))'
    <2>1. PICK P : Registered(P)
      BY <1>2, NothingRegistered
    <2>2. Registered(P)'
      BY <1>1, <2>1 DEF Registered, Known, Entered, HeldDir, HeldFile
    <2> QED BY <1>1, <2>2 DEF TreeInv
  <1> QED BY <1>1, <1>2, <1>3 DEF TreeInv

\* Every step of any thread keeps the tree.
LEMMA TreeInvKept == StopInv /\ FoundInv /\ TreeInv /\ [Next]_vars => TreeInv'
  <1> SUFFICES ASSUME StopInv, FoundInv, TreeInv, [Next]_vars PROVE TreeInv'
    OBVIOUS
  <1>1. FilesKnown /\ Prepared
    BY DEF StopInv
  <1>2. CASE ProcessArgs \/ NextPath
    BY <1>1, <1>2, ProcessArgsRegisters, NextPathRegisters
  <1>3. CASE Worker
    BY <1>1, <1>3, WorkerRegisters
  <1>4. CASE WalkStep
    <2>1. OpenDir \/ CloseDir \/ ReadEntry \/ MissEntry
      BY <1>4 DEF WalkStep, Walk
    <2> QED BY <1>1, <1>4, <2>1, WalkRegisters, ReadEntryRegisters
  <1>5. CASE \/ CheckFiemap \/ EndWalk \/ EndScan \/ ReturnEarly \/ Process \/ Processed \/ Report
             \/ StatusStep \/ Ended \/ UNCHANGED vars
             \/ phase \notin {"args", "end"} /\ Vanish /\ UNCHANGED <<mainvars, timevars>>
    <2>1. UNCHANGED <<direntries, start_path, scan_list, current, added, queue>>
      BY <1>5 DEF CheckFiemap, EndWalk, EndScan, ReturnEarly, Process, Processed, Report, StatusStep,
                  StatusCounting, StatusSets, Timeout, NotMain, NotWalking, Ended, Vanish, vars,
                  mainvars, walkvars, treevars, addvars
    <2>2. phase' \in {"args", "fiemap"} => phase \in {"args", "fiemap"}
      BY <1>5 DEF CheckFiemap, EndWalk, EndScan, ReturnEarly, Process, Processed, Report, StatusStep,
                  StatusCounting, StatusSets, Timeout, NotMain, Ended, Main, vars, mainvars
    <2> QED BY <2>1, <2>2, TreeStays
  <1> QED BY <1>2, <1>3, <1>4, <1>5 DEF Next, MainStep

\* With the directories kept as they should be, the path of every file comes out.
LEMMA TreeRebuilds == StopInv /\ FoundInv /\ TreeInv => (StartsFit => PathsRebuilt)
  <1> SUFFICES ASSUME StopInv, FoundInv, TreeInv, StartsFit, NEW i \in 1 .. Len(Given)
               PROVE  build_path(Given[i].name, Given[i].dir) = Given[i].path
    BY DEF PathsRebuilt
  <1>1. FilesKnown /\ added \in Seq(ToSet(added)) /\ queue \in Seq(ToSet(queue))
    BY DEF StopInv, FoundInv, FilesKnown, Queued
  <1>2. PICK file : file = Given[i]
    OBVIOUS
  <1>3. file \in ToSet(added) \cup ToSet(queue)
    <2>1. \/ i \in 1 .. Len(added) /\ file = added[i]
          \/ i - Len(added) \in 1 .. Len(queue) /\ file = queue[i - Len(added)]
      BY <1>1, <1>2, GivenIs
    <2>2. DOMAIN added = 1 .. Len(added) /\ DOMAIN queue = 1 .. Len(queue)
      BY <1>1, LenProperties
    <2> QED BY <2>1, <2>2 DEF ToSet
  <1>4. PICK P : Registered(P)
    BY DEF TreeInv
  <1>5. /\ Known(P) /\ file.dir \in 1 .. Len(direntries) /\ file.name \in PathNames
        /\ file.path = Join(P[file.dir], file.name)
    BY <1>3, <1>4 DEF Registered, HeldFile
  <1>6. Endless(file.path)
    <2>1. file.path \in DOMAIN fs.kind
      <3>1. file.path \in Found
        BY <1>3 DEF Found, PathsIn
      <3> QED BY <3>1, WantedBelow DEF FoundInv, FoundWanted
    <2>2. PICK j \in Instances : fs = j.fs
      BY <1>1 DEF FilesKnown
    <2> QED BY <2>1, <2>2, InstancesAssumption DEF Endless
  <1>7. build_path(file.name, file.dir) = file.path
    BY <1>5, <1>6, BuildsPath
  <1> QED BY <1>2, <1>7

(* Whatever the file system and the order of the steps: if each start path has
   fewer than 256 characters, the path rebuilt for a file from the directories
   kept is the one under which the walk found it. *)
THEOREM PathsComeBack == Spec => [](StartsFit => PathsRebuilt)
  <1> DEFINE I == StopInv /\ FoundInv /\ TreeInv
  <1>1. Init => I
    BY StopInit, FoundInit, TreeInit
  <1>2. I /\ [Next]_vars => I'
    BY StopInvKept, FoundInvKept, TreeInvKept
  <1>3. I => (StartsFit => PathsRebuilt)
    BY TreeRebuilds
  <1> HIDE DEF I
  <1> QED BY <1>1, <1>2, <1>3, PTL DEF Spec
=============================================================================
