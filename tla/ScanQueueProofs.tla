--------------------------- MODULE ScanQueueProofs ---------------------------
(***************************************************************************)
(* Proofs about ScanQueue, for every number of queues, queue length and    *)
(* number of files.                                                        *)
(***************************************************************************)
EXTENDS ScanQueue, TLAPS

(* The queue after a queue is a queue. *)
LEMMA FollowingType == \A q \in Queues : Following(q) \in Queues
  BY SizesAssumption, SMT DEF Following, Queues

(* What the type invariant says of the numbers the proofs compute with. *)
LEMMA NumberTypes ==
  ASSUME TypeOK
  PROVE  /\ QueueLength \in Nat \ {0} /\ 0 \in Slots
         /\ found \in Nat /\ Len(inserted) \in Nat
         /\ producer_next \in Nat /\ worker_next \in Nat
         /\ \A q \in Queues, n \in Slots : slot[q][n] \in Nat
         /\ \A q \in Queues : queue_added[q] \in Nat /\ queue_removed[q] \in Nat
         /\ ProducerFirst \in Int /\ WorkerFirst \in Int /\ WorkerReached \in Int
<1> USE SizesAssumption DEF TypeOK
<1>1. QueueLength \in Nat \ {0} /\ 0 \in Slots
  BY DEF Slots
<1>2. /\ found \in Nat /\ Len(inserted) \in Nat
      /\ producer_next \in Nat /\ worker_next \in Nat
  OBVIOUS
<1>3. \A q \in Queues, n \in Slots : slot[q][n] \in Nat
  BY DEF Files, NoFile
<1>4. \A q \in Queues : queue_added[q] \in Nat /\ queue_removed[q] \in Nat
  OBVIOUS
<1>5. ProducerFirst \in Int /\ WorkerFirst \in Int /\ WorkerReached \in Int
  BY <1>1, <1>2 DEF ProducerFirst, WorkerFirst, WorkerReached
<1> QED
  BY <1>1, <1>2, <1>3, <1>4, <1>5

(* The numbers of the full queues lie between the worker's and the producer's. *)
LEMMA Bounds ==
  ASSUME IInv
  PROVE  /\ \A q \in Queues : Full(q) =>
              /\ slot[q][0] \in Nat
              /\ WorkerReached <= slot[q][0]
              /\ slot[q][0] + QueueLength <= ProducerFirst
         /\ ~LastQueue => WorkerReached <= ProducerFirst
<1> USE NumberTypes DEF IInv
<1>1. \A q \in Queues : Full(q) =>
        /\ slot[q][0] \in Nat
        /\ WorkerReached <= slot[q][0]
        /\ slot[q][0] + QueueLength <= ProducerFirst
  BY DEF SlotInv
<1>2. ASSUME ~LastQueue, ~Processing PROVE WorkerReached <= ProducerFirst
  <2>1. WorkerReached = WorkerFirst /\ want_queue \in Queues
    BY <1>2 DEF WorkerReached, TypeOK
  <2>2. \/ Full(want_queue) /\ slot[want_queue][0] = WorkerFirst
        \/ ProducerFirst = WorkerFirst
    BY <1>2 DEF OrderInv, StartsAt
  <2>3. CASE Full(want_queue)
    BY <1>1, <2>1, <2>3, SMTT(30)
  <2> QED
    BY <2>1, <2>2, <2>3
<1>3. ASSUME ~LastQueue, Processing PROVE WorkerReached <= ProducerFirst
  BY <1>3 DEF SlotInv
<1> QED
  BY <1>1, <1>2, <1>3

(* The invariant holds when scan() starts. *)
LEMMA InitInv == Init => IInv
<1> SUFFICES ASSUME Init PROVE IInv
  OBVIOUS
<1> USE SizesAssumption DEF Init, Queues, Slots
<1>1. TypeOK
  BY DEF TypeOK, PRODUCER, NOBODY, WANT_QUEUE, WORKER_NOT_STARTED
<1>2. SanityChecksHold /\ NoLostWakeup
  BY DEF SanityChecksHold, NoLostWakeup
<1>3. ProducerInv /\ WorkerInv
  BY DEF ProducerInv, WorkerInv, Processing
<1>4. EndInv /\ SlotInv
  BY DEF EndInv, SlotInv, Full, Filling, Processing, LastQueue, NOBODY, PRODUCER
<1>5. OrderInv /\ CountInv
  BY DEF OrderInv, CountInv, Pending, StartsAt, Full, Filling, Processing, LastQueue,
         ProducerFirst, WorkerFirst, NOBODY, PRODUCER
<1>6. InsertedInv
  BY DEF InsertedInv
<1> QED
  BY <1>1, <1>2, <1>3, <1>4, <1>5, <1>6 DEF IInv

-----------------------------------------------------------------------------
(* Filling a slot.  When it is the last one the queue becomes full, and the
   numbers it holds end where the following queue's will begin. *)
LEMMA AddQueueInv == IInv /\ AddQueue => IInv'
<1> SUFFICES ASSUME IInv, AddQueue PROVE IInv'
  OBVIOUS
<1> USE SizesAssumption DEF IInv, Queues, Slots
<1>0. /\ UNCHANGED <<worker, worker_next, want_queue, inserted>>
      /\ UNCHANGED <<current_producer_queue, current_worker_queue, last_owner>>
      /\ UNCHANGED <<queue_removed, end>>
      /\ producer = "fill" /\ current_producer_queue = want
      /\ last_owner[want] = PRODUCER /\ want \in Queues
      /\ producer_next \in Slots /\ found \in Nat /\ QueueLength \in Nat
      /\ slot' = [slot EXCEPT ![want][producer_next] = found + 1]
      /\ queue_added' = [queue_added EXCEPT ![want] = @ + 1]
      /\ found' = found + 1 /\ producer_next' = producer_next + 1
  BY DEF AddQueue, ProducerInv, TypeOK, shared, wvars
<1>1. TypeOK'
  <2>1. slot' \in [Queues -> [Slots -> Files \cup {NoFile}]]
    BY <1>0, found + 1 \in Files, SMTT(30) DEF TypeOK, AddQueue, Files
  <2>2. queue_added' \in [Queues -> Nat]
    BY <1>0, SMTT(30) DEF TypeOK
  <2>3. producer_next' \in 0 .. QueueLength /\ found' \in 0 .. MaxFiles
    BY <1>0 DEF TypeOK, AddQueue
  <2>4. want' \in Queues /\ producer' \in {"fill", "exchange"}
    <3>1. CASE producer_next + 1 < QueueLength
      BY <1>0, <3>1 DEF AddQueue
    <3>2. CASE ~(producer_next + 1 < QueueLength)
      BY <1>0, <3>2, FollowingType DEF AddQueue
    <3> QED
      BY <3>1, <3>2
  <2> QED
    BY <1>0, <2>1, <2>2, <2>3, <2>4 DEF TypeOK
<1>2. Filling /\ ProducerFirst = found + 1 - producer_next /\ ~LastQueue
  BY <1>0 DEF Filling, ProducerFirst, LastQueue, Processing, WorkerInv, WORKER, PRODUCER
<1>3. Processing' = Processing /\ WorkerFirst' = WorkerFirst /\ WorkerReached' = WorkerReached
  BY <1>0 DEF Processing, WorkerFirst, WorkerReached
<1>4. /\ \A q \in Queues \ {want} : slot'[q] = slot[q]
      /\ \A n \in Slots \ {producer_next} : slot'[want][n] = slot[want][n]
      /\ slot'[want][producer_next] = found + 1
      /\ \A n \in Slots : n < producer_next => slot[want][n] = ProducerFirst + n
  BY <1>0, <1>2 DEF TypeOK, SlotInv
<1>8. /\ \A q \in Queues, n \in Slots : slot[q][n] \in Nat
      /\ \A q \in Queues : queue_added[q] \in Nat /\ queue_removed[q] \in Nat
      /\ ProducerFirst \in Int /\ WorkerFirst \in Int /\ WorkerReached \in Int
      /\ 0 \in Slots /\ worker_next \in Nat /\ QueueLength \in Nat \ {0}
  BY NumberTypes
<1>5. Processing =>
        /\ want_queue \in Queues \ {want} /\ slot'[want_queue] = slot[want_queue]
        /\ \A n \in Slots : slot[want_queue][n] = WorkerFirst + n
        /\ WorkerReached <= ProducerFirst
        /\ StartsAt(Following(want_queue), WorkerReached)
  BY <1>0, <1>2, <1>4 DEF WorkerInv, SlotInv, OrderInv, TypeOK, PRODUCER, WORKER
<1> DEFINE Last == producer_next + 1 = QueueLength
<1>6. CASE ~Last
  <2>1. producer' = "fill" /\ want' = want
    BY <1>0, <1>6 DEF AddQueue
  <2>2. Filling' /\ ProducerFirst' = ProducerFirst /\ ~LastQueue'
    BY <1>0, <1>2, <2>1 DEF Filling, ProducerFirst, LastQueue, Processing
  <2>3. \A q \in Queues : Full(q)' <=> Full(q)
    BY <1>0, <1>2, <2>1, <2>2 DEF Full
  <2>4. \A q \in Queues : Full(q) => slot'[q] = slot[q]
    BY <1>0, <1>2, <1>4 DEF Full
  <2>5. SanityChecksHold' /\ NoLostWakeup' /\ ProducerInv' /\ WorkerInv'
    BY <1>0, <1>2, <1>3, <1>6, <2>1, <2>2
       DEF SanityChecksHold, NoLostWakeup, WorkerMustWait, ProducerInv, WorkerInv, Processing
  <2>6. EndInv'
    BY <1>0, <2>1, <2>2 DEF EndInv
  <2>7. SlotInv'
    <3>1. \A q \in Queues : Full(q)' =>
            /\ \A n \in Slots : slot'[q][n] = slot'[q][0] + n
            /\ slot'[q][0] >= WorkerReached'
            /\ slot'[q][0] + QueueLength <= ProducerFirst'
      BY <1>3, <2>2, <2>3, <2>4 DEF SlotInv
    <3>2. \A q, r \in Queues : Full(q)' /\ Full(r)' /\ q # r =>
            slot'[q][0] + QueueLength <= slot'[r][0] \/ slot'[r][0] + QueueLength <= slot'[q][0]
      BY <2>3, <2>4 DEF SlotInv
    <3>3. \A n \in Slots : n < producer_next' => slot'[want'][n] = ProducerFirst' + n
      BY <1>0, <1>2, <1>4, <1>8, <2>1, <2>2
    <3>4. Processing' => /\ \A n \in Slots : slot'[want_queue'][n] = WorkerFirst' + n
                         /\ WorkerReached' <= ProducerFirst'
      BY <1>0, <1>3, <1>5, <2>2
    <3> QED
      BY <3>1, <3>2, <3>3, <3>4 DEF SlotInv
  <2>8. OrderInv'
    <3>1. \A q \in Queues, f \in Int : StartsAt(q, f) <=> StartsAt(q, f)'
      BY <1>8, <2>1, <2>2, <2>3, <2>4 DEF StartsAt
    <3>2. \A q \in Queues : Full(q)' => StartsAt(Following(q), slot[q][0] + QueueLength)'
      BY <1>8, <2>3, <2>4, <3>1, FollowingType DEF OrderInv
    <3>3. ~Processing' => StartsAt(want_queue, WorkerFirst)'
      BY <1>0, <1>3, <1>8, <3>1 DEF OrderInv, TypeOK
    <3>4. Processing' => StartsAt(Following(want_queue), WorkerReached)'
      BY <1>0, <1>3, <1>5, <1>8, <3>1, FollowingType
    <3> QED
      BY <2>2, <3>2, <3>3, <3>4 DEF OrderInv
  <2>9. CountInv'
    <3>1. \A q \in Queues \ {want} : queue_added'[q] = queue_added[q] /\ Pending(q)' = Pending(q)
      BY <1>0, <1>2, <1>3, <2>1, <2>2, <2>3 DEF Pending, TypeOK
    <3>2. ASSUME NEW q \in Queues, q = want
          PROVE  queue_added'[q] = queue_added[q] + 1 /\ Pending(q)' = Pending(q) + 1
      <4>1. queue_added'[q] = queue_added[q] + 1
        BY <1>0, <3>2 DEF TypeOK
      <4>2. Pending(q) = producer_next
        BY <1>0, <1>2, <1>5, <3>2 DEF Pending, Full
      <4>3. Pending(q)' = producer_next'
        BY <1>0, <1>2, <1>3, <1>5, <2>1, <2>2, <2>3, <3>2 DEF Pending, Full
      <4> QED
        BY <1>0, <4>1, <4>2, <4>3
    <3>3. \A q \in Queues : Pending(q) \in Int
      BY <1>8, <1>0 DEF Pending
    <3> QED
      BY <1>0, <1>8, <3>1, <3>2, <3>3 DEF CountInv
  <2>10. InsertedInv'
    BY <1>0 DEF InsertedInv
  <2> QED
    BY <1>1, <2>5, <2>6, <2>7, <2>8, <2>9, <2>10
<1>7. CASE Last
  <2>1. producer' = "exchange" /\ want' = Following(want) /\ want' \in Queues
    BY <1>0, <1>7, FollowingType DEF AddQueue
  <2>2. ~Filling' /\ ProducerFirst' = ProducerFirst + QueueLength /\ ~LastQueue'
    BY <1>0, <1>2, <1>7, <2>1 DEF Filling, ProducerFirst, LastQueue
  <2>3. \A q \in Queues : Full(q)' <=> Full(q) \/ q = want
    BY <1>0, <1>2, <2>1, <2>2 DEF Full
  <2>4. \A q \in Queues : Full(q) => q # want /\ slot'[q] = slot[q]
    BY <1>0, <1>2, <1>4 DEF Full
  <2>5. \A n \in Slots : slot'[want][n] = ProducerFirst + n
    BY <1>0, <1>2, <1>4, <1>7
  <2>6. slot'[want][0] = ProducerFirst /\ WorkerReached <= ProducerFirst
    BY <1>8, <2>5, <1>2, Bounds
  <2>7. SanityChecksHold' /\ NoLostWakeup' /\ ProducerInv' /\ WorkerInv'
    BY <1>0, <1>2, <1>3, <1>7, <2>1, <2>2, <2>3
       DEF SanityChecksHold, NoLostWakeup, WorkerMustWait, ProducerInv, WorkerInv, Processing
  <2>8. EndInv'
    BY <1>0, <1>2, <2>1, <2>2 DEF EndInv
  <2>9. SlotInv'
    <3>1. \A q \in Queues : Full(q)' =>
            /\ \A n \in Slots : slot'[q][n] = slot'[q][0] + n
            /\ slot'[q][0] >= WorkerReached'
            /\ slot'[q][0] + QueueLength <= ProducerFirst'
      <4> SUFFICES ASSUME NEW q \in Queues, Full(q)'
                   PROVE  /\ \A n \in Slots : slot'[q][n] = slot'[q][0] + n
                          /\ slot'[q][0] >= WorkerReached'
                          /\ slot'[q][0] + QueueLength <= ProducerFirst'
        OBVIOUS
      <4>1. CASE q = want
        BY <1>0, <1>3, <1>8, <2>2, <2>5, <2>6, <4>1
      <4>2. CASE q # want
        BY <1>0, <1>3, <1>8, <2>2, <2>3, <2>4, <4>2 DEF SlotInv
      <4> QED
        BY <4>1, <4>2
    <3>2. \A q, r \in Queues : Full(q)' /\ Full(r)' /\ q # r =>
            slot'[q][0] + QueueLength <= slot'[r][0] \/ slot'[r][0] + QueueLength <= slot'[q][0]
      BY <1>0, <1>2, <2>3, <2>4, <2>6 DEF SlotInv
    <3>3. Processing' => /\ \A n \in Slots : slot'[want_queue'][n] = WorkerFirst' + n
                         /\ WorkerReached' <= ProducerFirst'
      BY <1>0, <1>3, <1>5, <1>8, <2>2
    <3> QED
      BY <2>2, <3>1, <3>2, <3>3 DEF SlotInv
  <2>10. OrderInv'
    <3>1. \A q \in Queues, f \in Int : StartsAt(q, f) => StartsAt(q, f)'
      BY <1>0, <1>3, <1>8, <2>3, <2>4, <2>6 DEF StartsAt
    <3>2. ASSUME NEW q \in Queues, Full(q)'
          PROVE  StartsAt(Following(q), slot[q][0] + QueueLength)'
      <4>1. CASE q = want
        BY <2>1, <2>2, <2>6, <4>1 DEF StartsAt
      <4>2. CASE q # want
        <5>1. slot'[q] = slot[q] /\ Full(q)
          BY <2>3, <2>4, <3>2, <4>2
        <5>2. StartsAt(Following(q), slot[q][0] + QueueLength)
          BY <5>1 DEF OrderInv
        <5> QED
          BY <1>8, <3>1, <5>1, <5>2, FollowingType
      <4> QED
        BY <4>1, <4>2
    <3> QED
      <4>1. ~Processing' => StartsAt(want_queue, WorkerFirst)'
        BY <1>0, <1>3, <1>8, <3>1 DEF OrderInv, TypeOK
      <4>2. Processing' => StartsAt(Following(want_queue), WorkerReached)'
        BY <1>0, <1>3, <1>5, <1>8, <3>1, FollowingType
      <4> QED
        BY <2>2, <3>2, <4>1, <4>2 DEF OrderInv
  <2>11. CountInv'
    <3>1. ASSUME NEW q \in Queues, q # want
          PROVE  queue_added'[q] = queue_added[q] /\ Pending(q)' = Pending(q)
      BY <1>0, <1>2, <1>3, <2>1, <2>2, <2>3, <3>1 DEF Pending, TypeOK
    <3>2. ASSUME NEW q \in Queues, q = want
          PROVE  queue_added'[q] = queue_added[q] + 1 /\ Pending(q)' = Pending(q) + 1
      <4>1. queue_added'[q] = queue_added[q] + 1
        BY <1>0, <3>2 DEF TypeOK
      <4>2. Pending(q) = producer_next
        BY <1>0, <1>2, <1>5, <3>2 DEF Pending, Full
      <4>3. Pending(q)' = QueueLength
        BY <2>3, <3>2 DEF Pending
      <4> QED
        BY <1>0, <1>7, <4>1, <4>2, <4>3
    <3>3. \A q \in Queues : Pending(q) \in Int
      BY <1>8, <1>0 DEF Pending
    <3> QED
      BY <1>0, <1>8, <3>1, <3>2, <3>3 DEF CountInv
  <2>12. InsertedInv'
    BY <1>0 DEF InsertedInv
  <2> QED
    BY <1>1, <2>7, <2>8, <2>9, <2>10, <2>11, <2>12
<1> QED
  BY <1>6, <1>7
-----------------------------------------------------------------------------
(* The steps that move no file and no queue: they only change the control of
   the threads, or mark the last entry. *)
LEMMA NothingMoves ==
  ASSUME IInv, Filling' = Filling, Processing' = Processing,
         UNCHANGED <<counts, slot, last_owner, want, found, producer_next,
                     worker_next, want_queue, inserted>>
  PROVE  SlotInv' /\ OrderInv' /\ CountInv' /\ InsertedInv' /\ LastQueue' = LastQueue
<1>1. /\ ProducerFirst' = ProducerFirst /\ WorkerFirst' = WorkerFirst
      /\ WorkerReached' = WorkerReached /\ LastQueue' = LastQueue
      /\ \A q \in Queues : Full(q)' = Full(q)
  BY DEF ProducerFirst, WorkerFirst, WorkerReached, LastQueue, Full
<1>2. \A q, f : StartsAt(q, f)' = StartsAt(q, f)
  BY <1>1 DEF StartsAt, Full
<1>3. SlotInv'
  BY <1>1 DEF SlotInv, IInv
<1>4. OrderInv'
  BY <1>1, <1>2 DEF OrderInv, IInv, Full
<1>5. CountInv'
  BY <1>1 DEF CountInv, Pending, IInv, counts
<1>6. InsertedInv'
  BY DEF InsertedInv, IInv
<1> QED
  BY <1>1, <1>3, <1>4, <1>5, <1>6

(* While the worker is in no queue, current_worker_queue is no queue. *)
LEMMA IdleWorker ==
  ASSUME IInv, ~Processing
  PROVE  current_worker_queue \notin Queues
<1>1. worker \in {"exchange", "wait"}
  BY DEF IInv, TypeOK, SanityChecksHold, Processing
<1>2. current_worker_queue \in {WANT_QUEUE, WORKER_NOT_STARTED}
  BY <1>1 DEF IInv, WorkerInv
<1> QED
  BY <1>2, SizesAssumption DEF Queues, WANT_QUEUE, WORKER_NOT_STARTED, PRODUCER_DONE

(* The producer starting to wait for the next queue keeps the invariant. *)
LEMMA ProducerWaitInv == IInv /\ ProducerWait => IInv'
<1> SUFFICES ASSUME IInv, ProducerWait PROVE IInv'
  OBVIOUS
<1> USE DEF IInv
<1>1. Filling' = Filling /\ Processing' = Processing
  BY DEF ProducerWait, Filling, Processing, SignalWorker
<1>2. SlotInv' /\ OrderInv' /\ CountInv' /\ InsertedInv' /\ LastQueue' = LastQueue
  BY <1>1, NothingMoves DEF ProducerWait, counts
<1>3. TypeOK'
  BY DEF ProducerWait, TypeOK, SignalWorker, counts
<1>4. last_owner[want] # NOBODY
  <2>1. CASE want = current_worker_queue
    BY <2>1, IdleWorker DEF TypeOK, WorkerInv, WORKER, NOBODY
  <2>2. CASE last_owner[want] = PRODUCER
    BY <2>2 DEF PRODUCER, NOBODY
  <2> QED
    BY <2>1, <2>2 DEF ProducerWait, ProducerMustWait
<1>5. SanityChecksHold' /\ NoLostWakeup' /\ ProducerInv' /\ WorkerInv' /\ EndInv'
  BY <1>1, <1>2, <1>4 DEF ProducerWait, SanityChecksHold, NoLostWakeup, ProducerMustWait,
     WorkerMustWait, ProducerInv, WorkerInv, EndInv, SignalWorker, Processing
<1> QED
  BY <1>2, <1>3, <1>5

(* The worker starting to wait keeps the invariant. *)
LEMMA WorkerWaitInv == IInv /\ WorkerWait => IInv'
<1> SUFFICES ASSUME IInv, WorkerWait PROVE IInv'
  OBVIOUS
<1> USE DEF IInv
<1>1. Filling' = Filling /\ Processing' = Processing
  BY DEF WorkerWait, Filling, Processing, SignalProducer
<1>2. SlotInv' /\ OrderInv' /\ CountInv' /\ InsertedInv' /\ LastQueue' = LastQueue
  BY <1>1, NothingMoves DEF WorkerWait, counts, shared
<1>3. TypeOK'
  BY DEF WorkerWait, TypeOK, SignalProducer, counts, shared
<1>4. SanityChecksHold' /\ NoLostWakeup' /\ ProducerInv' /\ WorkerInv' /\ EndInv'
  BY <1>1, <1>2 DEF WorkerWait, SanityChecksHold, NoLostWakeup, ProducerMustWait,
     WorkerMustWait, ProducerInv, WorkerInv, EndInv, SignalProducer, Processing, shared, Full
<1> QED
  BY <1>2, <1>3, <1>4

(* A wakeup without a signal keeps the invariant. *)
LEMMA SpuriousWakeupInv == IInv /\ SpuriousWakeup => IInv'
<1> SUFFICES ASSUME IInv, SpuriousWakeup PROVE IInv'
  OBVIOUS
<1> USE DEF IInv
<1>1. Filling' = Filling /\ Processing' = Processing
  BY DEF SpuriousWakeup, Filling, Processing, wvars, pvars
<1>2. SlotInv' /\ OrderInv' /\ CountInv' /\ InsertedInv' /\ LastQueue' = LastQueue
  BY <1>1, NothingMoves DEF SpuriousWakeup, counts, shared, wvars, pvars
<1>3. TypeOK'
  BY DEF SpuriousWakeup, TypeOK, counts, shared, wvars, pvars
<1>4. SanityChecksHold' /\ NoLostWakeup'
  BY DEF SpuriousWakeup, SanityChecksHold, NoLostWakeup, ProducerMustWait,
         WorkerMustWait, shared, wvars, pvars
<1>5. ProducerInv'
  <2>1. CASE producer = "wait"
    BY <2>1 DEF SpuriousWakeup, ProducerInv, shared, wvars, pvars
  <2>2. CASE producer # "wait"
    BY <1>1, <2>2 DEF SpuriousWakeup, ProducerInv, Full, shared, wvars, pvars
  <2> QED
    BY <2>1, <2>2
<1>6. WorkerInv' /\ EndInv'
  BY <1>1, <1>2 DEF SpuriousWakeup, WorkerInv, EndInv, shared, wvars, pvars
<1> QED
  BY <1>2, <1>3, <1>4, <1>5, <1>6

(* scan_done() marking the end of the last queue keeps the invariant. *)
LEMMA ScanDoneInv == IInv /\ ScanDone => IInv'
<1> SUFFICES ASSUME IInv, ScanDone PROVE IInv'
  OBVIOUS
<1> USE DEF IInv
<1>1. Filling' = Filling /\ Processing' = Processing
  BY DEF ScanDone, Filling, Processing, SignalWorker
<1>2. SlotInv' /\ OrderInv' /\ CountInv' /\ InsertedInv' /\ LastQueue' = LastQueue
  BY <1>1, NothingMoves DEF ScanDone, counts
<1>3. TypeOK'
  BY DEF ScanDone, TypeOK, SignalWorker, counts
<1>4. ~LastQueue
  BY DEF LastQueue, ScanDone, ProducerInv, WorkerInv, PRODUCER, WORKER
<1>5. EndInv'
  BY <1>2, <1>4, NumberTypes DEF EndInv, ScanDone, TypeOK, ProducerInv, Slots
<1>6. SanityChecksHold' /\ NoLostWakeup' /\ ProducerInv' /\ WorkerInv'
  BY <1>1, <1>2, <1>4 DEF ScanDone, SanityChecksHold, NoLostWakeup, ProducerMustWait,
     WorkerMustWait, ProducerInv, WorkerInv, SignalWorker, Processing
<1> QED
  BY <1>2, <1>3, <1>5, <1>6

(* When the worker is done nothing is pending in any queue, so the totals that
   scan_done() compares are those of equal functions. *)
LEMMA NothingPending ==
  ASSUME IInv, worker = "done"
  PROVE  queue_added = queue_removed /\ Len(inserted) = found
<1> USE NumberTypes DEF IInv
<1>1. LastQueue /\ ProducerFirst = WorkerFirst /\ worker_next = producer_next
  BY DEF WorkerInv, OrderInv
<1>2. \A q \in Queues : ~Full(q)
  BY <1>1, Bounds DEF WorkerReached, LastQueue
<1>3. \A q \in Queues : Pending(q) = 0
  BY <1>1, <1>2 DEF Pending, LastQueue
<1>4. \A q \in Queues : queue_added[q] = queue_removed[q]
  BY <1>3 DEF CountInv
<1>5. queue_added = queue_removed
  BY <1>4 DEF TypeOK
<1> QED
  BY <1>1, <1>5 DEF ProducerFirst, WorkerFirst, LastQueue

(* scan_done() joining the worker keeps the invariant. *)
LEMMA ScanJoinInv == IInv /\ ScanJoin => IInv'
<1> SUFFICES ASSUME IInv, ScanJoin PROVE IInv'
  OBVIOUS
<1> USE DEF IInv
<1>1. producer = "join" /\ producer' = "done" /\ worker = "done" /\ worker' = worker
  BY NothingPending DEF ScanJoin, wvars
<1>2. Filling' = Filling /\ Processing' = Processing
  BY <1>1 DEF Filling, Processing
<1>3. SlotInv' /\ OrderInv' /\ CountInv' /\ InsertedInv' /\ LastQueue' = LastQueue
  BY <1>2, NothingMoves DEF ScanJoin, counts, shared, wvars
<1>4. TypeOK'
  BY <1>1 DEF ScanJoin, TypeOK, counts, shared, wvars
<1>5. SanityChecksHold' /\ NoLostWakeup' /\ ProducerInv' /\ WorkerInv' /\ EndInv'
  BY <1>1, <1>2, <1>3 DEF ScanJoin, SanityChecksHold, NoLostWakeup,
     ProducerInv, WorkerInv, EndInv, Processing, shared, wvars
<1> QED
  BY <1>3, <1>4, <1>5
-----------------------------------------------------------------------------
(* The steps that hand a queue over. *)

(* The producer handing a full queue over and taking the next keeps the invariant. *)
LEMMA ProducerTakeInv == IInv /\ ProducerTake => IInv'
<1> SUFFICES ASSUME IInv, ProducerTake PROVE IInv'
  OBVIOUS
<1> USE NumberTypes DEF IInv
<1>1. /\ producer = "exchange" /\ producer' = "fill" /\ producer_next' = 0
      /\ current_producer_queue' = want /\ want \in Queues /\ want' = want
      /\ last_owner[want] # PRODUCER /\ want # current_worker_queue
      /\ last_owner' = [last_owner EXCEPT ![want] = PRODUCER]
      /\ UNCHANGED <<counts, slot, end, found, worker_next, want_queue, inserted>>
      /\ UNCHANGED current_worker_queue
  BY DEF ProducerTake, ProducerMustWait, TypeOK
<1>2. Processing' = Processing /\ Filling' /\ ~Filling
  BY <1>1 DEF ProducerTake, SignalWorker, Processing, Filling
<1>3. ~LastQueue /\ ~LastQueue' /\ (Processing => want_queue # want)
  BY <1>1, <1>2 DEF LastQueue, WorkerInv
<1>4. \A q \in Queues : Full(q)' <=> Full(q)
  BY <1>1, <1>2 DEF Full, TypeOK
<1>5. /\ ProducerFirst' = ProducerFirst /\ WorkerFirst' = WorkerFirst
      /\ WorkerReached' = WorkerReached
  BY <1>1, <1>2 DEF ProducerFirst, WorkerFirst, WorkerReached
<1>6. TypeOK'
  <2>1. last_owner' \in [Queues -> {PRODUCER, WORKER, NOBODY}]
    BY <1>1 DEF TypeOK
  <2>2. worker' \in {"exchange", "wait", "work", "done", "exit(1)"}
    BY DEF ProducerTake, SignalWorker, TypeOK
  <2>3. producer_next' \in 0 .. QueueLength /\ producer' = "fill"
    BY <1>1
  <2> QED
    BY <1>1, <2>1, <2>2, <2>3 DEF TypeOK, counts
<1>7. SanityChecksHold' /\ NoLostWakeup' /\ ProducerInv' /\ EndInv'
  BY <1>1, <1>3 DEF ProducerTake, SanityChecksHold, NoLostWakeup, WorkerMustWait,
     ProducerInv, EndInv, SignalWorker, TypeOK
<1>8. WorkerInv'
  <2>1. Processing' => current_worker_queue' = want_queue' /\ last_owner'[want_queue'] = WORKER
    BY <1>1, <1>2, <1>3 DEF WorkerInv, TypeOK
  <2>2. worker' # "done"
    BY <1>3, <1>1 DEF WorkerInv, ProducerTake, SignalWorker
  <2>3. worker' \in {"exchange", "wait"} => worker \in {"exchange", "wait"}
    BY DEF ProducerTake, SignalWorker
  <2> QED
    BY <1>1, <2>1, <2>2, <2>3 DEF WorkerInv
<1>9. SlotInv'
  <2>1. \A q \in Queues : Full(q)' =>
          /\ \A n \in Slots : slot'[q][n] = slot'[q][0] + n
          /\ slot'[q][0] >= WorkerReached'
          /\ slot'[q][0] + QueueLength <= ProducerFirst'
    BY <1>1, <1>4, <1>5 DEF SlotInv
  <2>2. \A q, r \in Queues : Full(q)' /\ Full(r)' /\ q # r =>
          slot'[q][0] + QueueLength <= slot'[r][0] \/ slot'[r][0] + QueueLength <= slot'[q][0]
    BY <1>1, <1>4 DEF SlotInv
  <2>3. \A n \in Slots : ~(n < producer_next')
    BY <1>1 DEF Slots
  <2>4. Processing' => /\ \A n \in Slots : slot'[want_queue'][n] = WorkerFirst' + n
                       /\ WorkerReached' <= ProducerFirst'
    BY <1>1, <1>2, <1>3, <1>5 DEF SlotInv
  <2> QED
    BY <2>1, <2>2, <2>3, <2>4 DEF SlotInv
<1>10. \A q \in Queues, f \in Int : StartsAt(q, f) <=> StartsAt(q, f)'
  BY <1>1, <1>4, <1>5 DEF StartsAt
<1>11. OrderInv'
  <2>1. \A q \in Queues : Full(q)' => StartsAt(Following(q), slot[q][0] + QueueLength)'
    BY <1>1, <1>4, <1>10, Bounds, FollowingType DEF OrderInv
  <2>2. ~Processing' => StartsAt(want_queue, WorkerFirst)'
    BY <1>1, <1>2, <1>5, <1>10 DEF OrderInv, TypeOK
  <2>3. Processing' => StartsAt(Following(want_queue), WorkerReached)'
    <3> SUFFICES ASSUME Processing' PROVE StartsAt(Following(want_queue), WorkerReached)'
      OBVIOUS
    <3>1. StartsAt(Following(want_queue), WorkerReached)
      BY <1>2, <1>3 DEF OrderInv
    <3>2. Following(want_queue) \in Queues /\ WorkerReached \in Int
      BY FollowingType DEF TypeOK
    <3> QED
      BY <1>1, <1>5, <1>10, <3>1, <3>2
  <2> QED
    BY <1>3, <2>1, <2>2, <2>3 DEF OrderInv
<1>12. \A q \in Queues : Pending(q)' = Pending(q)
  BY <1>1, <1>2, <1>3, <1>4 DEF Pending
<1>13. CountInv' /\ InsertedInv'
  BY <1>1, <1>12 DEF CountInv, InsertedInv, counts
<1> QED
  BY <1>6, <1>7, <1>8, <1>9, <1>11, <1>13

(* The queue the worker takes is full, or is the last one and marked: the
   worker never finds a queue of another owner. *)
LEMMA TakenQueue ==
  ASSUME IInv, WorkerTake
  PROVE  /\ last_owner[want_queue] = PRODUCER
         /\ \/ Full(want_queue) /\ slot[want_queue][0] = WorkerFirst
            \/ /\ want_queue = want /\ producer \in {"join", "done"}
               /\ ProducerFirst = WorkerFirst
               /\ \A q \in Queues : ~Full(q)
<1> USE NumberTypes DEF IInv
<1>1. /\ worker = "exchange" /\ want_queue \in Queues
      /\ want_queue # current_producer_queue /\ last_owner[want_queue] # WORKER
      /\ ~Processing /\ WorkerReached = WorkerFirst
      /\ last_owner[want_queue] \in {PRODUCER, WORKER, NOBODY}
  BY DEF WorkerTake, WorkerMustWait, TypeOK, Processing, WorkerReached
<1>2. StartsAt(want_queue, WorkerFirst)
  BY <1>1 DEF OrderInv
<1>3. CASE Full(want_queue)
  BY <1>1, <1>2, <1>3, Bounds DEF StartsAt, Full
<1>4. CASE ~Full(want_queue)
  <2>1. want_queue = want /\ ProducerFirst = WorkerFirst
    BY <1>2, <1>4 DEF StartsAt
  <2>2. \A q \in Queues : ~Full(q)
    BY <1>1, <2>1, Bounds, SMTT(30)
  <2>3. producer # "fill"
    BY <1>1, <2>1 DEF ProducerInv
  <2>4. producer \notin {"exchange", "wait"}
    <3>1. SUFFICES ASSUME producer \in {"exchange", "wait"} PROVE FALSE
      OBVIOUS
    <3>2. last_owner[want] # NOBODY
      BY <2>2, <3>1 DEF ProducerInv
    <3> QED
      BY <1>1, <1>4, <2>1, <3>1, <3>2 DEF Full, Filling
  <2>5. producer \in {"join", "done"}
    BY <2>3, <2>4 DEF TypeOK, SanityChecksHold
  <2>6. last_owner[want_queue] = PRODUCER
    BY <1>1, <2>1, <2>5 DEF ProducerInv
  <2> QED
    BY <2>1, <2>2, <2>5, <2>6
<1> QED
  BY <1>3, <1>4

(* The worker taking a queue keeps the invariant. *)
LEMMA WorkerTakeInv == IInv /\ WorkerTake => IInv'
<1> SUFFICES ASSUME IInv, WorkerTake PROVE IInv'
  OBVIOUS
<1> USE NumberTypes DEF IInv
<1>1. /\ worker = "exchange" /\ worker' = "work" /\ worker_next' = 0
      /\ current_worker_queue' = want_queue /\ want_queue \in Queues
      /\ last_owner[want_queue] = PRODUCER
      /\ last_owner' = [last_owner EXCEPT ![want_queue] = WORKER]
      /\ want_queue # current_producer_queue
      /\ UNCHANGED <<current_producer_queue, counts, slot, end, want_queue, inserted>>
      /\ UNCHANGED <<producer_next, want, producer, found>>
  BY TakenQueue DEF WorkerTake, WorkerMustWait, TypeOK, pvars
<1>2. ~Processing /\ Processing' /\ Filling' = Filling
  BY <1>1 DEF Processing, Filling
<1>3. /\ ProducerFirst' = ProducerFirst /\ WorkerFirst' = WorkerFirst
      /\ WorkerReached = WorkerFirst /\ WorkerReached' = WorkerFirst + QueueLength
  BY <1>1, <1>2 DEF ProducerFirst, WorkerFirst, WorkerReached
<1>4. \A q \in Queues : Full(q)' <=> Full(q) /\ q # want_queue
  BY <1>1, <1>2 DEF Full, TypeOK, PRODUCER, WORKER
<1>5. LastQueue' <=> want_queue = want /\ Filling
  BY <1>1, <1>2 DEF LastQueue
<1>6. \/ Full(want_queue) /\ slot[want_queue][0] = WorkerFirst /\ ~LastQueue'
      \/ /\ LastQueue' /\ ProducerFirst = WorkerFirst /\ \A q \in Queues : ~Full(q)
         /\ want_queue = want /\ Filling
  BY TakenQueue, <1>5 DEF Full, Filling
<1>7. TypeOK'
  <2>1. last_owner' \in [Queues -> {PRODUCER, WORKER, NOBODY}]
    BY <1>1 DEF TypeOK
  <2>2. current_worker_queue' \in Queues /\ worker_next' \in 0 .. QueueLength
    BY <1>1
  <2> QED
    BY <1>1, <2>1, <2>2 DEF TypeOK, counts
<1>8. SanityChecksHold' /\ NoLostWakeup'
  <2>1. producer = "wait" => last_owner[want] = PRODUCER
    BY <1>2, IdleWorker DEF NoLostWakeup, ProducerMustWait, TypeOK
  <2>2. producer = "wait" => want = want_queue \/ last_owner'[want] = PRODUCER
    BY <1>1, <2>1 DEF TypeOK
  <2> QED
    BY <1>1, <2>2 DEF SanityChecksHold, NoLostWakeup, ProducerMustWait
<1>9. ProducerInv'
  <2>1. producer = "fill" => last_owner'[want] = PRODUCER
    BY <1>1 DEF ProducerInv, TypeOK
  <2>2. last_owner[want] # NOBODY => last_owner'[want] # NOBODY
    BY <1>1 DEF TypeOK, WORKER, NOBODY
  <2>3. producer = "exchange" /\ current_producer_queue \in Queues
          /\ Full(current_producer_queue) => Full(current_producer_queue)'
    BY <1>1, <1>4 DEF Full
  <2>4. last_owner[want] \in {PRODUCER, WORKER} => last_owner'[want] \in {PRODUCER, WORKER}
    BY <1>1 DEF TypeOK
  <2>5. producer # "done"
    BY <1>1 DEF ProducerInv
  <2> QED
    BY <1>1, <2>1, <2>2, <2>3, <2>4, <2>5 DEF ProducerInv
<1>10. WorkerInv' /\ EndInv'
  BY <1>1 DEF WorkerInv, EndInv, TypeOK
<1>11. SlotInv'
  <2>1. \A q \in Queues : Full(q)' =>
          /\ \A n \in Slots : slot'[q][n] = slot'[q][0] + n
          /\ slot'[q][0] >= WorkerReached'
          /\ slot'[q][0] + QueueLength <= ProducerFirst'
    BY <1>1, <1>3, <1>4, <1>6, Bounds DEF SlotInv
  <2>2. \A q, r \in Queues : Full(q)' /\ Full(r)' /\ q # r =>
          slot'[q][0] + QueueLength <= slot'[r][0] \/ slot'[r][0] + QueueLength <= slot'[q][0]
    BY <1>1, <1>4 DEF SlotInv
  <2>3. Filling' => \A n \in Slots : n < producer_next' => slot'[want'][n] = ProducerFirst' + n
    BY <1>1, <1>2, <1>3 DEF SlotInv
  <2>4. ~LastQueue' => /\ \A n \in Slots : slot'[want_queue'][n] = WorkerFirst' + n
                       /\ WorkerReached' <= ProducerFirst'
    BY <1>1, <1>3, <1>6, Bounds DEF SlotInv
  <2> QED
    BY <2>1, <2>2, <2>3, <2>4 DEF SlotInv
<1>12. \A q \in Queues, f \in Int : StartsAt(q, f) /\ f > WorkerFirst => StartsAt(q, f)'
  BY <1>1, <1>3, <1>4, <1>6 DEF StartsAt
<1>13. OrderInv'
  <2>1. \A q \in Queues : Full(q)' => StartsAt(Following(q), slot[q][0] + QueueLength)'
    BY <1>1, <1>3, <1>4, <1>12, Bounds, FollowingType DEF OrderInv
  <2>2. ~LastQueue' => StartsAt(Following(want_queue), WorkerReached)'
    <3> SUFFICES ASSUME ~LastQueue' PROVE StartsAt(Following(want_queue), WorkerReached)'
      OBVIOUS
    <3>1. StartsAt(Following(want_queue), WorkerFirst + QueueLength)
      BY <1>1, <1>6 DEF OrderInv
    <3> QED
      BY <1>1, <1>3, <1>12, <3>1, FollowingType
  <2> QED
    BY <1>2, <1>3, <1>6, <2>1, <2>2 DEF OrderInv
<1>14. \A q \in Queues : Pending(q)' = Pending(q)
  BY <1>1, <1>2, <1>4, <1>5, <1>6 DEF Pending
<1>15. CountInv' /\ InsertedInv'
  BY <1>1, <1>14 DEF CountInv, InsertedInv, counts
<1> QED
  BY <1>7, <1>8, <1>9, <1>10, <1>11, <1>13, <1>15
-----------------------------------------------------------------------------
(* The steps of the worker in the queue it has taken. *)

(* The entry the worker is about to add holds the next file. *)
LEMMA NextEntry ==
  ASSUME IInv, WorkerAdd
  PROVE  /\ slot[want_queue][worker_next] = Len(inserted) + 1
         /\ current_worker_queue = want_queue /\ want_queue \in Queues
         /\ LastQueue => worker_next < producer_next
         /\ Len(inserted) < found
<1> USE NumberTypes DEF IInv
<1>1. /\ worker = "work" /\ worker_next \in Slots /\ Processing
      /\ current_worker_queue = want_queue /\ want_queue \in Queues
      /\ last_owner[want_queue] = WORKER /\ ~end[want_queue][worker_next]
      /\ WorkerFirst = Len(inserted) + 1 - worker_next
  BY DEF WorkerAdd, Processing, WorkerInv, TypeOK, Slots, WorkerFirst
<1>2. CASE ~LastQueue
  <2>1. slot[want_queue][worker_next] = WorkerFirst + worker_next
    BY <1>1, <1>2 DEF SlotInv
  <2>2. WorkerFirst + QueueLength <= ProducerFirst /\ ProducerFirst <= found + 1
    BY <1>1, <1>2, Bounds, SMTT(30) DEF WorkerReached, ProducerFirst
  <2> QED
    BY <1>1, <1>2, <2>1, <2>2, SMTT(30) DEF Slots
<1>3. CASE LastQueue
  <2>1. want_queue = want /\ Filling /\ ProducerFirst = WorkerFirst
    BY <1>3 DEF LastQueue, OrderInv
  <2>2. producer \in {"join", "done"}
    BY <1>1, <2>1 DEF ProducerInv, Filling, PRODUCER, WORKER
  <2>3. worker_next < producer_next
    BY <1>1, <1>3, <2>1, <2>2 DEF EndInv
  <2>4. slot[want_queue][worker_next] = ProducerFirst + worker_next
    BY <1>1, <2>1, <2>3 DEF SlotInv
  <2> QED
    BY <1>1, <2>1, <2>3, <2>4 DEF ProducerFirst
<1> QED
  BY <1>2, <1>3

(* The worker passing an entry to add_file() keeps the invariant. *)
LEMMA WorkerAddInv == IInv /\ WorkerAdd => IInv'
<1> SUFFICES ASSUME IInv, WorkerAdd PROVE IInv'
  OBVIOUS
<1> USE NumberTypes DEF IInv
<1>1. /\ worker = "work" /\ worker' = "work" /\ want_queue \in Queues
      /\ worker_next < QueueLength /\ worker_next' = worker_next + 1
      /\ inserted' = Append(inserted, Len(inserted) + 1)
      /\ Len(inserted) < found
      /\ queue_removed' = [queue_removed EXCEPT ![want_queue] = @ + 1]
      /\ UNCHANGED <<queue_added, slot, end, last_owner, want_queue>>
      /\ UNCHANGED <<current_producer_queue, current_worker_queue>>
      /\ UNCHANGED <<producer_next, want, producer, found>>
  BY NextEntry DEF WorkerAdd, shared, pvars
<1>2. /\ inserted \in Seq(Files \cup {NoFile}) /\ Len(inserted) + 1 \in Files
      /\ Len(inserted') = Len(inserted) + 1
  <2>1. inserted \in Seq(Files \cup {NoFile}) /\ found \in 0 .. MaxFiles
    BY DEF TypeOK
  <2>2. Len(inserted) + 1 \in Files
    BY <1>1, <2>1, SizesAssumption DEF Files
  <2> QED
    BY <1>1, <2>1, <2>2
<1>3. Processing /\ Processing' /\ Filling' = Filling /\ LastQueue' = LastQueue
  BY <1>1 DEF Processing, Filling, LastQueue
<1>4. /\ ProducerFirst' = ProducerFirst /\ WorkerFirst' = WorkerFirst
      /\ WorkerReached' = WorkerReached
  <2>1. ProducerFirst' = ProducerFirst
    BY <1>1, <1>3 DEF ProducerFirst
  <2>2. WorkerFirst' = WorkerFirst
    <3>1. WorkerFirst = Len(inserted) + 1 - worker_next
      BY <1>3 DEF WorkerFirst
    <3>2. WorkerFirst' = Len(inserted') + 1 - worker_next'
      BY <1>3 DEF WorkerFirst
    <3> QED
      BY <1>1, <1>2, <3>1, <3>2, SMTT(30)
  <2> QED
    BY <1>3, <2>1, <2>2 DEF WorkerReached
<1>5. \A q \in Queues : Full(q)' <=> Full(q)
  BY <1>1, <1>3 DEF Full
<1>6. TypeOK'
  <2>1. inserted' \in Seq(Files \cup {NoFile})
    BY <1>1, <1>2
  <2>2. queue_removed' \in [Queues -> Nat]
    BY <1>1, SMTT(30) DEF TypeOK
  <2>3. worker_next' \in 0 .. QueueLength
    BY <1>1
  <2> QED
    BY <1>1, <2>1, <2>2, <2>3 DEF TypeOK
<1>7. SanityChecksHold' /\ NoLostWakeup' /\ ProducerInv' /\ WorkerInv'
  BY <1>1, <1>3 DEF SanityChecksHold, NoLostWakeup, ProducerMustWait, ProducerInv,
     WorkerInv, Full
<1>8. EndInv'
  BY <1>1, <1>3, NextEntry DEF EndInv
<1>9. SlotInv'
  BY <1>1, <1>3, <1>4, <1>5 DEF SlotInv
<1>10. \A q \in Queues, f \in Int : StartsAt(q, f) <=> StartsAt(q, f)'
  BY <1>1, <1>4, <1>5 DEF StartsAt
<1>11. OrderInv'
  <2>1. \A q \in Queues : Full(q)' => StartsAt(Following(q), slot[q][0] + QueueLength)'
    BY <1>1, <1>5, <1>10, Bounds, FollowingType DEF OrderInv
  <2>2. ~LastQueue' => StartsAt(Following(want_queue), WorkerReached)'
    <3>1. ~LastQueue => StartsAt(Following(want_queue), WorkerReached)
      BY <1>3 DEF OrderInv
    <3>2. Following(want_queue) \in Queues /\ WorkerReached \in Int
      BY <1>1, FollowingType
    <3> QED
      BY <1>1, <1>3, <1>4, <1>10, <3>1, <3>2
  <2> QED
    BY <1>3, <1>4, <2>1, <2>2 DEF OrderInv
<1>12. CountInv'
  <2>1. ~Full(want_queue)
    BY <1>3 DEF WorkerInv, Full, PRODUCER, WORKER
  <2>2. ASSUME NEW q \in Queues, q # want_queue
        PROVE  queue_added'[q] = queue_removed'[q] + Pending(q)'
    BY <1>1, <1>3, <1>5, <2>2 DEF CountInv, Pending, TypeOK
  <2>3. ASSUME NEW q \in Queues, q = want_queue
        PROVE  queue_added'[q] = queue_removed'[q] + Pending(q)'
    <3> DEFINE Held == IF LastQueue THEN producer_next ELSE QueueLength
    <3>1. Pending(q) = Held - worker_next /\ Held \in Nat
      BY <1>3, <2>1, <2>3 DEF Pending
    <3>2. Pending(q)' = Held - (worker_next + 1)
      BY <1>1, <1>3, <1>5, <2>1, <2>3 DEF Pending
    <3>3. queue_added[q] = queue_removed[q] + Pending(q)
      BY DEF CountInv
    <3>4. queue_removed'[q] = queue_removed[q] + 1 /\ queue_added'[q] = queue_added[q]
      BY <1>1, <2>3 DEF TypeOK
    <3> HIDE DEF Held
    <3> QED
      BY <3>1, <3>2, <3>3, <3>4
  <2> QED
    BY <2>2, <2>3 DEF CountInv
<1>13. InsertedInv'
  BY <1>1, <1>2 DEF InsertedInv
<1> QED
  BY <1>6, <1>7, <1>8, <1>9, <1>11, <1>12, <1>13

(* The worker meeting the end mark keeps the invariant. *)
LEMMA WorkerEndInv == IInv /\ WorkerEnd => IInv'
<1> SUFFICES ASSUME IInv, WorkerEnd PROVE IInv'
  OBVIOUS
<1> USE NumberTypes DEF IInv
<1>1. /\ worker = "work" /\ worker' = "done" /\ worker_next \in Slots
      /\ want_queue \in Queues /\ end[want_queue][worker_next]
      /\ UNCHANGED <<current_producer_queue, current_worker_queue, last_owner>>
      /\ UNCHANGED <<queue_added, queue_removed, slot, end, worker_next>>
      /\ UNCHANGED <<want_queue, inserted, producer_next, want, producer, found>>
  BY DEF WorkerEnd, WorkerInv, Processing, TypeOK, Slots, shared, counts, pvars
<1>2. Processing' = Processing /\ Filling' = Filling
  BY <1>1 DEF Processing, Filling
<1>3. SlotInv' /\ OrderInv' /\ CountInv' /\ InsertedInv' /\ LastQueue' = LastQueue
  BY <1>1, <1>2, NothingMoves DEF counts
<1>4. producer \in {"join", "done"} /\ want_queue = want /\ worker_next = producer_next
  BY <1>1 DEF EndInv
<1>5. LastQueue
  BY <1>1, <1>4 DEF LastQueue, Filling, Processing
<1>6. TypeOK'
  BY <1>1 DEF TypeOK
<1>7. SanityChecksHold' /\ NoLostWakeup' /\ ProducerInv' /\ WorkerInv' /\ EndInv'
  BY <1>1, <1>2, <1>3, <1>4, <1>5 DEF SanityChecksHold, NoLostWakeup, ProducerMustWait,
     ProducerInv, WorkerInv, EndInv, Full
<1> QED
  BY <1>3, <1>6, <1>7

(* The worker giving a queue back keeps the invariant. *)
LEMMA WorkerReleaseInv == IInv /\ WorkerRelease => IInv'
<1> SUFFICES ASSUME IInv, WorkerRelease PROVE IInv'
  OBVIOUS
<1> USE NumberTypes DEF IInv
<1>1. /\ worker = "work" /\ Processing /\ worker_next = QueueLength
      /\ current_worker_queue = want_queue /\ want_queue \in Queues
      /\ last_owner[want_queue] = WORKER /\ want_queue' = Following(want_queue)
      /\ UNCHANGED <<current_producer_queue, last_owner, counts, slot, end>>
      /\ UNCHANGED <<producer_next, want, found, worker_next, inserted>>
  BY DEF WorkerRelease, WorkerInv, Processing, TypeOK
<1>2. ~LastQueue /\ ~(want_queue = want /\ Filling)
  BY <1>1 DEF LastQueue, EndInv, ProducerInv, Filling, PRODUCER, WORKER
<1>3. Pending(want_queue) = 0
  BY <1>1, <1>2 DEF Pending, Full, PRODUCER, WORKER
<1>4. /\ current_worker_queue' = WANT_QUEUE /\ worker' = "exchange"
      /\ producer' = IF producer = "wait" THEN "exchange" ELSE producer
  BY <1>1, <1>3 DEF WorkerRelease, CountInv, SignalProducer
<1>5. ~Processing' /\ Filling' = Filling /\ ~LastQueue'
  BY <1>1, <1>4 DEF Processing, Filling, LastQueue
<1>6. /\ ProducerFirst' = ProducerFirst /\ WorkerFirst' = WorkerReached
      /\ WorkerReached' = WorkerReached
  BY <1>1, <1>5 DEF ProducerFirst, WorkerFirst, WorkerReached
<1>7. \A q \in Queues : Full(q)' <=> Full(q)
  BY <1>1, <1>5 DEF Full
<1>8. TypeOK'
  BY <1>1, <1>4, FollowingType DEF TypeOK, counts
<1>9. SanityChecksHold' /\ NoLostWakeup'
  BY <1>4 DEF SanityChecksHold, NoLostWakeup
<1>10. ProducerInv' /\ WorkerInv' /\ EndInv'
  <2>1. ProducerInv'
    <3>1. producer' = "exchange" => producer \in {"exchange", "wait"}
      BY <1>4
    <3>2. producer # "done"
      BY <1>1 DEF ProducerInv
    <3> QED
      BY <1>1, <1>4, <1>5, <3>1, <3>2 DEF ProducerInv, Full
  <2>2. WorkerInv' /\ EndInv'
    BY <1>1, <1>4, <1>5 DEF WorkerInv, EndInv
  <2> QED
    BY <2>1, <2>2
<1>11. SlotInv'
  BY <1>1, <1>5, <1>6, <1>7 DEF SlotInv
<1>12. \A q \in Queues, f \in Int : StartsAt(q, f) <=> StartsAt(q, f)'
  BY <1>1, <1>6, <1>7 DEF StartsAt
<1>13. OrderInv'
  <2>1. \A q \in Queues : Full(q)' => StartsAt(Following(q), slot[q][0] + QueueLength)'
    BY <1>1, <1>7, <1>12, Bounds, FollowingType DEF OrderInv
  <2>2. StartsAt(want_queue, WorkerFirst)'
    <3>1. StartsAt(Following(want_queue), WorkerReached)
      BY <1>1, <1>2 DEF OrderInv
    <3>2. Following(want_queue) \in Queues /\ WorkerReached \in Int
      BY <1>1, FollowingType
    <3> QED
      BY <1>1, <1>6, <1>12, <3>1, <3>2
  <2> QED
    BY <1>5, <2>1, <2>2 DEF OrderInv
<1>14. \A q \in Queues : Pending(q)' = Pending(q)
  BY <1>1, <1>2, <1>3, <1>5, <1>7 DEF Pending
<1>15. CountInv' /\ InsertedInv'
  BY <1>1, <1>14 DEF CountInv, InsertedInv, counts
<1> QED
  BY <1>8, <1>9, <1>10, <1>11, <1>13, <1>15
-----------------------------------------------------------------------------
(* Every step of either thread keeps the invariant. *)
LEMMA StepInv == IInv /\ [Next]_vars => IInv'
<1> SUFFICES ASSUME IInv, [Next]_vars PROVE IInv'
  OBVIOUS
<1>1. ASSUME ProducerStep PROVE IInv'
  BY <1>1, AddQueueInv, ProducerWaitInv, ProducerTakeInv, ScanDoneInv, ScanJoinInv
     DEF ProducerStep
<1>2. ASSUME WorkerStep PROVE IInv'
  BY <1>2, WorkerWaitInv, WorkerTakeInv, WorkerAddInv, WorkerEndInv, WorkerReleaseInv
     DEF WorkerStep
<1>3. ASSUME UNCHANGED vars PROVE IInv'
  <2> USE <1>3 DEF vars, shared, counts, pvars, wvars
  <2>1. UNCHANGED <<counts, slot, last_owner, want, found, producer_next,
                    worker_next, want_queue, inserted>>
    OBVIOUS
  <2>2. Filling' = Filling /\ Processing' = Processing
    BY DEF Filling, Processing
  <2>3. SlotInv' /\ OrderInv' /\ CountInv' /\ InsertedInv' /\ LastQueue' = LastQueue
    BY <2>1, <2>2, NothingMoves
  <2>4. TypeOK' /\ SanityChecksHold' /\ NoLostWakeup'
    BY DEF IInv, TypeOK, SanityChecksHold, NoLostWakeup, ProducerMustWait, WorkerMustWait
  <2>5. ProducerInv' /\ WorkerInv' /\ EndInv'
    BY <2>2, <2>3 DEF IInv, ProducerInv, WorkerInv, EndInv, Full
  <2> QED
    BY <2>3, <2>4, <2>5 DEF IInv
<1> QED
  BY <1>1, <1>2, <1>3, SpuriousWakeupInv DEF Next, Terminated

(* The inductive invariant holds in every behaviour, whatever the number and
   length of the queues and the number of files found. *)
THEOREM Invariance == Spec => []IInv
<1>1. Init => IInv
  BY InitInv
<1>2. IInv /\ [Next]_vars => IInv'
  BY StepInv
<1> QED
  BY <1>1, <1>2, PTL DEF Spec

(* Every variable of the exchange stays in its range. *)
THEOREM TypeCorrect == Spec => []TypeOK
<1>1. IInv => TypeOK
  BY DEF IInv
<1> QED
  BY <1>1, Invariance, PTL

(* add_queue() and worker_main() are never in the same queue at once. *)
THEOREM QueuesExclusive == Spec => []QueueExclusion
<1>1. IInv => QueueExclusion
  <2> SUFFICES ASSUME IInv, producer \in {"fill", "exchange"}, worker = "work",
                      current_producer_queue = current_worker_queue
               PROVE  FALSE
    BY DEF QueueExclusion
  <2>1. want_queue = current_worker_queue /\ last_owner[want_queue] = WORKER
    BY DEF IInv, WorkerInv, Processing
  <2>2. want_queue \in Queues /\ want_queue # WANT_QUEUE
    BY SizesAssumption DEF IInv, TypeOK, Queues, WANT_QUEUE, PRODUCER_DONE
  <2>3. last_owner[current_producer_queue] = PRODUCER
    BY <2>1, <2>2 DEF IInv, ProducerInv, Full
  <2> QED
    BY <2>1, <2>3 DEF PRODUCER, WORKER
<1> QED
  BY <1>1, Invariance, PTL

(* No sanity check of worker_main() or scan_done() ends the program. *)
THEOREM ChecksHold == Spec => []SanityChecksHold
<1>1. IInv => SanityChecksHold
  BY DEF IInv
<1> QED
  BY <1>1, Invariance, PTL

(* A thread waits only while what it waits for has not happened. *)
THEOREM WakeupsKept == Spec => []NoLostWakeup
<1>1. IInv => NoLostWakeup
  BY DEF IInv
<1> QED
  BY <1>1, Invariance, PTL

(* The exchange implements the abstract one: add_file() gets the files in the
   order they were found, each once, and all of them before scan_done() ends. *)
THEOREM Refinement == Spec => ImplementsFifo
<1> USE NumberTypes DEF Fifo!fifoVars
<1>1. Init => Fifo!FifoInit
  BY DEF Init, Fifo!FifoInit
<1>2. IInv /\ [Next]_vars => [Fifo!FifoNext]_(Fifo!fifoVars)
  <2> SUFFICES ASSUME IInv, [Next]_vars PROVE [Fifo!FifoNext]_(Fifo!fifoVars)
    OBVIOUS
  <2>1. ASSUME ~Halted, AddQueue PROVE Fifo!Find
    <3>1. producer = "fill" /\ producer' \in {"fill", "exchange"} /\ inserted' = inserted
      BY <2>1 DEF AddQueue, wvars
    <3> QED
      BY <2>1, <3>1 DEF AddQueue, Fifo!Find
  <2>2. ASSUME ~Halted, ScanJoin PROVE Fifo!Finish
    BY <2>2, NothingPending DEF ScanJoin, Fifo!Finish, wvars, IInv
  <2>3. ASSUME ~Halted, WorkerAdd PROVE Fifo!Insert
    BY <2>3, NextEntry DEF WorkerAdd, Fifo!Insert, IInv, pvars
  <2>4. ASSUME ~Halted, \/ ProducerWait \/ ProducerTake \/ ScanDone
                        \/ WorkerWait \/ WorkerTake \/ WorkerEnd \/ WorkerRelease
                        \/ SpuriousWakeup
        PROVE  UNCHANGED Fifo!fifoVars
    BY <2>4 DEF Halted, ProducerWait, ProducerTake, ScanDone, WorkerWait, WorkerTake,
       WorkerEnd, WorkerRelease, SpuriousWakeup, SignalProducer, SignalWorker,
       pvars, wvars, shared
  <2>5. ASSUME UNCHANGED vars PROVE UNCHANGED Fifo!fifoVars
    BY <2>5 DEF vars, pvars, wvars
  <2> QED
    BY <2>1, <2>2, <2>3, <2>4, <2>5
       DEF Next, ProducerStep, WorkerStep, Terminated, Fifo!FifoNext
<1> QED
  BY <1>1, <1>2, Invariance, PTL DEF Spec, ImplementsFifo, Fifo!FifoSpec
=============================================================================
