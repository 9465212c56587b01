------------------------------ MODULE ScanQueue ------------------------------
(***************************************************************************)
(* The queue exchange of src/sizetree.c.  During a threaded scan the       *)
(* scanning thread (the producer) files every path it finds in one of      *)
(* QueueCount fixed queues with add_queue(); the size tree worker takes    *)
(* full queues and calls add_file() for each entry.  The two threads pass  *)
(* the queues round and round, deciding who owns one with                  *)
(* current_producer_queue, current_worker_queue and last_owner[], under    *)
(* queue_lock and two condition variables.                                 *)
(*                                                                         *)
(* Everything a thread does between pthread_mutex_lock and the next wait   *)
(* or unlock is one action: the other thread can see none of it.  The      *)
(* unlocked parts (filling a slot, reading a slot) are actions of their    *)
(* own, one per entry.  A thread in pthread_cond_wait has control "wait";  *)
(* a signal, or a spurious wakeup, sends it back to test its condition.    *)
(***************************************************************************)
EXTENDS Naturals, Sequences, FiniteSets, Functions

CONSTANTS QueueCount,   (* QUEUE_COUNT                                       *)
          QueueLength,  (* STAT_QUEUE_LENGTH                                 *)
          MaxFiles      (* the most files one scan finds (a bound)           *)

(* The values current_*_queue takes besides a queue's index, and the owners. *)
PRODUCER_DONE      == 42
WORKER_NOT_STARTED == 43
WANT_QUEUE         == 46
PRODUCER           == 47
WORKER             == 48
NOBODY             == 49

(* The indices share an int with the markers above. *)
ASSUME SizesAssumption ==
  /\ QueueCount \in 1 .. PRODUCER_DONE
  /\ QueueLength \in Nat \ {0}
  /\ MaxFiles \in Nat

Queues == 0 .. QueueCount - 1
Slots  == 0 .. QueueLength - 1
NoFile == 0
Files  == 1 .. MaxFiles

VARIABLES
  current_producer_queue,
  current_worker_queue,
  last_owner,
  queue_added,
  queue_removed,
  slot,            (* slot[q][n]: the file in the n-th entry of queue q      *)
  end,             (* end[q][n]: its end flag                                *)
  producer_next,   (* next slot to fill, QueueLength for NULL                *)
  want,            (* local of add_queue(): the queue asked for              *)
  producer,        (* control of the scanning thread                         *)
  worker_next,     (* next slot to read, QueueLength for NULL                *)
  want_queue,      (* local of worker_main(): the queue asked for            *)
  worker,          (* control of the worker thread                           *)
  found,           (* history: how many files add_queue() was given          *)
  inserted         (* history: the files add_file() was given, in order      *)

shared == <<current_producer_queue, current_worker_queue, last_owner>>
counts == <<queue_added, queue_removed>>
pvars  == <<producer_next, want, producer, found>>
wvars  == <<worker_next, want_queue, worker, inserted>>
vars   == <<shared, counts, slot, end, pvars, wvars>>

\* Mutated forms of the definitions they precede; nothing else uses them.
FollowingUnwrapped(q) == q + 1

Following(q) == (q + 1) % QueueCount

(* init_sizetree(): Q0 is the producer's before the worker thread starts.
   The worker begins by asking for Q0. *)
Init ==
  /\ current_producer_queue = 0
  /\ current_worker_queue = WORKER_NOT_STARTED
  /\ last_owner = [q \in Queues |-> IF q = 0 THEN PRODUCER ELSE NOBODY]
  /\ queue_added = [q \in Queues |-> 0]
  /\ queue_removed = [q \in Queues |-> 0]
  /\ slot = [q \in Queues |-> [n \in Slots |-> NoFile]]
  /\ end = [q \in Queues |-> [n \in Slots |-> FALSE]]
  /\ producer_next = 0
  /\ want = 0
  /\ producer = "fill"
  /\ worker_next = QueueLength
  /\ want_queue = 0
  /\ worker = "exchange"
  /\ found = 0
  /\ inserted = << >>

WorkerNotSignalled   == UNCHANGED worker      \* mutant of SignalWorker
ProducerNotSignalled == UNCHANGED producer    \* mutant of SignalProducer

(* pthread_cond_signal: wakes the thread if it waits, is lost otherwise. *)
SignalWorker   == worker'   = IF worker = "wait" THEN "exchange" ELSE worker
SignalProducer == producer' = IF producer = "wait" THEN "exchange" ELSE producer

-----------------------------------------------------------------------------
(* The producer: add_queue() and scan_done() *)

(* add_queue() up to its first return: fill the next slot.  When that was
   the queue's last slot the producer must move on to the following queue. *)
AddQueue ==
  /\ producer = "fill"
  /\ found < MaxFiles
  /\ found' = found + 1
  /\ slot' = [slot EXCEPT ![current_producer_queue][producer_next] = found + 1]
  /\ producer_next' = producer_next + 1
  /\ queue_added' = [queue_added EXCEPT ![current_producer_queue] = @ + 1]
  /\ IF producer_next + 1 < QueueLength
     THEN UNCHANGED <<producer, want>>
     ELSE /\ producer' = "exchange"
          /\ want' = Following(current_producer_queue)
  /\ UNCHANGED <<shared, queue_removed, end, wvars>>

\* Mutants of ProducerMustWait: one of its tests is missing.
ProducerWaitsForOwner  == last_owner[want] = PRODUCER
ProducerWaitsForWorker == want = current_worker_queue

ProducerMustWait ==
  want = current_worker_queue \/ last_owner[want] = PRODUCER

(* The queue asked for is not available: give up the full one, and wait. *)
ProducerWait ==
  /\ producer = "exchange"
  /\ ProducerMustWait
  /\ current_producer_queue' = WANT_QUEUE
  /\ producer' = "wait"
  /\ SignalWorker
  /\ UNCHANGED <<current_worker_queue, last_owner, counts, slot, end,
                 producer_next, want, found, worker_next, want_queue, inserted>>

ProducerTake ==
  /\ producer = "exchange"
  /\ ~ProducerMustWait
  /\ current_producer_queue' = want
  /\ last_owner' = [last_owner EXCEPT ![want] = PRODUCER]
  /\ producer_next' = 0
  /\ producer' = "fill"
  /\ SignalWorker
  /\ UNCHANGED <<current_worker_queue, counts, slot, end,
                 want, found, worker_next, want_queue, inserted>>

(* scan_done() up to the join: walk_dir() has returned, however many files
   it found. *)
ScanDone ==
  /\ producer = "fill"
  /\ end' = [end EXCEPT ![current_producer_queue][producer_next] = TRUE]
  /\ current_producer_queue' = PRODUCER_DONE
  /\ producer' = "join"
  /\ SignalWorker
  /\ UNCHANGED <<current_worker_queue, last_owner, counts, slot,
                 producer_next, want, found, worker_next, want_queue, inserted>>

(* The join, and the comparison of the totals that follows it. *)
ScanJoin ==
  /\ producer = "join"
  /\ worker = "done"
  /\ LET Sum(f) == FoldFunction(+, 0, f)
     IN  producer' = IF Sum(queue_added) = Sum(queue_removed)
                     THEN "done" ELSE "exit(1)"
  /\ UNCHANGED <<shared, counts, slot, end,
                 producer_next, want, found, wvars>>

-----------------------------------------------------------------------------
(* The worker: worker_main() *)

\* Mutant of WorkerMustWait: the producer's own queue is not excluded.
WorkerWaitsForOwner == last_owner[want_queue] = WORKER

WorkerMustWait ==
  want_queue = current_producer_queue \/ last_owner[want_queue] = WORKER

WorkerWait ==
  /\ worker = "exchange"
  /\ WorkerMustWait
  /\ worker' = "wait"
  /\ SignalProducer
  /\ UNCHANGED <<shared, counts, slot, end, producer_next, want, found,
                 worker_next, want_queue, inserted>>

(* The worker takes a queue, and exits the program when the producer was not
   its last owner. *)
WorkerTake ==
  /\ worker = "exchange"
  /\ ~WorkerMustWait
  /\ current_worker_queue' = want_queue
  /\ IF last_owner[want_queue] = PRODUCER
     THEN /\ last_owner' = [last_owner EXCEPT ![want_queue] = WORKER]
          /\ worker_next' = 0
          /\ worker' = "work"
     ELSE /\ worker' = "exit(1)"
          /\ UNCHANGED <<last_owner, worker_next>>
  /\ UNCHANGED <<current_producer_queue, counts, slot, end, pvars,
                 want_queue, inserted>>

WorkerAdd ==
  /\ worker = "work"
  /\ worker_next < QueueLength
  /\ ~end[current_worker_queue][worker_next]
  /\ inserted' = Append(inserted, slot[current_worker_queue][worker_next])
  /\ queue_removed' = [queue_removed EXCEPT ![current_worker_queue] = @ + 1]
  /\ worker_next' = worker_next + 1
  /\ UNCHANGED <<shared, queue_added, slot, end, pvars, want_queue, worker>>

WorkerEnd ==
  /\ worker = "work"
  /\ worker_next < QueueLength
  /\ end[current_worker_queue][worker_next]
  /\ worker' = "done"
  /\ UNCHANGED <<shared, counts, slot, end, pvars,
                 worker_next, want_queue, inserted>>

(* The queue is worked through: check its counts, give it back and ask for
   the following one. *)
WorkerRelease ==
  /\ worker = "work"
  /\ worker_next = QueueLength
  /\ want_queue' = Following(current_worker_queue)
  /\ IF queue_added[current_worker_queue] = queue_removed[current_worker_queue]
     THEN /\ current_worker_queue' = WANT_QUEUE
          /\ worker' = "exchange"
          /\ SignalProducer
     ELSE /\ worker' = "exit(1)"
          /\ UNCHANGED <<current_worker_queue, producer>>
  /\ UNCHANGED <<current_producer_queue, last_owner, counts, slot, end,
                 producer_next, want, found, worker_next, inserted>>

-----------------------------------------------------------------------------
(* pthread_cond_wait may return without a signal. *)
SpuriousWakeup ==
  \/ /\ producer = "wait"
     /\ producer' = "exchange"
     /\ UNCHANGED <<shared, counts, slot, end, producer_next, want, found, wvars>>
  \/ /\ worker = "wait"
     /\ worker' = "exchange"
     /\ UNCHANGED <<shared, counts, slot, end, pvars,
                    worker_next, want_queue, inserted>>

Halted == producer \in {"done", "exit(1)"} \/ worker = "exit(1)"

(* exit(1) on either side, or the end of scan_done(), ends this part. *)
Terminated == Halted /\ UNCHANGED vars

ProducerStep == ~Halted /\ (AddQueue \/ ProducerWait \/ ProducerTake
                              \/ ScanDone \/ ScanJoin)
WorkerStep   == ~Halted /\ (WorkerWait \/ WorkerTake \/ WorkerAdd
                              \/ WorkerEnd \/ WorkerRelease)

Next == ProducerStep \/ WorkerStep \/ (~Halted /\ SpuriousWakeup) \/ Terminated

Spec == Init /\ [][Next]_vars

(* The scheduler runs both threads, and nothing more is assumed: a waiting
   thread moves on only when it is signalled. *)
FairSpec == Spec /\ WF_vars(ProducerStep) /\ WF_vars(WorkerStep)

-----------------------------------------------------------------------------
(* The type invariant. *)
TypeOK ==
  /\ current_producer_queue \in Queues \cup {WANT_QUEUE, PRODUCER_DONE}
  /\ current_worker_queue \in Queues \cup {WANT_QUEUE, WORKER_NOT_STARTED}
  /\ last_owner \in [Queues -> {PRODUCER, WORKER, NOBODY}]
  /\ queue_added \in [Queues -> Nat]
  /\ queue_removed \in [Queues -> Nat]
  /\ slot \in [Queues -> [Slots -> Files \cup {NoFile}]]
  /\ end \in [Queues -> [Slots -> BOOLEAN]]
  /\ producer_next \in 0 .. QueueLength
  /\ want \in Queues
  /\ producer \in {"fill", "exchange", "wait", "join", "done", "exit(1)"}
  /\ worker_next \in 0 .. QueueLength
  /\ want_queue \in Queues
  /\ worker \in {"exchange", "wait", "work", "done", "exit(1)"}
  /\ found \in 0 .. MaxFiles
  /\ inserted \in Seq(Files \cup {NoFile})

(* The producer writes slots without the lock, and so does the worker read
   them: the queue one of them is at is never the queue the other is at. *)
QueueExclusion ==
  producer \in {"fill", "exchange"} /\ worker = "work"
    => current_producer_queue # current_worker_queue

(* None of the sanity checks of worker_main() and scan_done() ever stops the
   program: the worker gets only queues the producer filled, gives back only
   queues it has emptied, and in the end all that was added was removed. *)
SanityChecksHold == producer # "exit(1)" /\ worker # "exit(1)"

(* No wakeup is lost: while a thread waits, what it waits for has not
   happened yet. *)
NoLostWakeup ==
  /\ producer = "wait" => ProducerMustWait
  /\ worker = "wait" => WorkerMustWait

(* The queues carry the files to add_file() in the order the scan found them,
   each exactly once, and scan_done() returns when all of them are there. *)
Fifo == INSTANCE ScanFifo WITH scanning <- producer # "done"
ImplementsFifo == Fifo!FifoSpec

(* scan_done() returns, and by then every file found has been added. *)
ScanCompletes == <>(producer = "done" /\ Len(inserted) = found)
-----------------------------------------------------------------------------
(* The inductive invariant behind these properties.  Files are numbered, so a
   queue that was filled is known by the number of its first file. *)

Filling    == producer \in {"fill", "join", "done"}
Processing == worker \in {"work", "done"}

(* Filled, and not yet taken by the worker. *)
Full(q) == last_owner[q] = PRODUCER /\ (q = want => ~Filling)

(* The number of the first file of the queue the producer fills or asks for,
   of the queue the worker is at or asks for, and one past the worker's. *)
ProducerFirst == found + 1 - (IF Filling THEN producer_next ELSE 0)
WorkerFirst   == Len(inserted) + 1 - (IF Processing THEN worker_next ELSE 0)
LastQueue     == Processing /\ want_queue = want /\ Filling
WorkerReached == WorkerFirst + (IF Processing THEN QueueLength ELSE 0)

StartsAt(q, f) ==
  \/ Full(q) /\ slot[q][0] = f
  \/ q = want /\ ProducerFirst = f

ProducerInv ==
  /\ producer = "fill" =>
       /\ current_producer_queue = want
       /\ last_owner[want] = PRODUCER
       /\ producer_next < QueueLength
  /\ producer = "exchange" =>
       \/ /\ current_producer_queue = WANT_QUEUE
          /\ last_owner[want] # NOBODY
       \/ /\ current_producer_queue \in Queues
          /\ Full(current_producer_queue)
          /\ want = Following(current_producer_queue)
  /\ producer = "wait" =>
       /\ current_producer_queue = WANT_QUEUE
       /\ last_owner[want] # NOBODY
  /\ producer \in {"join", "done"} =>
       /\ current_producer_queue = PRODUCER_DONE
       /\ producer_next < QueueLength
       /\ last_owner[want] \in {PRODUCER, WORKER}
  /\ producer = "done" => worker = "done"

WorkerInv ==
  /\ Processing =>
       /\ current_worker_queue = want_queue
       /\ last_owner[want_queue] = WORKER
  /\ worker \in {"exchange", "wait"} =>
       current_worker_queue \in {WANT_QUEUE, WORKER_NOT_STARTED}
  /\ worker = "done" =>
       LastQueue /\ producer # "fill" /\ worker_next = producer_next

(* Only the last entry is marked, and the worker never gets beyond it. *)
EndInv ==
  /\ \A q \in Queues, n \in Slots :
       end[q][n] <=> producer \in {"join", "done"} /\ q = want /\ n = producer_next
  /\ LastQueue => worker_next <= producer_next

(* What the slots of each queue hold. *)
SlotInv ==
  /\ \A q \in Queues : Full(q) =>
       /\ \A n \in Slots : slot[q][n] = slot[q][0] + n
       /\ slot[q][0] >= WorkerReached
       /\ slot[q][0] + QueueLength <= ProducerFirst
  /\ \A q, r \in Queues : Full(q) /\ Full(r) /\ q # r =>
       slot[q][0] + QueueLength <= slot[r][0] \/ slot[r][0] + QueueLength <= slot[q][0]
  /\ Filling => \A n \in Slots : n < producer_next => slot[want][n] = ProducerFirst + n
  /\ Processing /\ ~LastQueue =>
       /\ \A n \in Slots : slot[want_queue][n] = WorkerFirst + n
       /\ WorkerReached <= ProducerFirst

(* The full queues follow one another, from the worker's to the producer's. *)
OrderInv ==
  /\ \A q \in Queues : Full(q) => StartsAt(Following(q), slot[q][0] + QueueLength)
  /\ ~Processing => StartsAt(want_queue, WorkerFirst)
  /\ Processing /\ ~LastQueue => StartsAt(Following(want_queue), WorkerReached)
  /\ LastQueue => ProducerFirst = WorkerFirst

Pending(q) ==
  IF Full(q) THEN QueueLength
  ELSE IF Processing /\ q = want_queue
       THEN (IF LastQueue THEN producer_next ELSE QueueLength) - worker_next
       ELSE IF q = want /\ Filling THEN producer_next ELSE 0

CountInv == \A q \in Queues : queue_added[q] = queue_removed[q] + Pending(q)

InsertedInv ==
  /\ \A i \in 1 .. Len(inserted) : inserted[i] = i
  /\ Len(inserted) <= found

IInv ==
  /\ TypeOK /\ SanityChecksHold /\ NoLostWakeup
  /\ ProducerInv /\ WorkerInv /\ EndInv
  /\ SlotInv /\ OrderInv /\ CountInv /\ InsertedInv
=============================================================================
