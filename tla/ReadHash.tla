------------------------------ MODULE ReadHash ------------------------------
(***************************************************************************)
(* The pipeline that reads and hashes the files of equal size, started by  *)
(* process_size_list() of src/sizelist.c.  The reader thread goes over the *)
(* read list, in disk order and as often as it takes, and reads what each  *)
(* file needs into its buffer.  When all the buffers of a set are ready it *)
(* submits the set to one of the hasher threads, which hashes the buffers, *)
(* sorts out the unique files, and leaves the rest to be read further or,  *)
(* when they were read to their end, publishes them as duplicates.  When   *)
(* the buffers take too much memory the reader turns flusher and finishes  *)
(* sets on its own, in size list order.                                    *)
(*                                                                         *)
(* A set is touched only under the lock of its size_list node, so all that *)
(* a thread does while it holds that lock is one action, and so is all     *)
(* that it does under a hasher's queue_lock.  Hashers are created after    *)
(* the reader: one that has not started is one not scheduled yet.          *)
(***************************************************************************)
EXTENDS PathSet

CONSTANTS
  Sets,            (* the size list: 1 .. n, in its order                    *)
  Files,           (* the files of all sets                                  *)
  setOf,           (* setOf[f]: the set of file f                            *)
  blocksOf,        (* blocksOf[f]: its block list; blocks have a disk block  *)
  readList,        (* sort_read_list()'s result: records of file and block   *)
  Instances,       (* what the next three variables may be, as records       *)
  Hashers,         (* 0 .. HASHER_THREADS - 1                                *)
  max_open_files

NoSet == 0

(* The files of a set have the same size, more than 0, and each is on the read
   list once for each of its blocks. *)
ASSUME ReadHashAssumption ==
  /\ IsFiniteSet(Sets) /\ Sets = 1 .. Cardinality(Sets)
  /\ IsFiniteSet(Files) /\ setOf \in [Files -> Sets]
  /\ \A s \in Sets : Cardinality({f \in Files : setOf[f] = s}) > 1
  /\ \A i \in Instances :
       /\ \A f \in Files : /\ i.content[f] \in Seq(Nat) /\ i.content[f] # << >>
                            /\ BlockList(blocksOf[f], i.content[f])
       /\ \A f, g \in Files : setOf[f] = setOf[g] => Len(i.content[f]) = Len(i.content[g])
       /\ i.unreliable \subseteq Files
       /\ i.buffer_limit \in Nat \ {0}
  /\ readList \in Seq([file : Files, block : Nat])
  /\ \A f \in Files :
       Cardinality({n \in 1 .. Len(readList) : readList[n].file = f}) = Len(blocksOf[f])
  /\ IsFiniteSet(Hashers) /\ Hashers # {} /\ Hashers = 0 .. Cardinality(Hashers) - 1
  /\ max_open_files \in Nat

VARIABLES
  content,       (* what each file contains, a sequence of bytes             *)
  unreliable,    (* the files that any attempt to read may fail for          *)
  buffer_limit,  (* an option                                                *)
  set,           (* set[s]: the s-th set and its path list                   *)
  rl_done,       (* done of each read list entry                             *)
  reader,        (* control of the reader thread                             *)
  rlpos, done_files, next_queue,        (* locals of read_list_reader()      *)
  at,            (* the set it submits, or that the flusher is at            *)
  queue,         (* queue[h]: the sets in the queue of hasher h              *)
  done,          (* done[h]: info->done of hasher h                          *)
  hasher,        (* control of each hasher thread                            *)
  job,           (* the set it took from its queue, or NoSet                 *)
  last,          (* its local done: it leaves after this job                 *)
  main           (* control of process_size_list()                           *)

given == <<content, unreliable, buffer_limit>>
rvars == <<rl_done, rlpos, done_files, next_queue, at>>
hvars == <<job, last>>
vars  == <<given, set, rl_done, reader, rlpos, done_files, next_queue, at,
           queue, done, hasher, job, last, main>>

SizeOf(s)  == LET f == CHOOSE f \in Files : setOf[f] = s IN Len(content[f])
FilesOf(s) == {f \in Files : setOf[f] = s}

Total(field) == SumFunction([s \in Sets |-> set[s][field]])
stats_read_buffers_allocated == Total("allocated")
current_open_files           == Total("open")
stats_size_list_done         == Total("processed")
BufferPct == (100 * stats_read_buffers_allocated) \div buffer_limit

(* Some thread has called exit(1). *)
Exited == main = "exit(1)" \/ \E s \in Sets : set[s].exited # "none"

Init ==
  /\ \E i \in Instances : /\ content = i.content /\ unreliable = i.unreliable
                            /\ buffer_limit = i.buffer_limit
  /\ set = [s \in Sets |-> NewSet(FilesOf(s), SizeOf(s))]
  /\ rl_done = [i \in 1 .. Len(readList) |-> FALSE]
  /\ reader = IF readList = << >> THEN "done" ELSE "read"
  /\ rlpos = 0 /\ done_files = 0 /\ next_queue = 0 /\ at = NoSet
  /\ queue = [h \in Hashers |-> << >>]
  /\ done = [h \in Hashers |-> FALSE]
  /\ hasher = [h \in Hashers |-> "get"]
  /\ job = [h \in Hashers |-> NoSet]
  /\ last = [h \in Hashers |-> FALSE]
  /\ main = "join reader"

(* show_processed(): more sets completed than there are stops the program. *)
Processed(s, h) ==
  IF h.processed > set[s].processed /\ stats_size_list_done + 1 > Cardinality(Sets)
  THEN Exit(h, "That's not right...")
  ELSE h

-----------------------------------------------------------------------------
(* The reader: read_list_reader() *)

Entry == readList[rlpos + 1]

(* The outcome of the inner loop's condition after rlpos++. *)
ReaderGoesOn ==
  /\ rlpos' = rlpos + 1
  /\ reader' = IF rlpos + 1 < Len(readList) THEN "read" ELSE "loop"

SkipDone ==
  /\ reader = "read"
  /\ rl_done[rlpos + 1]
  /\ done_files' = done_files + 1
  /\ ReaderGoesOn
  /\ UNCHANGED <<given, set, rl_done, next_queue, at, queue, done, hasher, hvars, main>>

(* The policy of read_entry_bytes(): keep the file open if all that remain
   can be, or if more of it is to be read and there are descriptors left. *)
KeepOpen(h, f) ==
  LET e         == h.entry[f]
      p         == Positioned(e, h.wanted_bufsize, blocksOf[f])
      bytes     == WantBytes(p, blocksOf[f][e.next_read_block + 1])
      opened    == current_open_files + (IF e.fd THEN 0 ELSE 1)
      remaining == Cardinality(Files) - Total("dups") - Total("unique")
  IN  \/ remaining < max_open_files
      \/ /\ p.next_read_byte > 0 \/ Len(content[f]) > bytes
         /\ opened < max_open_files

WantsBlock(h, rl) ==
  blocksOf[rl.file][h.entry[rl.file].next_read_block + 1].block = rl.block

Readable(f) == IF f \in unreliable THEN BOOLEAN ELSE {TRUE}

(* A read list entry that is not done: read the block if its file wants it
   next, and move on to submitting the set if that made all of it ready. *)
ReadEntry ==
  LET rl   == Entry
      s    == setOf[rl.file]
      h    == set[s]
      needs == h.entry[rl.file].state = "FS_NEED_DATA"
  IN  /\ reader = "read"
      /\ ~rl_done[rlpos + 1]
      /\ IF needs /\ WantsBlock(h, rl)
         THEN \E readable \in Readable(rl.file) :
                LET after == reader_visit(h, rl.file, blocksOf[rl.file], content[rl.file],
                                          readable, KeepOpen(h, rl.file))
                    consumed == after.entry[rl.file].next_read_block
                                  > h.entry[rl.file].next_read_block
                IN  /\ set' = [set EXCEPT ![s] = after]
                    /\ rl_done' = [rl_done EXCEPT ![rlpos + 1] = consumed]
                    /\ IF after.state = "PLS_ALL_BUFFERS_READY"
                       THEN reader' = "submit" /\ at' = s
                       ELSE reader' = "check" /\ UNCHANGED at
         ELSE /\ reader' = "check"
              /\ UNCHANGED <<set, rl_done, at>>
      /\ done_files' = IF h.entry[rl.file].state \in {"FS_DONE", "FS_IGNORE", "FS_UNIQUE"}
                       THEN done_files + 1 ELSE done_files
      /\ UNCHANGED <<given, rlpos, next_queue, queue, done, hasher, hvars, main>>

HasherNotSignalled(h) == UNCHANGED hasher     \* mutant of SignalHasher

\* pthread_cond_signal on the hasher's queue_cond.
SignalHasher(h) ==
  hasher' = [hasher EXCEPT ![h] = IF @ = "wait" THEN "get" ELSE @]

NextQueue(q) == (q + 1) % Cardinality(Hashers)

(* submit_path_list() *)
Submit ==
  /\ reader = "submit"
  /\ queue' = [queue EXCEPT ![next_queue] = Append(@, at)]
  /\ SignalHasher(next_queue)
  /\ next_queue' = NextQueue(next_queue)
  /\ reader' = "check"
  /\ at' = NoSet
  /\ UNCHANGED <<given, set, rl_done, rlpos, done_files, done, hvars, main>>

(* rlpos++, and the flusher when too much is buffered. *)
CheckBuffers ==
  /\ reader = "check"
  /\ IF BufferPct > 99
     THEN /\ reader' = "flush"
          /\ at' = 1
          /\ rlpos' = rlpos + 1
     ELSE ReaderGoesOn /\ UNCHANGED at
  /\ UNCHANGED <<given, set, rl_done, done_files, next_queue, queue, done,
                 hasher, hvars, main>>

(* size_list_flusher() at one node of the size list. *)
Flush ==
  /\ reader = "flush"
  /\ UNCHANGED given
  /\ IF set[at].state = "PLS_NEED_DATA"
     THEN \E failed \in SUBSET (unreliable \cap Active(set[at])) :
            set' = [set EXCEPT ![at] =
                      Processed(at, flusher_visit(@, content, failed))]
     ELSE UNCHANGED set
  /\ IF \/ at = Cardinality(Sets)
        \/ /\ set[at].state = "PLS_NEED_DATA"
           /\ BufferPct' < 85
     THEN /\ at' = NoSet
          /\ reader' = IF rlpos < Len(readList) THEN "read" ELSE "loop"
     ELSE /\ at' = at + 1
          /\ UNCHANGED reader
  /\ UNCHANGED <<rl_done, rlpos, done_files, next_queue, queue, done,
                 hasher, hvars, main>>

(* The end of the read list: go over it again unless all of it is done. *)
LoopEnd ==
  /\ reader = "loop"
  /\ IF done_files >= rlpos
     THEN reader' = "done" /\ UNCHANGED <<rlpos, done_files>>
     ELSE reader' = "read" /\ rlpos' = 0 /\ done_files' = 0
  /\ UNCHANGED <<given, set, rl_done, next_queue, at, queue, done, hasher, hvars, main>>

-----------------------------------------------------------------------------
(* The hashers: round1_hasher() *)

NotPopped(q) == q                             \* mutant of Popped
Popped(q) == SubSeq(q, 1, Len(q) - 1)

(* Take the set submitted last, or wait, or leave.  The one that takes the
   last set after the reader is done leaves after that. *)
Get(h) ==
  /\ hasher[h] = "get"
  /\ LET n == Len(queue[h])
     IN  IF n = 0 /\ ~done[h]
         THEN /\ hasher' = [hasher EXCEPT ![h] = "wait"]
              /\ UNCHANGED <<queue, job, last>>
         ELSE /\ job' = [job EXCEPT ![h] = IF n > 0 THEN queue[h][n] ELSE NoSet]
              /\ queue' = [queue EXCEPT ![h] = IF n > 0 THEN Popped(@) ELSE @]
              /\ last' = [last EXCEPT ![h] = done[h] /\ n <= 1]
              /\ hasher' = [hasher EXCEPT ![h] = IF n > 0 THEN "hash" ELSE "done"]
  /\ UNCHANGED <<given, set, reader, rvars, done, main>>

Hash(h) ==
  LET s == job[h]
  IN  /\ hasher[h] = "hash"
      /\ set' = [set EXCEPT ![s] = Processed(s, hasher_pass(@, SizeOf(s)))]
      /\ job' = [job EXCEPT ![h] = NoSet]
      /\ hasher' = [hasher EXCEPT ![h] = IF last[h] THEN "done" ELSE "get"]
      /\ UNCHANGED <<given, reader, rvars, queue, done, last, main>>

SpuriousWakeup(h) ==
  /\ hasher[h] = "wait"
  /\ hasher' = [hasher EXCEPT ![h] = "get"]
  /\ UNCHANGED <<given, set, reader, rvars, queue, done, hvars, main>>

-----------------------------------------------------------------------------
(* The thread that started the others: process_size_list() *)

JoinReader ==
  /\ main = "join reader"
  /\ reader = "done"
  /\ main' = "signal"
  /\ UNCHANGED <<given, set, reader, rvars, queue, done, hasher, hvars>>

(* signal_hashers(), a hasher at a time. *)
TellDone(h) ==
  /\ main = "signal"
  /\ ~done[h]
  /\ \A g \in Hashers : g < h => done[g]
  /\ done' = [done EXCEPT ![h] = TRUE]
  /\ SignalHasher(h)
  /\ main' = IF h + 1 \in Hashers THEN main ELSE "join hashers"
  /\ UNCHANGED <<given, set, reader, rvars, queue, hvars>>

(* The joins, and the checks of what should have been given back. *)
JoinHashers ==
  /\ main = "join hashers"
  /\ \A h \in Hashers : hasher[h] = "done"
  /\ main' = IF stats_read_buffers_allocated = 0 /\ current_open_files = 0
             THEN "done" ELSE "exit(1)"
  /\ UNCHANGED <<given, set, reader, rvars, queue, done, hasher, hvars>>

Terminated == (Exited \/ main = "done") /\ UNCHANGED vars

ReaderStep  == ~Exited /\ (SkipDone \/ ReadEntry \/ Submit \/ CheckBuffers
                             \/ Flush \/ LoopEnd)
HasherStep(h) == ~Exited /\ (Get(h) \/ Hash(h))
MainStep    == ~Exited /\ (JoinReader \/ (\E h \in Hashers : TellDone(h)) \/ JoinHashers)

Next ==
  \/ ReaderStep
  \/ \E h \in Hashers : HasherStep(h) \/ (~Exited /\ SpuriousWakeup(h))
  \/ MainStep
  \/ Terminated

Spec == Init /\ [][Next]_vars

(* Every thread is scheduled; a waiting hasher moves on only when signalled.
   What is fair is a step of the thread's control: only ReaderStep changes
   where the reader is, and changes it with every step, and the same goes for
   HasherStep(h) and a hasher that does not wait. *)
ReaderMoves ==
  /\ ~Exited /\ reader # "done"
  /\ reader' \in {"read", "submit", "check", "flush", "loop", "done"}
  /\ rlpos' \in 0 .. Len(readList)
  /\ at' \in Sets \cup {NoSet}
HasherMoves(h) ==
  /\ ~Exited /\ hasher[h] \in {"get", "hash"}
  /\ \E c \in {"get", "hash", "wait", "done"} : hasher' = [hasher EXCEPT ![h] = c]

FairSpec ==
  /\ Spec
  /\ WF_<<reader, rlpos, at>>(ReaderMoves)
  /\ \A h \in Hashers : WF_hasher(HasherMoves(h))
  /\ WF_vars(MainStep)

-----------------------------------------------------------------------------
(* None of the sanity checks of the reader, the hashers, the flusher, the
   marking functions and process_size_list() ever stops the program. *)
SanityChecksHold == ~Exited

(* list_size counts the files that are still compared and buffer_ready those
   with a full buffer, for a set that is not done; and the set is ready to be
   hashed exactly when the two agree.  Three functions adjust one or the other
   for one file at a time, and the hashers reset one of them. *)
ListCountsRight ==
  \A s \in Sets : LET h == set[s] IN h.state # "PLS_DONE" =>
    /\ h.list_size = Cardinality(Active(h))
    /\ h.buffer_ready = Cardinality(InState(h, {"FS_BUFFER_READY"}))
    /\ h.state = "PLS_ALL_BUFFERS_READY" <=> h.buffer_ready = h.list_size

(* The counters behind the flusher and behind the limit on open files agree
   with the buffers and descriptors the files hold, and only files that still
   need data hold any. *)
CountersRight ==
  \A s \in Sets : LET h == set[s] IN
    /\ h.allocated = SumFunction([f \in FilesOf(s) |-> h.entry[f].bufsize])
    /\ h.open = Cardinality({f \in FilesOf(s) : h.entry[f].fd})
    /\ \A f \in FilesOf(s) \ Active(h) : h.entry[f].bufsize = 0 /\ ~h.entry[f].fd

(* A set whose buffers are all ready is in exactly one place: about to be
   submitted, in one queue once, or with one hasher.  No other set is. *)
SubmittedOnce ==
  \A s \in Sets :
    Cardinality({h \in Hashers : job[h] = s})
      + SumFunction([h \in Hashers |-> Cardinality({i \in 1 .. Len(queue[h]) : queue[h][i] = s})])
      + (IF reader = "submit" /\ at = s THEN 1 ELSE 0)
    = IF set[s].state = "PLS_ALL_BUFFERS_READY" THEN 1 ELSE 0

(* In the end the status counters account for every file: it was counted as a
   duplicate or as unique, or it was ignored.  Every set was counted as
   processed, once, unless it ended because a file was ignored. *)
AccountedFor ==
  main = "done" => \A s \in Sets : LET h == set[s] IN
    /\ h.dups = Cardinality(InState(h, {"FS_DONE"}))
    /\ h.unique = Cardinality(InState(h, {"FS_UNIQUE"}))
    /\ h.processed <= 1
    /\ h.processed = 1 \/ InState(h, {"FS_IGNORE"}) # {}

(* However reader, hashers and flusher interleave, files are found duplicate
   only of all their equals, unique only without any, and each once. *)
Verdict(state) == CASE state = "FS_DONE"   -> "duplicate"
                    [] state = "FS_UNIQUE" -> "unique"
                    [] state = "FS_IGNORE" -> "ignored"
                    [] OTHER               -> "open"
Verdicts == INSTANCE DupSets WITH
  verdict <- [f \in Files |-> Verdict(set[setOf[f]].entry[f].state)],
  groups  <- UNION {set[s].published : s \in Sets}
FindsDuplicates == Verdicts!DupSpec

(* The pipeline comes to its end, and no file is left undecided. *)
AllDecided ==
  <>(main = "done" /\ \A f \in Files :
       set[setOf[f]].entry[f].state \in {"FS_DONE", "FS_UNIQUE", "FS_IGNORE"})
=============================================================================
