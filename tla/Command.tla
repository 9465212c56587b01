------------------------------ MODULE Command ------------------------------
(***************************************************************************)
(* A command of dupd that runs: which one, the step it is at, its local    *)
(* variables, the file hash_fn() has open, and what it printed.            *)
(***************************************************************************)
EXTENDS Files, Hash

CONSTANT MaxFailures   (* bound: of reads that fail                          *)

ASSUME FailuresAssumption == MaxFailures \in Nat

VARIABLES
  cmd,        (* "none" between commands                                     *)
  pc, job,
  fd,         (* inode and digest; Closed                                    *)
  printed,    (* what it tells of files, a set of records                    *)
  ran         (* number of commands begun                                    *)

cmdvars == <<cmd, pc, job, fd, printed, ran>>

Closed == [inode |-> NoInode, digest |-> << >>]
NoJob  == [since |-> 0]

CommandInit ==
  /\ cmd = "none" /\ pc = "none" /\ job = NoJob /\ fd = Closed
  /\ printed = {} /\ ran = 0

At(c, step) == cmd = c /\ pc = step
Goto(step)  == pc' = step /\ UNCHANGED <<cmd, ran>>

\* The command returns, or exits; what it printed can still be read.
Return == /\ cmd' = "none" /\ pc' = "none" /\ job' = NoJob /\ fd' = Closed
          /\ UNCHANGED <<printed, ran>>

Begin(c, step, locals) ==
  /\ cmd = "none"
  /\ cmd' = c /\ pc' = step /\ job' = locals
  /\ fd' = Closed /\ printed' = {} /\ ran' = ran + 1

(* hash_fn() reads an open file part by part.  A file deleted while it is
   open can be read on.  A read that fails is taken for the end: the hash of
   what was read until then passes for that of the file. *)
Open(path) == fd' = [inode |-> inode[path], digest |-> hash_fn_buf_init]

NextPart ==
  LET n == Len(fd.digest) + 1
  IN  IF n > Len(data[fd.inode]) THEN << >> ELSE <<data[fd.inode][n]>>

ReadPart ==
  /\ NextPart # << >>
  /\ fd' = [fd EXCEPT !.digest = hash_fn_buf_update(@, NextPart)]
  /\ UNCHANGED <<fsvars, cmd, pc, job, printed, ran>>

EndOfFile ==
  \/ NextPart = << >> /\ UNCHANGED fsvars
  \/ /\ NextPart # << >> /\ failures < MaxFailures
     /\ failures' = failures + 1 /\ UNCHANGED <<inode, data, ctime, clock, changes>>
=============================================================================
