----------------------------- MODULE ScanDriver -----------------------------
(***************************************************************************)
(* dupd scan from the command line to its last message: main() and         *)
(* process_args() of src/main.c, scan() and scan_status() of src/scan.c,   *)
(* report_stats() of src/stats.c.  The walk is that of WalkDir; what       *)
(* follows it, ScanSets and ReadHash, appears here as one step.            *)
(*                                                                         *)
(* The status thread shows progress every quarter of a second, or when it  *)
(* is signalled.  It goes by two times that are -1 until they are known.   *)
(***************************************************************************)
EXTENDS WalkDir, Settings, BlockInfo

CONSTANT Times   (* what a measured time may be                            *)

ASSUME TimesAssumption == Times \subseteq Int

(* What is asked for: paths, names and numbers, any numbers, of a machine with
   some memory. *)
ASSUME OptionsAssumption ==
  \A i \in Instances :
    LET o == i.options
    IN  /\ o.path \in Seq(Seq(STRING))
        /\ o.path = << >> => o.cwd \in DOMAIN i.fs.names
        /\ {o.firstblocksize, o.firstblocks, o.x_cache_min_size, o.minsize} \subseteq Seq(Int)
        /\ o.buflimit \in Seq([number : Int, suffix : STRING])
        /\ {o.x_nofie, o.small_buffers} \subseteq BOOLEAN
        /\ o.ram \in Nat \ {0, 1}
        /\ \A dir \in DOMAIN i.fs.names :
             i.fs.extents[dir] \in Seq([fe_logical : Nat, fe_length : Nat, fe_physical : Nat])

VARIABLES
  options,
  phase,                   (* of the main thread                             *)
  start_path, next_path,   (* the paths, and the one the loop is at          *)
  using_fiemap, stats_fiemap_total_blocks,
  stats_time_scan, stats_process_duration,
  status                   (* the status thread                              *)

mainvars == <<options, phase, start_path, next_path, using_fiemap, stats_fiemap_total_blocks>>
timevars == <<stats_time_scan, stats_process_duration, status>>
vars == <<fs, gone, settings, walkvars, treevars, countvars, queue, addvars, exited,
          mainvars, timevars>>

Init ==
  /\ WalkInit
  /\ \E i \in Instances : fs = i.fs /\ options = i.options
  /\ settings = [threaded_sizetree |-> TRUE]
  /\ phase = "args" /\ start_path = << >> /\ next_path = 1
  /\ using_fiemap = FALSE /\ stats_fiemap_total_blocks = 0
  /\ stats_time_scan = -1 /\ stats_process_duration = -1
  /\ status = "not started"

Main(from) == exited = "none" /\ phase = from
NotWalking == UNCHANGED <<fs, gone, settings, walkvars, treevars, countvars, queue, addvars>>

Directories == {path \in DOMAIN fs.kind : Exists(path) /\ fs.kind[path] = "dir"}

\* main() up to scan().
ProcessArgs ==
  LET st == start_paths(options.path, options.cwd, Directories)
      s  == process_args(options, options.ram)
  IN  /\ Main("args")
      /\ settings' = s
      /\ start_path' = st.paths /\ using_fiemap' = s.using_fiemap
      /\ CASE st.state = "exit" -> exited' = "path" /\ UNCHANGED <<phase, status>>
           [] st.state # "exit" /\ (BadArgument(options) \/ st.state = "START_PATH_ERROR") ->
                phase' = "end" /\ UNCHANGED <<exited, status>>
           [] OTHER -> /\ phase' = "fiemap" /\ UNCHANGED exited
                       /\ status' = IF s.log_level > 0 /\ s.log_level < L_PROGRESS
                                    THEN "counting" ELSE status
      /\ UNCHANGED <<fs, gone, walkvars, treevars, countvars, queue, addvars, options, next_path,
                     stats_fiemap_total_blocks, stats_time_scan, stats_process_duration>>

\* The sanity check: FIEMAP is given up when a start path has no first block.
CheckFiemap ==
  LET path == start_path[next_path]
      bl   == get_block_info_from_path(1, 1, TRUE, TRUE, fs.extents[path])
  IN  /\ Main("fiemap")
      /\ IF using_fiemap /\ next_path <= Len(start_path)
         THEN /\ next_path' = next_path + 1
              /\ IF Exists(path)
                 THEN /\ using_fiemap' = (bl[1].block # 0)
                      /\ stats_fiemap_total_blocks' =
                           stats_fiemap_total_blocks + Len(fs.extents[path])
                 ELSE UNCHANGED <<using_fiemap, stats_fiemap_total_blocks>>
              /\ UNCHANGED phase
         ELSE /\ next_path' = 1 /\ phase' = "paths"
              /\ UNCHANGED <<using_fiemap, stats_fiemap_total_blocks>>
      /\ NotWalking
      /\ UNCHANGED <<options, start_path, timevars, exited>>

\* The loop over the start paths.
NextPath ==
  /\ Main("paths") /\ next_path <= Len(start_path)
  /\ next_path' = next_path + 1
  /\ LET path == start_path[next_path]
     IN  IF Exists(path)
         THEN StartWalk(path) /\ phase' = "walk"
         ELSE UNCHANGED <<walkvars, treevars, phase>>
  /\ UNCHANGED <<fs, gone, settings, countvars, queue, addvars, options, start_path, using_fiemap,
                 stats_fiemap_total_blocks, timevars, exited>>

WalkStep == Main("walk") /\ Walk /\ UNCHANGED <<mainvars, timevars>>

EndWalk ==
  /\ Main("walk") /\ WalkOver
  /\ phase' = "paths"
  /\ NotWalking
  /\ UNCHANGED <<options, start_path, next_path, using_fiemap, stats_fiemap_total_blocks, timevars,
                 exited>>

\* scan_done() returns when the worker has taken the last file.
EndScan ==
  /\ Main("paths") /\ next_path > Len(start_path) /\ queue = << >>
  /\ phase' = "scanned"
  /\ stats_time_scan' \in Times
  /\ status' = IF status = "waiting for scan" THEN "counting" ELSE status
  /\ NotWalking
  /\ UNCHANGED <<options, start_path, next_path, using_fiemap, stats_fiemap_total_blocks,
                 stats_process_duration, exited>>

SetsFound == \E i, j \in 1 .. Len(added) : i # j /\ fs.size[added[i].path] = fs.size[added[j].path]

NothingSeen == s_total_files_seen = 0

\* scan() when no file was seen: it returns at once.
ReturnEarly ==
  /\ Main("scanned") /\ NothingSeen
  /\ phase' = "end" /\ stats_process_duration' = 0
  /\ NotWalking
  /\ UNCHANGED <<options, start_path, next_path, using_fiemap, stats_fiemap_total_blocks,
                 stats_time_scan, status, exited>>

(* sort_read_list() divides by the number of blocks; process_size_list() takes
   the time, if there is a set to process. *)
Process ==
  /\ Main("scanned") /\ ~NothingSeen
  /\ IF using_fiemap /\ stats_fiemap_total_blocks = 0 /\ ~SetsFound
     THEN exited' = "division by zero" /\ UNCHANGED <<phase, stats_process_duration>>
     ELSE /\ IF SetsFound THEN stats_process_duration' \in Times
             ELSE UNCHANGED stats_process_duration
          /\ phase' = "processed"
          /\ UNCHANGED exited
  /\ NotWalking
  /\ UNCHANGED <<options, start_path, next_path, using_fiemap, stats_fiemap_total_blocks,
                 stats_time_scan, status>>

Processed ==
  /\ Main("processed")
  /\ stats_process_duration' = IF stats_process_duration < 0 THEN 0 ELSE stats_process_duration
  /\ phase' = "joining"
  /\ NotWalking
  /\ UNCHANGED <<options, start_path, next_path, using_fiemap, stats_fiemap_total_blocks,
                 stats_time_scan, status, exited>>

\* report_stats(), when the status thread has ended.
Report ==
  /\ Main("joining") /\ status \in {"not started", "ended"}
  /\ LET files_accepted == s_total_files_seen - s_files_too_small - s_files_skip_notfile
                           - s_files_skip_error - s_files_skip_badsep
     IN  IF files_accepted # s_files_in_sizetree
         THEN exited' = "mismatch files_accepted" /\ UNCHANGED phase
         ELSE phase' = "end" /\ UNCHANGED exited
  /\ NotWalking
  /\ UNCHANGED <<options, start_path, next_path, using_fiemap, stats_fiemap_total_blocks, timevars>>

-----------------------------------------------------------------------------
\* scan_status(), running until the main thread returns from main().
StatusRuns(from) == exited = "none" /\ phase # "end" /\ status = from
NotMain == UNCHANGED <<mainvars, stats_time_scan, stats_process_duration, exited>> /\ NotWalking

StatusCounting ==
  /\ StatusRuns("counting")
  /\ status' = IF stats_time_scan = -1 THEN "waiting for scan" ELSE "showing sets"
  /\ NotMain

StatusSets ==
  /\ StatusRuns("showing sets")
  /\ status' = "waiting for sets"
  /\ NotMain

NoTimeout == FALSE /\ UNCHANGED vars      \* mutant of Timeout
\* pthread_cond_timedwait() returns: the time is over, or nothing happened.
Timeout ==
  /\ \/ StatusRuns("waiting for scan") /\ status' = "counting"
     \/ /\ StatusRuns("waiting for sets")
        /\ status' = IF stats_process_duration < 0 THEN "showing sets" ELSE "ended"
  /\ NotMain

-----------------------------------------------------------------------------
MainStep ==
  \/ ProcessArgs \/ CheckFiemap \/ NextPath \/ WalkStep \/ EndWalk \/ EndScan
  \/ ReturnEarly \/ Process \/ Processed \/ Report

StatusStep == StatusCounting \/ StatusSets \/ Timeout

Worker == WorkerAdd /\ UNCHANGED <<mainvars, timevars>>

Ended == (phase = "end" \/ exited # "none") /\ UNCHANGED vars

Next ==
  \/ MainStep \/ StatusStep \/ Worker
  \/ phase \notin {"args", "end"} /\ Vanish /\ UNCHANGED <<mainvars, timevars>>
  \/ Ended

Spec == Init /\ [][Next]_vars

(* The threads run, and a wait of a quarter of a second ends. *)
FairSpec == Spec /\ WF_vars(MainStep) /\ WF_vars(StatusStep) /\ WF_vars(Worker)

-----------------------------------------------------------------------------
(* What ScanSets and ReadHash assume of their constants is what the command
   line leads to, whatever is asked for; the amount of buffers is divided by
   buffer_limit. *)
SettingsMeetAssumptions ==
  phase \notin {"args", "end"} =>
    /\ settings.minimum_file_size > 0
    /\ settings.hash_one_block_size > 0
    /\ settings.buffer_limit > 0 /\ settings.cache_min_size > 0
    /\ start_path # << >> /\ Len(start_path) < MAX_START_PATH

(* The files a scan is for, told from the file system alone: those of which
   every directory on the way from a start path is taken, and their names. *)
Taken(name) == ~HasSeparator(name) /\ (settings.scan_hidden \/ ~IsHidden(name))
Wanted(path, start) ==
  LET Way == {p \in DOMAIN fs.kind : Below(p, start) /\ (p = path \/ Below(path, p))}
  IN  /\ path \in Way /\ fs.kind[path] = "file" /\ Len(path) < DUPD_PATH_MAX
      /\ \A p \in Way :
           /\ \E dir \in DOMAIN fs.names : \E name \in fs.names[dir] :
                p = Join(dir, name) /\ Taken(name)
           /\ settings.one_file_system /\ p # path => fs.dev[p] = fs.dev[start]

Given == added \o queue

(* No file is given to the size tree twice, from one start path or two, or
   without being one that was asked for; and unless files disappear, every one
   that was asked for is there in the end, if it is large enough. *)
FilesGivenOnce ==
  /\ \A i, j \in 1 .. Len(Given) : Given[i].path = Given[j].path => i = j
  /\ \A i \in 1 .. Len(Given) : \E s \in ToSet(start_path) : Wanted(Given[i].path, s)
  /\ phase \in {"scanned", "processed", "joining"} /\ gone = {} =>
       \A path \in DOMAIN fs.kind :
         (\E s \in ToSet(start_path) : Wanted(path, s)) =>
           \/ fs.size[path] < settings.minimum_file_size
           \/ \E i \in 1 .. Len(added) : added[i].path = path

(* Whenever a file's path is needed again it is rebuilt from the names of its
   directories: the result is the path under which the file was found. *)
PathsRebuilt ==
  \A i \in 1 .. Len(Given) : build_path(Given[i].name, Given[i].dir) = Given[i].path

(* The program's own final check, `mismatch files_accepted' (stats.c:170): every
   file seen is in the size tree or counted among those that were skipped. *)
CountsMatch == exited # "mismatch files_accepted"

(* The scan stops halfway for a path it cannot use, and fails its final check
   only when a file disappeared or has too long a path for the system; it never
   divides by the number of blocks when there are none. *)
StopsForReason ==
  \/ exited \in {"none", "path", "path too long"}
  \/ /\ exited = "mismatch files_accepted"
     /\ gone # {} \/ \E path \in DOMAIN fs.kind : Len(path) >= DUPD_PATH_MAX

(* The scan ends, and its status thread with it, whatever times are measured --
   but for one: a walk that took -1 milliseconds, the clock having been set
   back, passes for one that still goes on, and main() waits for the thread
   that waits for it. *)
ScanEnds == <>(phase = "end" \/ exited # "none" \/ (phase = "joining" /\ stats_time_scan = -1))
=============================================================================
