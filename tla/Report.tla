------------------------------- MODULE Report -------------------------------
(***************************************************************************)
(* src/report.c: the commands that read the database of duplicates, most   *)
(* of which look at the files again before they say what is a duplicate.   *)
(* What they print are records of printed; each has the numbers of changes *)
(* to files and of failed reads at the time that its command began.        *)
(***************************************************************************)
EXTENDS DupDb

CONSTANTS
  minimum_file_size

Separator == <<"FS">>

-----------------------------------------------------------------------------
(* get_known_duplicates(): the rows that contain the path as text are looked
   at in turn, until one has it among its paths. *)
HasPart(s, t) == \E i \in 0 .. Len(t) - Len(s) : SubSeq(t, i + 1, i + Len(s)) = s
Text(row) ==
  LET text[i \in 1 .. Len(row.paths)] ==
        IF i = 1 THEN row.paths[1] ELSE text[i - 1] \o Separator \o row.paths[i]
  IN  text[Len(row.paths)]

get_known_duplicates(path) ==
  LET own == {r \in dup.rows : HasPart(path, Text(r)) /\ path \in ToSet(r.paths)}
  IN  IF own = {} THEN << >>
      ELSE LET paths == (CHOOSE r \in own : \A o \in own : r.id <= o.id).paths
           IN  Only(paths, ToSet(paths) \ {path})

exclude_path_len == 0        \* as set by main.c, which never changes it
Excluded(path) ==
  LET prefix == SubSeq(job.exclude_path, 1, exclude_path_len)
  IN  job.exclude_path # << >> /\ IsPrefix(prefix, path)

Say(record) == printed' = printed \cup {record}

-----------------------------------------------------------------------------
(* dupd file, ls, uniques and dups go through files, dupd validate through
   the rows of the database: todo is what is left to visit. *)
Shown == [file |-> {"UNIQUE", "DUPLICATE"}, ls |-> {"UNIQUE", "DUPLICATE"},
          uniques |-> {"UNIQUE"}, dups |-> {"DUPLICATE"}]

Verifying == cmd \in DOMAIN Shown \cup {"validate"}

Visits(todo, since, errors, options) ==
  [todo |-> todo, since |-> since, errors |-> errors,
   hardlink_is_unique |-> options.hardlink_is_unique, exclude_path |-> options.exclude_path]

VerifyStart(c, todo, options) ==
  /\ Begin(c, "next", Visits(todo, Now, 0, options))
  /\ Opens(options.hardlink_is_unique)
  /\ UNCHANGED <<fsvars, cachevars, dbvars>>

FileStart(path, options) == VerifyStart("file", {path}, options)
WalkStart(c, below, options) == VerifyStart(c, below, options)
ValidateStart(options) == VerifyStart("validate", dup.rows, options)

\* reverify_duplicates(path, dups): it begins with the hash of path.
Reverify(path, dups, todo) ==
  /\ job' = [path |-> path, dups |-> dups, hash |-> << >>, inode |-> NoInode, status |-> << >>,
             todo |-> todo, since |-> job.since, errors |-> job.errors,
             hardlink_is_unique |-> job.hardlink_is_unique, exclude_path |-> job.exclude_path]
  /\ Goto("self")

\* walk_dir() and file_callback(); a walk passes over files that are gone.
Passed(path) == cmd # "file" /\ ~file_exists(path)

NextFile ==
  /\ cmd \in DOMAIN Shown /\ pc = "next"
  /\ \E path \in job.todo :
       LET dups == get_known_duplicates(path)
           todo == job.todo \ {path}
           Skip == job' = [job EXCEPT !.todo = todo] /\ Goto("next")
       IN  \/ Passed(path) /\ Skip /\ UNCHANGED printed
           \/ /\ ~Passed(path) /\ dups = << >> /\ Skip
              /\ IF "UNIQUE" \in Shown[cmd]
                 THEN Say([kind |-> "UNIQUE", path |-> path, dups |-> << >>, status |-> << >>,
                           since |-> job.since])
                 ELSE UNCHANGED printed
           \/ ~Passed(path) /\ dups # << >> /\ Reverify(path, dups, todo) /\ UNCHANGED printed
  /\ UNCHANGED <<fsvars, fd, cachevars, dbvars>>

NextRow ==
  /\ At("validate", "next")
  /\ \E row \in job.todo :
       /\ \A r \in job.todo : row.id <= r.id
       /\ Reverify(row.paths[1], Tail(row.paths), job.todo \ {row})
  /\ UNCHANGED <<fsvars, fd, printed, cachevars, dbvars>>

NextNone ==
  /\ Verifying /\ pc = "next" /\ job.todo = {}
  /\ cmd' = "none" /\ pc' = "none" /\ job' = NoJob /\ fd' = Closed /\ UNCHANGED ran
  /\ IF cmd = "validate" /\ job.errors = 0 THEN Say([kind |-> "VALID", since |-> job.since])
     ELSE UNCHANGED printed
  /\ UNCHANGED <<fsvars, cachevars, dbvars>>

-----------------------------------------------------------------------------
\* path itself: a file that cannot be opened, or looked at after, ends it all.
OpenSelf ==
  /\ Verifying /\ pc = "self"
  /\ IF file_exists(job.path)
     THEN Open(job.path) /\ Goto("read_self") /\ UNCHANGED <<job, printed>>
     ELSE Return
  /\ UNCHANGED <<fsvars, cachevars, dbvars>>

ReadFile ==
  /\ Verifying /\ pc \in {"read_self", "read"}
  /\ ReadPart
  /\ UNCHANGED <<cachevars, dbvars>>

SelfEnd ==
  /\ Verifying /\ pc = "read_self" /\ EndOfFile
  /\ job' = [job EXCEPT !.hash = fd.digest]
  /\ Goto("stat_self")
  /\ UNCHANGED <<fd, printed, cachevars, dbvars>>

StatSelf ==
  /\ Verifying /\ pc = "stat_self"
  /\ IF file_exists(job.path)
     THEN /\ job' = [job EXCEPT !.inode = Number(job.path)]
          /\ Goto("dup") /\ UNCHANGED <<fd, printed>>
     ELSE Return
  /\ UNCHANGED <<fsvars, cachevars, dbvars>>

(* The duplicates, one after the other.  Numbers of inodes are compared, not
   devices: a file of another device with the same number is called a link. *)
More == Len(job.status) < Len(job.dups)
Dup   == job.dups[Len(job.status) + 1]

Status(s) == job' = [job EXCEPT !.status = Append(@, s)] /\ Goto("dup") /\ fd' = Closed

StatDup ==
  /\ Verifying /\ pc = "dup" /\ More
  /\ \/ Excluded(Dup) /\ Status("EXCLUDE")
     \/ ~Excluded(Dup) /\ ~file_exists(Dup) /\ Status("NOTDUP")
     \/ ~Excluded(Dup) /\ file_exists(Dup) /\ Number(Dup) = job.inode /\ Status("HARDLINK")
     \/ /\ ~Excluded(Dup) /\ file_exists(Dup) /\ Number(Dup) # job.inode
        /\ Goto("open") /\ UNCHANGED <<job, fd>>
  /\ UNCHANGED <<fsvars, printed, cachevars, dbvars>>

\* is_duplicate()
OpenDup ==
  /\ Verifying /\ pc = "open"
  /\ IF file_exists(Dup) THEN Open(Dup) /\ Goto("read") /\ UNCHANGED job ELSE Status("NOTDUP")
  /\ UNCHANGED <<fsvars, printed, cachevars, dbvars>>

DupEnd ==
  /\ Verifying /\ pc = "read" /\ EndOfFile
  /\ Status(IF fd.digest = job.hash THEN "DUPLICATE" ELSE "NOTDUP")
  /\ UNCHANGED <<printed, cachevars, dbvars>>

LinksCount(s) == s \in {"DUPLICATE", "HARDLINK"}       \* mutant of Counts
Counts(s) == s = "DUPLICATE" \/ (s = "HARDLINK" /\ ~job.hardlink_is_unique)

current_dups == Cardinality({i \in 1 .. Len(job.status) : Counts(job.status[i])})

\* What the caller of reverify_duplicates() makes of their number.
Verified ==
  LET kind  == IF current_dups = 0 THEN "UNIQUE" ELSE "DUPLICATE"
      valid == current_dups = Len(job.dups)
      About(k) == [kind |-> k, path |-> job.path, dups |-> job.dups, status |-> job.status,
                   exclude_path |-> job.exclude_path,
                   hardlink_is_unique |-> job.hardlink_is_unique, since |-> job.since]
  IN  /\ Verifying /\ pc = "dup" /\ ~More
      /\ IF cmd = "validate"
         THEN IF valid THEN UNCHANGED printed ELSE Say(About("INVALID"))
         ELSE IF kind \in Shown[cmd] THEN Say(About(kind)) ELSE UNCHANGED printed
      /\ job' = Visits(job.todo, job.since,
                       job.errors + IF cmd = "validate" /\ ~valid THEN 1 ELSE 0, job)
      /\ Goto("next")
      /\ UNCHANGED <<fsvars, fd, cachevars, dbvars>>

-----------------------------------------------------------------------------
(* dupd report and dupd rmsh only read the database, all of it at once. *)
Tell(records) ==
  /\ cmd = "none" /\ printed' = records /\ ran' = ran + 1
  /\ UNCHANGED <<fsvars, cmd, pc, job, fd, cachevars, dbvars>>

Total(row) == row.count * row.each_size
Large(row) == Total(row) < 0 \/ Total(row) >= minimum_file_size     \* as a uint64_t

operation_report(hardlink_is_unique) ==
  /\ Opens(hardlink_is_unique)
  /\ Tell({[kind |-> "SET", paths |-> r.paths, total |-> Total(r), each_size |-> r.each_size,
            since |-> Now] : r \in {q \in dup.rows : Large(q)}})

(* dupd rmsh: a script that keeps the first path of every set. *)
KeepsNone(paths) == paths                              \* mutant of Removed
Removed(paths) == Tail(paths)

operation_shell_script(link, hardlink_is_unique) ==
  /\ Opens(hardlink_is_unique)
  /\ Tell({[kind |-> "SCRIPT", rm |-> Removed(r.paths), ln |-> link,
            kept |-> r.paths[1], since |-> Now] : r \in dup.rows})

ReportNext ==
  \/ NextFile \/ NextRow \/ NextNone \/ OpenSelf \/ ReadFile \/ SelfEnd \/ StatSelf
  \/ StatDup \/ OpenDup \/ DupEnd \/ Verified
=============================================================================
