-------------------------------- MODULE Dupd --------------------------------
(***************************************************************************)
(* Commands of dupd, one after the other, on one database and one cache,   *)
(* while other programs change files; any command may be killed between    *)
(* two of its steps.  main() of src/main.c runs one operation.             *)
(***************************************************************************)
EXTENDS Report

CONSTANTS
  Options,             (* hardlink_is_unique, exclude_path of a command      *)
  Links,               (* rmsh_link: "none", "soft", "hard"                  *)
  Asked,               (* paths that dupd file and dupd hash are given, and
                          those below the start path of dupd ls              *)
  Walks,               (* which of ls, uniques and dups are run: ls prints
                          what the others do                                 *)
  MaxCommands,         (* bounds: of commands, ...                           *)
  MaxEvents            (* ... and of commands and changes to files together  *)

ASSUME CommandsAssumption ==
  /\ Walks \subseteq {"ls", "uniques", "dups"}
  /\ {MaxCommands, MaxEvents} \subseteq Nat
  /\ \A disk \in Disks : Asked \subseteq DOMAIN disk.inode
  /\ \A options \in Options : options.hardlink_is_unique \in BOOLEAN

vars == <<fsvars, cmdvars, cachevars, dbvars>>

Init == FilesInit /\ CommandInit /\ CacheInit /\ DbInit

\* Operations that main() dispatches to.
Operation ==
  /\ ran < MaxCommands /\ ran + changes < MaxEvents
  /\ \/ \E options \in Options :
          \/ ScanStart(options.hardlink_is_unique)
          \/ RefreshStart(options.hardlink_is_unique)
          \/ operation_report(options.hardlink_is_unique)
          \/ \E link \in Links : operation_shell_script(link, options.hardlink_is_unique)
          \/ \E path \in Asked : FileStart(path, options)
          \/ \E c \in Walks : WalkStart(c, Asked, options)
          \/ ValidateStart(options)
     \/ /\ \/ \E path \in Asked : HashStart(path)
           \/ CacheListStart
           \/ CacheDelete
        /\ UNCHANGED dbvars

(* The command is killed.  SQLite rolls back what was not committed; a row
   that refresh had only deleted is lost. *)
Crash ==
  /\ cmd # "none"
  /\ Return
  /\ txn' = NoTxn
  /\ trust' = IF At("refresh", "insert") THEN "no" ELSE trust
  /\ UNCHANGED <<fsvars, cachevars, dup, scanned>>

\* Other programs.
FileChange ==
  /\ ran + changes < MaxEvents
  /\ \/ \E path \in Paths : Delete(path) /\ Trusted(TRUE) /\ UNCHANGED <<unsure, misread>>
     \/ \E path \in Paths, content \in Contents :
          \/ /\ Write(path, content) /\ Trusted(FALSE)
             /\ Shake({p \in Paths : inode[p] = inode[path]})
          \/ Create(path, content) /\ Trusted(FALSE) /\ Shake({path})
  /\ UNCHANGED <<cmdvars, cache, dup, txn, scanned>>

Next ==
  \/ Operation
  \/ CacheNext /\ UNCHANGED dbvars
  \/ DbNext
  \/ ReportNext
  \/ Crash
  \/ FileChange

Spec == Init /\ [][Next]_vars

-----------------------------------------------------------------------------
Existing(paths) == {p \in paths : file_exists(p)}

(* The rows of the database, at every moment of a scan or a refresh, also of
   one that was killed, are disjoint parts of what the last scan found, with
   the number of their paths and, unless it was more than an int holds when
   refresh rewrote the row, the size of the files (duplicate_to_db(),
   operation_refresh()). *)
RowsFromScan ==
  \A r \in Rows :
    /\ Len(r.paths) = r.count /\ r.count > 1 /\ Cardinality(ToSet(r.paths)) = r.count
    /\ \E s \in scanned : /\ ToSet(r.paths) \subseteq ToSet(s.paths)
                          /\ r.each_size \in {s.size, column_int(s.size)}
    /\ \A o \in Rows \ {r} : ToSet(o.paths) \cap ToSet(r.paths) = {}

(* However a scan ends that has deleted the old database, the new one has all
   the sets it found or none (begin_transaction() and commit_transaction()
   around scan()). *)
ScanAllOrNothing ==
  [][cmd = "scan" /\ pc \in {"create", "publish"} /\ cmd' = "none" =>
       \/ dup'.rows = {}
       \/ {ToSet(r.paths) : r \in dup'.rows} = {ToSet(s.paths) : s \in scanned}]_vars

(* When refresh has seen all rows, files that were in one row and still exist
   are in one row, though rows were rewritten while it read them; files that
   are deleted meanwhile do not matter, only ones made anew would. *)
RefreshKeepsSets ==
  [][At("refresh", "row") /\ RowsLeft = {} /\ cmd' = "none"
     /\ (trust # "no" \/ changes = job.since) =>
       \A r \in job.before :
         LET left == Existing(ToSet(r.paths))
         IN  Cardinality(left) > 1 => \E q \in dup.rows : left \subseteq ToSet(q.paths)]_vars

(* A hash that the cache would return for a file is that of its data, unless
   the file changed while dupd read it, or twice in a second (unsure), or a
   read of it failed before its end (misread).  It holds also when dupd hash
   was killed between the statements of cache_db_scrub_entry(). *)
Vouches(r) == file_exists(r.path) /\ r.path \notin unsure /\ Found(r.path)

CacheTruthful ==
  \A r \in cache.hashes : Vouches(r) /\ r.path \notin misread => r.hash = Data(r.path)

(* hash_fn(), told to read the entire file, returns "0 - On success" and "-1 -
   If unable to compute hash" (src/src/hash.h:61), so that what the cache
   vouches for is the hash of the file also when a read of it failed. *)
CacheOfWholeFiles ==
  \A r \in cache.hashes : Vouches(r) => r.hash = Data(r.path)

(* What a command says of files that do not change while it runs, when none of
   its reads fails, is true, no matter what happened since the scan: a file
   said to have a duplicate has one, which is no hard link to it when these do
   not count, and a set said to be invalid, or a database said to be valid, is.
   Only that a file is unique, which leaves out empty ones, and the sets of
   dupd report, depend on the scan.  Files that are called links are not read,
   so that it holds where no two of the files compared, on different devices,
   have inodes of the same number (report.c:260). *)
NumbersTell(paths) ==
  \A p, q \in Existing(paths) : Number(p) = Number(q) => inode[p] = inode[q]

Compared(r) == {r.path} \cup ToSet(r.dups)

Same(p, q) == file_exists(p) /\ file_exists(q) /\ Data(p) = Data(q)

SetHolds(paths) == \A p \in ToSet(paths) : Same(p, paths[1])

HasDuplicate(r) ==
  \E i \in 1 .. Len(r.dups) :
    /\ r.status[i] \in {"DUPLICATE", "HARDLINK"} /\ Same(r.path, r.dups[i])
    /\ r.hardlink_is_unique => inode[r.dups[i]] # inode[r.path]

IsInvalid(r) ==
  \/ ~SetHolds(<<r.path>> \o r.dups)
  \/ \E i \in 1 .. Len(r.dups) : r.status[i] \in {"EXCLUDE", "HARDLINK"}

IsUnique(r) ==
  trust # "no" /\ dup.hardlinks = "normal" /\ "EXCLUDE" \notin ToSet(r.status) =>
    \A q \in Paths \ {r.path} :
      Same(r.path, q) /\ Data(q) # << >> =>
        inode[q] = inode[r.path] /\ "HARDLINK" \in ToSet(r.status)

IsSameData(r) ==
  /\ trust # "no" => \A p, q \in Existing(ToSet(r.paths)) : Same(p, q)
  /\ trust = "exact" => SetHolds(r.paths)

Truth(r) ==
  /\ r.kind = "DUPLICATE" => (NumbersTell(Compared(r)) => HasDuplicate(r))
  /\ r.kind = "VALID"     => \A row \in dup.rows :
                                NumbersTell(ToSet(row.paths)) => SetHolds(row.paths)
  /\ r.kind = "INVALID"   => IsInvalid(r)
  /\ r.kind = "UNIQUE"    => (NumbersTell(Compared(r)) => IsUnique(r))
  /\ r.kind = "SET"       => IsSameData(r)

ClaimsAreTrue == \A r \in printed : r.since = Now => Truth(r)

(* As long as no file changed since the scan, or only by deletions that
   refresh has seen, the script of dupd rmsh deletes no content whole: every
   file is kept or the same as one that is. *)
ScriptKeepsContent ==
  LET scripts == {r \in printed : r.kind = "SCRIPT" /\ r.since = Now}
      gone    == UNION {ToSet(r.rm) : r \in scripts}
  IN  trust = "exact" =>
        /\ \A p \in Existing(Paths) : \E q \in Paths \ gone : Same(p, q)
        /\ \A r \in scripts : \A p \in ToSet(r.rm) :
             r.ln # "none" => r.kept \notin gone /\ Same(p, r.kept)

(* "Ignore any duplicates under PATH when reporting duplicates."
   (src/man/dupd.1:150) *)
OnlyExcludedIgnored ==
  \A r \in printed :
    r.kind \in {"DUPLICATE", "UNIQUE", "INVALID"} =>
      \A i \in 1 .. Len(r.status) : r.status[i] = "EXCLUDE" => IsPrefix(r.exclude_path, r.dups[i])
=============================================================================
