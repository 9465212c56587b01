------------------------------- MODULE CacheDb -------------------------------
(***************************************************************************)
(* The database of known hashes, src/dbops.c and src/cache.c, and dupd     *)
(* hash (operation_hash_file() of src/report.c), which uses it as the      *)
(* hashers of a scan do.  A hash is good for as long as size and time of   *)
(* change of the file are those recorded with it.                          *)
(***************************************************************************)
EXTENDS Command

CONSTANTS
  IntSize,            (* 2^32, of an int                                     *)
  cache_min_size

ASSUME IntSizeAssumption == IntSize \in Nat \ {0}

VARIABLES
  cache,    (* stage, and the rows of the two tables                         *)
  unsure,   (* the paths whose hash is perhaps not that of the file, because
               it changed while it was read, or again in the second of the
               change that the cache knows of; not known to dupd             *)
  misread   (* the paths whose hash is perhaps not that of the file, because
               a read of it failed; not known to dupd                        *)

cachevars == <<cache, unsure, misread>>

NoCache == [stage |-> 1, files |-> {}, hashes |-> {}]

CacheInit == cache = NoCache /\ unsure = {} /\ misread = {}

column_int(n) ==
  LET m == n % IntSize IN IF m < IntSize \div 2 THEN m ELSE m - IntSize

Size(path) == Len(Data(path))
FileRow(path, size, timestamp) == [path |-> path, size |-> size, timestamp |-> timestamp]

OfPath(rows, path) == {r \in rows : r.path = path}

-----------------------------------------------------------------------------
(* open_cache_database().  Both tables are made when there is no file, none
   when there is one, even if a command stopped in between. *)
AfterOpen ==
  \/ cmd = "scan"  /\ Goto("unlink") /\ UNCHANGED <<job, fd, printed>>
  \/ cmd = "hash"  /\ Goto("find") /\ UNCHANGED <<job, fd, printed>>
  \/ cmd = "cache" /\ Return

CacheOpen ==
  /\ pc = "open_cache"
  /\ IF cache.stage = 1
     THEN cache' = [cache EXCEPT !.stage = 2] /\ Goto("create_hashes") /\ UNCHANGED <<job, fd, printed>>
     ELSE AfterOpen /\ UNCHANGED cache
  /\ UNCHANGED <<fsvars, unsure, misread>>

CacheCreate ==
  /\ pc = "create_hashes"
  /\ cache' = [cache EXCEPT !.stage = 3]
  /\ AfterOpen
  /\ UNCHANGED <<fsvars, unsure, misread>>

CacheListStart == /\ Begin("cache", "open_cache", NoJob)
                  /\ UNCHANGED <<fsvars, cachevars>>

\* dupd cache --delete.
CacheDelete ==
  /\ cmd = "none" /\ cache.stage > 1
  /\ cache' = NoCache
  /\ ran' = ran + 1
  /\ UNCHANGED <<fsvars, cmd, pc, job, fd, printed, unsure, misread>>

-----------------------------------------------------------------------------
\* cache_db_find_entry_id(), by its results.
Outdated(path) ==
  \E r \in OfPath(cache.files, path) : r # FileRow(path, Size(path), ctime[inode[path]])
Found(path) == ~Outdated(path) /\ OfPath(cache.hashes, path) # {}

Stat(path) == [size |-> Size(path), timestamp |-> ctime[inode[path]]]

DeleteHashes(path) == [cache EXCEPT !.hashes = @ \ OfPath(@, path)]
UpdateFile(path, stat) ==
  [cache EXCEPT !.files = (@ \ OfPath(@, path))
                          \cup {FileRow(path, column_int(stat.size), stat.timestamp)}]

(* dupd hash *)
HashStart(path) ==
  /\ file_exists(path)
  /\ Begin("hash", IF Size(path) > cache_min_size THEN "open_cache" ELSE "open",
           [path |-> path, cached |-> Size(path) > cache_min_size, opened |-> Now,
            stat |-> Stat(path)])
  /\ UNCHANGED <<fsvars, cachevars>>

\* cache_db_find_entry(): a file of which the hash is not known is read.
HashFind ==
  LET known == OfPath(cache.files, job.path) # {} IN
  /\ At("hash", "find")
  /\ IF ~file_exists(job.path) \/ (known /\ (cache.stage < 3 \/ Found(job.path)))
     THEN Return
     ELSE /\ job' = [job EXCEPT !.stat = Stat(job.path)]
          /\ Goto(IF known /\ Outdated(job.path) THEN "scrub" ELSE "open")
          /\ UNCHANGED <<fd, printed>>
  /\ UNCHANGED <<fsvars, cachevars>>

(* cache_db_scrub_entry(): two statements, and no transaction here. *)
UpdateFirst == <<"update", "delete">>        \* mutant of ScrubOrder
ScrubOrder  == <<"delete", "update">>

Scrub(statement) ==
  IF statement = "delete" THEN DeleteHashes(job.path) ELSE UpdateFile(job.path, job.stat)

HashScrub ==
  /\ cmd = "hash" /\ pc \in {"scrub", "scrub_more"}
  /\ cache' = Scrub(ScrubOrder[IF pc = "scrub" THEN 1 ELSE 2])
  /\ Goto(IF pc = "scrub" THEN "scrub_more" ELSE "open")
  /\ UNCHANGED <<fsvars, job, fd, printed, unsure, misread>>

HashOpen ==
  /\ At("hash", "open")
  /\ IF file_exists(job.path)
     THEN /\ Open(job.path) /\ Goto("read")
          /\ job' = [job EXCEPT !.opened = Now] /\ UNCHANGED printed
     ELSE Return
  /\ UNCHANGED <<fsvars, cachevars>>

HashRead == At("hash", "read") /\ ReadPart /\ UNCHANGED cachevars

HashReadEnd ==
  /\ At("hash", "read") /\ EndOfFile
  /\ IF job.cached THEN Goto("add") /\ UNCHANGED <<job, fd, printed>> ELSE Return
  /\ UNCHANGED cachevars

\* cache_db_add_entry() looks at the file before it waits for the lock, ...
HashAdd ==
  /\ At("hash", "add")
  /\ IF file_exists(job.path)
     THEN job' = [job EXCEPT !.stat = Stat(job.path)] /\ Goto("commit") /\ UNCHANGED <<fd, printed>>
     ELSE Return
  /\ UNCHANGED <<fsvars, cachevars>>

\* ... and again in its transaction.
HashCommit ==
  LET path == job.path
      row  == [path |-> path, hash |-> fd.digest]
  IN  /\ At("hash", "commit")
      /\ IF ~file_exists(path) \/ cache.stage < 3 \/ Found(path)
         THEN UNCHANGED cachevars
         ELSE /\ cache' = IF Outdated(path)
                          THEN [UpdateFile(path, Stat(path)) EXCEPT
                                  !.hashes = (@ \ OfPath(@, path)) \cup {row}]
                          ELSE [cache EXCEPT
                                  !.files = @ \cup IF OfPath(@, path) # {} THEN {}
                                    ELSE {FileRow(path, job.stat.size, job.stat.timestamp)},
                                  !.hashes = @ \cup {row}]
              /\ unsure'  = (unsure \ {path}) \cup
                              IF changes = job.opened.changes THEN {} ELSE {path}
              /\ misread' = (misread \ {path}) \cup
                              IF failures = job.opened.failures THEN {} ELSE {path}
      /\ Return
      /\ UNCHANGED fsvars

CacheNext ==
  \/ CacheOpen \/ CacheCreate \/ HashFind \/ HashScrub \/ HashOpen \/ HashRead \/ HashReadEnd
  \/ HashAdd \/ HashCommit

(* A file of these paths changes. *)
Shake(paths) ==
  /\ unsure' = unsure \cup {p \in paths : \E r \in OfPath(cache.files, p) : r.timestamp = clock'}
  /\ UNCHANGED misread
=============================================================================
