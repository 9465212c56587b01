----------------------------- MODULE DupdProofs -----------------------------
(***************************************************************************)
(* What holds of the databases of dupd, for any files, any number of       *)
(* commands and changes, and commands killed anywhere: the cache never     *)
(* vouches for a wrong hash of a file that did not change under dupd's     *)
(* eyes and that it could read to the end, a scan leaves all the sets it   *)
(* found or none, the rows are disjoint parts of what the last scan found, *)
(* a refresh keeps together what was together and still exists, the script *)
(* of dupd rmsh deletes no content whole, and what the reports say of      *)
(* files is true, when no read failed and no two of the files compared are *)
(* on different devices with inodes of the same number.                    *)
(***************************************************************************)
EXTENDS Dupd, FiniteSetTheorems, SequenceTheorems, WellFoundedInduction, TLAPS

-----------------------------------------------------------------------------
(* The cache.  A time on record is never later than the last change of the
   path's file, since a path only ever gets files that are younger. *)
FsInv ==
  /\ inode \in [Paths -> Inodes \cup {NoInode}]
  /\ data \in [Inodes -> Contents]
  /\ ctime \in [Inodes -> Nat] /\ clock \in Nat /\ changes \in Nat /\ failures \in Nat
  /\ \A i \in Inodes : ctime[i] <= clock
  /\ Asked \subseteq Paths

Known(t, path) ==
  /\ path \in Paths /\ t \in Nat /\ t <= clock
  /\ file_exists(path) => t <= ctime[inode[path]]

RowsInv ==
  /\ cache = [stage |-> cache.stage, files |-> cache.files, hashes |-> cache.hashes]
  /\ \A r \in cache.files : /\ Known(r.timestamp, r.path)
                            /\ r = FileRow(r.path, r.size, r.timestamp)
  /\ \A r \in cache.hashes : r.path \in Paths /\ OfPath(cache.files, r.path) # {}

UpToDate(path) ==
  \A r \in cache.files :
    r.path = path => r.size = Size(path) /\ r.timestamp = ctime[inode[path]]

\* The paths of which nothing is claimed.
Doubted == unsure \cup misread

Truthful ==
  \A r \in cache.hashes :
    file_exists(r.path) /\ r.path \notin Doubted /\ UpToDate(r.path) => r.hash = Data(r.path)

(* dupd hash.  As long as no file changed and no read failed since it opened
   its own, what it read of that is what the file has. *)
Moment == [changes : Nat, failures : Nat]

Past(t) == t \in Moment /\ t.changes <= changes /\ t.failures <= failures

HashJob == [path : Paths, cached : BOOLEAN, opened : Moment, stat : [size : Nat, timestamp : Nat]]

ReadSoFar(digest, content) ==
  /\ digest \in Seq(Nat) /\ Len(digest) <= Len(content)
  /\ \A k \in 1 .. Len(digest) : digest[k] = content[k]

FdInv ==
  /\ Past(job.opened)
  /\ job.opened = Now =>
       /\ file_exists(job.path) /\ fd.inode = inode[job.path]
       /\ IF pc = "read" THEN ReadSoFar(fd.digest, Data(job.path))
          ELSE fd.digest = Data(job.path)

HashInv ==
  cmd = "hash" =>
    /\ job \in HashJob /\ Known(job.stat.timestamp, job.path)
    /\ fd = [inode |-> fd.inode, digest |-> fd.digest]
    /\ pc = "scrub_more" => OfPath(cache.hashes, job.path) = {}
    /\ pc \in {"read", "add", "commit"} => FdInv

CacheInv == FsInv /\ RowsInv /\ Truthful /\ HashInv

-----------------------------------------------------------------------------
\* What the invariant says of the rows makes the cache truthful.
LEMMA InvTruthful == CacheInv => CacheTruthful
  <1> SUFFICES ASSUME CacheInv, NEW r \in cache.hashes,
                      file_exists(r.path), r.path \notin Doubted, Found(r.path)
               PROVE  r.hash = Data(r.path)
    BY DEF CacheTruthful, Vouches, Doubted
  <1>1. ASSUME NEW f \in cache.files, f.path = r.path
        PROVE  f.size = Size(r.path) /\ f.timestamp = ctime[inode[r.path]]
    <2>1. f = FileRow(r.path, Size(r.path), ctime[inode[r.path]])
      BY <1>1 DEF Found, Outdated, OfPath
    <2> QED BY <2>1 DEF FileRow
  <1> QED BY <1>1 DEF CacheInv, Truthful, UpToDate

(* The data of a file that exists. *)
LEMMA DataTyped ==
  ASSUME FsInv, NEW path \in Paths, file_exists(path)
  PROVE  inode[path] \in Inodes /\ Data(path) \in Seq(Nat)
         /\ Size(path) \in Nat /\ ctime[inode[path]] \in Nat
         /\ ctime[inode[path]] <= clock
  BY FilesAssumption DEF FsInv, file_exists, Data, Size, NoInode

(* The time of a file that exists may be put on record. *)
LEMMA StatTyped ==
  ASSUME FsInv, NEW path \in Paths, file_exists(path)
  PROVE  Stat(path) \in [size : Nat, timestamp : Nat] /\ Known(Stat(path).timestamp, path)
  BY DataTyped DEF Stat, Known

\* A moment that has passed is no longer now when a file changes or a read fails.
LEMMA MomentPasses ==
  ASSUME FsInv, NEW t, Past(t),
         \/ changes' = changes + 1 /\ failures' = failures
         \/ changes' = changes /\ failures' = failures + 1
  PROVE  Past(t)' /\ t # Now'
  BY DEF FsInv, Past, Moment, Now

\* Now is a moment.
LEMMA NowPast ==
  ASSUME FsInv
  PROVE  Past(Now)
  BY DEF FsInv, Past, Moment, Now

-----------------------------------------------------------------------------
(* A step that changes nothing of what the files and the rows of the cache
   are; a read may fail. *)
Quiet ==
  /\ UNCHANGED <<inode, data, ctime, clock, changes, Doubted>>
  /\ failures' \in {failures, failures + 1}
  /\ cache' = [stage |-> cache'.stage, files |-> cache'.files, hashes |-> cache'.hashes]
  /\ cache'.files = cache.files /\ cache'.hashes = cache.hashes

\* A step that leaves files and cache alone is quiet.
LEMMA UnchangedQuiet ==
  ASSUME CacheInv, UNCHANGED <<inode, data, ctime, clock, changes, cache, Doubted>>,
         failures' \in {failures, failures + 1}
  PROVE  Quiet
  BY DEF CacheInv, RowsInv, Quiet

\* A quiet step keeps what is known of files and rows.
LEMMA QuietKeeps ==
  ASSUME CacheInv, Quiet
  PROVE  FsInv' /\ RowsInv' /\ Truthful'
  <1>1. FsInv'
    BY DEF CacheInv, Quiet, FsInv, Paths
  <1>2. RowsInv'
    BY DEF CacheInv, Quiet, RowsInv, Known, file_exists, Paths, OfPath, FileRow
  <1>3. Truthful'
    BY DEF CacheInv, Quiet, Truthful, UpToDate, file_exists, Size, Data
  <1> QED BY <1>1, <1>2, <1>3

\* A quiet step of a command that hashes nothing keeps the invariant.
LEMMA IdleKeeps ==
  ASSUME CacheInv, Quiet, cmd' # "hash"
  PROVE  CacheInv'
  BY QuietKeeps DEF CacheInv, HashInv

\* A quiet step of hash_fn_cached() keeps it if the job stays right.
LEMMA HashKeeps ==
  ASSUME CacheInv, Quiet,
         job' \in HashJob, Known(job'.stat.timestamp, job'.path),
         fd' = [inode |-> fd'.inode, digest |-> fd'.digest],
         pc' = "scrub_more" => OfPath(cache.hashes, job'.path) = {},
         pc' \in {"read", "add", "commit"} => FdInv'
  PROVE  CacheInv'
  <1>1. (job \in HashJob)' /\ Known(job.stat.timestamp, job.path)'
    BY DEF Quiet, HashJob, Known, file_exists, Paths
  <1>2. (pc = "scrub_more" => OfPath(cache.hashes, job.path) = {})'
    BY DEF Quiet, OfPath
  <1> QED BY QuietKeeps, <1>1, <1>2 DEF CacheInv, HashInv

-----------------------------------------------------------------------------
(* Other programs: file i changes.  A path that leads to i afterwards did so
   before and the data is the same, or the cache's knowledge of it is shaken. *)
Shaken(path) == (\E r \in OfPath(cache.files, path) : r.timestamp = clock') => path \in Doubted'

Touch(i) ==
  /\ i \in Inodes /\ changes' = changes + 1 /\ failures' = failures
  /\ clock' \in Nat /\ clock' >= clock
  /\ ctime' = [ctime EXCEPT ![i] = clock']
  /\ inode' \in [Paths -> Inodes \cup {NoInode}] /\ data' \in [Inodes -> Contents]
  /\ cache' = cache /\ Doubted \subseteq Doubted'
  /\ \A p \in Paths :
       \/ inode'[p] = NoInode
       \/ inode'[p] = inode[p] /\ inode'[p] # i /\ data'[inode[p]] = data[inode[p]]
       \/ inode'[p] = i /\ inode[p] = i /\ data'[i] = data[i]
       \/ inode'[p] = i /\ Shaken(p)

\* A change dates the inode by the clock, which never goes back.
LEMMA ChangedTyped ==
  ASSUME FsInv, NEW i \in Inodes, Changed(i)
  PROVE  /\ changes' = changes + 1 /\ failures' = failures
         /\ clock' \in Nat /\ clock' >= clock
         /\ ctime' = [ctime EXCEPT ![i] = clock']
  BY DEF FsInv, Changed

\* Whatever changes the files touches one inode.
LEMMA FileChangeTouches ==
  ASSUME FsInv, FileChange
  PROVE  \E i \in Inodes : Touch(i)
  <1>1. cache' = cache
    BY DEF FileChange
  <1>2. ASSUME NEW path \in Paths, Delete(path), UNCHANGED <<unsure, misread>>
        PROVE  \E i \in Inodes : Touch(i)
    <2> DEFINE i == inode[path]
    <2>1. i \in Inodes /\ Changed(i)
      BY <1>2, DataTyped DEF Delete
    <2>2. Touch(i)
      BY <1>1, <1>2, <2>1, ChangedTyped DEF Delete, FsInv, Touch, Paths, Doubted
    <2> QED BY <2>1, <2>2
  <1>3. ASSUME NEW path \in Paths, NEW content \in Contents, Write(path, content),
               Shake({p \in Paths : inode[p] = inode[path]})
        PROVE  \E i \in Inodes : Touch(i)
    <2> DEFINE i == inode[path]
    <2>1. i \in Inodes /\ Changed(i)
      BY <1>3, DataTyped DEF Write
    <2>2. \A p \in Paths : inode[p] = i => Shaken(p)
      BY <1>3 DEF Shake, Shaken, Doubted
    <2>3. Doubted \subseteq Doubted'
      BY <1>3 DEF Shake, Doubted
    <2>4. Touch(i)
      BY <1>1, <1>3, <2>1, <2>2, <2>3, ChangedTyped DEF Write, FsInv, Touch, Paths
    <2> QED BY <2>1, <2>4
  <1>4. ASSUME NEW path \in Paths, NEW content \in Contents, Create(path, content), Shake({path})
        PROVE  \E i \in Inodes : Touch(i)
    <2>1. PICK i \in Inodes \ {inode[p] : p \in Paths} :
            /\ Changed(i) /\ inode' = [inode EXCEPT ![path] = i]
            /\ data' = [data EXCEPT ![i] = content]
      BY <1>4 DEF Create
    <2>2. Shaken(path) /\ Doubted \subseteq Doubted'
      BY <1>4 DEF Shake, Shaken, Doubted
    <2>3. Touch(i)
      BY <1>1, <2>1, <2>2, ChangedTyped DEF FsInv, Touch, Paths
    <2> QED BY <2>1, <2>3
  <1> QED BY <1>2, <1>3, <1>4 DEF FileChange

\* Times known of paths stay in the past.
LEMMA TouchKeepsKnown ==
  ASSUME FsInv, NEW i, Touch(i), NEW t, NEW path, Known(t, path)
  PROVE  Known(t, path)'
  BY DEF FsInv, Touch, Known, file_exists, Paths

\* A touch leaves a file system that makes sense.
LEMMA TouchKeepsFs ==
  ASSUME FsInv, NEW i, Touch(i)
  PROVE  FsInv'
  <1>1. Paths' = Paths
    BY DEF Touch, Paths
  <1>2. ctime' \in [Inodes -> Nat] /\ \A j \in Inodes : ctime'[j] <= clock'
    BY DEF FsInv, Touch
  <1> QED BY <1>1, <1>2 DEF FsInv, Touch

\* Rows stay truthful: what is touched has a later time, or is unsure.
LEMMA TouchKeepsTruth ==
  ASSUME FsInv, RowsInv, Truthful, NEW i, Touch(i)
  PROVE  Truthful'
  <1> SUFFICES ASSUME NEW r \in cache.hashes,
                      file_exists(r.path)', r.path \notin Doubted', UpToDate(r.path)'
               PROVE  r.hash = Data(r.path)'
    BY DEF Truthful, Touch
  <1>1. r.path \in Paths
    BY DEF RowsInv
  <1>2. PICK f \in cache.files : f.path = r.path
    BY DEF RowsInv, OfPath
  <1>3. f.timestamp \in Nat /\ (file_exists(r.path) => f.timestamp <= ctime[inode[r.path]])
    BY <1>2 DEF RowsInv, Known
  <1>4. f.timestamp = ctime'[inode'[r.path]]
    BY <1>2 DEF UpToDate, Touch
  <1>5. CASE inode'[r.path] = inode[r.path] /\ inode'[r.path] # i
             /\ data'[inode[r.path]] = data[inode[r.path]]
    <2>1. file_exists(r.path) /\ ctime'[inode'[r.path]] = ctime[inode[r.path]]
      BY <1>1, <1>5 DEF file_exists, Touch, FsInv
    <2>2. UpToDate(r.path)
      BY <1>5, <2>1 DEF UpToDate, Touch, Size, Data
    <2> QED BY <1>5, <2>1, <2>2 DEF Truthful, Touch, Data
  <1>6. CASE inode'[r.path] = i /\ inode[r.path] = i /\ data'[i] = data[i]
    <2>1. file_exists(r.path) /\ ctime'[i] = clock'
      BY <1>6 DEF file_exists, Touch, FsInv
    <2>2. ctime[i] = clock'
      BY <1>3, <1>4, <1>6, <2>1 DEF Touch, FsInv
    <2>3. UpToDate(r.path)
      BY <1>6, <2>1, <2>2 DEF UpToDate, Touch, Size, Data
    <2> QED BY <1>6, <2>1, <2>3 DEF Truthful, Touch, Data
  <1>7. CASE inode'[r.path] = i /\ Shaken(r.path)
    <2>1. f.timestamp = clock'
      BY <1>4, <1>7 DEF Touch, FsInv
    <2> QED BY <1>2, <1>7, <2>1 DEF Shaken, OfPath
  <1> QED BY <1>1, <1>5, <1>6, <1>7 DEF Touch, file_exists

\* Files may change at any step of a command.
LEMMA FileChangeKeeps ==
  ASSUME CacheInv, FileChange
  PROVE  CacheInv'
  <1>1. PICK i \in Inodes : Touch(i)
    BY FileChangeTouches DEF CacheInv
  <1>2. UNCHANGED <<cmd, pc, job, fd>>
    BY DEF FileChange, cmdvars
  <1>3. Paths' = Paths /\ cache' = cache /\ changes' = changes + 1 /\ failures' = failures
    BY <1>1 DEF Touch, Paths, CacheInv, FsInv
  <1>4. ASSUME NEW t, NEW path, Known(t, path) PROVE Known(t, path)'
    BY <1>1, <1>4, TouchKeepsKnown DEF CacheInv
  <1>5. RowsInv'
    BY <1>3, <1>4 DEF CacheInv, RowsInv, OfPath, FileRow
  <1>6. HashInv'
    <2> SUFFICES ASSUME cmd = "hash" PROVE HashInv'
      BY <1>2 DEF HashInv
    <2>1. /\ job \in HashJob /\ Known(job.stat.timestamp, job.path)
          /\ fd = [inode |-> fd.inode, digest |-> fd.digest]
          /\ pc = "scrub_more" => OfPath(cache.hashes, job.path) = {}
          /\ pc \in {"read", "add", "commit"} => Past(job.opened)
      BY DEF CacheInv, HashInv, FdInv
    <2>2. job'\in HashJob' /\ Known(job.stat.timestamp, job.path)'
      BY <1>2, <1>3, <1>4, <2>1 DEF HashJob
    <2>3. Past(job.opened) => Past(job.opened)' /\ job'.opened # Now'
      BY <1>2, <1>3, MomentPasses DEF CacheInv, Past
    <2>4. pc' \in {"read", "add", "commit"} => FdInv'
      BY <1>2, <2>1, <2>3 DEF FdInv
    <2>5. (fd = [inode |-> fd.inode, digest |-> fd.digest])'
      BY <1>2, <2>1
    <2>6. (pc = "scrub_more" => OfPath(cache.hashes, job.path) = {})'
      BY <1>2, <1>3, <2>1 DEF OfPath
    <2> QED BY <2>2, <2>4, <2>5, <2>6 DEF HashInv
  <1> QED BY <1>1, <1>5, <1>6, TouchKeepsFs, TouchKeepsTruth DEF CacheInv

-----------------------------------------------------------------------------
(* The steps of dupd hash that leave the cache alone. *)
LEMMA HashStartKeeps ==
  ASSUME CacheInv, NEW path \in Asked, HashStart(path)
  PROVE  CacheInv'
  <1>1. path \in Paths /\ file_exists(path)
    BY DEF HashStart, CacheInv, FsInv
  <1>2. Quiet
    BY UnchangedQuiet DEF HashStart, cachevars, fsvars, Doubted
  <1>3. /\ job' = [path |-> path, cached |-> Size(path) > cache_min_size, opened |-> Now,
                   stat |-> Stat(path)]
        /\ fd' = Closed /\ pc' \in {"open_cache", "open"}
    BY DEF HashStart, Begin
  <1>4. job' \in HashJob /\ Known(job'.stat.timestamp, job'.path)
    BY <1>1, <1>3, StatTyped, NowPast DEF CacheInv, HashJob, Past
  <1> QED BY <1>2, <1>3, <1>4, HashKeeps DEF Closed

\* The steps of hash_fn_cached(): looking the hash up,
LEMMA HashFindKeeps ==
  ASSUME CacheInv, HashFind
  PROVE  CacheInv'
  <1>1. Quiet
    BY UnchangedQuiet DEF HashFind, cachevars, fsvars, Doubted
  <1>2. CASE Return
    BY <1>1, <1>2, IdleKeeps DEF Return
  <1>3. CASE ~Return
    <2>1. /\ cmd = "hash" /\ file_exists(job.path)
          /\ job' = [job EXCEPT !.stat = Stat(job.path)]
          /\ pc' \in {"scrub", "open"} /\ fd' = fd
      BY <1>3 DEF HashFind, At, Goto
    <2>2. job \in HashJob /\ job.path \in Paths /\ fd = [inode |-> fd.inode, digest |-> fd.digest]
      BY <2>1 DEF CacheInv, HashInv, HashJob
    <2>3. job' \in HashJob /\ Known(job'.stat.timestamp, job'.path)
      BY <2>1, <2>2, StatTyped DEF CacheInv, HashJob
    <2> QED BY <1>1, <2>1, <2>2, <2>3, HashKeeps
  <1> QED BY <1>2, <1>3

\* opening the file,
LEMMA HashOpenKeeps ==
  ASSUME CacheInv, HashOpen
  PROVE  CacheInv'
  <1>1. Quiet
    BY UnchangedQuiet DEF HashOpen, cachevars, fsvars, Doubted
  <1>2. CASE Return
    BY <1>1, <1>2, IdleKeeps DEF Return
  <1>3. CASE ~Return
    <2>1. /\ cmd = "hash" /\ file_exists(job.path)
          /\ job' = [job EXCEPT !.opened = Now]
          /\ pc' = "read" /\ fd' = [inode |-> inode[job.path], digest |-> << >>]
      BY <1>3 DEF HashOpen, At, Goto, Open, hash_fn_buf_init
    <2>2. job \in HashJob /\ job.path \in Paths /\ Known(job.stat.timestamp, job.path)
      BY <2>1 DEF CacheInv, HashInv, HashJob
    <2>3. job' \in HashJob /\ job'.path = job.path /\ job'.stat = job.stat /\ job'.opened = Now
      BY <2>1, <2>2, NowPast DEF CacheInv, Past, HashJob
    <2>4. UNCHANGED <<inode, data, changes, failures>>
      BY DEF HashOpen, fsvars
    <2>5. Data(job.path) \in Seq(Nat)
      BY <2>1, <2>2, DataTyped DEF CacheInv
    <2>6. ReadSoFar(<< >>, Data(job.path))
      BY <2>5 DEF ReadSoFar
    <2>7. FdInv'
      BY <2>1, <2>3, <2>4, <2>6, NowPast
         DEF FdInv, ReadSoFar, file_exists, Data, CacheInv, Past, Now
    <2> QED BY <1>1, <2>1, <2>2, <2>3, <2>7, HashKeeps
  <1> QED BY <1>2, <1>3

\* reading a part of it,
LEMMA HashReadKeeps ==
  ASSUME CacheInv, HashRead
  PROVE  CacheInv'
  <1>1. Quiet
    BY UnchangedQuiet DEF HashRead, ReadPart, cachevars, fsvars, Doubted
  <1>2. /\ cmd = "hash" /\ pc = "read" /\ pc' = "read" /\ job' = job
        /\ UNCHANGED <<inode, data, changes, failures>>
        /\ NextPart # << >> /\ fd' = [fd EXCEPT !.digest = fd.digest \o NextPart]
    BY DEF HashRead, At, ReadPart, hash_fn_buf_update, fsvars
  <1>3. /\ job \in HashJob /\ Known(job.stat.timestamp, job.path) /\ FdInv
        /\ fd = [inode |-> fd.inode, digest |-> fd.digest]
    BY <1>2 DEF CacheInv, HashInv
  <1>4. fd' = [inode |-> fd.inode, digest |-> fd.digest \o NextPart]
    BY <1>2, <1>3
  <1>5. ASSUME job.opened = Now
        PROVE  ReadSoFar(fd.digest \o NextPart, Data(job.path))
    <2>1. /\ file_exists(job.path) /\ fd.inode = inode[job.path]
          /\ ReadSoFar(fd.digest, Data(job.path))
      BY <1>2, <1>3, <1>5 DEF FdInv
    <2>2. job.path \in Paths /\ Data(job.path) \in Seq(Nat) /\ data[fd.inode] = Data(job.path)
      BY <1>3, <2>1, DataTyped DEF CacheInv, HashJob, Data
    <2>3. PICK read, content : read = fd.digest /\ content = Data(job.path)
      OBVIOUS
    <2>4. /\ read \in Seq(Nat) /\ content \in Seq(Nat) /\ Len(read) + 1 \in 1 .. Len(content)
          /\ NextPart = <<content[Len(read) + 1]>>
          /\ \A k \in 1 .. Len(read) : read[k] = content[k]
      BY <1>2, <2>1, <2>2, <2>3 DEF NextPart, ReadSoFar
    <2>5. ReadSoFar(read \o <<content[Len(read) + 1]>>, content)
      BY <2>4 DEF ReadSoFar
    <2> QED BY <2>3, <2>4, <2>5
  <1>6. FdInv'
    BY <1>2, <1>3, <1>4, <1>5 DEF FdInv, file_exists, Data, ReadSoFar, Past, Now
  <1> QED BY <1>1, <1>2, <1>3, <1>4, <1>6, HashKeeps

(* All of a file read is the file. *)
LEMMA ReadAll ==
  ASSUME NEW digest, NEW content \in Seq(Nat), ReadSoFar(digest, content),
         Len(digest) = Len(content)
  PROVE  digest = content
  <1>1. digest \in [1 .. Len(content) -> Nat] /\ content \in [1 .. Len(content) -> Nat]
    BY DEF ReadSoFar
  <1>2. \A k \in 1 .. Len(content) : digest[k] = content[k]
    BY DEF ReadSoFar
  <1> QED BY <1>1, <1>2

\* reading its end,
LEMMA HashReadEndKeeps ==
  ASSUME CacheInv, HashReadEnd
  PROVE  CacheInv'
  <1>1. Quiet
    BY UnchangedQuiet DEF HashReadEnd, EndOfFile, cachevars, fsvars, Doubted
  <1>2. CASE Return
    BY <1>1, <1>2, IdleKeeps DEF Return
  <1>3. CASE ~Return
    <2>1. /\ cmd = "hash" /\ pc = "read" /\ pc' = "add"
          /\ UNCHANGED <<job, fd, inode, data, changes>>
      BY <1>3 DEF HashReadEnd, At, Goto, EndOfFile, fsvars
    <2>2. /\ job \in HashJob /\ Known(job.stat.timestamp, job.path) /\ FdInv
          /\ fd = [inode |-> fd.inode, digest |-> fd.digest]
      BY <2>1 DEF CacheInv, HashInv
    <2>3. Past(job.opened)
      BY <2>2 DEF FdInv
    <2>4. ASSUME failures' = failures + 1 PROVE FdInv'
      <3>1. Past(job.opened)' /\ job'.opened # Now'
        BY <2>1, <2>3, <2>4, MomentPasses DEF CacheInv, Past
      <3> QED BY <3>1 DEF FdInv
    <2>5. ASSUME NextPart = << >>, failures' = failures PROVE FdInv'
      <3>1. SUFFICES ASSUME job.opened = Now
                     PROVE  file_exists(job.path) /\ fd.inode = inode[job.path]
                            /\ fd.digest = Data(job.path)
        BY <2>1, <2>3, <2>5 DEF FdInv, file_exists, Data, Past, Now
      <3>2. /\ file_exists(job.path) /\ fd.inode = inode[job.path]
            /\ ReadSoFar(fd.digest, Data(job.path))
        BY <2>1, <2>2, <3>1 DEF FdInv
      <3>3. Data(job.path) \in Seq(Nat) /\ data[fd.inode] = Data(job.path)
        BY <2>2, <3>2, DataTyped DEF CacheInv, HashJob, Data
      <3>4. Len(fd.digest) = Len(Data(job.path))
        BY <2>5, <3>2, <3>3 DEF NextPart, ReadSoFar
      <3> QED BY <3>2, <3>3, <3>4, ReadAll
    <2>6. FdInv'
      BY <2>4, <2>5 DEF HashReadEnd, EndOfFile, fsvars
    <2> QED BY <1>1, <2>1, <2>2, <2>6, HashKeeps
  <1> QED BY <1>2, <1>3

\* and adding the row.
LEMMA HashAddKeeps ==
  ASSUME CacheInv, HashAdd
  PROVE  CacheInv'
  <1>1. Quiet
    BY UnchangedQuiet DEF HashAdd, cachevars, fsvars, Doubted
  <1>2. CASE Return
    BY <1>1, <1>2, IdleKeeps DEF Return
  <1>3. CASE ~Return
    <2>1. /\ cmd = "hash" /\ file_exists(job.path) /\ pc = "add"
          /\ job' = [job EXCEPT !.stat = Stat(job.path)]
          /\ pc' = "commit" /\ UNCHANGED <<fd, inode, data, changes, failures>>
      BY <1>3 DEF HashAdd, At, Goto, fsvars
    <2>2. /\ job \in HashJob /\ job.path \in Paths /\ FdInv
          /\ fd = [inode |-> fd.inode, digest |-> fd.digest]
      BY <2>1 DEF CacheInv, HashInv, HashJob
    <2>3. job' \in HashJob /\ Known(job'.stat.timestamp, job'.path)
          /\ job'.path = job.path /\ job'.opened = job.opened
      BY <2>1, <2>2, StatTyped DEF CacheInv, HashJob
    <2>4. FdInv'
      BY <2>1, <2>2, <2>3 DEF FdInv, file_exists, Data, Past, Now
    <2> QED BY <1>1, <2>1, <2>2, <2>3, <2>4, HashKeeps
  <1> QED BY <1>2, <1>3

-----------------------------------------------------------------------------
(* The steps that change the cache. *)
LEMMA CacheOpenKeeps ==
  ASSUME CacheInv, CacheOpen \/ CacheCreate
  PROVE  CacheInv'
  <1>1. Quiet
    BY DEF CacheOpen, CacheCreate, AfterOpen, Quiet, CacheInv, RowsInv, fsvars, Doubted
  <1>2. CASE cmd' # "hash"
    BY <1>1, <1>2, IdleKeeps
  <1>3. CASE cmd' = "hash"
    <2>1. /\ cmd = "hash" /\ UNCHANGED <<job, fd>> /\ pc' \in {"create_hashes", "find"}
      BY <1>3 DEF CacheOpen, CacheCreate, AfterOpen, Goto, Return
    <2> QED BY <1>1, <2>1, HashKeeps DEF CacheInv, HashInv
  <1> QED BY <1>2, <1>3

\* A deleted cache is truthful.
LEMMA CacheDeleteKeeps ==
  ASSUME CacheInv, CacheDelete
  PROVE  CacheInv'
  <1>1. /\ UNCHANGED <<inode, data, ctime, clock, changes, failures>> /\ cmd' # "hash"
        /\ cache' = [stage |-> 1, files |-> {}, hashes |-> {}]
    BY DEF CacheDelete, fsvars, NoCache
  <1>2. FsInv'
    BY <1>1 DEF CacheInv, FsInv, Paths
  <1> QED BY <1>1, <1>2 DEF CacheInv, RowsInv, Truthful, HashInv

\* an outdated row's hashes go before its time is brought up to date,
LEMMA HashScrubKeeps ==
  ASSUME CacheInv, HashScrub
  PROVE  CacheInv'
  <1> DEFINE path == job.path
  <1>1. /\ cmd = "hash" /\ UNCHANGED <<inode, data, ctime, clock, changes, failures, job, fd,
                                       Doubted>>
    BY DEF HashScrub, fsvars, Doubted
  <1>2. /\ job \in HashJob /\ path \in Paths /\ Known(job.stat.timestamp, path)
        /\ fd = [inode |-> fd.inode, digest |-> fd.digest]
    BY <1>1 DEF CacheInv, HashInv, HashJob
  <1>3. FsInv'
    BY <1>1 DEF CacheInv, FsInv, Paths
  <1>4. ASSUME NEW t, NEW q, Known(t, q) PROVE Known(t, q)'
    BY <1>1, <1>4 DEF Known, file_exists, Paths
  <1>5. (job \in HashJob)' /\ Known(job.stat.timestamp, job.path)'
    BY <1>1, <1>2, <1>4 DEF HashJob, Paths
  <1>6. CASE pc = "scrub"
    <2>1. /\ cache' = [stage |-> cache.stage, files |-> cache.files,
                       hashes |-> cache.hashes \ OfPath(cache.hashes, path)]
          /\ pc' = "scrub_more"
      BY <1>6 DEF HashScrub, Scrub, ScrubOrder, DeleteHashes, Goto, CacheInv, RowsInv
    <2>2. OfPath(cache'.hashes, path) = {}
      BY <2>1 DEF OfPath
    <2>3. RowsInv'
      BY <1>1, <1>4, <2>1 DEF CacheInv, RowsInv, OfPath, FileRow, Paths
    <2>4. Truthful'
      BY <1>1, <2>1 DEF CacheInv, Truthful, UpToDate, file_exists, Size, Data
    <2> QED BY <1>1, <1>2, <1>3, <1>5, <2>1, <2>2, <2>3, <2>4 DEF CacheInv, HashInv, OfPath
  <1>7. CASE pc = "scrub_more"
    <2> DEFINE row == FileRow(path, column_int(job.stat.size), job.stat.timestamp)
    <2>1. /\ cache' = [stage |-> cache.stage,
                       files |-> (cache.files \ OfPath(cache.files, path)) \cup {row},
                       hashes |-> cache.hashes]
          /\ pc' = "open"
      BY <1>7 DEF HashScrub, Scrub, ScrubOrder, UpdateFile, Goto, CacheInv, RowsInv
    <2>2. /\ row.path = path /\ row.timestamp = job.stat.timestamp
          /\ row = FileRow(row.path, row.size, row.timestamp)
      BY DEF FileRow
    <2>3. \A r \in cache.hashes : r.path # path
      BY <1>1, <1>7 DEF CacheInv, HashInv, OfPath
    <2>4. RowsInv'
      <3>1. \A r \in cache'.files : Known(r.timestamp, r.path)
                                     /\ r = FileRow(r.path, r.size, r.timestamp)
        BY <1>2, <2>1, <2>2 DEF CacheInv, RowsInv
      <3>2. \A r \in cache.hashes : r.path \in Paths /\ OfPath(cache'.files, r.path) # {}
        BY <2>1, <2>3 DEF CacheInv, RowsInv, OfPath
      <3> QED BY <1>1, <1>4, <2>1, <3>1, <3>2 DEF RowsInv, FileRow, OfPath, Paths
    <2>5. Truthful'
      BY <1>1, <2>1, <2>3 DEF CacheInv, Truthful, UpToDate, OfPath, file_exists, Size, Data
    <2> QED BY <1>1, <1>2, <1>3, <1>5, <2>1, <2>4, <2>5 DEF CacheInv, HashInv
  <1> QED BY <1>6, <1>7 DEF HashScrub

(* The rows that a commit leaves: those of other paths, and of this path a row
   with a time that may be on record and the hash row. *)
LEMMA CommitKeeps ==
  ASSUME CacheInv, UNCHANGED <<inode, data, ctime, clock, changes, failures>>, cmd' # "hash",
         NEW path, path \in Paths, NEW row, row.path = path,
         cache' = [stage |-> cache'.stage, files |-> cache'.files, hashes |-> cache'.hashes],
         \A f \in cache'.files :
           f \in cache.files \/ (f.path = path /\ Known(f.timestamp, path)
                                 /\ f = FileRow(f.path, f.size, f.timestamp)),
         \A f \in cache.files : f.path # path => f \in cache'.files,
         \E f \in cache'.files : f.path = path,
         \A r \in cache'.hashes : r = row \/ (r \in cache.hashes /\ r.path # path),
         Doubted \ {path} \subseteq Doubted',
         path \notin Doubted' => row.hash = Data(path)
  PROVE  CacheInv'
  <1>1. FsInv'
    BY DEF CacheInv, FsInv, Paths
  <1>2. RowsInv'
    <2>1. \A f \in cache'.files : Known(f.timestamp, f.path)
                                  /\ f = FileRow(f.path, f.size, f.timestamp)
      BY DEF CacheInv, RowsInv
    <2>2. ASSUME NEW r \in cache'.hashes
          PROVE  r.path \in Paths /\ \E f \in cache'.files : f.path = r.path
      <3>1. CASE r = row
        BY <3>1
      <3>2. CASE r \in cache.hashes /\ r.path # path
        <4>1. PICK f \in cache.files : f.path = r.path
          BY <3>2 DEF CacheInv, RowsInv, OfPath
        <4> QED BY <3>2, <4>1 DEF CacheInv, RowsInv
      <3> QED BY <3>1, <3>2
    <2>3. \A r \in cache'.hashes : r.path \in Paths /\ OfPath(cache'.files, r.path) # {}
      BY <2>2 DEF OfPath
    <2>4. ASSUME NEW t, NEW q, Known(t, q) PROVE Known(t, q)'
      BY <2>4 DEF Known, file_exists, Paths
    <2> QED BY <2>1, <2>3, <2>4 DEF RowsInv, FileRow, OfPath, Paths
  <1>3. Truthful'
    <2> SUFFICES ASSUME NEW r \in cache'.hashes,
                        file_exists(r.path)', r.path \notin Doubted', UpToDate(r.path)'
                 PROVE  r.hash = Data(r.path)'
      BY DEF Truthful
    <2>1. CASE r = row
      BY <2>1 DEF Data
    <2>2. CASE r \in cache.hashes /\ r.path # path
      <3>1. file_exists(r.path) /\ r.path \notin Doubted /\ UpToDate(r.path)
        BY <2>2 DEF file_exists, UpToDate, Size, Data
      <3> QED BY <2>2, <3>1 DEF CacheInv, Truthful, Data
    <2> QED BY <2>1, <2>2
  <1> QED BY <1>1, <1>2, <1>3 DEF CacheInv, HashInv

\* What cache_hash() commits was read under the time it is kept with.
LEMMA HashCommitKeeps ==
  ASSUME CacheInv, HashCommit
  PROVE  CacheInv'
  <1> DEFINE path == job.path
             row  == [path |-> path, hash |-> fd.digest]
  <1>1. /\ cmd = "hash" /\ pc = "commit" /\ cmd' # "hash"
        /\ UNCHANGED <<inode, data, ctime, clock, changes, failures>>
    BY DEF HashCommit, At, Return, fsvars
  <1>2. /\ job \in HashJob /\ path \in Paths /\ Known(job.stat.timestamp, path) /\ FdInv
    BY <1>1 DEF CacheInv, HashInv, HashJob
  <1>3. CASE UNCHANGED cachevars
    <2>1. Quiet
      BY <1>1, <1>3, UnchangedQuiet DEF cachevars, Doubted
    <2> QED BY <1>1, <2>1, IdleKeeps
  <1>4. CASE ~UNCHANGED cachevars
    <2>1. /\ file_exists(path) /\ ~Found(path)
          /\ unsure'  = (unsure \ {path}) \cup IF changes = job.opened.changes THEN {} ELSE {path}
          /\ misread' = (misread \ {path})
                        \cup IF failures = job.opened.failures THEN {} ELSE {path}
      BY <1>4 DEF HashCommit
    <2>2. Known(ctime[inode[path]], path)
      BY <1>2, <2>1, StatTyped DEF CacheInv, Stat
    <2>3. /\ Doubted \ {path} \subseteq Doubted'
          /\ path \notin Doubted' => row.hash = Data(path)
      <3>1. path \notin Doubted' => job.opened.changes = changes /\ job.opened.failures = failures
        BY <2>1 DEF Doubted
      <3>2. path \notin Doubted' => job.opened = Now
        BY <1>2, <3>1 DEF FdInv, Past, Moment, Now
      <3>3. Doubted \ {path} \subseteq Doubted'
        BY <2>1 DEF Doubted
      <3> QED BY <1>1, <1>2, <3>2, <3>3 DEF FdInv
    <2>4. CASE Outdated(path)
      <3> DEFINE file == FileRow(path, column_int(Size(path)), ctime[inode[path]])
      <3>1. cache' = [stage |-> cache.stage,
                      files |-> (cache.files \ OfPath(cache.files, path)) \cup {file},
                      hashes |-> (cache.hashes \ OfPath(cache.hashes, path)) \cup {row}]
        BY <1>4, <2>4 DEF HashCommit, UpdateFile, Stat, CacheInv, RowsInv
      <3>2. file.path = path /\ file.timestamp = ctime[inode[path]]
            /\ file = FileRow(file.path, file.size, file.timestamp)
        BY DEF FileRow
      <3> HIDE DEF file
      <3> QED BY <1>1, <1>2, <2>2, <2>3, <3>1, <3>2, CommitKeeps DEF OfPath
    <2>5. CASE ~Outdated(path)
      <3> DEFINE file == FileRow(path, job.stat.size, job.stat.timestamp)
      <3>1. cache' = [stage |-> cache.stage,
                      files |-> cache.files \cup IF OfPath(cache.files, path) # {} THEN {}
                                                 ELSE {file},
                      hashes |-> cache.hashes \cup {row}]
        BY <1>4, <2>5 DEF HashCommit, CacheInv, RowsInv
      <3>2. file.path = path /\ file.timestamp = job.stat.timestamp
            /\ file = FileRow(file.path, file.size, file.timestamp)
        BY DEF FileRow
      <3>3. \A r \in cache.hashes : r.path # path
        BY <2>1, <2>5 DEF Found, OfPath
      <3>4. (\E f \in cache'.files : f.path = path) /\ cache.files \subseteq cache'.files
        BY <3>1, <3>2 DEF OfPath
      <3> HIDE DEF file
      <3>5. \A f \in cache'.files : f \in cache.files \/ f = file
        BY <3>1
      <3>6. \A r \in cache'.hashes : r = row \/ (r \in cache.hashes /\ r.path # path)
        BY <3>1, <3>3
      <3>7. cache' = [stage |-> cache'.stage, files |-> cache'.files, hashes |-> cache'.hashes]
        BY <3>1
      <3> HIDE DEF row
      <3>8. row.path = path
        BY DEF row
      <3> QED BY <1>1, <1>2, <2>3, <3>2, <3>4, <3>5, <3>6, <3>7, <3>8, CommitKeeps
    <2> QED BY <2>4, <2>5
  <1> QED BY <1>3, <1>4

-----------------------------------------------------------------------------
(* The other commands only read files, and know nothing of the cache. *)
Idle == /\ UNCHANGED <<inode, data, ctime, clock, changes, cache, Doubted>>
        /\ failures' \in {failures, failures + 1} /\ cmd' # "hash"

\* The steps on the duplicates database leave the cache alone,
LEMMA DbNextIdle ==
  ASSUME DbNext
  PROVE  Idle
  <1>1. UNCHANGED cachevars
    BY DEF DbNext
  <1>2. UNCHANGED fsvars /\ cmd' # "hash"
    BY DEF DbNext, ScanUnlink, ScanCreate, ScanFind, ScanPublish, ScanCommit, RefreshRow,
           RefreshLook, RefreshLooked, RefreshDelete, RefreshInsert, RefreshEnd, At, Goto,
           Return, cmdvars
  <1> QED BY <1>1, <1>2 DEF Idle, cachevars, fsvars, Doubted

\* and so do those of the reports.
LEMMA ReportNextIdle ==
  ASSUME ReportNext
  PROVE  Idle
  <1>1. UNCHANGED cachevars
    BY DEF ReportNext, NextFile, NextRow, NextNone, OpenSelf, ReadFile, SelfEnd, StatSelf,
           StatDup, OpenDup, DupEnd, Verified
  <1>2. UNCHANGED <<inode, data, ctime, clock, changes>> /\ failures' \in {failures, failures + 1}
    BY DEF ReportNext, NextFile, NextRow, NextNone, OpenSelf, ReadFile, SelfEnd, StatSelf,
           StatDup, OpenDup, DupEnd, Verified, ReadPart, EndOfFile, fsvars
  <1>3. cmd # "hash"
    BY DEF ReportNext, NextFile, NextRow, NextNone, OpenSelf, ReadFile, SelfEnd, StatSelf,
           StatDup, OpenDup, DupEnd, Verified, Verifying, Shown, At
  <1>4. cmd' \in {cmd, "none"}
    BY DEF ReportNext, NextFile, NextRow, NextNone, OpenSelf, ReadFile, SelfEnd, StatSelf,
           StatDup, OpenDup, DupEnd, Verified, Goto, Return, Reverify, ReadPart, Status
  <1> QED BY <1>1, <1>2, <1>3, <1>4 DEF Idle, cachevars, Doubted

\* Every operation keeps the invariant.
LEMMA OperationKeeps ==
  ASSUME CacheInv, Operation
  PROVE  CacheInv'
  <1>1. CASE \E path \in Asked : HashStart(path)
    BY <1>1, HashStartKeeps
  <1>2. CASE CacheDelete
    BY <1>2, CacheDeleteKeeps
  <1>3. CASE CacheListStart
    <2>1. Idle
      BY <1>3 DEF CacheListStart, Begin, Idle, fsvars, cachevars, Doubted
    <2> QED BY <2>1, IdleKeeps, UnchangedQuiet DEF Idle
  <1>4. ASSUME NEW options \in Options,
               \/ ScanStart(options.hardlink_is_unique)
               \/ RefreshStart(options.hardlink_is_unique)
               \/ operation_report(options.hardlink_is_unique)
               \/ \E link \in Links : operation_shell_script(link, options.hardlink_is_unique)
               \/ \E path \in Asked : FileStart(path, options)
               \/ \E c \in Walks : WalkStart(c, Asked, options)
               \/ ValidateStart(options)
        PROVE  CacheInv'
    <2>1. UNCHANGED fsvars /\ UNCHANGED cachevars
      BY <1>4 DEF ScanStart, RefreshStart, operation_report, operation_shell_script, Tell,
                  FileStart, WalkStart, ValidateStart, VerifyStart
    <2>2. cmd' # "hash"
      BY <1>4, CommandsAssumption
         DEF ScanStart, RefreshStart, operation_report, operation_shell_script, Tell,
             FileStart, WalkStart, ValidateStart, VerifyStart, Begin
    <2> QED BY <2>1, <2>2, IdleKeeps, UnchangedQuiet DEF fsvars, cachevars, Doubted
  <1> QED BY <1>1, <1>2, <1>3, <1>4 DEF Operation

\* An empty cache is truthful.
LEMMA CacheInvAtFirst ==
  ASSUME Init
  PROVE  CacheInv
  <1>1. FsInv
    BY FilesAssumption, CommandsAssumption DEF Init, FilesInit, FsInv, Paths
  <1> QED BY <1>1 DEF Init, CommandInit, CacheInit, NoCache, CacheInv, RowsInv, Truthful, HashInv

\* Every step keeps the invariant of the cache.
LEMMA CacheStep ==
  ASSUME CacheInv, [Next]_vars
  PROVE  CacheInv'
  <1>1. CASE Operation
    BY <1>1, OperationKeeps
  <1>2. CASE CacheNext
    BY <1>2, CacheOpenKeeps, HashFindKeeps, HashScrubKeeps, HashOpenKeeps, HashReadKeeps,
       HashReadEndKeeps, HashAddKeeps, HashCommitKeeps DEF CacheNext
  <1>3. CASE DbNext \/ ReportNext
    BY <1>3, DbNextIdle, ReportNextIdle, IdleKeeps, UnchangedQuiet DEF Idle
  <1>4. CASE Crash
    BY <1>4, IdleKeeps, UnchangedQuiet DEF Crash, Return, fsvars, cachevars, Doubted
  <1>5. CASE FileChange
    BY <1>5, FileChangeKeeps
  <1>6. CASE UNCHANGED vars
    <2>1. UNCHANGED <<inode, data, ctime, clock, changes, failures, cmd, pc, job, fd, cache,
                      Doubted>>
      BY <1>6 DEF vars, fsvars, cmdvars, cachevars, Doubted
    <2> QED BY <2>1 DEF CacheInv, FsInv, Paths, RowsInv, Known, Truthful, UpToDate, HashInv, FdInv,
                        HashJob, ReadSoFar, OfPath, FileRow, Size, Data, file_exists, Past, Now
  <1> QED BY <1>1, <1>2, <1>3, <1>4, <1>5, <1>6 DEF Next

(* The cache never vouches for a hash that is not that of the file, unless the
   file changed while it was read or again in the second of the recorded
   change, or a read of it failed, which hash_fn() takes for the end of the
   file: however often commands are killed (cache_db_find_entry_id(),
   cache_db_add_entry() and cache_db_scrub_entry()).  Without the last of these
   it does not hold (CacheOfWholeFiles). *)
THEOREM CacheNeverLies == Spec => []CacheTruthful
  <1>1. Init => CacheInv
    BY CacheInvAtFirst
  <1>2. CacheInv /\ [Next]_vars => CacheInv'
    BY CacheStep
  <1>3. CacheInv => CacheTruthful
    BY InvTruthful
  <1> QED BY <1>1, <1>2, <1>3, PTL DEF Spec

-----------------------------------------------------------------------------
(* The scan.  Its transaction is the only one, begun on an empty database, and
   has the sets found but for those still to do. *)
Publishing == cmd = "scan" /\ pc = "publish"

Published(rows, sets) ==
  /\ \A r \in rows : \E s \in scanned : r.paths = s.paths
  /\ \A s \in sets : \E r \in rows : r.paths = s.paths

ScanInv ==
  /\ dup = [stage |-> dup.stage, hardlinks |-> dup.hardlinks, rows |-> dup.rows]
  /\ txn = [open |-> txn.open, rows |-> txn.rows]
  /\ txn.open <=> Publishing
  /\ At("scan", "create") \/ Publishing => dup.rows = {}
  /\ Publishing => /\ job = [since |-> job.since, todo |-> job.todo]
                   /\ job.todo \subseteq scanned
                   /\ Published(txn.rows, scanned \ job.todo)

Elsewhere == UNCHANGED <<dup, txn, scanned>> /\ ~Publishing
             /\ (cmd' = "scan" => pc' \notin {"create", "publish"})

\* Steps that leave the duplicates database alone keep the scan's invariant.
LEMMA ElsewhereKeeps ==
  ASSUME ScanInv, Elsewhere
  PROVE  ScanInv'
  BY DEF ScanInv, Elsewhere, Publishing, At

\* The steps of the cache are such steps,
LEMMA CacheNextElsewhere ==
  ASSUME CacheNext, UNCHANGED dbvars
  PROVE  Elsewhere
  BY DEF CacheNext, CacheOpen, CacheCreate, AfterOpen, HashFind, HashScrub, HashOpen, HashRead,
         HashReadEnd, HashAdd, HashCommit, ReadPart, At, Goto, Return, dbvars, Elsewhere,
         Publishing

\* and so are those of the reports,
LEMMA ReportNextElsewhere ==
  ASSUME ReportNext
  PROVE  Elsewhere
  <1>1. UNCHANGED <<dup, txn, scanned>>
    BY DEF ReportNext, NextFile, NextRow, NextNone, OpenSelf, ReadFile, SelfEnd, StatSelf,
           StatDup, OpenDup, DupEnd, Verified, dbvars
  <1>2. cmd # "scan"
    BY DEF ReportNext, NextFile, NextRow, NextNone, OpenSelf, ReadFile, SelfEnd, StatSelf,
           StatDup, OpenDup, DupEnd, Verified, Verifying, Shown, At
  <1>3. cmd' \in {cmd, "none"}
    BY DEF ReportNext, NextFile, NextRow, NextNone, OpenSelf, ReadFile, SelfEnd, StatSelf,
           StatDup, OpenDup, DupEnd, Verified, Goto, Return, Reverify, ReadPart, Status
  <1> QED BY <1>1, <1>2, <1>3 DEF Elsewhere, Publishing

\* and the starts of operations.
LEMMA OperationElsewhere ==
  ASSUME Operation
  PROVE  Elsewhere
  <1>1. CASE CacheListStart \/ CacheDelete \/ \E path \in Asked : HashStart(path)
    <2>1. UNCHANGED dbvars
      BY <1>1 DEF Operation, ScanStart, RefreshStart, operation_report, operation_shell_script,
                  Tell, FileStart, WalkStart, ValidateStart, VerifyStart
    <2>2. cmd = "none" /\ cmd' # "scan"
      BY <1>1 DEF CacheListStart, CacheDelete, HashStart, Begin
    <2> QED BY <2>1, <2>2 DEF Elsewhere, Publishing, dbvars
  <1>2. ASSUME NEW options \in Options,
               \/ ScanStart(options.hardlink_is_unique)
               \/ RefreshStart(options.hardlink_is_unique)
               \/ operation_report(options.hardlink_is_unique)
               \/ \E link \in Links : operation_shell_script(link, options.hardlink_is_unique)
               \/ \E path \in Asked : FileStart(path, options)
               \/ \E c \in Walks : WalkStart(c, Asked, options)
               \/ ValidateStart(options)
        PROVE  Elsewhere
    <2>1. UNCHANGED dbvars
      BY <1>2 DEF ScanStart, RefreshStart, operation_report, operation_shell_script, Tell,
                  FileStart, WalkStart, ValidateStart, VerifyStart
    <2>2. cmd = "none" /\ (cmd' = "scan" => pc' = "open_cache")
      BY <1>2, CommandsAssumption
         DEF ScanStart, RefreshStart, operation_report, operation_shell_script, Tell,
             FileStart, WalkStart, ValidateStart, VerifyStart, Begin
    <2> QED BY <2>1, <2>2 DEF Elsewhere, Publishing, dbvars
  <1> QED BY <1>1, <1>2 DEF Operation

\* A refresh runs while no scan does.
LEMMA RefreshKeeps ==
  ASSUME ScanInv,
         \/ RefreshRow \/ RefreshLook \/ RefreshLooked
         \/ RefreshDelete \/ RefreshInsert \/ RefreshEnd
  PROVE  ScanInv'
  <1>1. cmd = "refresh" /\ cmd' # "scan" /\ UNCHANGED scanned
    BY DEF RefreshRow, RefreshLook, RefreshLooked, RefreshDelete, RefreshInsert, RefreshEnd,
           At, Goto, Return, dbvars
  <1>2. ~txn.open
    BY <1>1 DEF ScanInv, Publishing
  <1>3. UNCHANGED txn /\ (dup' = dup \/ \E rows : dup' = [dup EXCEPT !.rows = rows])
    BY <1>2 DEF RefreshRow, RefreshLook, RefreshLooked, RefreshDelete, RefreshInsert, RefreshEnd,
                dbvars, duplicate_to_db, delete_duplicate_entry, NowRows
  <1> QED BY <1>1, <1>3 DEF ScanInv, Publishing, At

\* A scan's steps other than publishing keep it,
LEMMA ScanStepKeeps ==
  ASSUME ScanInv, ScanUnlink \/ ScanCreate \/ ScanFind \/ ScanCommit
  PROVE  ScanInv'
  <1>1. CASE ScanUnlink
    <2>1. ~Publishing /\ cmd' = "scan" /\ pc' = "create" /\ UNCHANGED txn
      BY <1>1 DEF ScanUnlink, At, Goto, Publishing
    <2>2. \E h : dup' = [stage |-> 1, hardlinks |-> h, rows |-> {}]
      BY <1>1 DEF ScanUnlink, NoDb
    <2> QED BY <2>1, <2>2 DEF ScanInv, Publishing
  <1>2. CASE ScanCreate
    <2>1. /\ At("scan", "create") /\ UNCHANGED <<cmd, pc, txn>>
          /\ dup' = [dup EXCEPT !.stage = dup.stage + 1]
      BY <1>2 DEF ScanCreate, cmdvars
    <2> QED BY <2>1 DEF ScanInv, Publishing, At
  <1>3. CASE ScanFind
    <2>1. /\ At("scan", "create") /\ cmd' = "scan" /\ pc' = "publish" /\ UNCHANGED dup
          /\ txn' = [open |-> TRUE, rows |-> dup.rows]
          /\ job' = [since |-> changes, todo |-> scanned']
      BY <1>3 DEF ScanFind, At, Goto, begin_transaction
    <2>2. dup.rows = {}
      BY <2>1 DEF ScanInv
    <2> QED BY <2>1, <2>2 DEF ScanInv, Publishing, At, Published
  <1>4. CASE ScanCommit
    <2>1. /\ txn' = [open |-> FALSE, rows |-> {}] /\ cmd' = "none"
          /\ dup' = dup \/ \E rows : dup' = [dup EXCEPT !.rows = rows]
      BY <1>4 DEF ScanCommit, NoTxn, Return
    <2> QED BY <2>1 DEF ScanInv, Publishing, At
  <1> QED BY <1>1, <1>2, <1>3, <1>4

\* publishing keeps it,
LEMMA ScanPublishKeeps ==
  ASSUME ScanInv, ScanPublish
  PROVE  ScanInv'
  <1>1. Publishing /\ UNCHANGED <<cmd, pc, scanned>>
    BY DEF ScanPublish, Publishing, At
  <1>2. PICK s \in job.todo :
          /\ duplicate_to_db(Len(s.paths), s.size, s.paths)
          /\ job' = [job EXCEPT !.todo = job.todo \ {s}]
    BY DEF ScanPublish
  <1> DEFINE row == [id |-> NextId(Rows), count |-> Len(s.paths), each_size |-> s.size,
                     paths |-> s.paths]
  <1>3. row.paths = s.paths
    OBVIOUS
  <1>4. txn.open
    BY <1>1 DEF ScanInv
  <1>5. UNCHANGED dup /\ txn' = [txn EXCEPT !.rows = txn.rows \cup {row}]
    BY <1>2, <1>4 DEF duplicate_to_db, NowRows, Rows
  <1> HIDE DEF row
  <1>6. txn' = [open |-> txn.open, rows |-> txn.rows \cup {row}]
        /\ job' = [since |-> job.since, todo |-> job.todo \ {s}]
    BY <1>1, <1>2, <1>5 DEF ScanInv
  <1>7. Published(txn'.rows, scanned \ job'.todo)
    BY <1>1, <1>2, <1>3, <1>6 DEF ScanInv, Published
  <1> QED BY <1>1, <1>5, <1>6, <1>7 DEF ScanInv, Publishing, Published, At

\* a crash undoes the transaction,
LEMMA CrashKeeps ==
  ASSUME ScanInv, Crash
  PROVE  ScanInv'
  BY DEF Crash, Return, NoTxn, ScanInv, Publishing, At

\* and files that change change no rows.
LEMMA FileChangeKeepsScan ==
  ASSUME ScanInv, FileChange
  PROVE  ScanInv'
  BY DEF FileChange, cmdvars, ScanInv, Publishing, Published, At

\* Every step keeps the invariant of the scan.
LEMMA ScanStep ==
  ASSUME ScanInv, [Next]_vars
  PROVE  ScanInv'
  <1>1. CASE Operation
    BY <1>1, OperationElsewhere, ElsewhereKeeps
  <1>2. CASE CacheNext /\ UNCHANGED dbvars
    BY <1>2, CacheNextElsewhere, ElsewhereKeeps
  <1>3. CASE DbNext
    BY <1>3, ScanStepKeeps, ScanPublishKeeps, RefreshKeeps DEF DbNext
  <1>4. CASE ReportNext
    BY <1>4, ReportNextElsewhere, ElsewhereKeeps
  <1>5. CASE UNCHANGED vars
    BY <1>5 DEF vars, cmdvars, dbvars, ScanInv, Publishing, Published, At
  <1> QED BY <1>1, <1>2, <1>3, <1>4, <1>5, CrashKeeps, FileChangeKeepsScan DEF Next

(* How a scan ends: by a crash, or a commit. *)
LEMMA ScanEnds ==
  ASSUME ScanInv, [Next]_vars, cmd = "scan", pc \in {"create", "publish"}, cmd' = "none"
  PROVE  \/ dup'.rows = {}
         \/ {ToSet(r.paths) : r \in dup'.rows} = {ToSet(s.paths) : s \in scanned}
  <1>1. CASE Crash
    BY <1>1 DEF Crash, ScanInv, Publishing, At
  <1>2. CASE ScanCommit
    <2>1. Publishing /\ job.todo = {} /\ txn.open
      BY <1>2 DEF ScanCommit, At, Publishing, ScanInv
    <2>2. dup'.rows = txn.rows
      BY <1>2, <2>1 DEF ScanCommit, ScanInv
    <2> QED BY <2>1, <2>2 DEF ScanInv, Published
  <1>3. CASE Operation
    BY <1>3 DEF Operation, CacheListStart, CacheDelete, HashStart, ScanStart, RefreshStart,
                operation_report, operation_shell_script, Tell, FileStart, WalkStart,
                ValidateStart, VerifyStart, Begin
  <1>4. CASE CacheNext
    BY <1>4 DEF CacheNext, CacheOpen, CacheCreate, HashFind, HashScrub, HashOpen, HashRead,
                HashReadEnd, HashAdd, HashCommit, At
  <1>5. CASE DbNext /\ ~ScanCommit
    BY <1>5 DEF DbNext, ScanUnlink, ScanCreate, ScanFind, ScanPublish, RefreshRow, RefreshLook,
                RefreshLooked, RefreshDelete, RefreshInsert, RefreshEnd, At, Goto, cmdvars
  <1>6. CASE ReportNext
    BY <1>6 DEF ReportNext, NextFile, NextRow, NextNone, OpenSelf, ReadFile, SelfEnd, StatSelf,
                StatDup, OpenDup, DupEnd, Verified, Verifying, Shown, At
  <1>7. CASE FileChange
    BY <1>7 DEF FileChange, cmdvars
  <1>8. CASE UNCHANGED vars
    BY <1>8 DEF vars, cmdvars
  <1> QED BY <1>1, <1>2, <1>3, <1>4, <1>5, <1>6, <1>7, <1>8 DEF Next

(* A scan that has deleted the old database leaves all the sets it found or
   none, whether it ends or is killed (begin_transaction() and
   commit_transaction() around scan()). *)
THEOREM ScanIsAtomic == Spec => ScanAllOrNothing
  <1>1. ASSUME Init PROVE ScanInv
    <2>1. /\ cmd = "none" /\ txn = [open |-> FALSE, rows |-> {}]
          /\ dup = [stage |-> 1, hardlinks |-> "normal", rows |-> {}]
      BY <1>1 DEF Init, CommandInit, DbInit, NoDb, NoTxn
    <2>2. txn.open = FALSE /\ ~Publishing /\ ~At("scan", "create")
      BY <2>1 DEF Publishing, At
    <2>3. txn.open <=> Publishing
      BY <2>2
    <2>4. /\ dup = [stage |-> dup.stage, hardlinks |-> dup.hardlinks, rows |-> dup.rows]
          /\ txn = [open |-> txn.open, rows |-> txn.rows]
      BY <2>1
    <2> QED BY <2>2, <2>3, <2>4 DEF ScanInv
  <1>2. ScanInv /\ [Next]_vars => ScanInv'
    BY ScanStep
  <1>3. ScanInv /\ [Next]_vars =>
          [cmd = "scan" /\ pc \in {"create", "publish"} /\ cmd' = "none" =>
             \/ dup'.rows = {}
             \/ {ToSet(r.paths) : r \in dup'.rows} = {ToSet(s.paths) : s \in scanned}]_vars
    BY ScanEnds
  <1> QED BY <1>1, <1>2, <1>3, PTL DEF Spec, ScanAllOrNothing

-----------------------------------------------------------------------------
(* The rows.  A row lists files of one set that the last scan found, each of
   them once, and no other row lists one of them. *)
Listed(paths) == paths \in Seq(Paths) /\ IsInjective(paths)

RowOK(r, sets) ==
  /\ Listed(r.paths)
  /\ Len(r.paths) = r.count /\ r.count > 1
  /\ \E s \in sets : /\ ToSet(r.paths) \subseteq ToSet(s.paths)
                     /\ r.each_size \in {s.size, column_int(s.size)}

Disjoint(p, q) == ToSet(p.paths) \cap ToSet(q.paths) = {}
Apart(rows) == \A r, o \in rows : r # o => Disjoint(r, o)

SetOK(s) == Listed(s.paths) /\ Len(s.paths) > 1 /\ s.size \in Nat

Tables(rows, sets) ==
  /\ \A s \in sets : SetOK(s)
  /\ Apart(sets)
  /\ \A r \in rows : RowOK(r, sets)
  /\ Apart(rows)

(* What a scan has still to publish is not in a row yet. *)
Unpublished ==
  Publishing => \A s \in job.todo, r \in Rows : Disjoint(s, r)

(* A row that refresh looks at, or writes again, is in the table until it is
   deleted; then its files are in no row. *)
Refreshing ==
  /\ {"since", "before", "todo"} \subseteq DOMAIN job
  /\ pc \in {"row", "look", "delete", "insert"}

\* The paths of the row that it has looked at.
Behind == {job.row.paths[i] : i \in 1 .. job.looked}

Looking == job.looked \in 0 .. Len(job.row.paths) /\ ToSet(job.left) \subseteq Behind

Rewriting ==
  /\ {"row", "looked", "left"} \subseteq DOMAIN job
  /\ RowOK(job.row, scanned) /\ Listed(job.left)
  /\ ToSet(job.left) \subseteq ToSet(job.row.paths)
  /\ pc = "look" => Looking
  /\ pc \in {"look", "delete"} => job.row \in Rows
  /\ pc = "insert" => Len(job.left) > 1 /\ \A r \in Rows : Disjoint(r, job.row)

Rewritten == cmd = "refresh" => Refreshing /\ (pc # "row" => Rewriting)

TablesInv ==
  /\ IsFiniteSet(Paths)
  /\ Tables(Rows, scanned)
  /\ Unpublished /\ Rewritten

-----------------------------------------------------------------------------
(* Lemmas about sequences of paths. *)

\* A sequence without repetitions has as many elements as it is long.
LEMMA ListedCount ==
  ASSUME NEW S, NEW q \in Seq(S), IsInjective(q)
  PROVE  IsFiniteSet(ToSet(q)) /\ Cardinality(ToSet(q)) = Len(q)
  <1>1. Len(q) \in Nat /\ DOMAIN q = 1 .. Len(q)
    OBVIOUS
  <1>2. IsFiniteSet(1 .. Len(q)) /\ Cardinality(1 .. Len(q)) = Len(q)
    BY <1>1, FS_Interval
  <1>3. q \in Bijection(1 .. Len(q), ToSet(q))
    BY <1>1 DEF ToSet, Bijection, Injection, Surjection, IsInjective
  <1>4. ExistsBijection(1 .. Len(q), ToSet(q))
    BY <1>3 DEF ExistsBijection
  <1> QED BY <1>2, <1>4, FS_Bijection

\* SetToSeq lists every element of a set once.
LEMMA SetToSeqIs ==
  ASSUME NEW S, IsFiniteSet(S)
  PROVE  /\ SetToSeq(S) \in Seq(S) /\ IsInjective(SetToSeq(S))
         /\ Len(SetToSeq(S)) = Cardinality(S) /\ Cardinality(S) \in Nat
  <1>1. Cardinality(S) \in Nat /\ ExistsBijection(1 .. Cardinality(S), S)
    BY FS_CardinalityType
  <1>2. PICK g : g \in [1 .. Cardinality(S) -> S] /\ IsInjective(g)
    BY <1>1 DEF ExistsBijection, Bijection, Injection, IsInjective
  <1>3. SetToSeq(S) \in [1 .. Cardinality(S) -> S] /\ IsInjective(SetToSeq(S))
    BY <1>2 DEF SetToSeq
  <1> QED BY <1>1, <1>3

\* A set of numbers has a least one.
LEMMA LeastOne ==
  ASSUME NEW S, S \subseteq Nat, S # {}
  PROVE  \E m \in S : \A k \in S : m <= k
  <1>1. PICK m \in S : \A k \in S : ~(<<k, m>> \in OpToRel(<, Nat))
    BY WFMin, NatLessThanWellFounded
  <1>2. \A k \in S : ~(k < m)
    BY <1>1 DEF OpToRel
  <1> QED BY <1>2

(* Only() goes through some paths: f[i] is what it has kept of the first i. *)
Keeps(paths, set, f, n) ==
  f = [i \in 0 .. n |->
        IF i = 0 THEN << >>
        ELSE IF paths[i] \in set THEN Append(f[i - 1], paths[i])
        ELSE f[i - 1]]

\* There is such a function for every length,
LEMMA KeptExists ==
  ASSUME NEW paths, NEW set, Len(paths) \in Nat
  PROVE  \E f : Keeps(paths, set, f, Len(paths))
  <1> DEFINE S == {n \in Nat : ~\E f : Keeps(paths, set, f, n)}
  <1> SUFFICES ASSUME S # {} PROVE FALSE
    OBVIOUS
  <1>1. PICK m \in S : \A k \in S : m <= k
    BY LeastOne
  <1>2. m # 0
    <2> DEFINE g == [i \in 0 .. 0 |-> << >>]
    <2>1. Keeps(paths, set, g, 0)
      BY DEF Keeps
    <2> QED BY <1>1, <2>1
  <1>3. m \in Nat /\ m - 1 \in Nat /\ m - 1 \notin S
    BY <1>1, <1>2
  <1>4. PICK f : Keeps(paths, set, f, m - 1)
    BY <1>3
  <1> DEFINE g == [i \in 0 .. m |->
                     IF i < m THEN f[i]
                     ELSE IF paths[m] \in set THEN Append(f[m - 1], paths[m])
                     ELSE f[m - 1]]
  <1>5. Keeps(paths, set, g, m)
    <2>1. \A i \in 0 .. m : i # 0 => g[i - 1] = f[i - 1] 
      BY <1>3
    <2>2. \A i \in 0 .. m - 1 : g[i] = IF i = 0 THEN << >>
        ELSE IF paths[i] \in set THEN Append(f[i - 1], paths[i])
        ELSE f[i - 1]
      <3>1. \A i \in 0 .. m - 1 : g[i] = f[i]
        BY <1>3
      <3> QED BY <3>1, <1>4, <1>3 DEF Keeps
    <2>3. \A i \in 0 .. m : g[i] = IF i = 0 THEN << >>
        ELSE IF paths[i] \in set THEN Append(g[i - 1], paths[i])
        ELSE g[i - 1]
      <3> SUFFICES ASSUME NEW i \in 0 .. m
                   PROVE g[i] = IF i = 0 THEN << >>
                                ELSE IF paths[i] \in set THEN Append(g[i - 1], paths[i])
                                ELSE g[i - 1]
        OBVIOUS
      <3>1. CASE i < m
         <4>1. i \in 0 .. m - 1
           BY <1>3, <3>1
         <4> HIDE DEF g
         <4> QED BY <4>1, <2>1, <2>2
      <3>2. CASE i = m
        <4>1. g[m] = IF paths[m] \in set THEN Append(f[m - 1], paths[m])
                     ELSE f[m - 1]
          BY <1>3
        <4>2. g[m - 1] = f[m - 1]
          BY <1>2, <1>3, <2>1
        <4> HIDE DEF g
        <4> QED BY <1>2, <4>1, <4>2, <3>2
      <3> QED BY <3>1, <3>2, <1>3
    <2>4. g = [i \in 0 .. m |-> g[i]]
      OBVIOUS
    <2> HIDE DEF g
    <2> QED BY <2>3, <2>4 DEF Keeps
  <1> QED BY <1>1, <1>5

\* and Only() gives its last value.
LEMMA OnlyKept ==
  ASSUME NEW paths, NEW set, Len(paths) \in Nat
  PROVE  \E f : Keeps(paths, set, f, Len(paths)) /\ Only(paths, set) = f[Len(paths)]
  <1>1. PICK f : Keeps(paths, set, f, Len(paths))
    BY KeptExists
  <1> DEFINE g == CHOOSE h : Keeps(paths, set, h, Len(paths))
  <1>2. Keeps(paths, set, g, Len(paths))
    BY <1>1
  <1>3. Only(paths, set) = g[Len(paths)]
    BY Zenon DEF Only, Keeps
  <1> QED BY <1>2, <1>3

\* What should have been kept of the first n paths: those in the set.
Kept(q, paths, set, n) ==
  /\ q \in Seq(ToSet(paths) \cap set)
  /\ IsInjective(q)
  /\ ToSet(q) = {paths[i] : i \in 1 .. n} \cap set

\* Only() keeps these of all paths.
LEMMA OnlyIs ==
  ASSUME NEW T, NEW paths \in Seq(T), IsInjective(paths), NEW set
  PROVE  Kept(Only(paths, set), paths, set, Len(paths))
  <1> DEFINE N == Len(paths)
  <1>0. N \in Nat /\ DOMAIN paths = 1 .. N
    OBVIOUS
  <1>1. PICK f : Keeps(paths, set, f, N) /\ Only(paths, set) = f[N]
    BY <1>0, OnlyKept
  <1>2. IsInjective(paths)
    OBVIOUS
  <1> HIDE DEF N
  <1> DEFINE S == {n \in 0 .. N : ~Kept(f[n], paths, set, n)}
  <1>3. ASSUME S # {} PROVE FALSE
    <2>1. S \subseteq Nat
      BY <1>0
    <2>2. PICK m \in S : \A k \in S : m <= k
      BY <2>1, <1>3, LeastOne
    <2>3. m \in 0 .. N /\ ~Kept(f[m], paths, set, m)
      BY <2>2
    <2>4. CASE m = 0
      <3>1. f[0] = << >>
        BY <1>0, <1>1 DEF Keeps
      <3>2. Kept(<< >>, paths, set, 0)
        BY DEF Kept, ToSet, IsInjective
      <3> QED BY <2>3, <2>4, <3>1, <3>2
    <2>5. CASE m # 0
      <3>1. m - 1 \in 0 .. N /\ m \in Nat /\ m \in 1 .. N
        BY <1>0, <2>3, <2>5
      <3>2. m - 1 \notin S
        BY <2>2, <3>1
      <3>3. Kept(f[m - 1], paths, set, m - 1)
        BY <3>1, <3>2
      <3>4. f[m] = IF paths[m] \in set THEN Append(f[m - 1], paths[m]) ELSE f[m - 1]
        BY <1>1, <2>3, <2>5 DEF Keeps
      <3>5. PICK q : q = f[m - 1]
        OBVIOUS
      <3>6. PICK p : p = paths[m]
        OBVIOUS
      <3>7. {paths[i] : i \in 1 .. m} = {paths[i] : i \in 1 .. m - 1} \cup {p}
        BY <3>1, <3>6
      <3>8. p \notin {paths[i] : i \in 1 .. m - 1}
        BY <1>0, <1>2, <3>1, <3>6 DEF IsInjective
      <3>9. p \in ToSet(paths)
        BY <1>0, <3>1, <3>6 DEF ToSet
      <3>10. CASE p \in set
        <4>1. p \in ToSet(paths) \cap set /\ q \in Seq(ToSet(paths) \cap set) /\ IsInjective(q)
          BY <3>3, <3>5, <3>9, <3>10 DEF Kept
        <4>2. p \notin ToSet(q)
          BY <3>3, <3>5, <3>8 DEF Kept
        <4>3. Append(q, p) \in Seq(ToSet(paths) \cap set) /\ DOMAIN q = 1 .. Len(q)
              /\ DOMAIN Append(q, p) = 1 .. Len(q) + 1 /\ Len(q) \in Nat
              /\ \A i \in 1 .. Len(q) + 1 : Append(q, p)[i] = IF i <= Len(q) THEN q[i] ELSE p
          BY <4>1
        <4>4. PICK r : r = Append(q, p)
          OBVIOUS
        <4>5. IsInjective(r)
          BY <4>1, <4>2, <4>3, <4>4 DEF IsInjective, ToSet
        <4>6. ToSet(r) = ToSet(q) \cup {p}
          BY <4>3, <4>4 DEF ToSet
        <4>7. ToSet(r) = {paths[i] : i \in 1 .. m} \cap set
          BY <3>3, <3>5, <3>7, <3>10, <4>6 DEF Kept
        <4>8. Kept(r, paths, set, m)
          BY <4>3, <4>4, <4>5, <4>7 DEF Kept
        <4> QED BY <2>3, <3>4, <3>5, <3>6, <3>10, <4>4, <4>8
      <3>11. CASE p \notin set
        <4>1. {paths[i] : i \in 1 .. m} \cap set = {paths[i] : i \in 1 .. m - 1} \cap set
          BY <3>7, <3>11
        <4>2. Kept(q, paths, set, m)
          BY <3>3, <3>5, <4>1 DEF Kept
        <4> QED BY <2>3, <3>4, <3>5, <3>6, <3>11, <4>2
      <3> QED BY <3>10, <3>11
    <2> QED BY <2>4, <2>5
  <1>4. Kept(f[N], paths, set, N)
    BY <1>0, <1>3
  <1> QED BY <1>1, <1>4 DEF N

\* So these are the paths that are in the set.
LEMMA OnlyPaths ==
  ASSUME NEW T, NEW paths \in Seq(T), IsInjective(paths), NEW set
  PROVE  /\ Only(paths, set) \in Seq(T) /\ IsInjective(Only(paths, set))
         /\ ToSet(Only(paths, set)) = ToSet(paths) \cap set
  <1>1. Kept(Only(paths, set), paths, set, Len(paths))
    BY OnlyIs
  <1>2. ToSet(paths) = {paths[i] : i \in 1 .. Len(paths)} /\ ToSet(paths) \subseteq T
    BY DEF ToSet
  <1>3. PICK q : q = Only(paths, set)
    OBVIOUS
  <1>4. q \in Seq(ToSet(paths) \cap set)
    BY <1>1, <1>3 DEF Kept
  <1>5. q \in Seq(T)
    BY <1>2, <1>4
  <1> QED BY <1>1, <1>2, <1>3, <1>5 DEF Kept

-----------------------------------------------------------------------------
(* A size that went through an int once does not change when it does again. *)

\* A remainder is a residue,
LEMMA Remainder ==
  ASSUME NEW x \in Int, NEW y \in Nat \ {0}
  PROVE  x % y \in 0 .. y - 1
  OBVIOUS

\* x is made of quotient and remainder,
LEMMA Quotient ==
  ASSUME NEW x \in Int, NEW y \in Nat \ {0}
  PROVE  x = y * (x \div y) + (x % y) /\ x \div y \in Int
  OBVIOUS

\* a residue less the modulus has quotient -1,
LEMMA QuotientBelow ==
  ASSUME NEW q \in Int, NEW y \in Nat \ {0}, NEW m \in 0 .. y - 1, NEW r \in 0 .. y - 1,
         m - y = y * q + r
  PROVE  q = -1
  <1>1. CASE q >= 0
    <2>1. y * q >= 0
      BY <1>1
    <2> QED BY <2>1
  <1>2. CASE q <= -2
    <2>1. PICK k \in Nat : q = -2 - k
      BY <1>2
    <2>2. y * q = -2 * y - y * k
      BY <2>1
    <2>3. y * k >= 0
      BY <2>1
    <2> QED BY <2>2, <2>3
  <1> QED BY <1>1, <1>2

\* and the same remainder.
LEMMA RemainderBelow ==
  ASSUME NEW y \in Nat \ {0}, NEW m \in 0 .. y - 1
  PROVE  (m - y) % y = m
  <1>1. PICK q, r : q \in Int /\ r \in 0 .. y - 1 /\ m - y = y * q + r /\ r = (m - y) % y
    <2>1. m - y \in Int
      OBVIOUS
    <2> QED BY <2>1, Remainder, Quotient
  <1>2. q = -1
    BY <1>1, QuotientBelow
  <1> QED BY <1>1, <1>2

\* A residue is its own remainder.
LEMMA RemainderOf ==
  ASSUME NEW y \in Nat \ {0}, NEW m \in 0 .. y - 1
  PROVE  m % y = m
  OBVIOUS

\* column_int() of what column_int() returned is the same.
LEMMA ColumnTwice ==
  ASSUME NEW n \in Int
  PROVE  column_int(column_int(n)) = column_int(n)
  <1>1. PICK y : y = IntSize /\ y \in Nat \ {0}
    BY IntSizeAssumption
  <1>2. PICK m : m = n % y /\ m \in 0 .. y - 1
    BY <1>1, Remainder
  <1>3. m % y = m /\ (m - y) % y = m
    BY <1>1, <1>2, RemainderOf, RemainderBelow
  <1>4. column_int(n) \in {m, m - y}
    BY <1>1, <1>2 DEF column_int
  <1>5. column_int(n) % y = m
    BY <1>3, <1>4
  <1> QED BY <1>1, <1>2, <1>5 DEF column_int

-----------------------------------------------------------------------------
(* What the tables hold when a row comes or goes. *)

\* Being disjoint goes both ways, and down to parts.
LEMMA DisjointParts ==
  ASSUME NEW p, NEW q, Disjoint(p, q), NEW t, ToSet(t.paths) \subseteq ToSet(q.paths)
  PROVE  Disjoint(p, t) /\ Disjoint(t, p)
  BY DEF Disjoint

\* A row of its own is added,
LEMMA RowAdded ==
  ASSUME NEW rows, NEW sets, Tables(rows, sets), NEW row, RowOK(row, sets),
         \A r \in rows : Disjoint(r, row)
  PROVE  Tables(rows \cup {row}, sets)
  BY DEF Tables, Apart, Disjoint

\* rows are deleted.
LEMMA RowsGone ==
  ASSUME NEW rows, NEW sets, Tables(rows, sets), NEW less, less \subseteq rows
  PROVE  Tables(less, sets)
  BY DEF Tables, Apart

\* As long as the paths are the same, what holds of them holds on.
LEMMA TablesPrimed ==
  ASSUME Paths' = Paths, Tables(Rows', scanned')
  PROVE  Tables(Rows, scanned)'
  BY DEF Tables, Apart, Disjoint, RowOK, SetOK, Listed

\* So it is with a row, which stays right when no set is lost.
LEMMA RowPrimed ==
  ASSUME Paths' = Paths, NEW sets, NEW r, RowOK(r, sets)
  PROVE  RowOK(r, sets)'
  BY DEF RowOK, Listed

\* A step that leaves rows, sets and paths alone keeps the invariant, if
\* refresh does not run afterwards,
LEMMA TablesIdle ==
  ASSUME TablesInv, Paths' = Paths, Rows' \subseteq Rows, UNCHANGED scanned,
         ~Publishing', cmd' # "refresh"
  PROVE  TablesInv'
  <1>1. Tables(Rows, scanned)'
    BY RowsGone, TablesPrimed DEF TablesInv
  <1> QED BY <1>1 DEF TablesInv, Unpublished, Rewritten

\* or was and is at the same step.
LEMMA TablesSame ==
  ASSUME TablesInv, Paths' = Paths, Rows' = Rows, UNCHANGED <<scanned, cmd, pc, job>>
  PROVE  TablesInv'
  <1>1. Tables(Rows, scanned)'
    BY TablesPrimed DEF TablesInv
  <1>2. Unpublished'
    BY DEF TablesInv, Unpublished, Publishing, Disjoint
  <1>3. Rewritten'
    <2>1. Looking' = Looking
      BY DEF Looking, Behind, ToSet
    <2>2. ASSUME Rewriting PROVE Rewriting'
      BY <2>1, <2>2 DEF Rewriting, RowOK, Listed, Disjoint
    <2> QED BY <2>2 DEF TablesInv, Rewritten, Refreshing
  <1> QED BY <1>1, <1>2, <1>3 DEF TablesInv

-----------------------------------------------------------------------------
(* No program adds a path that dupd did not know of. *)
LEMMA PathsStay ==
  ASSUME CacheInv, [Next]_vars
  PROVE  Paths' = Paths
  <1>1. CASE Operation
    BY <1>1 DEF Operation, CacheListStart, CacheDelete, HashStart, ScanStart, RefreshStart,
                operation_report, operation_shell_script, Tell, FileStart, WalkStart,
                ValidateStart, VerifyStart, fsvars, Paths
  <1>2. CASE CacheNext
    BY <1>2 DEF CacheNext, CacheOpen, CacheCreate, HashFind, HashScrub, HashOpen, HashRead,
                HashReadEnd, HashAdd, HashCommit, ReadPart, EndOfFile, fsvars, Paths
  <1>3. CASE DbNext \/ ReportNext
    BY <1>3, DbNextIdle, ReportNextIdle DEF Idle, Paths
  <1>4. CASE Crash
    BY <1>4 DEF Crash, fsvars, Paths
  <1>5. CASE FileChange
    BY <1>5, FileChangeTouches DEF CacheInv, Touch, Paths
  <1>6. CASE UNCHANGED vars
    BY <1>6 DEF vars, fsvars, Paths
  <1> QED BY <1>1, <1>2, <1>3, <1>4, <1>5, <1>6 DEF Next

\* Rows of a scan that is not publishing are those of the file.
LEMMA RowsOfFile ==
  ASSUME ScanInv, ~Publishing
  PROVE  Rows = dup.rows /\ ~txn.open
  BY DEF ScanInv, Rows

\* Steps elsewhere leave the rows as they are.
LEMMA ElsewhereRows ==
  ASSUME Elsewhere
  PROVE  Rows' = Rows /\ UNCHANGED scanned /\ ~Publishing'
  BY DEF Elsewhere, Rows, Publishing

-----------------------------------------------------------------------------
(* The scan. *)
LEMMA UnlinkKeepsTables ==
  ASSUME TablesInv, ScanInv, Paths' = Paths, ScanUnlink
  PROVE  TablesInv'
  <1>1. ~Publishing /\ cmd' = "scan" /\ pc' = "create" /\ UNCHANGED txn /\ scanned' = {}
    BY DEF ScanUnlink, At, Goto, Publishing
  <1>2. dup'.rows = {}
    BY DEF ScanUnlink, NoDb
  <1>3. Rows' = {}
    BY <1>1, <1>2, RowsOfFile DEF Rows
  <1>4. Tables({}, {})
    BY DEF Tables, Apart
  <1>5. Tables(Rows', scanned')
    BY <1>1, <1>3, <1>4
  <1> QED BY <1>1, <1>5, TablesPrimed DEF TablesInv, Unpublished, Rewritten, Publishing

\* Making a table adds no row.
LEMMA CreateKeepsTables ==
  ASSUME TablesInv, ScanInv, Paths' = Paths, ScanCreate
  PROVE  TablesInv'
  <1>1. UNCHANGED <<cmd, pc, job, txn, scanned>>
    BY DEF ScanCreate, cmdvars
  <1>2. dup'.rows = dup.rows
    BY DEF ScanCreate, ScanInv
  <1> QED BY <1>1, <1>2, TablesSame DEF Rows

(* The sets that a scan finds are classes of files with the same data. *)
Class(S, p) == {q \in S : Data(q) = Data(p)}
Counted(S) == S \subseteq Paths /\ \A p \in S : file_exists(p)

FoundSet(s, S) ==
  \E p \in S : /\ Cardinality(Class(S, p)) > 1
               /\ s = [paths |-> SetToSeq(Class(S, p)),
                       size |-> Len(Data(SetToSeq(Class(S, p))[1]))]

\* The scan looks at files that count.
LEMMA FoundAreClasses ==
  ASSUME ScanFind
  PROVE  \E S : Counted(S) /\ \A s \in scanned' : FoundSet(s, S)
  <1> DEFINE h  == job.hardlink_is_unique
             S1 == {p \in Paths : file_exists(p) /\ Data(p) # << >>}
             S2 == {p \in S1 : \E q \in S1 \ {p} : Size(q) = Size(p)}
             S  == {p \in S2 : h => p = CHOOSE q \in S2 : Number(q) = Number(p)}
  <1>1. Counted(S)
    BY DEF Counted
  <1>2. SetsFound(h) = {SetToSeq(Class(S, p)) : p \in {q \in S : Cardinality(Class(S, q)) > 1}}
    BY Zenon DEF SetsFound, Class
  <1>3. scanned' = {[paths |-> paths, size |-> Len(Data(paths[1]))] : paths \in SetsFound(h)}
    BY DEF ScanFind
  <1>4. PICK T : T = S
    OBVIOUS
  <1> HIDE DEF S
  <1>5. ASSUME NEW s \in scanned' PROVE FoundSet(s, S)
    <2>1. PICK paths \in SetsFound(h) : s = [paths |-> paths, size |-> Len(Data(paths[1]))]
      BY <1>3, <1>5
    <2>2. PICK p \in S : Cardinality(Class(S, p)) > 1 /\ paths = SetToSeq(Class(S, p))
      BY <1>2, <2>1
    <2> QED BY <2>1, <2>2 DEF FoundSet
  <1> QED BY <1>1, <1>5

\* A class lists files that there are, more than one,
LEMMA ClassOK ==
  ASSUME FsInv, IsFiniteSet(Paths), NEW S, Counted(S), NEW s, FoundSet(s, S)
  PROVE  SetOK(s)
  <1>1. PICK p \in S : /\ Cardinality(Class(S, p)) > 1
                       /\ s = [paths |-> SetToSeq(Class(S, p)),
                               size |-> Len(Data(SetToSeq(Class(S, p))[1]))]
    BY DEF FoundSet
  <1>2. PICK q : q = SetToSeq(Class(S, p))
    OBVIOUS
  <1>3. Class(S, p) \subseteq S /\ Class(S, p) \subseteq Paths
    BY DEF Class, Counted
  <1>4. IsFiniteSet(Class(S, p))
    BY <1>3, FS_Subset
  <1>5. q \in Seq(Class(S, p)) /\ IsInjective(q) /\ Len(q) > 1
    BY <1>1, <1>2, <1>4, SetToSeqIs
  <1>6. q \in Seq(Paths) /\ q[1] \in Class(S, p)
    BY <1>3, <1>5
  <1>7. q[1] \in Paths /\ file_exists(q[1])
    BY <1>3, <1>6 DEF Counted
  <1>8. Len(Data(q[1])) \in Nat
    BY <1>7, DataTyped
  <1> QED BY <1>1, <1>2, <1>5, <1>6, <1>8 DEF SetOK, Listed

\* and two of them have no file in common.
LEMMA ClassesApart ==
  ASSUME IsFiniteSet(Paths), NEW S, Counted(S), NEW s, FoundSet(s, S), NEW t, FoundSet(t, S), s # t
  PROVE  Disjoint(s, t)
  <1>1. PICK p \in S : s = [paths |-> SetToSeq(Class(S, p)),
                            size |-> Len(Data(SetToSeq(Class(S, p))[1]))]
    BY DEF FoundSet
  <1>2. PICK q \in S : t = [paths |-> SetToSeq(Class(S, q)),
                            size |-> Len(Data(SetToSeq(Class(S, q))[1]))]
    BY DEF FoundSet
  <1>3. Class(S, p) # Class(S, q)
    BY <1>1, <1>2
  <1>4. Class(S, p) \cap Class(S, q) = {}
    BY <1>3 DEF Class
  <1>5. IsFiniteSet(Class(S, p)) /\ IsFiniteSet(Class(S, q))
    <2>1. Class(S, p) \subseteq Paths /\ Class(S, q) \subseteq Paths
      BY DEF Class, Counted
    <2> QED BY <2>1, FS_Subset
  <1>6. SetToSeq(Class(S, p)) \in Seq(Class(S, p)) /\ SetToSeq(Class(S, q)) \in Seq(Class(S, q))
    BY <1>5, SetToSeqIs
  <1>7. s.paths \in Seq(Class(S, p)) /\ t.paths \in Seq(Class(S, q))
    BY <1>1, <1>2, <1>6
  <1>8. ToSet(s.paths) \subseteq Class(S, p) /\ ToSet(t.paths) \subseteq Class(S, q)
    BY <1>7 DEF ToSet
  <1> QED BY <1>4, <1>8 DEF Disjoint

\* What a scan finds is right, and nothing of it is published.
LEMMA FindKeepsTables ==
  ASSUME TablesInv, ScanInv, FsInv, Paths' = Paths, ScanFind
  PROVE  TablesInv'
  <1>1. /\ At("scan", "create") /\ cmd' = "scan" /\ pc' = "publish"
        /\ txn' = [open |-> TRUE, rows |-> dup.rows]
    BY DEF ScanFind, Goto, At, begin_transaction
  <1>2. Rows' = {}
    BY <1>1 DEF ScanInv, Rows
  <1>3. PICK S : Counted(S) /\ \A s \in scanned' : FoundSet(s, S)
    BY FoundAreClasses
  <1>4. \A s \in scanned' : SetOK(s)
    BY <1>3, ClassOK DEF TablesInv
  <1>5. Apart(scanned')
    BY <1>3, ClassesApart DEF Apart, TablesInv
  <1>6. Tables(Rows', scanned')
    BY <1>2, <1>4, <1>5 DEF Tables, Apart
  <1> QED BY <1>1, <1>2, <1>6, TablesPrimed DEF TablesInv, Unpublished, Rewritten

\* A set becomes a row; what is still to do has no file in common with it.
LEMMA PublishKeepsTables ==
  ASSUME TablesInv, ScanInv, Paths' = Paths, ScanPublish
  PROVE  TablesInv'
  <1>1. Publishing /\ UNCHANGED <<cmd, pc, scanned>> /\ txn.open
    BY DEF ScanPublish, Publishing, At, ScanInv
  <1>2. PICK s \in job.todo :
          /\ duplicate_to_db(Len(s.paths), s.size, s.paths)
          /\ job' = [job EXCEPT !.todo = job.todo \ {s}]
    BY DEF ScanPublish
  <1> DEFINE row == [id |-> NextId(Rows), count |-> Len(s.paths), each_size |-> s.size,
                     paths |-> s.paths]
  <1>3. row.paths = s.paths /\ row.count = Len(s.paths) /\ row.each_size = s.size
    OBVIOUS
  <1>4. UNCHANGED dup /\ txn' = [txn EXCEPT !.rows = Rows \cup {row}]
    BY <1>1, <1>2 DEF duplicate_to_db, NowRows
  <1> HIDE DEF row
  <1>5. Rows' = Rows \cup {row} /\ job'.todo = job.todo \ {s}
    BY <1>1, <1>2, <1>4 DEF ScanInv, Rows
  <1>6. job.todo \subseteq scanned /\ s \in scanned
    BY <1>1, <1>2 DEF ScanInv
  <1>7. SetOK(s)
    BY <1>6 DEF TablesInv, Tables
  <1>8. RowOK(row, scanned)
    BY <1>3, <1>6, <1>7 DEF SetOK, RowOK
  <1>9. \A r \in Rows : Disjoint(s, r)
    BY <1>1, <1>2 DEF TablesInv, Unpublished
  <1>10. \A r \in Rows : Disjoint(r, row)
    BY <1>3, <1>9 DEF Disjoint
  <1>11. Tables(Rows', scanned')
    BY <1>1, <1>5, <1>8, <1>10, RowAdded DEF TablesInv
  <1>12. \A t \in job'.todo, r \in Rows' : Disjoint(t, r)
    <2> SUFFICES ASSUME NEW t \in job'.todo, NEW r \in Rows' PROVE Disjoint(t, r)
      OBVIOUS
    <2>1. t \in job.todo /\ t # s /\ t \in scanned
      BY <1>5, <1>6
    <2>2. CASE r \in Rows
      BY <1>1, <2>1, <2>2 DEF TablesInv, Unpublished
    <2>3. CASE r = row
      <3>1. Disjoint(t, s)
        BY <1>6, <2>1 DEF TablesInv, Tables, Apart
      <3> QED BY <1>3, <2>3, <3>1 DEF Disjoint
    <2> QED BY <1>5, <2>2, <2>3
  <1>13. Unpublished'
    BY <1>12 DEF Unpublished, Disjoint
  <1>14. Rewritten'
    BY <1>1 DEF Publishing, Rewritten
  <1> QED BY <1>11, <1>13, <1>14, TablesPrimed DEF TablesInv

\* The rows of the transaction become those of the file.
LEMMA CommitKeepsTables ==
  ASSUME TablesInv, ScanInv, Paths' = Paths, ScanCommit
  PROVE  TablesInv'
  <1>1. Publishing /\ txn.open /\ cmd' = "none" /\ UNCHANGED scanned
    BY DEF ScanCommit, Publishing, At, ScanInv, Return
  <1>2. dup'.rows = txn.rows /\ txn' = [open |-> FALSE, rows |-> {}]
    BY <1>1 DEF ScanCommit, ScanInv, NoTxn
  <1>3. txn'.open = FALSE
    BY <1>2
  <1>4. Rows' = Rows
    BY <1>1, <1>2, <1>3 DEF Rows
  <1> QED BY <1>1, <1>4, TablesIdle DEF Publishing

\* A command that is killed takes rows at most away.
LEMMA CrashKeepsTables ==
  ASSUME TablesInv, ScanInv, Paths' = Paths, Crash
  PROVE  TablesInv'
  <1>1. txn' = [open |-> FALSE, rows |-> {}] /\ cmd' = "none" /\ UNCHANGED <<dup, scanned>>
    BY DEF Crash, Return, NoTxn
  <1>2. txn'.open = FALSE
    BY <1>1
  <1>3. Rows' = dup.rows
    BY <1>1, <1>2 DEF Rows
  <1>4. Rows' \subseteq Rows
    BY <1>3, RowsOfFile DEF ScanInv
  <1> QED BY <1>1, <1>4, TablesIdle DEF Publishing

\* Files that change change no rows.
LEMMA FileChangeKeepsTables ==
  ASSUME TablesInv, Paths' = Paths, FileChange
  PROVE  TablesInv'
  <1>1. UNCHANGED <<cmd, pc, job, dup, txn, scanned>>
    BY DEF FileChange, cmdvars
  <1> QED BY <1>1, TablesSame DEF Rows

-----------------------------------------------------------------------------
(* The refresh. *)

\* It begins with nothing rewritten.
LEMMA RefreshStartKeepsTables ==
  ASSUME TablesInv, Paths' = Paths, Elsewhere, NEW h, RefreshStart(h)
  PROVE  TablesInv'
  <1>1. /\ cmd' = "refresh" /\ pc' = "row"
        /\ job' = [since |-> changes, before |-> dup.rows, todo |-> {r.id : r \in dup.rows}]
    BY DEF RefreshStart, Begin
  <1>2. {"since", "before", "todo"} \subseteq DOMAIN job'
    BY <1>1
  <1>3. Rewritten'
    BY <1>1, <1>2 DEF Rewritten, Refreshing
  <1>4. Tables(Rows', scanned') /\ ~Publishing'
    BY ElsewhereRows DEF TablesInv
  <1> QED BY <1>3, <1>4, TablesPrimed DEF TablesInv, Unpublished

\* A row is read: its paths are to be looked at.
RowSeen(row) ==
  /\ row \in RowsLeft /\ cmd' = "refresh" /\ pc' = "look"
  /\ {"row", "looked", "left", "since", "before", "todo"} \subseteq DOMAIN job'
  /\ job'.row = row /\ job'.looked = 0 /\ job'.left = << >>
  /\ job'.since = job.since /\ job'.before = job.before /\ job'.todo = job.todo \ {row.id}

\* RefreshRow does that.
LEMMA RowIsSeen ==
  ASSUME RefreshRow
  PROVE  \E row \in RowsLeft : RowSeen(row)
  <1>1. PICK row \in RowsLeft :
          job' = [row |-> row, looked |-> 0, left |-> << >>, since |-> job.since,
                  before |-> job.before, todo |-> job.todo \ {row.id}]
    BY DEF RefreshRow
  <1>2. PICK todo : todo = job.todo \ {row.id}
    OBVIOUS
  <1>3. cmd' = "refresh" /\ pc' = "look"
    BY DEF RefreshRow, At, Goto
  <1>4. /\ {"row", "looked", "left", "since", "before", "todo"} \subseteq DOMAIN job'
        /\ job'.row = row /\ job'.looked = 0 /\ job'.left = << >>
        /\ job'.since = job.since /\ job'.before = job.before /\ job'.todo = todo
    BY <1>1, <1>2
  <1> QED BY <1>2, <1>3, <1>4 DEF RowSeen

\* A row seen keeps the invariant.
LEMMA RowKeepsTables ==
  ASSUME TablesInv, ScanInv, Paths' = Paths, RefreshRow
  PROVE  TablesInv'
  <1>1. cmd = "refresh" /\ ~Publishing /\ ~Publishing' /\ Rows' = Rows /\ UNCHANGED scanned
    BY DEF RefreshRow, At, Goto, Publishing, dbvars, Rows
  <1>2. PICK row \in RowsLeft : RowSeen(row)
    BY RowIsSeen
  <1>3. row \in Rows
    BY <1>1, RowsOfFile DEF RowsLeft
  <1>4. RowOK(row, scanned)
    BY <1>3 DEF TablesInv, Tables
  <1>5. RowOK(job.row, scanned)'
    BY <1>1, <1>2, <1>4, RowPrimed DEF RowSeen, RowOK, Listed
  <1>6. Listed(job.left)' /\ ToSet(job.left)' = {}
    BY <1>2 DEF RowSeen, Listed, IsInjective, ToSet
  <1>7. Looking'
    <2>1. Len(row.paths) \in Nat
      BY <1>4 DEF RowOK, Listed
    <2> QED BY <1>2, <1>6, <2>1 DEF RowSeen, Looking
  <1>8. Rewriting'
    BY <1>1, <1>2, <1>3, <1>5, <1>6, <1>7 DEF Rewriting, RowSeen
  <1>9. Refreshing'
    BY <1>2 DEF RowSeen, Refreshing
  <1>10. Tables(Rows', scanned')
    BY <1>1 DEF TablesInv
  <1> QED BY <1>1, <1>8, <1>9, <1>10, TablesPrimed DEF TablesInv, Unpublished, Rewritten

\* A path of it is looked at, and left if there is a file.
Here == job.row.paths[job.looked + 1]

PathSeen ==
  /\ cmd' = "refresh" /\ pc' = "look"
  /\ DOMAIN job' = DOMAIN job
  /\ job'.row = job.row
  /\ job'.since = job.since /\ job'.before = job.before /\ job'.todo = job.todo
  /\ job.looked < Len(job.row.paths) /\ job'.looked = job.looked + 1
  /\ job'.left = IF file_exists(Here) THEN Append(job.left, Here) ELSE job.left

\* RefreshLook does that.
LEMMA PathIsSeen ==
  ASSUME Refreshing, Rewriting, RefreshLook
  PROVE  PathSeen
  <1>1. PICK left : left = IF file_exists(Here) THEN Append(job.left, Here) ELSE job.left
    OBVIOUS
  <1>2. /\ cmd' = "refresh" /\ pc' = "look" /\ job.looked < Len(job.row.paths)
        /\ job' = [job EXCEPT !.looked = @ + 1, !.left = left]
    BY <1>1 DEF RefreshLook, At, Goto, Here
  <1>3. /\ DOMAIN job' = DOMAIN job /\ job'.row = job.row
        /\ job'.since = job.since /\ job'.before = job.before /\ job'.todo = job.todo
        /\ job'.looked = job.looked + 1 /\ job'.left = left
    BY <1>2 DEF Refreshing, Rewriting
  <1> QED BY <1>1, <1>2, <1>3 DEF PathSeen

\* What a look at a path does to the paths left.
LEMMA PathBehind ==
  ASSUME Rewriting, pc = "look", PathSeen
  PROVE  /\ Behind' = Behind \cup {Here} /\ Here \notin ToSet(job.left)
         /\ Here \in ToSet(job.row.paths) /\ Here \in Paths
         /\ job'.looked \in 0 .. Len(job.row.paths)
  <1>1. PICK paths, n : paths = job.row.paths /\ n = job.looked
    OBVIOUS
  <1>2. /\ paths \in Seq(Paths) /\ IsInjective(paths) /\ n \in 0 .. Len(paths)
        /\ ToSet(job.left) \subseteq Behind
    BY <1>1 DEF Rewriting, Looking, RowOK, Listed
  <1>3. n < Len(paths) /\ job'.looked = n + 1 /\ job'.row.paths = paths
    BY <1>1 DEF PathSeen
  <1>4. DOMAIN paths = 1 .. Len(paths) /\ Len(paths) \in Nat /\ n + 1 \in 1 .. Len(paths)
    BY <1>2, <1>3
  <1>5. Here = paths[n + 1] /\ Behind = {paths[i] : i \in 1 .. n}
    BY <1>1 DEF Here, Behind
  <1>6. Behind' = {paths[i] : i \in 1 .. n + 1}
    BY <1>3 DEF Behind
  <1>7. Here \notin Behind
    BY <1>2, <1>4, <1>5 DEF IsInjective
  <1>8. Behind' = Behind \cup {Here}
    <2>1. \A i \in 1 .. n + 1 : i \in 1 .. n \/ i = n + 1
      BY <1>2
    <2>2. n + 1 \in 1 .. n + 1 /\ \A i \in 1 .. n : i \in 1 .. n + 1
      BY <1>2
    <2> QED BY <1>5, <1>6, <2>1, <2>2, Zenon
  <1>9. Here \in ToSet(paths) /\ Here \in Paths
    BY <1>2, <1>4, <1>5 DEF ToSet
  <1> QED BY <1>1, <1>2, <1>3, <1>4, <1>7, <1>8, <1>9

\* The paths left are still different ones.
LEMMA PathLeft ==
  ASSUME Rewriting, pc = "look", PathSeen
  PROVE  /\ Listed(job'.left)
         /\ ToSet(job'.left) = ToSet(job.left) \cup {p \in {Here} : file_exists(p)}
  <1>1. PICK p, left : p = Here /\ left = job.left
    OBVIOUS
  <1>2. left \in Seq(Paths) /\ IsInjective(left) /\ p \in Paths /\ p \notin ToSet(left)
    BY <1>1, PathBehind DEF Rewriting, Listed
  <1>3. CASE file_exists(p)
    <2>1. PICK r : r = Append(left, p)
      OBVIOUS
    <2>2. job'.left = r
      BY <1>1, <1>3, <2>1 DEF PathSeen
    <2>3. r \in Seq(Paths) /\ DOMAIN left = 1 .. Len(left)
          /\ DOMAIN r = 1 .. Len(left) + 1 /\ Len(left) \in Nat
          /\ \A i \in 1 .. Len(left) + 1 : r[i] = IF i <= Len(left) THEN left[i] ELSE p
      BY <1>2, <2>1
    <2>4. IsInjective(r)
      BY <1>2, <2>3 DEF IsInjective, ToSet
    <2>5. ToSet(r) = ToSet(left) \cup {p}
      BY <2>3 DEF ToSet
    <2> QED BY <1>1, <1>3, <2>2, <2>3, <2>4, <2>5 DEF Listed
  <1>4. CASE ~file_exists(p)
    <2>1. job'.left = left
      BY <1>1, <1>4 DEF PathSeen
    <2> QED BY <1>1, <1>2, <1>4, <2>1 DEF Listed
  <1> QED BY <1>3, <1>4

\* A path seen keeps the invariant.
LEMMA LookKeepsTables ==
  ASSUME TablesInv, ScanInv, Paths' = Paths, RefreshLook
  PROVE  TablesInv'
  <1>1. /\ cmd = "refresh" /\ pc = "look" /\ ~Publishing /\ ~Publishing'
        /\ Rows' = Rows /\ UNCHANGED scanned
    BY DEF RefreshLook, At, Goto, Publishing, dbvars, Rows
  <1>2. Refreshing /\ Rewriting
    BY <1>1 DEF TablesInv, Rewritten
  <1>3. PathSeen
    BY <1>2, PathIsSeen
  <1>4. job'.row = job.row /\ DOMAIN job' = DOMAIN job /\ pc' = "look"
    BY <1>3 DEF PathSeen
  <1>5. RowOK(job.row, scanned)' /\ job'.row \in Rows'
    BY <1>1, <1>2, <1>4, RowPrimed DEF Rewriting, RowOK, Listed
  <1>6. Listed(job.left)'
    BY <1>1, <1>2, <1>3, PathLeft DEF Listed
  <1>7. /\ ToSet(job'.left) \subseteq ToSet(job.row.paths) /\ ToSet(job'.left) \subseteq Behind'
        /\ job'.looked \in 0 .. Len(job'.row.paths)
    BY <1>1, <1>2, <1>3, <1>4, PathLeft, PathBehind DEF Rewriting, Looking
  <1>8. (ToSet(job.left) \subseteq ToSet(job.row.paths))' /\ Looking'
    BY <1>4, <1>7 DEF Looking, ToSet
  <1>9. Rewriting'
    BY <1>2, <1>4, <1>5, <1>6, <1>8 DEF Rewriting
  <1>10. Refreshing'
    BY <1>2, <1>4 DEF Refreshing
  <1>11. Tables(Rows', scanned')
    BY <1>1 DEF TablesInv
  <1> QED BY <1>1, <1>9, <1>10, <1>11, TablesPrimed DEF TablesInv, Unpublished, Rewritten

\* All paths of a row are left exactly if their number is.
LEMMA AllLeft ==
  ASSUME Rewriting
  PROVE  Len(job.left) = job.row.count <=> ToSet(job.left) = ToSet(job.row.paths)
  <1>1. /\ Listed(job.left) /\ Listed(job.row.paths) /\ Len(job.row.paths) = job.row.count
        /\ ToSet(job.left) \subseteq ToSet(job.row.paths)
    BY DEF Rewriting, RowOK
  <1>2. /\ IsFiniteSet(ToSet(job.row.paths)) /\ Cardinality(ToSet(job.row.paths)) = job.row.count
        /\ Cardinality(ToSet(job.left)) = Len(job.left)
    BY <1>1, ListedCount DEF Listed
  <1> QED BY <1>1, <1>2, FS_Subset

\* When all were looked at, the row stays or is deleted.
RowDecided ==
  /\ cmd' = "refresh" /\ UNCHANGED job
  /\ Behind = ToSet(job.row.paths)
  /\ pc' = IF ToSet(job.left) = ToSet(job.row.paths) THEN "row" ELSE "delete"

\* RefreshLooked does that,
LEMMA RowIsDecided ==
  ASSUME Rewriting, RefreshLooked
  PROVE  RowDecided
  <1>1. /\ cmd' = "refresh" /\ UNCHANGED job /\ job.looked = Len(job.row.paths)
        /\ pc' = IF Len(job.left) = job.row.count THEN "row" ELSE "delete"
    BY DEF RefreshLooked, At, Goto
  <1>2. DOMAIN job.row.paths = 1 .. Len(job.row.paths)
    BY DEF Rewriting, RowOK, Listed
  <1>3. Behind = ToSet(job.row.paths)
    BY <1>1, <1>2 DEF Behind, ToSet
  <1> QED BY <1>1, <1>3, AllLeft DEF RowDecided

\* and keeps the invariant.
LEMMA LookedKeepsTables ==
  ASSUME TablesInv, ScanInv, Paths' = Paths, RefreshLooked
  PROVE  TablesInv'
  <1>1. /\ cmd = "refresh" /\ pc = "look" /\ ~Publishing /\ ~Publishing'
        /\ Rows' = Rows /\ UNCHANGED scanned
    BY DEF RefreshLooked, At, Goto, Publishing, dbvars, Rows
  <1>2. Refreshing /\ Rewriting
    BY <1>1 DEF TablesInv, Rewritten
  <1>3. cmd' = "refresh" /\ UNCHANGED job /\ pc' \in {"row", "delete"}
    BY <1>2, RowIsDecided DEF RowDecided
  <1>4. RowOK(job.row, scanned)' /\ Listed(job.left)'
    BY <1>1, <1>2, <1>3, RowPrimed DEF Rewriting, RowOK, Listed
  <1>5. Rewriting'
    BY <1>1, <1>2, <1>3, <1>4 DEF Rewriting, ToSet
  <1>6. Refreshing'
    BY <1>2, <1>3 DEF Refreshing
  <1>7. Tables(Rows', scanned')
    BY <1>1 DEF TablesInv
  <1> QED BY <1>1, <1>5, <1>6, <1>7, TablesPrimed DEF TablesInv, Unpublished, Rewritten

\* The old row goes; its files are then in no row.
LEMMA DeleteKeepsTables ==
  ASSUME TablesInv, ScanInv, Paths' = Paths, RefreshDelete
  PROVE  TablesInv'
  <1>1. /\ cmd = "refresh" /\ pc = "delete" /\ cmd' = "refresh" /\ UNCHANGED <<job, scanned>>
        /\ pc' = (IF IsSet(job.left) THEN "insert" ELSE "row")
        /\ delete_duplicate_entry(job.row)
    BY DEF RefreshDelete, At, Goto
  <1>2. ~Publishing /\ ~Publishing'
    BY <1>1 DEF Publishing
  <1>3. Refreshing /\ Rewriting
    BY <1>1 DEF TablesInv, Rewritten
  <1>4. Rows' = Rows \ {job.row}
    <2>1. ~txn.open
      BY <1>2, RowsOfFile
    <2>2. UNCHANGED txn /\ dup' = [dup EXCEPT !.rows = Rows \ {job.row}]
      BY <1>1, <2>1 DEF delete_duplicate_entry, NowRows
    <2> QED BY <2>1, <2>2 DEF ScanInv, Rows
  <1>5. Tables(Rows', scanned')
    BY <1>1, <1>4, RowsGone DEF TablesInv
  <1>6. ASSUME pc' # "row" PROVE Rewriting'
    <2>1. pc' = "insert" /\ Len(job.left) > 1
      BY <1>1, <1>6 DEF IsSet
    <2>2. \A r \in Rows' : Disjoint(r, job.row)
      <3>1. job.row \in Rows
        BY <1>1, <1>3 DEF Rewriting
      <3> QED BY <1>4, <3>1 DEF TablesInv, Tables, Apart
    <2>3. (\A r \in Rows : Disjoint(r, job.row))'
      BY <1>1, <2>2 DEF Disjoint
    <2>4. RowOK(job.row, scanned)' /\ Listed(job.left)'
      BY <1>1, <1>3 DEF Rewriting, RowOK, Listed
    <2> QED BY <1>1, <1>3, <2>1, <2>3, <2>4 DEF Rewriting
  <1>7. Refreshing'
    BY <1>1, <1>3 DEF Refreshing
  <1> QED BY <1>2, <1>5, <1>6, <1>7, TablesPrimed DEF TablesInv, Unpublished, Rewritten

\* The new row is a part of the old one.
LEMMA InsertKeepsTables ==
  ASSUME TablesInv, ScanInv, Paths' = Paths, RefreshInsert
  PROVE  TablesInv'
  <1>1. /\ cmd = "refresh" /\ pc = "insert" /\ cmd' = "refresh" /\ pc' = "row"
        /\ UNCHANGED scanned
        /\ job' = job \/ job' = [job EXCEPT !.todo = @ \cup {NextId(Rows)}]
        /\ duplicate_to_db(NewCount(job.row, job.left), column_int(job.row.each_size), job.left)
    BY DEF RefreshInsert, At, Goto
  <1>2. ~Publishing /\ ~Publishing'
    BY <1>1 DEF Publishing
  <1>3. Refreshing /\ Rewriting
    BY <1>1 DEF TablesInv, Rewritten
  <1> DEFINE row == [id |-> NextId(Rows), count |-> NewCount(job.row, job.left),
                     each_size |-> column_int(job.row.each_size), paths |-> job.left]
  <1>4. /\ row.paths = job.left /\ row.count = Len(job.left)
        /\ row.each_size = column_int(job.row.each_size)
    BY DEF NewCount
  <1>5. ~txn.open
    BY <1>2, RowsOfFile
  <1>6. UNCHANGED txn /\ dup' = [dup EXCEPT !.rows = Rows \cup {row}]
    BY <1>1, <1>5 DEF duplicate_to_db, NowRows
  <1> HIDE DEF row
  <1>7. Rows' = Rows \cup {row}
    BY <1>5, <1>6 DEF ScanInv, Rows
  <1>8. Listed(job.left) /\ ToSet(job.left) \subseteq ToSet(job.row.paths) /\ Len(job.left) > 1
    BY <1>1, <1>3 DEF Rewriting
  <1>9. PICK s \in scanned : /\ ToSet(job.row.paths) \subseteq ToSet(s.paths)
                             /\ job.row.each_size \in {s.size, column_int(s.size)}
    BY <1>3 DEF Rewriting, RowOK
  <1>10. row.each_size = column_int(s.size)
    <2>1. s.size \in Int
      BY <1>9 DEF TablesInv, Tables, SetOK
    <2> QED BY <1>4, <1>9, <2>1, ColumnTwice
  <1>11. RowOK(row, scanned)
    <2>1. ToSet(row.paths) \subseteq ToSet(s.paths)
      BY <1>4, <1>8, <1>9
    <2> QED BY <1>4, <1>8, <1>9, <1>10, <2>1 DEF RowOK
  <1>12. \A r \in Rows : Disjoint(r, row)
    <2>1. \A r \in Rows : Disjoint(r, job.row)
      BY <1>1, <1>3 DEF Rewriting
    <2> QED BY <1>4, <1>8, <2>1, DisjointParts
  <1>13. Tables(Rows', scanned')
    BY <1>1, <1>7, <1>11, <1>12, RowAdded DEF TablesInv
  <1>14. Refreshing'
    BY <1>1, <1>3 DEF Refreshing
  <1> QED BY <1>1, <1>2, <1>13, <1>14, TablesPrimed DEF TablesInv, Unpublished, Rewritten

\* The end of it leaves the tables as they are.
LEMMA EndKeepsTables ==
  ASSUME TablesInv, Paths' = Paths, RefreshEnd
  PROVE  TablesInv'
  <1>1. cmd' = "none" /\ UNCHANGED <<dup, txn, scanned>>
    BY DEF RefreshEnd, Return
  <1> QED BY <1>1, TablesIdle DEF Rows, Publishing

-----------------------------------------------------------------------------
\* An operation begins when no command runs.
LEMMA OperationBegins ==
  ASSUME Operation
  PROVE  cmd = "none"
  BY DEF Operation, CacheListStart, CacheDelete, HashStart, ScanStart, RefreshStart,
         operation_report, operation_shell_script, Tell, FileStart, WalkStart, ValidateStart,
         VerifyStart, Begin

\* No step but its start begins a refresh, and the reports run none.
LEMMA NoRefresh ==
  ASSUME Rewritten,
         \/ CacheNext /\ UNCHANGED dbvars
         \/ ReportNext
         \/ Operation /\ ~\E h : RefreshStart(h)
  PROVE  Elsewhere /\ cmd # "refresh" /\ cmd' # "refresh"
  <1>1. CASE CacheNext /\ UNCHANGED dbvars
    <2>1. cmd' \in {cmd, "none"}
      BY <1>1 DEF CacheNext, CacheOpen, CacheCreate, AfterOpen, HashFind, HashScrub, HashOpen,
                  HashRead, HashReadEnd, HashAdd, HashCommit, ReadPart, Goto, Return
    <2>2. cmd # "refresh"
      BY <1>1 DEF Rewritten, Refreshing, CacheNext, CacheOpen, CacheCreate, HashFind, HashScrub,
                  HashOpen, HashRead, HashReadEnd, HashAdd, HashCommit, At
    <2> QED BY <1>1, <2>1, <2>2, CacheNextElsewhere
  <1>2. CASE ReportNext
    <2>1. cmd # "refresh"
      BY <1>2 DEF ReportNext, NextFile, NextRow, NextNone, OpenSelf, ReadFile, SelfEnd, StatSelf,
                  StatDup, OpenDup, DupEnd, Verified, Verifying, Shown, At
    <2>2. cmd' \in {cmd, "none"}
      BY <1>2 DEF ReportNext, NextFile, NextRow, NextNone, OpenSelf, ReadFile, SelfEnd, StatSelf,
                  StatDup, OpenDup, DupEnd, Verified, Goto, Return, Reverify, ReadPart, Status
    <2> QED BY <1>2, <2>1, <2>2, ReportNextElsewhere
  <1>3. CASE Operation /\ ~\E h : RefreshStart(h)
    <2>1. ASSUME CacheListStart \/ CacheDelete \/ \E path \in Asked : HashStart(path)
          PROVE  cmd' # "refresh"
      BY <2>1 DEF CacheListStart, CacheDelete, HashStart, Begin
    <2>2. ASSUME NEW options \in Options,
                 \/ ScanStart(options.hardlink_is_unique)
                 \/ operation_report(options.hardlink_is_unique)
                 \/ \E link \in Links : operation_shell_script(link, options.hardlink_is_unique)
                 \/ \E path \in Asked : FileStart(path, options)
                 \/ \E c \in Walks : WalkStart(c, Asked, options)
                 \/ ValidateStart(options)
          PROVE  cmd' # "refresh"
      BY <2>2, CommandsAssumption
         DEF ScanStart, operation_report, operation_shell_script, Tell, FileStart, WalkStart,
             ValidateStart, VerifyStart, Begin
    <2>3. \A options \in Options : ~RefreshStart(options.hardlink_is_unique)
      BY <1>3
    <2>4. cmd' # "refresh"
      BY <1>3, <2>1, <2>2, <2>3, Zenon DEF Operation
    <2>5. Elsewhere
      BY <1>3, OperationElsewhere
    <2>6. cmd # "refresh"
      BY <1>3, OperationBegins
    <2> QED BY <2>4, <2>5, <2>6
  <1> QED BY <1>1, <1>2, <1>3

\* Every step keeps the invariant of the rows.
LEMMA TablesStep ==
  ASSUME CacheInv, ScanInv, TablesInv, [Next]_vars
  PROVE  TablesInv'
  <1>1. Paths' = Paths
    BY PathsStay
  <1>2. CASE \/ CacheNext /\ UNCHANGED dbvars
             \/ ReportNext
             \/ Operation /\ ~\E h : RefreshStart(h)
    BY <1>1, <1>2, NoRefresh, ElsewhereRows, TablesIdle DEF TablesInv
  <1>3. CASE Operation /\ \E h : RefreshStart(h)
    BY <1>1, <1>3, OperationElsewhere, RefreshStartKeepsTables
  <1>4. CASE DbNext
    BY <1>1, <1>4, UnlinkKeepsTables, CreateKeepsTables, FindKeepsTables, PublishKeepsTables,
       CommitKeepsTables, RowKeepsTables, LookKeepsTables, LookedKeepsTables, DeleteKeepsTables,
       InsertKeepsTables, EndKeepsTables DEF DbNext, CacheInv
  <1>5. CASE Crash
    BY <1>1, <1>5, CrashKeepsTables
  <1>6. CASE FileChange
    BY <1>1, <1>6, FileChangeKeepsTables
  <1>7. CASE UNCHANGED vars
    <2>1. UNCHANGED <<cmd, pc, job, dup, txn, scanned>>
      BY <1>7 DEF vars, cmdvars, dbvars
    <2> QED BY <1>1, <2>1, TablesSame DEF Rows
  <1> QED BY <1>2, <1>3, <1>4, <1>5, <1>6, <1>7 DEF Next

\* The rows of an invariant state are those that RowsFromScan asks for.
LEMMA TablesFromScan == TablesInv => RowsFromScan
  <1> SUFFICES ASSUME TablesInv, NEW r \in Rows
               PROVE  /\ Len(r.paths) = r.count /\ r.count > 1
                      /\ Cardinality(ToSet(r.paths)) = r.count
                      /\ \E s \in scanned : /\ ToSet(r.paths) \subseteq ToSet(s.paths)
                                            /\ r.each_size \in {s.size, column_int(s.size)}
                      /\ \A o \in Rows \ {r} : ToSet(o.paths) \cap ToSet(r.paths) = {}
    BY DEF RowsFromScan
  <1>1. RowOK(r, scanned)
    BY DEF TablesInv, Tables
  <1>2. Cardinality(ToSet(r.paths)) = Len(r.paths)
    BY <1>1, ListedCount DEF RowOK, Listed
  <1>3. \A o \in Rows \ {r} : ToSet(o.paths) \cap ToSet(r.paths) = {}
    BY DEF TablesInv, Tables, Apart, Disjoint
  <1> QED BY <1>1, <1>2, <1>3 DEF RowOK

\* There are no rows at first.
LEMMA TablesAtFirst ==
  ASSUME Init
  PROVE  ScanInv /\ TablesInv
  <1>1. /\ cmd = "none" /\ txn = [open |-> FALSE, rows |-> {}] /\ scanned = {}
        /\ dup = [stage |-> 1, hardlinks |-> "normal", rows |-> {}]
    BY DEF Init, CommandInit, DbInit, NoDb, NoTxn
  <1>2. txn.open = FALSE /\ ~Publishing /\ ~At("scan", "create") /\ cmd # "refresh"
    BY <1>1 DEF Publishing, At
  <1>3. txn.open <=> Publishing
    BY <1>2
  <1>4. /\ dup = [stage |-> dup.stage, hardlinks |-> dup.hardlinks, rows |-> dup.rows]
        /\ txn = [open |-> txn.open, rows |-> txn.rows]
    BY <1>1
  <1>5. ScanInv
    BY <1>2, <1>3, <1>4 DEF ScanInv
  <1>6. Rows = {}
    BY <1>1, <1>2 DEF Rows
  <1>7. Tables({}, {})
    BY DEF Tables, Apart
  <1>8. Tables(Rows, scanned)
    BY <1>1, <1>6, <1>7
  <1>9. IsFiniteSet(Paths)
    BY FilesAssumption DEF Init, FilesInit, Paths
  <1> QED BY <1>2, <1>5, <1>8, <1>9 DEF TablesInv, Unpublished, Rewritten

(* The rows of the database are disjoint parts of the sets that the last scan
   found, counted right, at every moment of scans and refreshes, killed ones
   too, whatever happens to the files (duplicate_to_db() and
   operation_refresh()). *)
THEOREM RowsAreFromScan == Spec => []RowsFromScan
  <1>1. Init => CacheInv /\ ScanInv /\ TablesInv
    BY CacheInvAtFirst, TablesAtFirst
  <1>2. CacheInv /\ ScanInv /\ TablesInv /\ [Next]_vars => (CacheInv /\ ScanInv /\ TablesInv)'
    BY CacheStep, ScanStep, TablesStep
  <1>3. CacheInv /\ ScanInv /\ TablesInv => RowsFromScan
    BY TablesFromScan
  <1> QED BY <1>1, <1>2, <1>3, PTL DEF Spec

-----------------------------------------------------------------------------
(* As long as files are only deleted, or none changed since refresh began,
   those of a row that there was then, if there is more than one left of them,
   are in a row, or in the one that refresh is about to write; and those that
   are left of the paths it has looked at are among those it keeps. *)
OnlyDeleted == trust # "no" \/ changes = job.since

Remaining(r) == Existing(ToSet(r.paths))

InOne(left) ==
  \/ \E q \in Rows : left \subseteq ToSet(q.paths)
  \/ pc = "insert" /\ left \subseteq ToSet(job.left)

Together ==
  /\ pc = "look" => Existing(Behind) \subseteq ToSet(job.left)
  /\ pc = "delete" => Remaining(job.row) \subseteq ToSet(job.left)
  /\ \A r \in job.before : Cardinality(Remaining(r)) > 1 => InOne(Remaining(r))

Begun ==
  /\ job.since \in Nat /\ job.since <= changes
  /\ \A r \in job.before : ToSet(r.paths) \subseteq Paths

KeptTogether == cmd = "refresh" => Begun /\ (OnlyDeleted => Together)

\* Of finitely many files finitely many remain.
LEMMA RemainingFinite ==
  ASSUME IsFiniteSet(Paths), NEW r, ToSet(r.paths) \subseteq Paths
  PROVE  IsFiniteSet(Remaining(r))
  <1>1. Remaining(r) \subseteq Paths
    BY DEF Remaining, Existing
  <1> QED BY <1>1, FS_Subset

\* At first the rows are those that were there.
LEMMA RefreshStartKeepsTogether ==
  ASSUME TablesInv, ScanInv, CacheInv, Paths' = Paths, NEW h, RefreshStart(h)
  PROVE  KeptTogether'
  <1>1. /\ cmd = "none" /\ cmd' = "refresh" /\ pc' = "row"
        /\ UNCHANGED <<inode, changes, dup, txn>>
        /\ job' = [since |-> changes, before |-> dup.rows, todo |-> {r.id : r \in dup.rows}]
    BY DEF RefreshStart, Begin, fsvars, dbvars
  <1>2. Rows = dup.rows /\ Rows' = Rows
    BY <1>1, RowsOfFile DEF Publishing, Rows
  <1>3. job'.since = changes /\ job'.before = Rows
    BY <1>1, <1>2
  <1>4. changes \in Nat
    BY DEF CacheInv, FsInv
  <1>5. \A r \in Rows : ToSet(r.paths) \subseteq Paths
    BY DEF TablesInv, Tables, RowOK, Listed, ToSet
  <1>6. Begun'
    BY <1>1, <1>3, <1>4, <1>5 DEF Begun, ToSet
  <1>7. \A r \in Rows : Remaining(r)' \subseteq ToSet(r.paths)
    BY DEF Remaining, Existing
  <1>8. ASSUME NEW r \in job'.before PROVE InOne(Remaining(r))'
    BY <1>2, <1>3, <1>7, <1>8 DEF InOne
  <1> QED BY <1>1, <1>6, <1>8 DEF KeptTogether, Together

Looks == RefreshRow \/ RefreshLook \/ RefreshLooked

\* Looking at a row and at its paths changes no row.
LEMMA LooksOnly ==
  ASSUME Looks
  PROVE  /\ cmd = "refresh" /\ cmd' = "refresh" /\ ~Publishing /\ Rows' = Rows
         /\ UNCHANGED <<inode, data, changes, dup, txn, scanned, trust>>
  BY DEF Looks, RefreshRow, RefreshLook, RefreshLooked, At, Goto, Publishing, dbvars, fsvars, Rows

\* They are steps of the same refresh.
LEMMA LooksWhere ==
  ASSUME TablesInv, Looks
  PROVE  /\ job'.since = job.since /\ job'.before = job.before
         /\ pc # "insert" /\ pc' # "insert"
  <1>1. Refreshing
    BY LooksOnly DEF TablesInv, Rewritten
  <1>2. CASE RefreshRow
    <2>1. PICK row \in RowsLeft : RowSeen(row)
      BY <1>2, RowIsSeen
    <2> QED BY <1>2, <2>1 DEF RowSeen, RefreshRow, At
  <1>3. CASE RefreshLook
    <2>1. pc = "look"
      BY <1>3 DEF RefreshLook, At
    <2>2. PathSeen
      BY <1>1, <1>3, <2>1, LooksOnly, PathIsSeen DEF TablesInv, Rewritten
    <2> QED BY <2>1, <2>2 DEF PathSeen
  <1>4. CASE RefreshLooked
    BY <1>4 DEF RefreshLooked, At, Goto
  <1> QED BY <1>2, <1>3, <1>4 DEF Looks

\* What is left of a row that is looked at are its files that remain.
LEMMA LooksKeepTogether ==
  ASSUME TablesInv, KeptTogether, Paths' = Paths, Looks
  PROVE  KeptTogether'
  <1>1. /\ cmd = "refresh" /\ cmd' = "refresh" /\ Rows' = Rows
        /\ UNCHANGED <<inode, changes, trust>> /\ Refreshing
    BY LooksOnly DEF TablesInv, Rewritten
  <1>2. /\ job'.since = job.since /\ job'.before = job.before
        /\ pc # "insert" /\ pc' # "insert"
    BY LooksWhere
  <1>3. Begun'
    BY <1>1, <1>2 DEF KeptTogether, Begun, Paths
  <1>4. ASSUME OnlyDeleted' PROVE Together'
    <2>1. Together
      BY <1>1, <1>2, <1>4 DEF KeptTogether, OnlyDeleted
    <2>2. \A r : Remaining(r)' = Remaining(r)
      BY <1>1 DEF Remaining, Existing, file_exists
    <2>3. ASSUME NEW r \in job'.before, Cardinality(Remaining(r)') > 1
          PROVE  InOne(Remaining(r))'
      BY <1>1, <1>2, <2>1, <2>2, <2>3 DEF Together, InOne
    <2>4. ASSUME pc' = "look" PROVE (Existing(Behind) \subseteq ToSet(job.left))'
      <3>1. CASE RefreshRow
        <4>1. Behind' = {}
          <5>1. job'.looked = 0
            BY <3>1, RowIsSeen DEF RowSeen
          <5>2. \A i \in 1 .. job'.looked : FALSE
            BY <5>1
          <5> QED BY <5>2 DEF Behind
        <4> QED BY <4>1 DEF Existing
      <3>2. CASE RefreshLook
        <4>1. pc = "look" /\ Rewriting
          BY <1>1, <3>2 DEF RefreshLook, At, TablesInv, Rewritten
        <4>2. PathSeen
          BY <1>1, <3>2, <4>1, PathIsSeen
        <4>3. /\ Behind' = Behind \cup {Here}
              /\ ToSet(job'.left) = ToSet(job.left) \cup {p \in {Here} : file_exists(p)}
          BY <4>1, <4>2, PathBehind, PathLeft
        <4>4. Existing(Behind) \subseteq ToSet(job.left)
          BY <2>1, <4>1 DEF Together
        <4>5. PICK S : S = Behind'
          OBVIOUS
        <4>6. Existing(S) \subseteq ToSet(job'.left)
          BY <4>3, <4>4, <4>5 DEF Existing
        <4>7. Existing(Behind)' = Existing(S)
          BY <1>1, <4>5 DEF Existing, file_exists
        <4> QED BY <4>6, <4>7 DEF ToSet
      <3>3. CASE RefreshLooked
        BY <2>4, <3>3 DEF RefreshLooked, At, Goto
      <3> QED BY <3>1, <3>2, <3>3 DEF Looks
    <2>5. ASSUME pc' = "delete" PROVE (Remaining(job.row) \subseteq ToSet(job.left))'
      <3>1. RefreshLooked
        <4>1. pc' = "look" \/ RefreshLooked
          BY RowIsSeen DEF Looks, RowSeen, RefreshLook, Goto
        <4> QED BY <2>5, <4>1
      <3>2. pc = "look" /\ Rewriting
        BY <1>1, <3>1 DEF RefreshLooked, At, TablesInv, Rewritten
      <3>3. UNCHANGED job /\ Behind = ToSet(job.row.paths)
        BY <3>1, <3>2, RowIsDecided DEF RowDecided
      <3>4. Remaining(job.row) \subseteq ToSet(job.left)
        BY <2>1, <3>2, <3>3 DEF Together, Remaining
      <3> QED BY <1>1, <3>3, <3>4 DEF Remaining, Existing, file_exists, ToSet
    <2> QED BY <2>3, <2>4, <2>5 DEF Together
  <1> QED BY <1>3, <1>4 DEF KeptTogether

\* A row deleted leaves its files to the row that comes next.
LEMMA DeleteKeepsTogether ==
  ASSUME TablesInv, ScanInv, KeptTogether, Paths' = Paths, RefreshDelete
  PROVE  KeptTogether'
  <1>1. /\ cmd = "refresh" /\ pc = "delete" /\ UNCHANGED <<job, inode, changes, trust>>
        /\ pc' = (IF IsSet(job.left) THEN "insert" ELSE "row")
        /\ delete_duplicate_entry(job.row) /\ ~Publishing
    BY DEF RefreshDelete, At, Goto, fsvars, Publishing
  <1>2. Rewriting
    BY <1>1 DEF TablesInv, Rewritten
  <1>3. Rows' = Rows \ {job.row}
    <2>1. ~txn.open
      BY <1>1, RowsOfFile
    <2>2. UNCHANGED txn /\ dup' = [dup EXCEPT !.rows = Rows \ {job.row}]
      BY <1>1, <2>1 DEF delete_duplicate_entry, NowRows
    <2> QED BY <2>1, <2>2 DEF ScanInv, Rows
  <1>4. Begun'
    BY <1>1 DEF KeptTogether, Begun, Paths
  <1>5. ASSUME OnlyDeleted' PROVE Together'
    <2>1. Together
      BY <1>1, <1>5 DEF KeptTogether, OnlyDeleted
    <2>2. ASSUME NEW r \in job.before, Cardinality(Remaining(r)) > 1
          PROVE  \/ \E q \in Rows' : Remaining(r) \subseteq ToSet(q.paths)
                 \/ pc' = "insert" /\ Remaining(r) \subseteq ToSet(job.left)
      <3>1. PICK q \in Rows : Remaining(r) \subseteq ToSet(q.paths)
        BY <1>1, <2>1, <2>2 DEF Together, InOne
      <3>2. CASE q = job.row
        <4>1. Remaining(r) \subseteq ToSet(job.left)
          <5>1. Remaining(r) \subseteq Remaining(job.row)
            BY <3>1, <3>2 DEF Remaining, Existing
          <5> QED BY <1>1, <2>1, <5>1 DEF Together
        <4>2. IsFiniteSet(ToSet(job.left)) /\ Cardinality(ToSet(job.left)) = Len(job.left)
              /\ Len(job.left) \in Nat
          BY <1>2, ListedCount DEF Rewriting, Listed
        <4>3. /\ Cardinality(Remaining(r)) <= Cardinality(ToSet(job.left))
              /\ Cardinality(Remaining(r)) \in Nat
          BY <4>1, <4>2, FS_Subset, FS_CardinalityType
        <4>4. Len(job.left) > 1
          BY <2>2, <4>2, <4>3
        <4> QED BY <1>1, <4>1, <4>4 DEF IsSet
      <3> QED BY <1>3, <3>1, <3>2
    <2>3. \A r : Remaining(r)' = Remaining(r)
      BY <1>1 DEF Remaining, Existing, file_exists
    <2>4. ASSUME NEW r \in job'.before, Cardinality(Remaining(r)') > 1
          PROVE  InOne(Remaining(r))'
      BY <1>1, <2>2, <2>3, <2>4 DEF InOne
    <2> QED BY <1>1, <2>4 DEF Together
  <1> QED BY <1>4, <1>5 DEF KeptTogether

\* The row written has what was left of the old one.
LEMMA InsertKeepsTogether ==
  ASSUME TablesInv, ScanInv, KeptTogether, Paths' = Paths, RefreshInsert
  PROVE  KeptTogether'
  <1>1. /\ cmd = "refresh" /\ pc = "insert" /\ pc' = "row" /\ ~Publishing
        /\ UNCHANGED <<inode, changes, trust>>
        /\ job' = job \/ job' = [job EXCEPT !.todo = @ \cup {NextId(Rows)}]
        /\ duplicate_to_db(NewCount(job.row, job.left), column_int(job.row.each_size), job.left)
    BY DEF RefreshInsert, At, Goto, Publishing, fsvars
  <1>2. Refreshing
    BY <1>1 DEF TablesInv, Rewritten
  <1> DEFINE row == [id |-> NextId(Rows), count |-> NewCount(job.row, job.left),
                     each_size |-> column_int(job.row.each_size), paths |-> job.left]
  <1>3. row.paths = job.left
    OBVIOUS
  <1>4. ~txn.open
    BY <1>1, RowsOfFile
  <1>5. UNCHANGED txn /\ dup' = [dup EXCEPT !.rows = Rows \cup {row}]
    BY <1>1, <1>4 DEF duplicate_to_db, NowRows
  <1> HIDE DEF row
  <1>6. Rows' = Rows \cup {row}
    BY <1>4, <1>5 DEF ScanInv, Rows
  <1>7. job'.since = job.since /\ job'.before = job.before
    BY <1>1, <1>2 DEF Refreshing
  <1>8. Begun'
    BY <1>1, <1>7 DEF KeptTogether, Begun, Paths
  <1>9. ASSUME OnlyDeleted' PROVE Together'
    <2>1. Together
      BY <1>1, <1>7, <1>9 DEF KeptTogether, OnlyDeleted
    <2>2. \A r : Remaining(r)' = Remaining(r)
      BY <1>1 DEF Remaining, Existing, file_exists
    <2>3. ASSUME NEW r \in job'.before, Cardinality(Remaining(r)') > 1
          PROVE  InOne(Remaining(r))'
      <3>1. \/ \E q \in Rows : Remaining(r) \subseteq ToSet(q.paths)
            \/ Remaining(r) \subseteq ToSet(row.paths)
        BY <1>3, <1>7, <2>1, <2>2, <2>3 DEF Together, InOne
      <3>2. \E q \in Rows' : Remaining(r)' \subseteq ToSet(q.paths)
        BY <1>6, <2>2, <3>1
      <3> QED BY <3>2 DEF InOne
    <2> QED BY <1>1, <2>3 DEF Together
  <1> QED BY <1>8, <1>9 DEF KeptTogether

\* Files that are deleted are in no row that matters, others do not count.
LEMMA FileChangeKeepsTogether ==
  ASSUME TablesInv, CacheInv, KeptTogether, Paths' = Paths, FileChange
  PROVE  KeptTogether'
  <1>1. UNCHANGED <<cmd, pc, job, dup, txn>> /\ Rows' = Rows
    BY DEF FileChange, cmdvars, Rows
  <1>2. changes \in Nat /\ changes' = changes + 1
    BY FileChangeTouches DEF CacheInv, Touch, FsInv
  <1> SUFFICES ASSUME cmd = "refresh" PROVE Begun' /\ (OnlyDeleted' => Together')
    BY <1>1 DEF KeptTogether
  <1>3. Begun /\ (OnlyDeleted => Together)
    BY DEF KeptTogether
  <1>4. Begun'
    BY <1>1, <1>2, <1>3 DEF Begun, ToSet
  <1>5. ASSUME OnlyDeleted' PROVE Together'
    <2>1. trust' # "no"
      BY <1>1, <1>2, <1>3, <1>5 DEF OnlyDeleted, Begun
    <2>2. PICK path \in Paths : Delete(path) /\ Trusted(TRUE)
      BY <2>1 DEF FileChange, Trusted
    <2>3. Together
      BY <1>3, <2>1, <2>2 DEF Trusted, OnlyDeleted
    <2>4. \A p \in Paths : file_exists(p)' => file_exists(p)
      BY <2>2 DEF Delete, file_exists, Paths
    <2>5. ASSUME NEW r, ToSet(r.paths) \subseteq Paths
          PROVE  Remaining(r)' \subseteq Remaining(r)
      BY <2>4, <2>5 DEF Remaining, Existing
    <2>6. ASSUME NEW r \in job'.before, Cardinality(Remaining(r)') > 1
          PROVE  InOne(Remaining(r))'
      <3>1. r \in job.before /\ ToSet(r.paths) \subseteq Paths
        BY <1>1, <1>3, <2>6 DEF Begun
      <3>2. Remaining(r)' \subseteq Remaining(r)
        BY <2>5, <3>1
      <3>3. IsFiniteSet(Remaining(r))
        BY <3>1, RemainingFinite DEF TablesInv
      <3>4. /\ Cardinality(Remaining(r)') <= Cardinality(Remaining(r))
            /\ Cardinality(Remaining(r)) \in Nat /\ Cardinality(Remaining(r)') \in Nat
        BY <3>2, <3>3, FS_Subset, FS_CardinalityType
      <3>5. Cardinality(Remaining(r)) > 1
        BY <2>6, <3>4
      <3>6. InOne(Remaining(r))
        BY <2>3, <3>1, <3>5 DEF Together
      <3> QED BY <1>1, <3>2, <3>6 DEF InOne
    <2>7. ASSUME pc' = "delete" PROVE (Remaining(job.row) \subseteq ToSet(job.left))'
      <3>1. ToSet(job.row.paths) \subseteq Paths
        BY <1>1, <2>7 DEF TablesInv, Rewritten, Rewriting, RowOK, Listed, ToSet
      <3>2. Remaining(job.row) \subseteq ToSet(job.left)
        BY <1>1, <2>3, <2>7 DEF Together
      <3>3. Remaining(job.row)' \subseteq Remaining(job.row)
        <4>1. PICK r : r = job.row
          OBVIOUS
        <4>2. Remaining(r)' \subseteq Remaining(r)
          BY <2>5, <3>1, <4>1
        <4> QED BY <1>1, <4>1, <4>2 DEF Remaining, Existing
      <3> QED BY <1>1, <3>2, <3>3 DEF ToSet
    <2>8. ASSUME pc' = "look" PROVE (Existing(Behind) \subseteq ToSet(job.left))'
      <3>1. Rewriting /\ Looking
        BY <1>1, <2>8 DEF TablesInv, Rewritten, Rewriting
      <3>2. DOMAIN job.row.paths = 1 .. Len(job.row.paths) /\ job.row.paths \in Seq(Paths)
        BY <3>1 DEF Rewriting, RowOK, Listed
      <3>3. Behind \subseteq Paths
        BY <3>1, <3>2 DEF Looking, Behind
      <3>4. Existing(Behind) \subseteq ToSet(job.left)
        BY <1>1, <2>3, <2>8 DEF Together
      <3>5. Behind' = Behind
        BY <1>1 DEF Behind
      <3>6. Existing(Behind)' \subseteq Existing(Behind)
        BY <2>4, <3>3, <3>5 DEF Existing
      <3> QED BY <1>1, <3>4, <3>6 DEF ToSet
    <2> QED BY <2>6, <2>7, <2>8 DEF Together
  <1> QED BY <1>4, <1>5

\* Every step keeps files of a row together.
LEMMA TogetherStep ==
  ASSUME CacheInv, ScanInv, TablesInv, KeptTogether, [Next]_vars
  PROVE  KeptTogether'
  <1>1. Paths' = Paths
    BY PathsStay
  <1>2. CASE \/ CacheNext /\ UNCHANGED dbvars
             \/ ReportNext
             \/ Operation /\ ~\E h : RefreshStart(h)
    BY <1>2, NoRefresh DEF TablesInv, KeptTogether
  <1>3. CASE Operation /\ \E h : RefreshStart(h)
    BY <1>1, <1>3, RefreshStartKeepsTogether
  <1>4. CASE Looks \/ RefreshDelete \/ RefreshInsert
    BY <1>1, <1>4, LooksKeepTogether, DeleteKeepsTogether, InsertKeepsTogether
  <1>5. CASE ScanUnlink \/ ScanCreate \/ ScanFind \/ ScanPublish \/ ScanCommit \/ RefreshEnd
    BY <1>5 DEF ScanUnlink, ScanCreate, ScanFind, ScanPublish, ScanCommit, RefreshEnd, At, Goto,
                Return, cmdvars, KeptTogether
  <1>6. CASE Crash
    BY <1>6 DEF Crash, Return, KeptTogether
  <1>7. CASE FileChange
    BY <1>1, <1>7, FileChangeKeepsTogether
  <1>8. CASE UNCHANGED vars
    <2>1. UNCHANGED <<cmd, pc, job, inode, changes, dup, txn, trust>>
      BY <1>8 DEF vars, cmdvars, fsvars, dbvars
    <2> QED BY <2>1 DEF KeptTogether, Begun, OnlyDeleted, Together, InOne, Remaining, Existing,
                        file_exists, Rows, Paths, Behind
  <1> QED BY <1>2, <1>3, <1>4, <1>5, <1>6, <1>7, <1>8 DEF Next, DbNext, Looks

(* When refresh has seen all rows, the files of a row that are still there,
   more than one, are in one row, however files were deleted while it wrote
   rows anew and read on in the same table (operation_refresh()). *)
THEOREM RefreshKeepsTogether == Spec => RefreshKeepsSets
  <1>1. Init => CacheInv /\ ScanInv /\ TablesInv /\ KeptTogether
    <2>1. Init => KeptTogether
      BY DEF Init, CommandInit, KeptTogether
    <2> QED BY <2>1, CacheInvAtFirst, TablesAtFirst
  <1>2. CacheInv /\ ScanInv /\ TablesInv /\ KeptTogether /\ [Next]_vars
          => (CacheInv /\ ScanInv /\ TablesInv /\ KeptTogether)'
    BY CacheStep, ScanStep, TablesStep, TogetherStep
  <1>3. ASSUME ScanInv, KeptTogether, At("refresh", "row"), trust # "no" \/ changes = job.since
        PROVE  \A r \in job.before :
                 LET left == Existing(ToSet(r.paths))
                 IN  Cardinality(left) > 1 => \E q \in dup.rows : left \subseteq ToSet(q.paths)
    <2>1. cmd = "refresh" /\ pc = "row" /\ ~Publishing
      BY <1>3 DEF At, Publishing
    <2>2. Together /\ Rows = dup.rows
      BY <1>3, <2>1, RowsOfFile DEF KeptTogether, OnlyDeleted
    <2> QED BY <2>1, <2>2 DEF Together, InOne, Remaining
  <1>4. CacheInv /\ ScanInv /\ TablesInv /\ KeptTogether =>
          [At("refresh", "row") /\ RowsLeft = {} /\ cmd' = "none"
           /\ (trust # "no" \/ changes = job.since) =>
             \A r \in job.before :
               LET left == Existing(ToSet(r.paths))
               IN  Cardinality(left) > 1 => \E q \in dup.rows : left \subseteq ToSet(q.paths)]_vars
    BY <1>3
  <1> QED BY <1>1, <1>2, <1>4, PTL DEF Spec, RefreshKeepsSets
-----------------------------------------------------------------------------
(* What the rows may be trusted with.  As long as there was nothing but
   deletions since the scan, existing files of a set are the same; if nothing
   changed, or refresh has seen what was deleted, the files of the rows exist. *)
Alike(paths) == \A p, q \in Existing(ToSet(paths)) : Data(p) = Data(q)
Whole(paths) == \A p \in ToSet(paths) : file_exists(p)

Current == Publishing /\ changes = job.since

Ids(rows) ==
  /\ IsFiniteSet(rows) /\ \A r \in rows : r.id \in Nat
  /\ \A r, o \in rows : r.id = o.id => r = o

Seen ==
  /\ \A r \in Rows : r.id \notin job.todo =>
                         Whole(r.paths) \/ (pc \in {"look", "delete"} /\ r = job.row)
  /\ pc \in {"look", "delete", "insert"} => Whole(job.left)

TrustInv ==
  /\ cmd = "scan" /\ pc \in {"create", "publish"} => trust = "no"
  /\ Publishing => job.since \in Nat /\ job.since <= changes
  /\ trust # "no" \/ Current => \A s \in scanned : Alike(s.paths)
  /\ Current => \A s \in scanned : Whole(s.paths)
  /\ trust = "exact" => \A r \in Rows : Whole(r.paths)
  /\ cmd = "refresh" => /\ trust = "exact" => pc \in {"row", "look"}
                        /\ changes = job.since => Seen
  /\ Ids(Rows)

(* A script that is printed is one of a row, until a file changes. *)
OfRow(r) == \E row \in Rows : r.rm = Tail(row.paths) /\ r.kept = row.paths[1]

ScriptsInv ==
  \A r \in printed :
    r.kind = "SCRIPT" =>
      cmd = "none" /\ Past(r.since) /\ (r.since = Now => OfRow(r))

-----------------------------------------------------------------------------
(* A row that is added gets a number that no other has. *)

\* Induction over the subsets of a finite set, as a least counterexample.
LEMMA MinimalSubset ==
  ASSUME NEW S, IsFiniteSet(S), NEW F, F \subseteq SUBSET S, F # {}
  PROVE  \E U \in F : \A V \in F : V \subseteq U => V = U
  <1>1. IsWellFoundedOn(StrictSubsetOrdering(S), FiniteSubsetsOf(S))
    BY FS_StrictSubsetOrderingWellFounded
  <1>2. FiniteSubsetsOf(S) = SUBSET S
    BY FS_FiniteSubsetsOfFinite
  <1>3. PICK U \in F : \A V \in F : ~(<<V, U>> \in StrictSubsetOrdering(S))
    BY <1>1, <1>2, WFMin
  <1>4. ASSUME NEW V \in F, V \subseteq U PROVE V = U
    BY <1>3, <1>4 DEF StrictSubsetOrdering
  <1> QED BY <1>4

\* The largest of the numbers of some rows, or 0.
Largest(n, rows) ==
  /\ n \in Nat /\ (n = 0 \/ \E r \in rows : r.id = n)
  /\ \A r \in rows : r.id <= n

\* Finitely many rows have a largest number.
LEMMA LargestExists ==
  ASSUME NEW rows, IsFiniteSet(rows), \A r \in rows : r.id \in Nat
  PROVE  \E n : Largest(n, rows)
  <1> DEFINE F == {V \in SUBSET rows : ~\E n : Largest(n, V)}
  <1> SUFFICES ASSUME F # {} PROVE FALSE
    OBVIOUS
  <1>1. PICK U \in F : \A V \in F : V \subseteq U => V = U
    <2>1. F \subseteq SUBSET rows
      OBVIOUS
    <2> HIDE DEF F
    <2> QED BY <2>1, MinimalSubset
  <1>2. U # {}
    <2>1. Largest(0, {})
      BY DEF Largest
    <2> QED BY <1>1, <2>1
  <1>3. PICK x : x \in U
    BY <1>2
  <1>4. U \ {x} \notin F
    BY <1>1, <1>3
  <1>5. PICK n : Largest(n, U \ {x})
    BY <1>1, <1>4
  <1>6. x.id \in Nat /\ x.id \in Int
    BY <1>1, <1>3
  <1>7. CASE x.id <= n
    <2>1. Largest(n, U)
      BY <1>3, <1>5, <1>7 DEF Largest
    <2> QED BY <1>1, <2>1
  <1>8. CASE ~(x.id <= n)
    <2>1. \A r \in U \ {x} : r.id \in Nat
      BY <1>1
    <2>2. Largest(x.id, U)
      BY <1>3, <1>5, <1>6, <1>8, <2>1 DEF Largest
    <2> QED BY <1>1, <2>2
  <1> QED BY <1>7, <1>8

\* NextId() is larger than all of them.
LEMMA NextIdIsNew ==
  ASSUME NEW rows, Ids(rows)
  PROVE  NextId(rows) \in Nat /\ \A r \in rows : r.id # NextId(rows)
  <1>1. \A r \in rows : r.id \in Nat
    BY DEF Ids
  <1>2. PICK n : Largest(n, rows)
    BY <1>1, LargestExists DEF Ids
  <1>3. PICK S : S = {0} \cup {r.id : r \in rows}
    OBVIOUS
  <1>4. n \in Nat /\ n \in S /\ \A y \in S : n >= y /\ y \in Nat
    BY <1>1, <1>2, <1>3 DEF Largest
  <1>5. Max(S) \in S /\ \A y \in S : Max(S) >= y
    BY <1>4 DEF Max
  <1>6. NextId(rows) = 1 + Max(S)
    BY <1>3 DEF NextId
  <1>7. Max(S) \in Nat /\ \A r \in rows : r.id <= Max(S)
    BY <1>3, <1>4, <1>5
  <1> QED BY <1>1, <1>6, <1>7

\* Rows keep their numbers when one is added with the next,
LEMMA IdsAdded ==
  ASSUME NEW rows, Ids(rows), NEW row, row.id = NextId(rows)
  PROVE  Ids(rows \cup {row})
  <1>1. IsFiniteSet(rows \cup {row})
    BY FS_AddElement DEF Ids
  <1> QED BY <1>1, NextIdIsNew DEF Ids

\* or some are deleted.
LEMMA IdsGone ==
  ASSUME NEW rows, Ids(rows), NEW less, less \subseteq rows
  PROVE  Ids(less)
  <1>1. IsFiniteSet(less)
    BY FS_Subset DEF Ids
  <1> QED BY <1>1 DEF Ids

-----------------------------------------------------------------------------
(* Files that stay as they are. *)
LEMMA FilesStay ==
  ASSUME UNCHANGED <<inode, data>>, NEW paths
  PROVE  Alike(paths)' = Alike(paths) /\ Whole(paths)' = Whole(paths)
  BY DEF Alike, Whole, Existing, file_exists, Data

\* Rows are parts of sets.
LEMMA RowsOfSets ==
  ASSUME TablesInv, NEW r \in Rows
  PROVE  \E s \in scanned : ToSet(r.paths) \subseteq ToSet(s.paths)
  BY DEF TablesInv, Tables, RowOK

\* Between scans and refreshes rows may only go.
LEMMA TrustIdle ==
  ASSUME TrustInv, UNCHANGED <<inode, data, scanned>>, trust' \in {trust, "no"},
         Rows' \subseteq Rows, cmd' # "refresh", cmd' = "scan" => pc' \notin {"create", "publish"}
  PROVE  TrustInv'
  <1>1. ~Publishing' /\ ~Current'
    BY DEF Publishing, Current
  <1>2. Ids(Rows)'
    BY IdsGone DEF TrustInv, Ids
  <1>3. trust' # "no" => \A s \in scanned' : Alike(s.paths)'
    BY FilesStay DEF TrustInv
  <1>4. trust' = "exact" => \A r \in Rows' : Whole(r.paths)'
    BY FilesStay DEF TrustInv
  <1> QED BY <1>1, <1>2, <1>3, <1>4 DEF TrustInv

\* Nothing happens to the rows and the command stays where it is.
LEMMA TrustSame ==
  ASSUME TrustInv, UNCHANGED <<inode, data, changes, scanned, trust, cmd, pc, job>>, Rows' = Rows
  PROVE  TrustInv'
  <1>1. Publishing' = Publishing /\ Current' = Current
    BY DEF Publishing, Current
  <1>2. Ids(Rows)'
    BY DEF TrustInv, Ids
  <1>3. trust' # "no" \/ Current' => \A s \in scanned' : Alike(s.paths)'
    BY <1>1, FilesStay DEF TrustInv
  <1>4. Current' => \A s \in scanned' : Whole(s.paths)'
    BY <1>1, FilesStay DEF TrustInv
  <1>5. trust' = "exact" => \A r \in Rows' : Whole(r.paths)'
    BY FilesStay DEF TrustInv
  <1>6. Seen => Seen'
    BY FilesStay DEF Seen, Whole, file_exists
  <1>7. (cmd = "refresh" => /\ trust = "exact" => pc \in {"row", "look"}
                            /\ changes = job.since => Seen)'
    BY <1>6 DEF TrustInv
  <1> QED BY <1>1, <1>2, <1>3, <1>4, <1>5, <1>7 DEF TrustInv

\* Commands other than a scan and a refresh leave files and trust alone.
LEMMA OthersTrust ==
  ASSUME \/ CacheNext /\ UNCHANGED dbvars
         \/ ReportNext
         \/ Operation
  PROVE  UNCHANGED <<inode, data, trust>>
  <1>1. CASE CacheNext /\ UNCHANGED dbvars
    BY <1>1 DEF CacheNext, CacheOpen, CacheCreate, HashFind, HashScrub, HashOpen, HashRead,
                HashReadEnd, HashAdd, HashCommit, ReadPart, EndOfFile, fsvars, dbvars
  <1>2. CASE ReportNext
    <2>1. UNCHANGED trust
      BY <1>2 DEF ReportNext, NextFile, NextRow, NextNone, OpenSelf, ReadFile, SelfEnd, StatSelf,
                  StatDup, OpenDup, DupEnd, Verified, dbvars
    <2> QED BY <1>2, <2>1, ReportNextIdle DEF Idle
  <1>3. CASE Operation
    BY <1>3 DEF Operation, CacheListStart, CacheDelete, HashStart, ScanStart, RefreshStart,
                operation_report, operation_shell_script, Tell, FileStart, WalkStart,
                ValidateStart, VerifyStart, fsvars, dbvars
  <1> QED BY <1>1, <1>2, <1>3

-----------------------------------------------------------------------------
(* The scan finds what there is, and its rows may be trusted when nothing
   changed until they are committed. *)
LEMMA FoundTrust ==
  ASSUME IsFiniteSet(Paths), NEW S, Counted(S), NEW s, FoundSet(s, S)
  PROVE  Alike(s.paths) /\ Whole(s.paths)
  <1>1. PICK p \in S : s = [paths |-> SetToSeq(Class(S, p)),
                            size |-> Len(Data(SetToSeq(Class(S, p))[1]))]
    BY DEF FoundSet
  <1>2. Class(S, p) \subseteq Paths /\ Class(S, p) \subseteq S
    BY DEF Class, Counted
  <1>3. SetToSeq(Class(S, p)) \in Seq(Class(S, p))
    BY <1>2, FS_Subset, SetToSeqIs
  <1>4. s.paths \in Seq(Class(S, p))
    BY <1>1, <1>3
  <1>5. ToSet(s.paths) \subseteq Class(S, p)
    BY <1>4 DEF ToSet
  <1>6. \A q \in Class(S, p) : Data(q) = Data(p)
    BY DEF Class
  <1>7. \A q \in Class(S, p) : file_exists(q)
    BY <1>2 DEF Counted
  <1> QED BY <1>5, <1>6, <1>7 DEF Alike, Whole, Existing

\* The steps of a scan up to the commit.
LEMMA ScanKeepsTrust ==
  ASSUME TrustInv, TablesInv, ScanInv, FsInv, Paths' = Paths, ScanUnlink \/ ScanCreate \/ ScanFind
  PROVE  TrustInv'
  <1>1. Ids({})
    BY FS_EmptySet DEF Ids
  <1>2. CASE ScanUnlink
    <2>1. /\ ~Publishing /\ cmd' = "scan" /\ pc' = "create" /\ UNCHANGED txn
          /\ scanned' = {} /\ trust' = "no"
      BY <1>2 DEF ScanUnlink, At, Goto, Publishing
    <2>2. dup'.rows = {}
      BY <1>2 DEF ScanUnlink, NoDb
    <2>3. Rows' = {}
      BY <2>1, <2>2, RowsOfFile DEF Rows
    <2>4. Ids(Rows)' 
      BY <1>1, <2>3 DEF Ids
    <2>5. ~Publishing' /\ ~Current'
      BY <2>1 DEF Publishing, Current
    <2> QED BY <2>1, <2>4, <2>5 DEF TrustInv
  <1>3. CASE ScanCreate
    <2>1. UNCHANGED <<inode, data, changes, cmd, pc, job, txn, scanned, trust>>
      BY <1>3 DEF ScanCreate, cmdvars, fsvars
    <2>2. dup'.rows = dup.rows
      BY <1>3 DEF ScanCreate, ScanInv
    <2>3. Rows' = Rows
      BY <2>1, <2>2 DEF Rows
    <2> QED BY <2>1, <2>3, TrustSame
  <1>4. CASE ScanFind
    <2>1. /\ At("scan", "create") /\ cmd' = "scan" /\ pc' = "publish" /\ UNCHANGED trust
          /\ txn' = [open |-> TRUE, rows |-> dup.rows] /\ UNCHANGED <<inode, data, changes>>
          /\ job' = [since |-> changes, todo |-> scanned']
      BY <1>4 DEF ScanFind, At, Goto, begin_transaction, fsvars
    <2>2. trust' = "no"
      BY <2>1 DEF TrustInv, At
    <2>3. Rows' = {}
      BY <2>1 DEF ScanInv, Rows
    <2>4. Ids(Rows)'
      BY <1>1, <2>3 DEF Ids
    <2>5. job'.since = changes' /\ changes' \in Nat
      BY <2>1 DEF FsInv
    <2>6. PICK S : Counted(S) /\ \A s \in scanned' : FoundSet(s, S)
      BY <1>4, FoundAreClasses
    <2>7. \A s \in scanned' : Alike(s.paths) /\ Whole(s.paths)
      BY <2>6, FoundTrust DEF TablesInv
    <2>8. \A s \in scanned' : Alike(s.paths)' /\ Whole(s.paths)'
      BY <2>1, <2>7, FilesStay
    <2> QED BY <2>1, <2>2, <2>4, <2>5, <2>8 DEF TrustInv
  <1> QED BY <1>2, <1>3, <1>4

\* A row of a scan gets a new number.
LEMMA PublishKeepsTrust ==
  ASSUME TrustInv, ScanInv, ScanPublish
  PROVE  TrustInv'
  <1>1. /\ Publishing /\ txn.open
        /\ UNCHANGED <<inode, data, changes, cmd, pc, scanned, trust>>
    BY DEF ScanPublish, Publishing, At, ScanInv, fsvars
  <1>2. PICK s \in job.todo :
          /\ duplicate_to_db(Len(s.paths), s.size, s.paths)
          /\ job' = [job EXCEPT !.todo = job.todo \ {s}]
    BY DEF ScanPublish
  <1> DEFINE row == [id |-> NextId(Rows), count |-> Len(s.paths), each_size |-> s.size,
                     paths |-> s.paths]
  <1>3. row.id = NextId(Rows)
    OBVIOUS
  <1>4. UNCHANGED dup /\ txn' = [txn EXCEPT !.rows = Rows \cup {row}]
    BY <1>1, <1>2 DEF duplicate_to_db, NowRows
  <1> HIDE DEF row
  <1>5. Rows' = Rows \cup {row} /\ job'.since = job.since
    BY <1>1, <1>2, <1>4 DEF ScanInv, Rows
  <1>6. Ids(Rows')
    BY <1>3, <1>5, IdsAdded DEF TrustInv
  <1>7. Ids(Rows)'
    BY <1>6 DEF Ids
  <1>8. trust' = "no" /\ cmd' = "scan" /\ Publishing' /\ Current' = Current
    BY <1>1, <1>5 DEF TrustInv, Publishing, Current
  <1>9. Current' => \A s2 \in scanned' : Alike(s2.paths)' /\ Whole(s2.paths)'
    BY <1>1, <1>8, FilesStay DEF TrustInv
  <1>10. (job.since \in Nat /\ job.since <= changes)'
    BY <1>1, <1>5 DEF TrustInv
  <1> QED BY <1>7, <1>8, <1>9, <1>10 DEF TrustInv

\* The commit tells whether the rows can be trusted.
LEMMA CommitKeepsTrust ==
  ASSUME TrustInv, TablesInv, ScanInv, ScanCommit
  PROVE  TrustInv'
  <1>1. /\ Publishing /\ txn.open /\ cmd' = "none" /\ UNCHANGED <<inode, data, scanned>>
        /\ trust' = IF changes = job.since THEN "exact" ELSE "no"
    BY DEF ScanCommit, Publishing, At, ScanInv, Return, fsvars
  <1>2. dup'.rows = txn.rows /\ txn' = [open |-> FALSE, rows |-> {}]
    BY <1>1 DEF ScanCommit, ScanInv, NoTxn
  <1>3. txn'.open = FALSE
    BY <1>2
  <1>4. Rows' = Rows
    BY <1>1, <1>2, <1>3 DEF Rows
  <1>5. Ids(Rows)'
    BY <1>4 DEF TrustInv, Ids
  <1>6. ~Publishing' /\ ~Current'
    BY <1>1 DEF Publishing, Current
  <1>7. ASSUME trust' # "no"
        PROVE  \A s \in scanned : Alike(s.paths) /\ Whole(s.paths)
    <2>1. Current
      BY <1>1, <1>7 DEF Current
    <2> QED BY <2>1 DEF TrustInv
  <1>8. trust' # "no" => \A s \in scanned' : Alike(s.paths)'
    BY <1>1, <1>7, FilesStay
  <1>9. ASSUME trust' # "no", NEW r \in Rows PROVE Whole(r.paths)'
    <2>1. PICK s \in scanned : ToSet(r.paths) \subseteq ToSet(s.paths)
      BY RowsOfSets
    <2>2. Whole(r.paths)
      BY <1>7, <1>9, <2>1 DEF Whole
    <2> QED BY <1>1, <2>2, FilesStay
  <1>10. trust' = "exact" => \A r \in Rows' : Whole(r.paths)'
    BY <1>4, <1>9
  <1> QED BY <1>1, <1>5, <1>6, <1>8, <1>10 DEF TrustInv

-----------------------------------------------------------------------------
(* The refresh has seen that the files of a row exist, or writes again what is
   left of it. *)

\* Nothing is seen when it begins.
LEMMA RefreshStartKeepsTrust ==
  ASSUME TrustInv, ScanInv, NEW h, RefreshStart(h)
  PROVE  TrustInv'
  <1>1. /\ cmd = "none" /\ cmd' = "refresh" /\ pc' = "row"
        /\ UNCHANGED <<inode, data, changes, dup, txn, scanned, trust>>
        /\ job' = [since |-> changes, before |-> dup.rows, todo |-> {r.id : r \in dup.rows}]
    BY DEF RefreshStart, Begin, fsvars, dbvars
  <1>2. Rows = dup.rows /\ Rows' = Rows
    BY <1>1, RowsOfFile DEF Publishing, Rows
  <1>3. job'.todo = {r.id : r \in Rows}
    BY <1>1, <1>2
  <1>4. Seen'
    BY <1>1, <1>2, <1>3 DEF Seen
  <1>5. ~Publishing' /\ ~Current'
    BY <1>1 DEF Publishing, Current
  <1>6. Ids(Rows)'
    BY <1>2 DEF TrustInv, Ids
  <1>7. trust' # "no" => \A s \in scanned' : Alike(s.paths)'
    BY <1>1, FilesStay DEF TrustInv
  <1>8. trust' = "exact" => \A r \in Rows' : Whole(r.paths)'
    BY <1>1, <1>2, FilesStay DEF TrustInv
  <1> QED BY <1>1, <1>4, <1>5, <1>6, <1>7, <1>8 DEF TrustInv

\* What makes the rows seen after a look.
LEMMA SeenIs ==
  ASSUME UNCHANGED <<inode, data>>, Rows' = Rows,
         \A r \in Rows : r.id \notin job'.todo =>
                           Whole(r.paths) \/ (pc' \in {"look", "delete"} /\ r = job'.row),
         pc' \in {"look", "delete", "insert"} => Whole(job'.left)
  PROVE  Seen'
  <1>1. \A r \in Rows' : r.id \notin job'.todo =>
                           Whole(r.paths)' \/ (pc' \in {"look", "delete"} /\ r = job'.row)
    BY FilesStay
  <1>2. pc' \in {"look", "delete", "insert"} => Whole(job.left)'
    BY DEF Whole, file_exists, ToSet
  <1> QED BY <1>1, <1>2 DEF Seen

\* The row looked at is the one not seen yet, and what is left of it exists.
LEMMA LooksSee ==
  ASSUME TrustInv, TablesInv, ScanInv, Looks, Seen
  PROVE  Seen'
  <1>1. /\ cmd = "refresh" /\ ~Publishing /\ Rows' = Rows
        /\ UNCHANGED <<inode, data>> /\ Refreshing
    BY LooksOnly DEF TablesInv, Rewritten
  <1>2. CASE RefreshRow
    <2>1. PICK row \in RowsLeft : RowSeen(row)
      BY <1>2, RowIsSeen
    <2>2. row \in Rows /\ pc = "row"
      BY <1>1, <1>2, RowsOfFile DEF RowsLeft, RefreshRow, At
    <2>3. ASSUME NEW r \in Rows, r.id \notin job'.todo
          PROVE  Whole(r.paths) \/ (pc' \in {"look", "delete"} /\ r = job'.row)
      <3>1. CASE r.id = row.id
        <4>1. r = row
          BY <2>2, <3>1 DEF TrustInv, Ids
        <4> QED BY <2>1, <4>1 DEF RowSeen
      <3>2. CASE r.id # row.id
        BY <2>1, <2>2, <2>3, <3>2 DEF RowSeen, Seen
      <3> QED BY <3>1, <3>2
    <2>4. Whole(job'.left)
      BY <2>1 DEF RowSeen, Whole, ToSet
    <2> QED BY <1>1, <2>3, <2>4, SeenIs
  <1>3. CASE RefreshLook
    <2>1. pc = "look" /\ Rewriting
      BY <1>1, <1>3 DEF RefreshLook, At, TablesInv, Rewritten
    <2>2. PathSeen
      BY <1>1, <1>3, <2>1, PathIsSeen
    <2>3. pc' = "look" /\ job'.row = job.row /\ job'.todo = job.todo
      BY <2>2 DEF PathSeen
    <2>4. \A r \in Rows : r.id \notin job'.todo =>
                            Whole(r.paths) \/ (pc' \in {"look", "delete"} /\ r = job'.row)
      BY <2>1, <2>3 DEF Seen
    <2>5. ToSet(job'.left) = ToSet(job.left) \cup {p \in {Here} : file_exists(p)}
      BY <2>1, <2>2, PathLeft
    <2>6. Whole(job'.left)
      BY <2>1, <2>5 DEF Seen, Whole
    <2> QED BY <1>1, <2>4, <2>6, SeenIs
  <1>4. CASE RefreshLooked
    <2>1. pc = "look" /\ Rewriting
      BY <1>1, <1>4 DEF RefreshLooked, At, TablesInv, Rewritten
    <2>2. RowDecided
      BY <1>4, <2>1, RowIsDecided
    <2>3. pc' = "row" => Whole(job.row.paths)
      BY <2>1, <2>2 DEF RowDecided, Seen, Whole
    <2>4. job' = job /\ pc' \in {"row", "delete"}
      BY <2>2 DEF RowDecided
    <2>5. ASSUME NEW r \in Rows, r.id \notin job'.todo
          PROVE  Whole(r.paths) \/ (pc' \in {"look", "delete"} /\ r = job'.row)
      <3>1. Whole(r.paths) \/ r = job.row
        BY <2>4, <2>5 DEF Seen
      <3> QED BY <2>3, <2>4, <3>1
    <2>6. Whole(job'.left)
      BY <2>1, <2>4 DEF Seen
    <2> QED BY <1>1, <2>5, <2>6, SeenIs
  <1> QED BY <1>2, <1>3, <1>4 DEF Looks

\* A row whose files all exist is left as it is.
LEMMA LooksKeepTrust ==
  ASSUME TrustInv, TablesInv, ScanInv, KeptTogether, Looks
  PROVE  TrustInv'
  <1>1. /\ cmd = "refresh" /\ cmd' = "refresh" /\ ~Publishing /\ Rows' = Rows
        /\ UNCHANGED <<inode, data, changes, scanned, trust>>
    BY LooksOnly
  <1>2. job'.since = job.since
    BY LooksWhere
  <1>3. changes' = job'.since => Seen'
    BY <1>1, <1>2, LooksSee DEF TrustInv
  <1>4. ASSUME trust' = "exact" PROVE pc' \in {"row", "look"}
    <2>1. CASE RefreshLooked
      <3>1. pc = "look" /\ Rewriting
        BY <1>1, <2>1 DEF RefreshLooked, At, TablesInv, Rewritten
      <3>2. RowDecided
        BY <2>1, <3>1, RowIsDecided
      <3>3. Existing(ToSet(job.row.paths)) \subseteq ToSet(job.left)
        <4>1. Together
          BY <1>1, <1>4 DEF KeptTogether, OnlyDeleted
        <4> QED BY <3>1, <3>2, <4>1 DEF Together, RowDecided
      <3>4. Whole(job.row.paths) /\ ToSet(job.left) \subseteq ToSet(job.row.paths)
        BY <1>1, <1>4, <3>1 DEF TrustInv, Rewriting
      <3>5. ToSet(job.left) = ToSet(job.row.paths)
        BY <3>3, <3>4 DEF Whole, Existing
      <3> QED BY <3>2, <3>5 DEF RowDecided
    <2>2. CASE RefreshRow \/ RefreshLook
      BY <2>2 DEF RefreshRow, RefreshLook, Goto
    <2> QED BY <2>1, <2>2 DEF Looks
  <1>5. ~Publishing' /\ ~Current'
    BY <1>1 DEF Publishing, Current
  <1>6. Ids(Rows)'
    BY <1>1 DEF TrustInv, Ids
  <1>7. trust' # "no" => \A s \in scanned' : Alike(s.paths)'
    BY <1>1, FilesStay DEF TrustInv
  <1>8. trust' = "exact" => \A r \in Rows' : Whole(r.paths)'
    BY <1>1, FilesStay DEF TrustInv
  <1> QED BY <1>1, <1>3, <1>4, <1>5, <1>6, <1>7, <1>8 DEF TrustInv

\* It is deleted.
LEMMA DeleteKeepsTrust ==
  ASSUME TrustInv, TablesInv, ScanInv, RefreshDelete
  PROVE  TrustInv'
  <1>1. /\ cmd = "refresh" /\ pc = "delete" /\ cmd' = "refresh" /\ pc' \in {"row", "insert"}
        /\ UNCHANGED <<inode, data, changes, job, scanned, trust>>
        /\ delete_duplicate_entry(job.row) /\ ~Publishing
    BY DEF RefreshDelete, At, Goto, fsvars, Publishing
  <1>2. Rows' = Rows \ {job.row}
    <2>1. ~txn.open
      BY <1>1, RowsOfFile
    <2>2. UNCHANGED txn /\ dup' = [dup EXCEPT !.rows = Rows \ {job.row}]
      BY <1>1, <2>1 DEF delete_duplicate_entry, NowRows
    <2> QED BY <2>1, <2>2 DEF ScanInv, Rows
  <1>3. trust' # "exact"
    BY <1>1 DEF TrustInv
  <1>4. ASSUME changes' = job'.since PROVE Seen'
    <2>1. Seen
      BY <1>1, <1>4 DEF TrustInv
    <2>2. \A r \in Rows' : r.id \notin job.todo => Whole(r.paths)
      BY <1>2, <2>1 DEF Seen
    <2>3. \A r \in Rows' : r.id \notin job'.todo => Whole(r.paths)'
      BY <1>1, <2>2, FilesStay
    <2>4. Whole(job.left)'
      BY <1>1, <2>1 DEF Seen, Whole, file_exists
    <2> QED BY <2>3, <2>4 DEF Seen
  <1>5. ~Publishing' /\ ~Current'
    BY <1>1 DEF Publishing, Current
  <1>6. Ids(Rows)'
    BY <1>2, IdsGone DEF TrustInv, Ids
  <1>7. trust' # "no" => \A s \in scanned' : Alike(s.paths)'
    BY <1>1, FilesStay DEF TrustInv
  <1> QED BY <1>1, <1>3, <1>4, <1>5, <1>6, <1>7 DEF TrustInv

\* What is left of it is written again.
LEMMA InsertKeepsTrust ==
  ASSUME TrustInv, TablesInv, ScanInv, RefreshInsert
  PROVE  TrustInv'
  <1>1. /\ cmd = "refresh" /\ pc = "insert" /\ cmd' = "refresh" /\ pc' = "row" /\ ~Publishing
        /\ UNCHANGED <<inode, data, changes, scanned, trust>>
        /\ job' = job \/ job' = [job EXCEPT !.todo = @ \cup {NextId(Rows)}]
        /\ duplicate_to_db(NewCount(job.row, job.left), column_int(job.row.each_size), job.left)
    BY DEF RefreshInsert, At, Goto, Publishing, fsvars
  <1>2. Refreshing
    BY <1>1 DEF TablesInv, Rewritten
  <1> DEFINE row == [id |-> NextId(Rows), count |-> NewCount(job.row, job.left),
                     each_size |-> column_int(job.row.each_size), paths |-> job.left]
  <1>3. row.paths = job.left /\ row.id = NextId(Rows)
    OBVIOUS
  <1>4. ~txn.open
    BY <1>1, RowsOfFile
  <1>5. UNCHANGED txn /\ dup' = [dup EXCEPT !.rows = Rows \cup {row}]
    BY <1>1, <1>4 DEF duplicate_to_db, NowRows
  <1> HIDE DEF row
  <1>6. Rows' = Rows \cup {row}
    BY <1>4, <1>5 DEF ScanInv, Rows
  <1>7. job'.since = job.since /\ job.todo \subseteq job'.todo
    BY <1>1, <1>2 DEF Refreshing
  <1>8. ASSUME changes' = job'.since PROVE Seen'
    <2>1. Seen
      BY <1>1, <1>7, <1>8 DEF TrustInv
    <2>2. \A r \in Rows : r.id \notin job'.todo => Whole(r.paths)
      BY <1>1, <1>7, <2>1 DEF Seen
    <2>3. Whole(row.paths)
      BY <1>1, <1>3, <2>1 DEF Seen
    <2>4. \A r \in Rows' : r.id \notin job'.todo => Whole(r.paths)'
      BY <1>1, <1>6, <2>2, <2>3, FilesStay
    <2> QED BY <1>1, <2>4 DEF Seen
  <1>9. trust' # "exact"
    BY <1>1 DEF TrustInv
  <1>10. ~Publishing' /\ ~Current'
    BY <1>1 DEF Publishing, Current
  <1>11. Ids(Rows')
    BY <1>3, <1>6, IdsAdded DEF TrustInv
  <1>12. Ids(Rows)'
    BY <1>11 DEF Ids
  <1>13. trust' # "no" => \A s \in scanned' : Alike(s.paths)'
    BY <1>1, FilesStay DEF TrustInv
  <1> QED BY <1>1, <1>8, <1>9, <1>10, <1>12, <1>13 DEF TrustInv

\* All rows have been seen.
LEMMA EndKeepsTrust ==
  ASSUME TrustInv, ScanInv, RefreshEnd
  PROVE  TrustInv'
  <1>1. /\ cmd = "refresh" /\ pc = "row" /\ cmd' = "none" /\ ~Publishing
        /\ RowsLeft = {} /\ UNCHANGED <<inode, data, dup, txn, scanned>>
        /\ trust' = IF trust = "deleted" /\ changes = job.since THEN "exact" ELSE trust
    BY DEF RefreshEnd, At, Return, Publishing, fsvars
  <1>2. Rows' = Rows /\ Rows = dup.rows
    BY <1>1, RowsOfFile DEF Rows
  <1>3. ASSUME trust' = "exact" PROVE \A r \in Rows : Whole(r.paths)
    <2>1. CASE trust = "exact"
      BY <2>1 DEF TrustInv
    <2>2. CASE trust # "exact"
      <3>1. Seen
        BY <1>1, <1>3, <2>2 DEF TrustInv
      <3>2. \A r \in Rows : r.id \notin job.todo
        BY <1>1, <1>2 DEF RowsLeft
      <3> QED BY <1>1, <3>1, <3>2 DEF Seen
    <2> QED BY <2>1, <2>2
  <1>4. trust' = "exact" => \A r \in Rows' : Whole(r.paths)'
    BY <1>1, <1>2, <1>3, FilesStay
  <1>5. trust' # "no" => trust # "no"
    BY <1>1
  <1>6. trust' # "no" => \A s \in scanned' : Alike(s.paths)'
    BY <1>1, <1>5, FilesStay DEF TrustInv
  <1>7. ~Publishing' /\ ~Current'
    BY <1>1 DEF Publishing, Current
  <1>8. Ids(Rows)'
    BY <1>2 DEF TrustInv, Ids
  <1> QED BY <1>1, <1>4, <1>6, <1>7, <1>8 DEF TrustInv

\* A command that is killed makes nothing more to be trusted.
LEMMA CrashKeepsTrust ==
  ASSUME TrustInv, ScanInv, Crash
  PROVE  TrustInv'
  <1>1. /\ txn' = [open |-> FALSE, rows |-> {}] /\ cmd' = "none"
        /\ UNCHANGED <<inode, data, dup, scanned>> /\ trust' \in {trust, "no"}
    BY DEF Crash, Return, NoTxn, fsvars
  <1>2. txn'.open = FALSE
    BY <1>1
  <1>3. Rows' = dup.rows
    BY <1>1, <1>2 DEF Rows
  <1>4. Rows' \subseteq Rows
    BY <1>3, RowsOfFile DEF ScanInv
  <1> QED BY <1>1, <1>4, TrustIdle

\* Other programs: after a deletion existing files of a set are still the same.
LEMMA FileChangeKeepsTrust ==
  ASSUME TrustInv, TablesInv, CacheInv, KeptTogether, FileChange
  PROVE  TrustInv'
  <1>1. UNCHANGED <<cmd, pc, job, dup, txn, scanned>> /\ Rows' = Rows
    BY DEF FileChange, cmdvars, Rows
  <1>2. changes \in Nat /\ changes' = changes + 1
    BY FileChangeTouches DEF CacheInv, Touch, FsInv
  <1>3. trust' \in {"no", "deleted"} /\ (trust = "no" => trust' = "no")
    BY DEF FileChange, Trusted
  <1>4. Publishing => (job.since \in Nat /\ job.since <= changes)'
    BY <1>1, <1>2 DEF TrustInv
  <1>5. ~Current'
    BY <1>1, <1>2 DEF TrustInv, Current, Publishing
  <1>6. cmd = "refresh" => changes' # job'.since
    BY <1>1, <1>2 DEF KeptTogether, Begun
  <1>7. ASSUME trust' # "no", NEW s \in scanned PROVE Alike(s.paths)'
    <2>1. PICK path \in Paths : Delete(path)
      BY <1>7 DEF FileChange, Trusted
    <2>2. ToSet(s.paths) \subseteq Paths
      BY DEF TablesInv, Tables, SetOK, Listed, ToSet
    <2>3. \A p \in Paths : file_exists(p)' => file_exists(p) /\ Data(p)' = Data(p)
      BY <2>1 DEF Delete, file_exists, Paths, Data
    <2>4. Alike(s.paths)
      BY <1>3, <1>7 DEF TrustInv
    <2>5. Existing(ToSet(s.paths))' \subseteq Existing(ToSet(s.paths))
      BY <2>2, <2>3 DEF Existing
    <2>6. \A p \in Existing(ToSet(s.paths))' : Data(p)' = Data(p)
      BY <2>2, <2>3 DEF Existing
    <2> QED BY <2>4, <2>5, <2>6 DEF Alike
  <1>8. trust' # "no" => \A s \in scanned' : Alike(s.paths)'
    BY <1>1, <1>7
  <1>9. Ids(Rows)'
    BY <1>1 DEF TrustInv, Ids
  <1>10. (cmd = "scan" /\ pc \in {"create", "publish"} => trust = "no")'
    BY <1>1, <1>3 DEF TrustInv
  <1>11. (Publishing => job.since \in Nat /\ job.since <= changes)'
    BY <1>1, <1>4 DEF Publishing
  <1> QED BY <1>1, <1>3, <1>5, <1>6, <1>8, <1>9, <1>10, <1>11 DEF TrustInv

\* Every step keeps what the rows may be trusted with.
LEMMA TrustStep ==
  ASSUME CacheInv, ScanInv, TablesInv, KeptTogether, TrustInv, [Next]_vars
  PROVE  TrustInv'
  <1>1. Paths' = Paths /\ FsInv
    BY PathsStay DEF CacheInv
  <1>2. CASE \/ CacheNext /\ UNCHANGED dbvars
             \/ ReportNext
             \/ Operation /\ ~\E h : RefreshStart(h)
    <2>1. Elsewhere /\ cmd' # "refresh"
      BY <1>2, NoRefresh DEF TablesInv
    <2>2. UNCHANGED <<inode, data, trust>>
      BY <1>2, OthersTrust
    <2>3. Rows' = Rows /\ UNCHANGED scanned
      BY <2>1, ElsewhereRows
    <2> QED BY <2>1, <2>2, <2>3, TrustIdle DEF Elsewhere
  <1>3. CASE \E h : RefreshStart(h)
    BY <1>3, RefreshStartKeepsTrust
  <1>4. CASE DbNext
    BY <1>1, <1>4, ScanKeepsTrust, PublishKeepsTrust, CommitKeepsTrust, LooksKeepTrust,
       DeleteKeepsTrust, InsertKeepsTrust, EndKeepsTrust DEF DbNext, Looks
  <1>5. CASE Crash
    BY <1>5, CrashKeepsTrust
  <1>6. CASE FileChange
    BY <1>6, FileChangeKeepsTrust
  <1>7. CASE UNCHANGED vars
    <2>1. UNCHANGED <<inode, data, changes, cmd, pc, job, dup, txn, scanned, trust>>
      BY <1>7 DEF vars, fsvars, cmdvars, dbvars
    <2> QED BY <2>1, TrustSame DEF Rows
  <1> QED BY <1>2, <1>3, <1>4, <1>5, <1>6, <1>7 DEF Next

-----------------------------------------------------------------------------
(* The scripts. *)

\* A step that prints no script, of a command that runs or that starts.
LEMMA ScriptsStay ==
  ASSUME ScriptsInv, \A r \in printed' : r \in printed \/ r.kind # "SCRIPT", cmd # "none"
  PROVE  ScriptsInv'
  BY DEF ScriptsInv

\* The records of the reports are of other kinds.
LEMMA ReportsPrint ==
  ASSUME ReportNext
  PROVE  cmd # "none" /\ \A r \in printed' : r \in printed \/ r.kind # "SCRIPT"
  <1>1. cmd # "none"
    BY DEF ReportNext, NextFile, NextRow, NextNone, OpenSelf, ReadFile, SelfEnd, StatSelf,
           StatDup, OpenDup, DupEnd, Verified, Verifying, Shown, At
  <1>2. CASE NextRow \/ OpenSelf \/ ReadFile \/ SelfEnd \/ StatSelf \/ StatDup \/ OpenDup \/ DupEnd
    BY <1>1, <1>2 DEF NextRow, OpenSelf, ReadFile, SelfEnd, StatSelf, StatDup, OpenDup, DupEnd,
                      ReadPart, Return
  <1>3. CASE NextFile
    BY <1>1, <1>3 DEF NextFile, Say
  <1>4. CASE NextNone
    BY <1>1, <1>4 DEF NextNone, Say
  <1>5. CASE Verified
    <2> DEFINE About(k) == [kind |-> k, path |-> job.path, dups |-> job.dups,
                            status |-> job.status, exclude_path |-> job.exclude_path,
                            hardlink_is_unique |-> job.hardlink_is_unique, since |-> job.since]
    <2>1. \A k : About(k).kind = k
      OBVIOUS
    <2>2. \/ UNCHANGED printed
          \/ \E k \in {"INVALID", "UNIQUE", "DUPLICATE"} : printed' = printed \cup {About(k)}
      BY <1>5 DEF Verified, Say
    <2> HIDE DEF About
    <2> QED BY <1>1, <2>1, <2>2
  <1> QED BY <1>1, <1>2, <1>3, <1>4, <1>5 DEF ReportNext

\* An operation forgets what was printed before; dupd rmsh prints its scripts.
LEMMA OperationScripts ==
  ASSUME ScriptsInv, ScanInv, FsInv, Operation
  PROVE  ScriptsInv'
  <1>1. CASE printed' = {}
    BY <1>1 DEF ScriptsInv
  <1>2. CASE CacheDelete
    <2>1. UNCHANGED <<cmd, changes, failures, printed, dup, txn>>
      BY <1>2 DEF Operation, CacheDelete, fsvars, dbvars, ScanStart, RefreshStart,
                  operation_report, operation_shell_script, Tell, FileStart, WalkStart,
                  ValidateStart, VerifyStart, Begin
    <2> QED BY <2>1 DEF ScriptsInv, OfRow, Rows, Past, Now
  <1>3. ASSUME NEW h, operation_report(h)
        PROVE  ScriptsInv'
    <2>1. \A r \in printed' : r.kind = "SET"
      BY <1>3 DEF operation_report, Tell
    <2> QED BY <2>1 DEF ScriptsInv
  <1>4. ASSUME NEW link, NEW h, operation_shell_script(link, h)
        PROVE  ScriptsInv'
    <2>1. /\ cmd = "none" /\ UNCHANGED <<cmd, changes, failures, dup, txn>>
          /\ printed' = {[kind |-> "SCRIPT", rm |-> Removed(r.paths), ln |-> link,
                          kept |-> r.paths[1], since |-> Now] : r \in dup.rows}
      BY <1>4 DEF operation_shell_script, Tell, fsvars, dbvars
    <2>2. Rows = dup.rows /\ Rows' = Rows
      BY <2>1, RowsOfFile DEF Publishing, Rows
    <2>3. ASSUME NEW r \in printed'
          PROVE  /\ r.since = Now
                 /\ \E row \in Rows : r.rm = Tail(row.paths) /\ r.kept = row.paths[1]
      <3>1. PICK row \in dup.rows :
              r = [kind |-> "SCRIPT", rm |-> Removed(row.paths), ln |-> link,
                   kept |-> row.paths[1], since |-> Now]
        BY <2>1, <2>3
      <3> QED BY <2>2, <3>1 DEF Removed
    <2>4. Past(Now)' /\ Now' = Now
      BY <2>1, NowPast DEF Past, Now
    <2>5. ASSUME NEW r \in printed' PROVE Past(r.since)'
      BY <2>1, <2>3, <2>4 DEF Past
    <2> QED BY <2>1, <2>2, <2>3, <2>5 DEF ScriptsInv, OfRow
  <1>5. CASE CacheListStart \/ \E path \in Asked : HashStart(path)
    BY <1>1, <1>5 DEF CacheListStart, HashStart, Begin
  <1>6. ASSUME NEW options,
               \/ ScanStart(options.hardlink_is_unique)
               \/ RefreshStart(options.hardlink_is_unique)
               \/ \E path \in Asked : FileStart(path, options)
               \/ \E c \in Walks : WalkStart(c, Asked, options)
               \/ ValidateStart(options)
        PROVE  printed' = {}
    BY <1>6 DEF ScanStart, RefreshStart, FileStart, WalkStart, ValidateStart, VerifyStart, Begin
  <1> QED BY <1>1, <1>2, <1>3, <1>4, <1>5, <1>6, Zenon DEF Operation

\* Every step keeps the scripts those of rows.
LEMMA ScriptsStep ==
  ASSUME CacheInv, ScanInv, ScriptsInv, [Next]_vars
  PROVE  ScriptsInv'
  <1>1. CASE Operation
    BY <1>1, OperationScripts DEF CacheInv
  <1>2. CASE CacheNext /\ UNCHANGED dbvars
    <2>1. UNCHANGED printed
      BY <1>2 DEF CacheNext, CacheOpen, CacheCreate, AfterOpen, HashFind, HashScrub, HashOpen,
                  HashRead, HashReadEnd, HashAdd, HashCommit, ReadPart, Return
    <2>2. CASE cmd # "none"
      BY <2>1, <2>2, ScriptsStay
    <2>3. CASE cmd = "none"
      <3>1. UNCHANGED <<cmd, changes, failures, dup, txn>>
        BY <1>2, <2>3 DEF CacheNext, CacheOpen, CacheCreate, AfterOpen, HashFind, HashScrub,
                          HashOpen, HashRead, HashReadEnd, HashAdd, HashCommit, At, Goto, fsvars,
                          dbvars
      <3> QED BY <2>1, <3>1 DEF ScriptsInv, OfRow, Rows, Past, Now
    <2> QED BY <2>2, <2>3
  <1>3. CASE DbNext
    <2>1. cmd # "none"
      BY <1>3 DEF DbNext, ScanUnlink, ScanCreate, ScanFind, ScanPublish, ScanCommit,
                  RefreshRow, RefreshLook, RefreshLooked, RefreshDelete, RefreshInsert,
                  RefreshEnd, At
    <2>2. UNCHANGED printed
      BY <1>3 DEF DbNext, ScanUnlink, ScanCreate, ScanFind, ScanPublish, ScanCommit,
                  RefreshRow, RefreshLook, RefreshLooked, RefreshDelete, RefreshInsert,
                  RefreshEnd, cmdvars, Return
    <2> QED BY <2>1, <2>2, ScriptsStay
  <1>4. CASE ReportNext
    BY <1>4, ReportsPrint, ScriptsStay
  <1>5. CASE Crash
    BY <1>5, ScriptsStay DEF Crash, Return
  <1>6. CASE FileChange
    <2>1. UNCHANGED <<cmd, printed>>
      BY <1>6 DEF FileChange, cmdvars
    <2>2. changes' = changes + 1 /\ failures' = failures /\ FsInv
      BY <1>6, FileChangeTouches DEF CacheInv, Touch
    <2>3. ASSUME NEW t, Past(t) PROVE Past(t)' /\ t # Now'
      BY <2>2, <2>3, MomentPasses
    <2> QED BY <2>1, <2>3 DEF ScriptsInv
  <1>7. CASE UNCHANGED vars
    BY <1>7 DEF vars, fsvars, cmdvars, dbvars, ScriptsInv, OfRow, Rows, Past, Now
  <1> QED BY <1>1, <1>2, <1>3, <1>4, <1>5, <1>6, <1>7 DEF Next

\* The tail of a row is all of it but the first path.
LEMMA TailIs ==
  ASSUME NEW S, NEW paths \in Seq(S), IsInjective(paths), Len(paths) > 1
  PROVE  /\ paths[1] \in ToSet(paths)
         /\ ToSet(Tail(paths)) \subseteq ToSet(paths) /\ paths[1] \notin ToSet(Tail(paths))
  <1>1. Len(paths) \in Nat /\ DOMAIN paths = 1 .. Len(paths)
    OBVIOUS
  <1>2. /\ DOMAIN Tail(paths) = 1 .. Len(paths) - 1
        /\ \A i \in 1 .. Len(paths) - 1 : Tail(paths)[i] = paths[i + 1]
    OBVIOUS
  <1>3. \A i \in 1 .. Len(paths) - 1 : i + 1 \in DOMAIN paths /\ i + 1 # 1
    BY <1>1
  <1>4. 1 \in DOMAIN paths
    BY <1>1
  <1> QED BY <1>2, <1>3, <1>4 DEF ToSet, IsInjective

\* Scripts of rows that can be trusted keep every content.
LEMMA ScriptsKeep ==
  ASSUME ScanInv, TablesInv, TrustInv, ScriptsInv
  PROVE  ScriptKeepsContent
  <1> DEFINE scripts == {r \in printed : r.kind = "SCRIPT" /\ r.since = Now}
             gone == UNION {ToSet(r.rm) : r \in scripts}
  <1> SUFFICES ASSUME trust = "exact"
               PROVE  /\ \A p \in Existing(Paths) : \E q \in Paths \ gone : Same(p, q)
                      /\ \A r \in scripts : \A p \in ToSet(r.rm) :
                           r.ln # "none" => r.kept \notin gone /\ Same(p, r.kept)
    BY Zenon DEF ScriptKeepsContent
  <1>1. ASSUME NEW row \in Rows
        PROVE  /\ row.paths \in Seq(Paths) /\ IsInjective(row.paths) /\ Len(row.paths) > 1
               /\ row.paths[1] \in ToSet(row.paths)
               /\ ToSet(Tail(row.paths)) \subseteq ToSet(row.paths)
               /\ row.paths[1] \notin ToSet(Tail(row.paths))
    <2>1. row.paths \in Seq(Paths) /\ IsInjective(row.paths) /\ Len(row.paths) > 1
      BY DEF TablesInv, Tables, RowOK, Listed
    <2> QED BY <2>1, TailIs
  <1>2. ASSUME NEW r \in scripts
        PROVE  \E row \in Rows : r.rm = Tail(row.paths) /\ r.kept = row.paths[1]
    BY <1>2 DEF ScriptsInv, OfRow
  <1>3. ASSUME NEW row \in Rows PROVE row.paths[1] \notin gone
    <2> SUFFICES ASSUME NEW r \in scripts, row.paths[1] \in ToSet(r.rm) PROVE FALSE
      OBVIOUS
    <2>1. PICK o \in Rows : r.rm = Tail(o.paths)
      BY <1>2
    <2>2. row.paths[1] \in ToSet(o.paths) /\ row.paths[1] \in ToSet(row.paths)
      BY <1>1, <2>1
    <2>3. o = row
      BY <2>2 DEF TablesInv, Tables, Apart, Disjoint
    <2> QED BY <1>1, <2>1, <2>3
  <1>4. ASSUME NEW row \in Rows, NEW p \in ToSet(row.paths), NEW q \in ToSet(row.paths)
        PROVE  Same(p, q)
    <2>1. PICK s \in scanned : ToSet(row.paths) \subseteq ToSet(s.paths)
      BY RowsOfSets
    <2>2. Whole(row.paths) /\ Alike(s.paths)
      BY DEF TrustInv
    <2> QED BY <2>1, <2>2 DEF Whole, Alike, Existing, Same
  <1>5. ASSUME NEW r \in scripts, NEW p \in ToSet(r.rm)
        PROVE  r.kept \in Paths /\ r.kept \notin gone /\ Same(p, r.kept)
    <2>1. PICK row \in Rows : r.rm = Tail(row.paths) /\ r.kept = row.paths[1]
      BY <1>2
    <2>2. p \in ToSet(row.paths) /\ r.kept \in ToSet(row.paths)
      BY <1>1, <2>1
    <2>3. r.kept \in Paths
      BY <1>1, <2>1
    <2> QED BY <1>3, <1>4, <2>1, <2>2, <2>3
  <1>6. ASSUME NEW p \in Existing(Paths)
        PROVE  \E q \in Paths \ gone : Same(p, q)
    <2>1. p \in Paths /\ Same(p, p)
      BY DEF Existing, Same
    <2>2. CASE p \in gone
      <3>1. PICK r \in scripts : p \in ToSet(r.rm)
        BY <2>2
      <3> QED BY <1>5, <3>1
    <2> QED BY <2>1, <2>2
  <1> QED BY <1>5, <1>6

\* Nothing is printed or trusted at first.
LEMMA TrustAtFirst ==
  ASSUME Init
  PROVE  KeptTogether /\ TrustInv /\ ScriptsInv
  <1>1. cmd = "none" /\ scanned = {} /\ trust = "no" /\ printed = {}
    BY DEF Init, CommandInit, DbInit
  <1>2. /\ txn = [open |-> FALSE, rows |-> {}]
        /\ dup = [stage |-> 1, hardlinks |-> "normal", rows |-> {}]
    BY DEF Init, DbInit, NoTxn, NoDb
  <1>3. txn.open = FALSE
    BY <1>2
  <1>4. Rows = {}
    BY <1>2, <1>3 DEF Rows
  <1>5. Ids(Rows)
    BY <1>4, FS_EmptySet DEF Ids
  <1>6. ~Publishing /\ ~Current
    BY <1>1 DEF Publishing, Current
  <1> QED BY <1>1, <1>5, <1>6 DEF KeptTogether, TrustInv, ScriptsInv

(* Until a file changes, the script of dupd rmsh deletes no content whole, if
   none changed since the scan, or some were deleted and a refresh has seen it:
   whatever commands ran or were killed in between (operation_shell_script()
   and operation_refresh()). *)
THEOREM ScriptsKeepContent == Spec => []ScriptKeepsContent
  <1> DEFINE I == CacheInv /\ ScanInv /\ TablesInv /\ KeptTogether /\ TrustInv /\ ScriptsInv
  <1>1. Init => I
    BY CacheInvAtFirst, TablesAtFirst, TrustAtFirst
  <1>2. I /\ [Next]_vars => I'
    BY CacheStep, ScanStep, TablesStep, TogetherStep, TrustStep, ScriptsStep
  <1>3. I => ScriptKeepsContent
    BY ScriptsKeep
  <1> QED BY <1>1, <1>2, <1>3, PTL DEF Spec

-----------------------------------------------------------------------------
(* The rows are complete: files with the same data, if the scan did not leave
   the links out, are in one set that it found, and then in one row, as long
   as files are only deleted. *)
Twins(p, q) == p # q /\ Same(p, q) /\ Data(q) # << >>

FoundAll == \A p, q \in Paths : Twins(p, q) => \E s \in scanned : {p, q} \subseteq ToSet(s.paths)

InARow(p, q) ==
  \/ \E r \in Rows : {p, q} \subseteq ToSet(r.paths)
  \/ cmd = "refresh" /\ pc = "insert" /\ {p, q} \subseteq ToSet(job.left)

HasAll == \A p, q \in Paths : Twins(p, q) => InARow(p, q)

Scanning == cmd = "scan" /\ pc \in {"open_cache", "create_hashes", "unlink", "create"}

CompleteInv ==
  /\ Scanning => job.hardlink_is_unique \in BOOLEAN
  /\ At("scan", "create") /\ dup.hardlinks = "normal" => ~job.hardlink_is_unique
  /\ Current /\ dup.hardlinks = "normal" => FoundAll
  /\ trust # "no" /\ dup.hardlinks = "normal" => HasAll

-----------------------------------------------------------------------------
(* What reverify_duplicates() knows while no file changes. *)
Verdict(status, path, other) ==
  \/ status = "EXCLUDE"
  \/ status = "NOTDUP" /\ ~Same(path, other)
  \/ status = "DUPLICATE" /\ Same(path, other) /\ inode[other] # inode[path]
  \/ status = "HARDLINK" /\ file_exists(path) /\ file_exists(other)
                          /\ Number(other) = Number(path)

Verdicts(status, path, dups) == \A i \in 1 .. Len(status) : Verdict(status[i], path, dups[i])

Reads(path) ==
  /\ file_exists(path) /\ fd.inode = inode[path]
  /\ ReadSoFar(fd.digest, Data(path))

(* Of path itself it learns its data and the number of its inode, then it
   looks at the others. *)
Learnt ==
  /\ pc \in {"read_self", "stat_self", "dup", "open", "read"} => file_exists(job.path)
  /\ pc = "read_self" => Reads(job.path)
  /\ pc \in {"stat_self", "dup", "open", "read"} => job.hash = Data(job.path)
  /\ pc \in {"dup", "open", "read"} => /\ job.inode = Number(job.path)
                                     /\ Verdicts(job.status, job.path, job.dups)
  /\ pc \in {"open", "read"} => file_exists(Dup) /\ Number(Dup) # job.inode
  /\ pc = "read" => Reads(Dup)

(* The rows that dupd validate has seen hold, if it found no error and the
   numbers of inodes tell their files apart. *)
Holds(row) == NumbersTell(ToSet(row.paths)) => SetHolds(row.paths)
SeenHolds(row) == row \in job.todo \/ job.errors # 0 \/ Holds(row)
OwnRow(row) == job.path = row.paths[1] /\ job.dups = Tail(row.paths)

Validated ==
  /\ pc = "next" => \A row \in dup.rows : SeenHolds(row)
  /\ pc # "next" => \A row \in dup.rows : SeenHolds(row) \/ OwnRow(row)

(* The steps of reverify_duplicates(); its locals and those of its caller. *)
Steps    == {"self", "read_self", "stat_self", "dup", "open", "read"}
Statuses == {"EXCLUDE", "NOTDUP", "DUPLICATE", "HARDLINK"}

Caller == {"todo", "since", "errors", "hardlink_is_unique", "exclude_path"}
Own    == {"path", "dups", "hash", "inode", "status"}

CallerOK ==
  /\ Caller \subseteq DOMAIN job
  /\ Past(job.since) /\ job.errors \in Nat
  /\ job.hardlink_is_unique \in BOOLEAN
  /\ cmd \in DOMAIN Shown => job.todo \subseteq Paths
  /\ cmd = "validate" => job.todo \subseteq dup.rows

OwnOK ==
  /\ Own \subseteq DOMAIN job
  /\ job.path \in Paths /\ job.dups \in Seq(Paths)
  /\ job.status \in Seq(Statuses) /\ Len(job.status) <= Len(job.dups)
  /\ cmd \in DOMAIN Shown => job.dups = get_known_duplicates(job.path)

(* What is so at a step of reverify_duplicates(). *)
StepOK ==
  /\ pc \in {"self", "read_self", "stat_self"} => job.status = << >>
  /\ pc \in {"open", "read"} => More
  /\ pc \in {"read_self", "read"} => fd = [inode |-> fd.inode, digest |-> fd.digest]

VerifyInv ==
  /\ Paths \subseteq Seq(STRING)
  /\ Verifying =>
       /\ pc \in {"next"} \cup Steps
       /\ CallerOK /\ (pc \in Steps => OwnOK /\ StepOK)
       /\ job.since = Now => /\ pc \in Steps => Learnt
                             /\ cmd = "validate" => Validated

(* What was printed is true, if no file changed and no read failed since the
   command began. *)
ClaimsInv ==
  /\ cmd \in {"scan", "refresh"} => printed = {}
  /\ \A r \in printed : Past(r.since) /\ (r.since = Now => Truth(r))

-----------------------------------------------------------------------------
(* That the rows are complete. *)

\* Files that stay as they are remain twins, and none become so.
LEMMA TwinsStay ==
  ASSUME UNCHANGED <<inode, data>>
  PROVE  \A p, q \in Paths : Twins(p, q)' <=> Twins(p, q)
  BY DEF Twins, Same, file_exists, Data

\* Twins of a row that is still there are in a row.
LEMMA AllStay ==
  ASSUME HasAll, Paths' = Paths, \A p, q \in Paths : Twins(p, q)' => Twins(p, q),
         \A p, q \in Paths : InARow(p, q) => InARow(p, q)'
  PROVE  HasAll'
  BY DEF HasAll

\* So it is when no row goes, and no refresh is about to write one.
LEMMA AllStayInRows ==
  ASSUME HasAll, Paths' = Paths, \A p, q \in Paths : Twins(p, q)' => Twins(p, q),
         ~At("refresh", "insert"), Rows \subseteq Rows'
  PROVE  HasAll'
  <1>1. ASSUME NEW p \in Paths, NEW q \in Paths, InARow(p, q) PROVE InARow(p, q)'
    <2>1. PICK r \in Rows : {p, q} \subseteq ToSet(r.paths)
      BY <1>1 DEF InARow, At
    <2>2. r \in Rows'
      BY <2>1
    <2> QED BY <2>1, <2>2 DEF InARow
  <1> QED BY <1>1, AllStay

\* What a scan is told of links is a Boolean; the cache leaves that alone.
LEMMA ScanningKnows ==
  ASSUME CompleteInv,
         \/ CacheNext /\ UNCHANGED dbvars
         \/ ReportNext
         \/ Operation /\ ~\E h : RefreshStart(h)
  PROVE  Scanning' => job'.hardlink_is_unique \in BOOLEAN
  <1>1. CASE CacheNext /\ UNCHANGED dbvars
    <2>1. CASE CacheOpen \/ CacheCreate
      <3>1. \/ UNCHANGED <<cmd, job>> /\ pc \in {"open_cache", "create_hashes"}
            \/ cmd' = "none"
        BY <2>1 DEF CacheOpen, CacheCreate, AfterOpen, Goto, Return
      <3> QED BY <3>1 DEF CompleteInv, Scanning
    <2>2. CASE ~(CacheOpen \/ CacheCreate)
      <3>1. cmd' # "scan"
        BY <1>1, <2>2 DEF CacheNext, HashFind, HashScrub, HashOpen, HashRead, HashReadEnd,
                          HashAdd, HashCommit, ReadPart, At, Goto, Return
      <3> QED BY <3>1 DEF Scanning
    <2> QED BY <2>1, <2>2
  <1>2. CASE ReportNext
    <2>1. cmd # "scan"
      BY <1>2 DEF ReportNext, NextFile, NextRow, NextNone, OpenSelf, ReadFile, SelfEnd, StatSelf,
                  StatDup, OpenDup, DupEnd, Verified, Verifying, Shown, At
    <2>2. cmd' \in {cmd, "none"}
      BY <1>2 DEF ReportNext, NextFile, NextRow, NextNone, OpenSelf, ReadFile, SelfEnd, StatSelf,
                  StatDup, OpenDup, DupEnd, Verified, Goto, Return, Reverify, ReadPart, Status
    <2> QED BY <2>1, <2>2 DEF Scanning
  <1>3. CASE Operation /\ ~\E h : RefreshStart(h)
    <2>1. ASSUME CacheListStart \/ CacheDelete \/ \E path \in Asked : HashStart(path)
          PROVE  cmd' # "scan"
      BY <2>1 DEF CacheListStart, CacheDelete, HashStart, Begin
    <2>2. ASSUME NEW options \in Options,
                 \/ operation_report(options.hardlink_is_unique)
                 \/ \E link \in Links : operation_shell_script(link, options.hardlink_is_unique)
                 \/ \E path \in Asked : FileStart(path, options)
                 \/ \E c \in Walks : WalkStart(c, Asked, options)
                 \/ ValidateStart(options)
          PROVE  cmd' # "scan"
      BY <2>2, CommandsAssumption
         DEF operation_report, operation_shell_script, Tell, FileStart, WalkStart,
             ValidateStart, VerifyStart, Begin
    <2>3. ASSUME NEW options \in Options, ScanStart(options.hardlink_is_unique)
          PROVE  job'.hardlink_is_unique \in BOOLEAN
      BY <2>3, CommandsAssumption DEF ScanStart, Begin
    <2>4. \A options \in Options : ~RefreshStart(options.hardlink_is_unique)
      BY <1>3
    <2> QED BY <1>3, <2>1, <2>2, <2>3, <2>4, Zenon DEF Operation, Scanning
  <1> QED BY <1>1, <1>2, <1>3

\* Other commands leave the rows complete.
LEMMA OthersComplete ==
  ASSUME TablesInv, CompleteInv, Paths' = Paths,
         \/ CacheNext /\ UNCHANGED dbvars
         \/ ReportNext
         \/ Operation /\ ~\E h : RefreshStart(h)
  PROVE  CompleteInv'
  <1>1. Elsewhere /\ cmd # "refresh" /\ UNCHANGED <<inode, data, trust, dup>>
    <2>1. Elsewhere /\ cmd # "refresh"
      BY NoRefresh DEF TablesInv
    <2>2. UNCHANGED <<inode, data, trust>>
      BY OthersTrust
    <2> QED BY <2>1, <2>2 DEF Elsewhere
  <1>2. Rows' = Rows /\ ~Publishing'
    BY <1>1, ElsewhereRows
  <1>3. ~Current' /\ ~At("scan", "create")' /\ ~At("refresh", "insert")
    BY <1>1, <1>2 DEF Current, At, Elsewhere
  <1>4. \A p, q \in Paths : Twins(p, q)' => Twins(p, q)
    BY <1>1, TwinsStay
  <1>5. HasAll => HasAll'
    BY <1>2, <1>3, <1>4, AllStayInRows
  <1>6. Scanning' => job'.hardlink_is_unique \in BOOLEAN
    BY ScanningKnows
  <1> QED BY <1>1, <1>3, <1>5, <1>6 DEF CompleteInv

\* SetToSeq leaves nothing out.
LEMMA SetToSeqAll ==
  ASSUME NEW S, IsFiniteSet(S)
  PROVE  ToSet(SetToSeq(S)) = S
  <1>1. PICK q : q = SetToSeq(S)
    OBVIOUS
  <1>2. q \in Seq(S) /\ IsInjective(q) /\ Len(q) = Cardinality(S)
    BY <1>1, SetToSeqIs
  <1>3. IsFiniteSet(ToSet(q)) /\ Cardinality(ToSet(q)) = Cardinality(S)
    BY <1>2, ListedCount
  <1>4. ToSet(q) \subseteq S
    BY <1>2 DEF ToSet
  <1> QED BY <1>1, <1>3, <1>4, FS_Subset

\* Two different files are two.
LEMMA PairCount ==
  ASSUME NEW p, NEW q, p # q
  PROVE  IsFiniteSet({p, q}) /\ Cardinality({p, q}) = 2
  <1>1. IsFiniteSet({p}) /\ Cardinality({p}) = 1
    BY FS_Singleton
  <1>2. {p, q} = {p} \cup {q}
    OBVIOUS
  <1> QED BY <1>1, <1>2, FS_AddElement

\* A scan that does not leave out links counts every file that has data.
LEMMA FindsAll ==
  ASSUME IsFiniteSet(Paths), ScanFind, ~job.hardlink_is_unique
  PROVE  FoundAll'
  <1> DEFINE h  == job.hardlink_is_unique
             S1 == {p \in Paths : file_exists(p) /\ Data(p) # << >>}
             S2 == {p \in S1 : \E q \in S1 \ {p} : Size(q) = Size(p)}
             S  == {p \in S2 : h => p = CHOOSE q \in S2 : Number(q) = Number(p)}
  <1>1. S \subseteq Paths /\ \A p, q \in Paths : Twins(p, q) => {p, q} \subseteq S
    <2>1. S = S2
      OBVIOUS
    <2>2. ASSUME NEW p \in Paths, NEW q \in Paths, Twins(p, q) PROVE {p, q} \subseteq S2
      <3>1. p # q /\ {p, q} \subseteq S1 /\ Size(p) = Size(q)
        BY <2>2 DEF Twins, Same, Size
      <3> QED BY <3>1
    <2> QED BY <2>1, <2>2
  <1>2. SetsFound(h) = {SetToSeq(Class(S, p)) : p \in {q \in S : Cardinality(Class(S, q)) > 1}}
    BY Zenon DEF SetsFound, Class
  <1>3. scanned' = {[paths |-> paths, size |-> Len(Data(paths[1]))] : paths \in SetsFound(h)}
    BY DEF ScanFind
  <1>4. UNCHANGED <<inode, data>>
    BY DEF ScanFind, fsvars
  <1> HIDE DEF S1, S2, S, h
  <1>5. ASSUME NEW p \in Paths, NEW q \in Paths, Twins(p, q)
        PROVE  \E s \in scanned' : {p, q} \subseteq ToSet(s.paths)
    <2>1. p \in S /\ p \in Class(S, p) /\ q \in Class(S, p) /\ p # q
      BY <1>1, <1>5 DEF Twins, Same, Class
    <2>2. IsFiniteSet(Class(S, p))
      <3>1. Class(S, p) \subseteq Paths
        BY <1>1 DEF Class
      <3> QED BY <3>1, FS_Subset
    <2>3. Cardinality(Class(S, p)) > 1
      <3>1. IsFiniteSet({p, q}) /\ Cardinality({p, q}) = 2
        BY <2>1, PairCount
      <3>2. {p, q} \subseteq Class(S, p)
        BY <2>1
      <3>3. Cardinality({p, q}) <= Cardinality(Class(S, p)) /\ Cardinality(Class(S, p)) \in Nat
        BY <2>2, <3>2, FS_Subset, FS_CardinalityType
      <3> QED BY <3>1, <3>3
    <2>4. PICK paths : paths = SetToSeq(Class(S, p))
      OBVIOUS
    <2>5. paths \in SetsFound(h)
      BY <1>2, <2>1, <2>3, <2>4
    <2>6. PICK s \in scanned' : s.paths = paths
      <3>1. [paths |-> paths, size |-> Len(Data(paths[1]))] \in scanned'
        BY <1>3, <2>5
      <3> QED BY <3>1
    <2>7. ToSet(paths) = Class(S, p)
      BY <2>2, <2>4, SetToSeqAll
    <2> QED BY <2>1, <2>6, <2>7
  <1>6. Paths' = Paths
    BY <1>4 DEF Paths
  <1> QED BY <1>4, <1>5, <1>6, TwinsStay DEF FoundAll, ToSet

\* New rows do not change what the scan left out.
LEMMA LinksStay ==
  ASSUME ScanInv, NEW rows, NowRows(rows)
  PROVE  dup'.hardlinks = dup.hardlinks
  BY DEF ScanInv, NowRows

\* The steps of a scan up to the commit.
LEMMA ScanComplete ==
  ASSUME CompleteInv, TrustInv, TablesInv, ScanInv, FsInv, Paths' = Paths,
         ScanUnlink \/ ScanCreate \/ ScanFind \/ ScanPublish
  PROVE  CompleteInv'
  <1>1. CASE ScanUnlink
    <2>1. /\ At("scan", "unlink") /\ cmd' = "scan" /\ pc' = "create" /\ UNCHANGED job
          /\ trust' = "no"
          /\ dup' = [NoDb EXCEPT !.hardlinks =
                       IF job.hardlink_is_unique THEN "ignore" ELSE "normal"]
      BY <1>1 DEF ScanUnlink, At, Goto
    <2>2. job.hardlink_is_unique \in BOOLEAN
      BY <2>1 DEF CompleteInv, Scanning, At
    <2>3. dup'.hardlinks = "normal" => ~job.hardlink_is_unique
      BY <2>1, <2>2 DEF NoDb
    <2>4. ~Current'
      BY <2>1 DEF Current, Publishing
    <2> QED BY <2>1, <2>2, <2>3, <2>4 DEF CompleteInv
  <1>2. CASE ScanCreate
    <2>1. /\ At("scan", "create") /\ UNCHANGED <<cmd, pc, job, trust>>
          /\ dup' = [dup EXCEPT !.stage = dup.stage + 1]
      BY <1>2 DEF ScanCreate, cmdvars
    <2>2. dup'.hardlinks = dup.hardlinks /\ trust' = "no"
      BY <2>1 DEF TrustInv, At
    <2>3. ~Current'
      BY <2>1 DEF Current, Publishing, At
    <2> QED BY <2>1, <2>2, <2>3 DEF CompleteInv, Scanning, At
  <1>3. CASE ScanFind
    <2>1. /\ At("scan", "create") /\ cmd' = "scan" /\ pc' = "publish" /\ UNCHANGED <<dup, trust>>
      BY <1>3 DEF ScanFind, At, Goto
    <2>2. trust' = "no"
      BY <2>1 DEF TrustInv, At
    <2>3. dup'.hardlinks = "normal" => FoundAll'
      BY <1>3, <2>1, FindsAll DEF TablesInv, CompleteInv
    <2> QED BY <2>1, <2>2, <2>3 DEF CompleteInv, Scanning, At
  <1>4. CASE ScanPublish
    <2>1. /\ At("scan", "publish") /\ UNCHANGED <<inode, data, changes, cmd, pc, scanned, trust>>
      BY <1>4 DEF ScanPublish, At, fsvars
    <2>2. trust' = "no"
      BY <2>1 DEF TrustInv, At
    <2>3. PICK s \in job.todo : job' = [job EXCEPT !.todo = job.todo \ {s}]
      BY <1>4 DEF ScanPublish
    <2>4. job'.since = job.since /\ dup'.hardlinks = dup.hardlinks
      <3>1. PICK row : NowRows(Rows \cup {row})
        BY <1>4 DEF ScanPublish, duplicate_to_db
      <3>2. dup'.hardlinks = dup.hardlinks
        BY <3>1, LinksStay
      <3>3. job'.since = job.since
        BY <2>1, <2>3 DEF ScanInv, Publishing, At
      <3> QED BY <3>2, <3>3
    <2>5. Current' => Current
      BY <2>1, <2>4 DEF Current, Publishing
    <2>6. FoundAll => FoundAll'
      BY <2>1, TwinsStay DEF FoundAll
    <2> QED BY <2>1, <2>2, <2>4, <2>5, <2>6 DEF CompleteInv, Scanning, At
  <1> QED BY <1>1, <1>2, <1>3, <1>4

\* The commit, when nothing has changed.
LEMMA CommitComplete ==
  ASSUME CompleteInv, TablesInv, ScanInv, Paths' = Paths, ScanCommit
  PROVE  CompleteInv'
  <1>1. /\ Publishing /\ txn.open /\ job.todo = {} /\ cmd' = "none"
        /\ UNCHANGED <<inode, data, scanned>>
        /\ trust' = IF changes = job.since THEN "exact" ELSE "no"
    BY DEF ScanCommit, Publishing, At, ScanInv, Return, fsvars
  <1>2. dup' = [dup EXCEPT !.rows = txn.rows] /\ txn' = [open |-> FALSE, rows |-> {}]
    BY <1>1 DEF ScanCommit, NoTxn
  <1>3. dup'.hardlinks = dup.hardlinks /\ dup'.rows = txn.rows /\ txn'.open = FALSE
    BY <1>2 DEF ScanInv
  <1>4. Rows' = txn.rows
    BY <1>3 DEF Rows
  <1>5. ~Current' /\ ~Scanning' /\ ~At("scan", "create")'
    BY <1>1 DEF Current, Publishing, Scanning, At
  <1>6. ASSUME trust' # "no", dup'.hardlinks = "normal" PROVE HasAll'
    <2>1. FoundAll
      BY <1>1, <1>3, <1>6 DEF CompleteInv, Current
    <2>2. ASSUME NEW p \in Paths, NEW q \in Paths, Twins(p, q)
          PROVE  \E r \in Rows' : {p, q} \subseteq ToSet(r.paths)
      <3>1. PICK s \in scanned : {p, q} \subseteq ToSet(s.paths)
        BY <2>1, <2>2 DEF FoundAll
      <3>2. PICK r \in txn.rows : r.paths = s.paths
        BY <1>1, <3>1 DEF ScanInv, Published
      <3> QED BY <1>4, <3>1, <3>2
    <2>3. \A p, q \in Paths : Twins(p, q)' => InARow(p, q)'
      BY <1>1, <2>2, TwinsStay DEF InARow
    <2> QED BY <2>3 DEF HasAll
  <1> QED BY <1>5, <1>6 DEF CompleteInv

-----------------------------------------------------------------------------
(* A refresh writes a row anew before it reads on, and keeps twins in it. *)
LEMMA RefreshComplete ==
  ASSUME CompleteInv, TablesInv, ScanInv, KeptTogether, Paths' = Paths,
         (\E h : RefreshStart(h)) \/ Looks \/ RefreshDelete \/ RefreshInsert \/ RefreshEnd
  PROVE  CompleteInv'
  <1>1. /\ UNCHANGED <<inode, data>> /\ dup'.hardlinks = dup.hardlinks
        /\ cmd' \in {"refresh", "none"} /\ cmd \in {"none", "refresh"}
        /\ trust' # "no" => trust # "no"
    <2>1. CASE Looks
      BY <2>1, LooksOnly
    <2>2. CASE (\E h : RefreshStart(h)) \/ RefreshDelete \/ RefreshInsert \/ RefreshEnd
      <3>1. /\ UNCHANGED <<inode, data>> /\ (trust' # "no" => trust # "no")
            /\ cmd' \in {"refresh", "none"} /\ cmd \in {"none", "refresh"}
        BY <2>2 DEF RefreshStart, RefreshDelete, RefreshInsert, RefreshEnd, At, Begin, Goto,
                    Return, dbvars, fsvars
      <3>2. UNCHANGED dup \/ \E rows : NowRows(rows)
        BY <2>2 DEF RefreshStart, RefreshDelete, RefreshInsert, RefreshEnd, dbvars,
                    duplicate_to_db, delete_duplicate_entry
      <3> QED BY <3>1, <3>2, LinksStay
    <2> QED BY <2>1, <2>2
  <1>2. ~Current' /\ ~Scanning' /\ ~At("scan", "create")' /\ ~Publishing
    BY <1>1 DEF Current, Publishing, Scanning, At
  <1>3. \A p, q \in Paths : Twins(p, q)' => Twins(p, q)
    BY <1>1, TwinsStay
  <1>4. ~txn.open /\ Rows = dup.rows
    BY <1>2, RowsOfFile
  <1>5. ASSUME trust # "no", HasAll PROVE HasAll'
    <2>1. CASE (\E h : RefreshStart(h)) \/ Looks \/ RefreshEnd
      <3>1. UNCHANGED <<dup, txn>> /\ ~At("refresh", "insert")
        <4>1. CASE Looks
          BY <4>1, LooksOnly, LooksWhere DEF At
        <4>2. CASE (\E h : RefreshStart(h)) \/ RefreshEnd
          BY <4>2 DEF RefreshStart, RefreshEnd, Begin, At, Return, dbvars
        <4> QED BY <2>1, <4>1, <4>2
      <3> QED BY <1>3, <1>5, <3>1, AllStayInRows DEF Rows
    <2>2. CASE RefreshDelete
      <3>1. /\ cmd = "refresh" /\ pc = "delete" /\ UNCHANGED job /\ cmd' = "refresh"
            /\ pc' = (IF IsSet(job.left) THEN "insert" ELSE "row")
            /\ delete_duplicate_entry(job.row)
        BY <2>2 DEF RefreshDelete, At, Goto
      <3>2. UNCHANGED txn /\ dup' = [dup EXCEPT !.rows = Rows \ {job.row}]
        BY <1>4, <3>1 DEF delete_duplicate_entry, NowRows
      <3>3. Rows' = Rows \ {job.row}
        BY <1>4, <3>2 DEF ScanInv, Rows
      <3>4. Remaining(job.row) \subseteq ToSet(job.left) /\ Listed(job.left)
        BY <1>5, <3>1 DEF KeptTogether, OnlyDeleted, Together, TablesInv, Rewritten, Rewriting
      <3>5. ASSUME NEW p \in Paths, NEW q \in Paths, Twins(p, q) PROVE InARow(p, q)'
        <4>1. PICK r \in Rows : {p, q} \subseteq ToSet(r.paths)
          BY <1>5, <3>1, <3>5 DEF HasAll, InARow
        <4>2. CASE r = job.row
          <5>1. {p, q} \subseteq ToSet(job.left) /\ p # q
            BY <3>4, <3>5, <4>1, <4>2 DEF Twins, Same, Remaining, Existing
          <5>2. IsSet(job.left)
            <6>1. PICK i, j \in 1 .. Len(job.left) : job.left[i] = p /\ job.left[j] = q
              BY <3>4, <5>1 DEF ToSet, Listed
            <6>2. i # j /\ Len(job.left) \in Nat
              BY <3>4, <5>1, <6>1 DEF Listed
            <6> QED BY <6>1, <6>2 DEF IsSet
          <5> QED BY <3>1, <5>1, <5>2 DEF InARow
        <4>3. CASE r # job.row
          <5>1. r \in Rows'
            BY <3>3, <4>1, <4>3
          <5> QED BY <4>1, <5>1 DEF InARow
        <4> QED BY <4>2, <4>3
      <3> QED BY <1>3, <3>5 DEF HasAll
    <2>3. CASE RefreshInsert
      <3>1. /\ cmd = "refresh" /\ pc = "insert"
            /\ duplicate_to_db(NewCount(job.row, job.left), column_int(job.row.each_size),
                               job.left)
        BY <2>3 DEF RefreshInsert, At
      <3> DEFINE row == [id |-> NextId(Rows), count |-> NewCount(job.row, job.left),
                         each_size |-> column_int(job.row.each_size), paths |-> job.left]
      <3>2. row.paths = job.left
        OBVIOUS
      <3>3. UNCHANGED txn /\ dup' = [dup EXCEPT !.rows = Rows \cup {row}]
        BY <1>4, <3>1 DEF duplicate_to_db, NowRows
      <3> HIDE DEF row
      <3>4. Rows' = Rows \cup {row}
        BY <1>4, <3>3 DEF ScanInv, Rows
      <3>5. ASSUME NEW p \in Paths, NEW q \in Paths, Twins(p, q) PROVE InARow(p, q)'
        <4>1. \/ \E r \in Rows : {p, q} \subseteq ToSet(r.paths)
              \/ {p, q} \subseteq ToSet(row.paths)
          BY <1>5, <3>2, <3>5 DEF HasAll, InARow
        <4>2. \E r \in Rows' : {p, q} \subseteq ToSet(r.paths)
          BY <3>4, <4>1
        <4> QED BY <4>2 DEF InARow
      <3> QED BY <1>3, <3>5 DEF HasAll
    <2> QED BY <2>1, <2>2, <2>3
  <1> QED BY <1>1, <1>2, <1>5 DEF CompleteInv

\* A command that is killed leaves the rows of the file, all of them, unless
\* they are not to be trusted.
LEMMA CrashComplete ==
  ASSUME CompleteInv, TrustInv, ScanInv, Paths' = Paths, Crash
  PROVE  CompleteInv'
  <1>1. /\ txn' = [open |-> FALSE, rows |-> {}] /\ cmd' = "none"
        /\ UNCHANGED <<inode, data, dup>>
        /\ trust' = IF At("refresh", "insert") THEN "no" ELSE trust
    BY DEF Crash, Return, NoTxn, fsvars
  <1>2. ~Current' /\ ~Scanning' /\ ~At("scan", "create")'
    BY <1>1 DEF Current, Publishing, Scanning, At
  <1>3. ASSUME trust' # "no", HasAll PROVE HasAll'
    <2>1. trust # "no" /\ ~At("refresh", "insert")
      BY <1>1, <1>3
    <2>2. ~Publishing
      BY <2>1 DEF TrustInv, Publishing
    <2>3. Rows' = Rows
      <3>1. txn'.open = FALSE
        BY <1>1
      <3> QED BY <1>1, <2>2, <3>1, RowsOfFile DEF Rows
    <2> QED BY <1>1, <1>3, <2>1, <2>3, TwinsStay, AllStayInRows
  <1> QED BY <1>1, <1>2, <1>3 DEF CompleteInv

\* Other programs make no twins if they only delete.
LEMMA FileChangeComplete ==
  ASSUME CompleteInv, TrustInv, CacheInv, Paths' = Paths, FileChange
  PROVE  CompleteInv'
  <1>1. UNCHANGED <<cmd, pc, job, dup, txn, scanned>> /\ Rows' = Rows
    BY DEF FileChange, cmdvars, Rows
  <1>2. changes \in Nat /\ changes' = changes + 1
    BY FileChangeTouches DEF CacheInv, Touch, FsInv
  <1>3. trust' # "no" => trust # "no"
    BY DEF FileChange, Trusted
  <1>4. ~Current'
    BY <1>1, <1>2 DEF TrustInv, Current, Publishing
  <1>5. ASSUME trust' # "no", HasAll PROVE HasAll'
    <2>1. PICK path \in Paths : Delete(path)
      BY <1>5 DEF FileChange, Trusted
    <2>2. \A p \in Paths : file_exists(p)' => file_exists(p) /\ Data(p)' = Data(p)
      BY <2>1 DEF Delete, file_exists, Paths, Data
    <2>3. \A p, q \in Paths : Twins(p, q)' => Twins(p, q)
      BY <2>2 DEF Twins, Same
    <2>4. \A p, q \in Paths : InARow(p, q) => InARow(p, q)'
      BY <1>1 DEF InARow
    <2> QED BY <1>5, <2>3, <2>4, AllStay
  <1> QED BY <1>1, <1>3, <1>4, <1>5 DEF CompleteInv, Scanning, At

\* Every step keeps the rows complete.
LEMMA CompleteStep ==
  ASSUME CacheInv, ScanInv, TablesInv, KeptTogether, TrustInv, CompleteInv, [Next]_vars
  PROVE  CompleteInv'
  <1>1. Paths' = Paths /\ FsInv
    BY PathsStay DEF CacheInv
  <1>2. CASE \/ CacheNext /\ UNCHANGED dbvars
             \/ ReportNext
             \/ Operation /\ ~\E h : RefreshStart(h)
    BY <1>1, <1>2, OthersComplete
  <1>3. CASE \E h : RefreshStart(h)
    BY <1>1, <1>3, RefreshComplete
  <1>4. CASE DbNext
    BY <1>1, <1>4, ScanComplete, CommitComplete, RefreshComplete DEF DbNext, Looks
  <1>5. CASE Crash
    BY <1>1, <1>5, CrashComplete
  <1>6. CASE FileChange
    BY <1>1, <1>6, FileChangeComplete
  <1>7. CASE UNCHANGED vars
    <2>1. UNCHANGED <<inode, data, changes, cmd, pc, job, dup, txn, scanned, trust>>
      BY <1>7 DEF vars, fsvars, cmdvars, dbvars
    <2> QED BY <1>1, <2>1, TwinsStay
            DEF CompleteInv, Scanning, At, Current, Publishing, FoundAll, HasAll, InARow, Rows
  <1> QED BY <1>2, <1>3, <1>4, <1>5, <1>6, <1>7 DEF Next

-----------------------------------------------------------------------------
(* get_known_duplicates() looks for the path as a part of the text of a row. *)
PartAt(s, t, i) ==
  /\ i \in Nat /\ i + Len(s) <= Len(t)
  /\ \A k \in 1 .. Len(s) : t[i + k] = s[k]

\* A part that is somewhere is what HasPart() looks for.
LEMMA PartFound ==
  ASSUME NEW T, NEW s \in Seq(T), NEW t \in Seq(T), NEW i, PartAt(s, t, i)
  PROVE  HasPart(s, t)
  <1>1. i \in Nat /\ Len(s) \in Nat /\ Len(t) \in Nat /\ i + Len(s) <= Len(t)
    BY DEF PartAt
  <1>2. PICK m, n : m = i + 1 /\ n = i + Len(s) /\ m \in Int /\ n \in Int
    BY <1>1
  <1>3. \A k \in m .. n : t[k] \in T
    <2>1. \A k \in m .. n : k \in 1 .. Len(t)
      BY <1>1, <1>2
    <2> QED BY <2>1
  <1>4. PICK u : u = SubSeq(t, m, n)
    OBVIOUS
  <1>5. /\ u \in Seq(T) /\ Len(u) = (IF m <= n THEN n - m + 1 ELSE 0)
        /\ \A k \in 1 .. n - m + 1 : u[k] = t[m + k - 1]
    BY <1>2, <1>3, <1>4, SubSeqProperties
  <1>6. Len(u) = Len(s)
    BY <1>1, <1>2, <1>5
  <1>7. \A k \in 1 .. Len(u) : u[k] = s[k]
    <2> SUFFICES ASSUME NEW k \in 1 .. Len(u) PROVE u[k] = s[k]
      OBVIOUS
    <2>1. k \in 1 .. n - m + 1 /\ m + k - 1 = i + k /\ k \in 1 .. Len(s)
      BY <1>1, <1>2, <1>6
    <2>2. t[i + k] = s[k]
      BY <2>1 DEF PartAt
    <2>3. u[k] = t[m + k - 1]
      BY <1>5, <2>1
    <2> QED BY <2>1, <2>2, <2>3
  <1>8. u = s
    BY <1>5, <1>6, <1>7, SeqEqual
  <1>9. i \in 0 .. Len(t) - Len(s)
    BY <1>1
  <1> QED BY <1>2, <1>4, <1>8, <1>9 DEF HasPart

\* A part stays one when more text follows,
LEMMA PartBefore ==
  ASSUME NEW T, NEW s \in Seq(T), NEW t \in Seq(T), NEW u \in Seq(T), NEW i, PartAt(s, t, i)
  PROVE  PartAt(s, t \o u, i)
  <1>1. PICK v : v = t \o u
    OBVIOUS
  <1>2. /\ Len(v) = Len(t) + Len(u) /\ Len(t) \in Nat /\ Len(u) \in Nat /\ Len(s) \in Nat
        /\ \A k \in 1 .. Len(t) + Len(u) : v[k] = IF k <= Len(t) THEN t[k] ELSE u[k - Len(t)]
    BY <1>1, ConcatProperties, LenProperties
  <1>3. i \in Nat /\ i + Len(s) <= Len(t) /\ \A k \in 1 .. Len(s) : t[i + k] = s[k]
    BY DEF PartAt
  <1>4. \A k \in 1 .. Len(s) : v[i + k] = s[k]
    <2> SUFFICES ASSUME NEW k \in 1 .. Len(s) PROVE v[i + k] = s[k]
      OBVIOUS
    <2>1. i + k \in 1 .. Len(t) + Len(u) /\ i + k <= Len(t)
      BY <1>2, <1>3
    <2> QED BY <1>2, <1>3, <2>1
  <1>5. i + Len(s) <= Len(v)
    BY <1>2, <1>3
  <1> QED BY <1>1, <1>3, <1>4, <1>5 DEF PartAt

\* and the text that follows is a part.
LEMMA PartAfter ==
  ASSUME NEW T, NEW t \in Seq(T), NEW u \in Seq(T)
  PROVE  PartAt(u, t \o u, Len(t))
  <1>1. PICK v : v = t \o u
    OBVIOUS
  <1>2. /\ Len(v) = Len(t) + Len(u) /\ Len(t) \in Nat /\ Len(u) \in Nat
        /\ \A k \in 1 .. Len(t) + Len(u) : v[k] = IF k <= Len(t) THEN t[k] ELSE u[k - Len(t)]
    BY <1>1, ConcatProperties, LenProperties
  <1>3. PICK n \in Nat : n = Len(t)
    BY <1>2
  <1>4. \A k \in 1 .. Len(u) : v[n + k] = u[k]
    <2> SUFFICES ASSUME NEW k \in 1 .. Len(u) PROVE v[n + k] = u[k]
      OBVIOUS
    <2>1. n + k \in 1 .. Len(t) + Len(u) /\ ~(n + k <= Len(t)) /\ (n + k) - Len(t) = k
      BY <1>2, <1>3
    <2>2. v[n + k] = u[(n + k) - Len(t)]
      BY <1>2, <2>1
    <2> QED BY <2>1, <2>2
  <1> QED BY <1>1, <1>2, <1>3, <1>4 DEF PartAt

(* Text() puts the paths of a row one after the other: f[i] is the text of the
   first i. *)
Texts(paths, f, n) ==
  f = [i \in 1 .. n |-> IF i = 1 THEN paths[1] ELSE f[i - 1] \o Separator \o paths[i]]

\* There is such a function for every length,
LEMMA TextsExist ==
  ASSUME NEW paths, NEW N \in Nat
  PROVE  \E f : Texts(paths, f, N)
  <1> DEFINE S == {n \in Nat : ~\E f : Texts(paths, f, n)}
  <1> SUFFICES ASSUME S # {} PROVE FALSE
    OBVIOUS
  <1>1. PICK m \in S : \A k \in S : m <= k
    BY LeastOne
  <1>2. m # 0
    <2> DEFINE g == [i \in 1 .. 0 |-> << >>]
    <2>1. Texts(paths, g, 0)
      BY DEF Texts
    <2> QED BY <1>1, <2>1
  <1>3. m \in Nat /\ m - 1 \in Nat /\ m - 1 \notin S
    BY <1>1, <1>2
  <1>4. PICK f : Texts(paths, f, m - 1)
    BY <1>3
  <1> DEFINE last == IF m = 1 THEN paths[1] ELSE f[m - 1] \o Separator \o paths[m]
             g    == [i \in 1 .. m |-> IF i < m THEN f[i] ELSE last]
  <1>5. \A i \in 1 .. m - 1 : g[i] = f[i]
    BY <1>3
  <1>6. g[m] = last
    BY <1>2, <1>3
  <1>7. g = [i \in 1 .. m |-> g[i]]
    OBVIOUS
  <1>8. \A i \in 1 .. m - 1 :
          f[i] = IF i = 1 THEN paths[1] ELSE f[i - 1] \o Separator \o paths[i]
    BY <1>4 DEF Texts
  <1> HIDE DEF g
  <1>9. \A i \in 1 .. m :
          g[i] = IF i = 1 THEN paths[1] ELSE g[i - 1] \o Separator \o paths[i]
    <2> SUFFICES ASSUME NEW i \in 1 .. m
                 PROVE  g[i] = IF i = 1 THEN paths[1] ELSE g[i - 1] \o Separator \o paths[i]
      OBVIOUS
    <2>1. i # 1 => i - 1 \in 1 .. m - 1 /\ g[i - 1] = f[i - 1]
      BY <1>3, <1>5
    <2>2. CASE i = m
      BY <1>6, <2>1, <2>2
    <2>3. CASE i # m
      <3>1. i \in 1 .. m - 1
        BY <1>3, <2>3
      <3> QED BY <1>5, <1>8, <2>1, <3>1
    <2> QED BY <2>2, <2>3
  <1>10. Texts(paths, g, m)
    BY <1>7, <1>9 DEF Texts
  <1> QED BY <1>1, <1>10

\* and Text() gives its last value.
LEMMA TextIs ==
  ASSUME NEW row, Len(row.paths) \in Nat
  PROVE  \E f : Texts(row.paths, f, Len(row.paths)) /\ Text(row) = f[Len(row.paths)]
  <1>1. PICK f : Texts(row.paths, f, Len(row.paths))
    BY TextsExist
  <1> DEFINE g == CHOOSE h : Texts(row.paths, h, Len(row.paths))
  <1>2. Texts(row.paths, g, Len(row.paths))
    BY <1>1
  <1>3. Text(row) = g[Len(row.paths)]
    BY Zenon DEF Text, Texts
  <1> QED BY <1>2, <1>3

\* Every path of a row is a part of its text.
LEMMA PathInText ==
  ASSUME NEW row, row.paths \in Seq(Seq(STRING)), NEW path \in ToSet(row.paths)
  PROVE  HasPart(path, Text(row))
  <1> DEFINE T == Seq(STRING \cup {"FS"})
  <1>1. PICK paths, N : paths = row.paths /\ N = Len(paths)
    OBVIOUS
  <1>2. N \in Nat /\ \A i \in 1 .. N : paths[i] \in T
    <2>1. N \in Nat /\ \A i \in 1 .. N : paths[i] \in Seq(STRING)
      BY <1>1
    <2>2. \A q \in Seq(STRING) : q \in T
      BY SeqMonotonic
    <2> QED BY <2>1, <2>2
  <1>3. PICK f : Texts(paths, f, N) /\ Text(row) = f[N]
    BY <1>1, <1>2, TextIs
  <1>4. PICK j \in 1 .. N : paths[j] = path
    BY <1>1 DEF ToSet
  <1>5. Separator \in T
    BY DEF Separator
  <1>6. \A i \in 1 .. N : f[i] = IF i = 1 THEN paths[1] ELSE f[i - 1] \o Separator \o paths[i]
    BY <1>3 DEF Texts
  <1> HIDE DEF T
  <1> DEFINE Good(i) == f[i] \in T /\ (j <= i => \E k : PartAt(path, f[i], k))
             S == {i \in 1 .. N : ~Good(i)}
  <1>7. ASSUME S # {} PROVE FALSE
    <2>1. S \subseteq Nat
      BY <1>2
    <2>2. PICK m \in S : \A k \in S : m <= k
      BY <1>7, <2>1, LeastOne
    <2>3. m \in 1 .. N /\ ~Good(m)
      BY <2>2
    <2>4. PICK q : q = paths[m] /\ q \in T
      BY <1>2, <2>3
    <2>5. CASE m = 1
      <3>1. f[m] = q
        BY <1>6, <2>3, <2>4, <2>5
      <3>2. j <= m => q = path
        BY <1>4, <2>4, <2>5
      <3>3. PartAt(q, q, 0)
        BY <2>4 DEF PartAt, T
      <3> QED BY <2>3, <2>4, <3>1, <3>2, <3>3
    <2>6. CASE m # 1
      <3>1. m - 1 \in 1 .. N /\ m - 1 \notin S
        BY <1>2, <2>2, <2>3, <2>6
      <3>2. PICK t : t = f[m - 1]
        OBVIOUS
      <3>3. t \in T /\ (j <= m - 1 => \E k : PartAt(path, t, k))
        BY <3>1, <3>2
      <3>4. PICK u : u = t \o Separator
        OBVIOUS
      <3>5. f[m] = u \o q
        BY <1>6, <2>3, <2>4, <2>6, <3>2, <3>4
      <3>6. u \in T /\ u \o q \in T
        BY <1>5, <2>4, <3>3, <3>4 DEF T
      <3>7. path \in T
        BY <1>2, <1>4
      <3>8. ASSUME j <= m PROVE \E k : PartAt(path, u \o q, k)
        <4>1. CASE j = m
          <5>1. PartAt(q, u \o q, Len(u))
            BY <2>4, <3>6, PartAfter DEF T
          <5> QED BY <1>4, <2>4, <4>1, <5>1
        <4>2. CASE j # m
          <5>1. j <= m - 1
            BY <1>4, <2>3, <3>8, <4>2
          <5>2. PICK k : PartAt(path, t, k)
            BY <3>3, <5>1
          <5>3. PartAt(path, u, k)
            BY <1>5, <3>3, <3>4, <3>7, <5>2, PartBefore DEF T
          <5>4. PartAt(path, u \o q, k)
            BY <2>4, <3>6, <3>7, <5>3, PartBefore DEF T
          <5> QED BY <5>4
        <4> QED BY <4>1, <4>2
      <3> QED BY <2>3, <3>5, <3>6, <3>8
    <2> QED BY <2>5, <2>6
  <1>8. N \in 1 .. N /\ j <= N
    BY <1>2, <1>4
  <1>9. Good(N)
    BY <1>7, <1>8
  <1>10. PICK k : PartAt(path, f[N], k)
    BY <1>8, <1>9
  <1> QED BY <1>2, <1>3, <1>4, <1>9, <1>10, PartFound DEF T

\* The duplicates known of a path are the others of the row that has it.
LEMMA KnownDuplicates ==
  ASSUME TablesInv, TrustInv, ScanInv, ~Publishing, Paths \subseteq Seq(STRING),
         NEW path \in Paths
  PROVE  /\ get_known_duplicates(path) \in Seq(Paths)
         /\ \A r \in dup.rows :
              path \in ToSet(r.paths) =>
                ToSet(get_known_duplicates(path)) = ToSet(r.paths) \ {path}
  <1> DEFINE own == {r \in dup.rows : HasPart(path, Text(r)) /\ path \in ToSet(r.paths)}
             first == CHOOSE r \in own : \A o \in own : r.id <= o.id
  <1>1. own = {r \in dup.rows : HasPart(path, Text(r)) /\ path \in ToSet(r.paths)}
    OBVIOUS
  <1>2. first = (CHOOSE r \in own : \A o \in own : r.id <= o.id)
    OBVIOUS
  <1>3. get_known_duplicates(path) =
          IF own = {} THEN << >> ELSE Only(first.paths, ToSet(first.paths) \ {path})
    BY Zenon DEF get_known_duplicates
  <1> HIDE DEF own, first
  <1>4. Rows = dup.rows
    BY RowsOfFile
  <1>5. ASSUME NEW r \in dup.rows, path \in ToSet(r.paths) PROVE own = {r}
    <2>1. r.paths \in Seq(Seq(STRING))
      <3>1. r.paths \in Seq(Paths)
        BY <1>4 DEF TablesInv, Tables, RowOK, Listed
      <3> QED BY <3>1, SeqMonotonic
    <2>2. r \in own
      BY <1>1, <1>5, <2>1, PathInText
    <2>3. ASSUME NEW o \in own PROVE o = r
      BY <1>1, <1>4, <1>5 DEF TablesInv, Tables, Apart, Disjoint
    <2> QED BY <2>2, <2>3
  <1>6. ASSUME NEW r \in dup.rows, path \in ToSet(r.paths)
        PROVE  /\ get_known_duplicates(path) \in Seq(Paths)
               /\ ToSet(get_known_duplicates(path)) = ToSet(r.paths) \ {path}
    <2>1. r.id <= r.id
      BY <1>4 DEF TrustInv, Ids
    <2>2. first = r
      BY <1>2, <1>5, <1>6, <2>1
    <2>3. PICK set : set = ToSet(r.paths) \ {path}
      OBVIOUS
    <2>4. get_known_duplicates(path) = Only(r.paths, set)
      BY <1>3, <1>5, <1>6, <2>2, <2>3
    <2>5. r.paths \in Seq(Paths) /\ IsInjective(r.paths)
      BY <1>4 DEF TablesInv, Tables, RowOK, Listed
    <2>6. Only(r.paths, set) \in Seq(Paths) /\ ToSet(Only(r.paths, set)) = ToSet(r.paths) \cap set
      <3>1. PICK T : T = Paths
        OBVIOUS
      <3> QED BY <2>5, <3>1, OnlyPaths
    <2> QED BY <2>3, <2>4, <2>6
  <1>7. get_known_duplicates(path) \in Seq(Paths)
    <2>1. CASE own = {}
      BY <1>3, <2>1
    <2>2. CASE own # {}
      <3>1. PICK r \in dup.rows : path \in ToSet(r.paths)
        BY <1>1, <2>2
      <3> QED BY <1>6, <3>1
    <2> QED BY <2>1, <2>2
  <1> QED BY <1>6, <1>7

-----------------------------------------------------------------------------
(* The steps of reverify_duplicates(). *)
CallerStays ==
  /\ Caller \subseteq DOMAIN job' /\ job'.todo = job.todo /\ job'.since = job.since
  /\ job'.errors = job.errors /\ job'.hardlink_is_unique = job.hardlink_is_unique

OwnStays ==
  /\ Own \subseteq DOMAIN job' /\ job'.path = job.path /\ job'.dups = job.dups
  /\ job'.status \in Seq(Statuses) /\ Len(job'.status) <= Len(job.dups)

(* No file changes, but a read may fail. *)
Passes == changes' = changes /\ failures' \in {failures, failures + 1}

(* A step from one to another of them, while files and rows stay. *)
Step ==
  /\ Verifying /\ pc \in Steps /\ cmd' = cmd /\ pc' \in Steps
  /\ UNCHANGED <<inode, data, dup>> /\ Passes
  /\ CallerStays /\ OwnStays

\* What is now was not before a read failed.
LEMMA PassesOn ==
  ASSUME FsInv, Passes
  PROVE  \A t : Past(t) => Past(t)' /\ (t = Now' => Now' = Now)
  <1>1. CASE failures' = failures
    BY <1>1 DEF Passes, Past, Now
  <1>2. CASE failures' = failures + 1
    BY <1>2, MomentPasses DEF Passes
  <1> QED BY <1>1, <1>2 DEF Passes

\* What is claimed of files is as true as before when they did not change.
LEMMA ClaimsStay ==
  ASSUME UNCHANGED <<inode, data>>
  PROVE  /\ \A p, q : Same(p, q)' <=> Same(p, q)
         /\ \A s, p, q : Verdict(s, p, q)' <=> Verdict(s, p, q)
         /\ \A paths : SetHolds(paths)' <=> SetHolds(paths)
         /\ \A p : file_exists(p)' <=> file_exists(p)
         /\ \A p : Data(p)' = Data(p) /\ Number(p)' = Number(p)
         /\ \A paths : NumbersTell(paths)' <=> NumbersTell(paths)
  <1>1. /\ \A p : file_exists(p)' <=> file_exists(p)
        /\ \A p : Data(p)' = Data(p) /\ Number(p)' = Number(p)
    BY DEF file_exists, Data, Number
  <1>2. \A p, q : Same(p, q)' <=> Same(p, q)
    BY <1>1 DEF Same
  <1>3. \A s, p, q : Verdict(s, p, q)' <=> Verdict(s, p, q)
    BY <1>1, <1>2 DEF Verdict
  <1>4. \A paths : SetHolds(paths)' <=> SetHolds(paths)
    BY <1>2 DEF SetHolds
  <1>5. \A paths : NumbersTell(paths)' <=> NumbersTell(paths)
    BY <1>1 DEF NumbersTell, Existing
  <1> QED BY <1>1, <1>2, <1>3, <1>4, <1>5

\* Rows hold as before.
LEMMA HoldsStays ==
  ASSUME UNCHANGED <<inode, data>>
  PROVE  \A row : Holds(row)' <=> Holds(row)
  BY ClaimsStay DEF Holds

\* A step keeps what is known of the caller, and of the path and its duplicates.
LEMMA StepKeeps ==
  ASSUME VerifyInv, FsInv, Paths' = Paths, Step, StepOK',
         Now' = Now /\ job.since = Now => Learnt'
  PROVE  VerifyInv'
  <1>1. Verifying /\ Verifying' /\ CallerOK /\ OwnOK
    BY DEF VerifyInv, Step, Verifying
  <1>2. CallerOK'
    BY <1>1, PassesOn DEF Step, CallerStays, CallerOK
  <1>3. OwnOK'
    <2>1. \A path : get_known_duplicates(path)' = get_known_duplicates(path)
      BY DEF Step, get_known_duplicates
    <2> QED BY <1>1, <2>1 DEF Step, OwnStays, OwnOK
  <1>4. ASSUME job'.since = Now'
        PROVE  Learnt' /\ (cmd' = "validate" => Validated')
    <2>1. Now' = Now /\ job.since = Now
      BY <1>1, <1>4, PassesOn DEF Step, CallerStays, CallerOK
    <2>2. ASSUME cmd = "validate" PROVE Validated'
      <3>1. Validated
        BY <1>1, <2>1, <2>2 DEF VerifyInv
      <3>2. /\ job'.todo = job.todo /\ job'.errors = job.errors /\ dup'.rows = dup.rows
            /\ job'.path = job.path /\ job'.dups = job.dups /\ pc # "next" /\ pc' # "next"
        BY DEF Step, CallerStays, OwnStays, Steps
      <3>3. \A row : Holds(row)' <=> Holds(row)
        BY HoldsStays DEF Step
      <3>4. \A row : SeenHolds(row)' <=> SeenHolds(row)
        BY <3>2, <3>3 DEF SeenHolds
      <3>5. \A row : OwnRow(row)' <=> OwnRow(row)
        BY <3>2 DEF OwnRow
      <3> QED BY <3>1, <3>2, <3>4, <3>5 DEF Validated
    <2> QED BY <2>1, <2>2 DEF Step
  <1> QED BY <1>1, <1>2, <1>3, <1>4 DEF VerifyInv, Step

\* The command has returned, or does not verify anything.
LEMMA NotVerifying ==
  ASSUME VerifyInv, Paths' = Paths, ~Verifying'
  PROVE  VerifyInv'
  BY DEF VerifyInv

\* A command that has returned verifies nothing.
LEMMA ReturnEnds == Return => ~Verifying'
  BY DEF Return, Verifying, Shown

\* A step that changes no local variable.
LEMMA StepWithout ==
  ASSUME VerifyInv, Verifying, pc \in Steps, cmd' = cmd, pc' \in Steps, job' = job,
         UNCHANGED <<inode, data, dup>>, Passes
  PROVE  Step /\ OwnOK /\ StepOK
  BY DEF VerifyInv, Step, CallerStays, OwnStays, CallerOK, OwnOK

\* The file of the path is opened.
LEMMA OpenSelfKeeps ==
  ASSUME VerifyInv, FsInv, Paths' = Paths, OpenSelf
  PROVE  VerifyInv'
  <1>1. CASE Return
    BY <1>1, ReturnEnds, NotVerifying
  <1>2. CASE ~Return
    <2>1. /\ Verifying /\ pc = "self" /\ cmd' = cmd /\ pc' = "read_self" /\ job' = job
          /\ file_exists(job.path) /\ fd' = [inode |-> inode[job.path], digest |-> << >>]
          /\ UNCHANGED <<inode, data, changes, failures, dup>>
      BY <1>2 DEF OpenSelf, Goto, Open, hash_fn_buf_init, fsvars, dbvars
    <2>2. Step /\ OwnOK /\ StepOK
      BY <2>1, StepWithout DEF Steps, Passes
    <2>3. job.path \in Paths /\ job.status = << >>
      BY <2>1, <2>2 DEF OwnOK, StepOK
    <2>4. fd'.inode = inode[job.path] /\ fd'.digest = << >>
      BY <2>1
    <2>5. StepOK'
      BY <2>1, <2>3 DEF StepOK
    <2>6. ReadSoFar(fd'.digest, Data(job.path))
      <3>1. Data(job.path) \in Seq(Nat)
        BY <2>1, <2>3, DataTyped
      <3> QED BY <2>4, <3>1 DEF ReadSoFar
    <2>7. Reads(job.path)'
      BY <2>1, <2>4, <2>6 DEF Reads, file_exists, Data, ReadSoFar
    <2>8. Learnt'
      BY <2>1, <2>7 DEF Learnt, Reads
    <2> QED BY <2>2, <2>5, <2>8, StepKeeps
  <1> QED BY <1>1, <1>2

\* What is read next of an open file follows what has been read.
LEMMA ReadsOn ==
  ASSUME FsInv, NEW path \in Paths, Reads(path), ReadPart,
         fd = [inode |-> fd.inode, digest |-> fd.digest]
  PROVE  Reads(path)'
  <1>1. /\ UNCHANGED <<inode, data>> /\ NextPart # << >>
        /\ fd' = [fd EXCEPT !.digest = fd.digest \o NextPart]
    BY DEF ReadPart, hash_fn_buf_update, fsvars
  <1>2. fd'.inode = fd.inode /\ fd'.digest = fd.digest \o NextPart
    BY <1>1
  <1>3. file_exists(path) /\ fd.inode = inode[path] /\ ReadSoFar(fd.digest, Data(path))
    BY DEF Reads
  <1>4. Data(path) \in Seq(Nat) /\ data[fd.inode] = Data(path)
    BY <1>3, DataTyped DEF Data
  <1> DEFINE n == Len(fd.digest) + 1
  <1>5. n \in 1 .. Len(Data(path)) /\ NextPart = <<Data(path)[n]>>
    BY <1>1, <1>3, <1>4 DEF NextPart, ReadSoFar
  <1>6. ReadSoFar(fd.digest \o NextPart, Data(path))
    BY <1>3, <1>4, <1>5 DEF ReadSoFar
  <1>7. ReadSoFar(fd'.digest, Data(path))
    BY <1>2, <1>6
  <1>8. Data(path)' = Data(path) /\ file_exists(path)'
    BY <1>1, <1>3, ClaimsStay
  <1>9. ReadSoFar(fd.digest, Data(path))'
    BY <1>7, <1>8 DEF ReadSoFar
  <1> QED BY <1>1, <1>2, <1>3, <1>8, <1>9 DEF Reads

\* At the end of a file all of it was read.
LEMMA ReadsAll ==
  ASSUME FsInv, NEW path \in Paths, Reads(path), NextPart = << >>
  PROVE  fd.digest = Data(path)
  <1>1. file_exists(path) /\ fd.inode = inode[path] /\ ReadSoFar(fd.digest, Data(path))
    BY DEF Reads
  <1>2. Data(path) \in Seq(Nat) /\ data[fd.inode] = Data(path)
    BY <1>1, DataTyped DEF Data
  <1>3. Len(fd.digest) = Len(Data(path))
    BY <1>1, <1>2 DEF NextPart, ReadSoFar
  <1> QED BY <1>1, <1>2, <1>3, ReadAll

\* The next duplicate is a file.
LEMMA DupIsPath ==
  ASSUME OwnOK, More
  PROVE  Dup \in Paths /\ Len(job.status) + 1 \in 1 .. Len(job.dups)
  BY DEF OwnOK, More, Dup

\* The path or a duplicate is read.
LEMMA ReadFileKeeps ==
  ASSUME VerifyInv, FsInv, Paths' = Paths, ReadFile
  PROVE  VerifyInv'
  <1>1. /\ Verifying /\ pc \in {"read_self", "read"} /\ ReadPart
        /\ UNCHANGED <<inode, data, changes, failures, cmd, pc, job, dup>>
    BY DEF ReadFile, ReadPart, fsvars, dbvars
  <1>2. Step /\ OwnOK /\ StepOK /\ Dup' = Dup
    BY <1>1, StepWithout DEF Steps, Passes, Dup
  <1>3. fd = [inode |-> fd.inode, digest |-> fd.digest]
    BY <1>1, <1>2 DEF StepOK
  <1>4. fd' = [inode |-> fd.inode, digest |-> fd.digest \o NextPart]
    BY <1>1, <1>3 DEF ReadPart, hash_fn_buf_update
  <1>5. StepOK'
    BY <1>1, <1>2, <1>4 DEF StepOK, More
  <1>6. ASSUME job.since = Now PROVE Learnt'
    <2>1. Learnt
      BY <1>1, <1>2, <1>6 DEF VerifyInv, Step
    <2>2. ASSUME pc = "read_self" PROVE Learnt'
      <3>1. Reads(job.path) /\ file_exists(job.path)
        BY <2>1, <2>2 DEF Learnt
      <3>2. job.path \in Paths
        BY <1>2 DEF OwnOK
      <3>3. PICK path : path = job.path
        OBVIOUS
      <3>4. Reads(path)'
        BY <1>1, <1>3, <3>1, <3>2, <3>3, ReadsOn
      <3>5. Reads(job.path)'
        BY <1>1, <3>3, <3>4 DEF Reads, file_exists, Data
      <3> QED BY <1>1, <2>2, <3>1, <3>5, ClaimsStay DEF Learnt
    <2>3. ASSUME pc = "read" PROVE Learnt'
      <3>1. /\ file_exists(job.path) /\ job.hash = Data(job.path)
            /\ job.inode = Number(job.path) /\ Verdicts(job.status, job.path, job.dups)
            /\ file_exists(Dup) /\ Number(Dup) # job.inode /\ Reads(Dup)
        BY <2>1, <2>3 DEF Learnt
      <3>2. Dup \in Paths
        BY <1>2, <2>3, DupIsPath DEF StepOK
      <3>3. PICK path : path = Dup
        OBVIOUS
      <3>4. Reads(path)'
        BY <1>1, <1>3, <3>1, <3>2, <3>3, ReadsOn
      <3>5. Reads(Dup)'
        BY <1>1, <1>2, <3>3, <3>4 DEF Reads, file_exists, Data
      <3>6. Verdicts(job.status, job.path, job.dups)'
        BY <1>1, <3>1, ClaimsStay DEF Verdicts
      <3>7. /\ file_exists(job.path)' /\ (job.hash = Data(job.path))'
            /\ (job.inode = Number(job.path))' /\ file_exists(Dup)' /\ (Number(Dup) # job.inode)'
        BY <1>1, <1>2, <3>1, ClaimsStay
      <3> QED BY <1>1, <2>3, <3>5, <3>6, <3>7 DEF Learnt
    <2> QED BY <1>1, <2>2, <2>3
  <1> QED BY <1>2, <1>5, <1>6, StepKeeps

\* What is taken for the end of a file is, unless a read failed.
LEMMA EndReached ==
  ASSUME FsInv, EndOfFile
  PROVE  UNCHANGED <<inode, data>> /\ Passes /\ (Now' = Now => NextPart = << >>)
  <1>1. CASE NextPart = << >> /\ UNCHANGED fsvars
    BY <1>1 DEF fsvars, Passes
  <1>2. CASE failures' = failures + 1 /\ UNCHANGED <<inode, data, changes>>
    <2>1. Now' # Now
      BY <1>2 DEF Now, FsInv
    <2> QED BY <1>2, <2>1 DEF Passes
  <1> QED BY <1>1, <1>2 DEF EndOfFile

\* The end of the file of the path.
LEMMA SelfEndKeeps ==
  ASSUME VerifyInv, FsInv, Paths' = Paths, SelfEnd
  PROVE  VerifyInv'
  <1>1. /\ Verifying /\ pc = "read_self" /\ cmd' = cmd /\ pc' = "stat_self"
        /\ job' = [job EXCEPT !.hash = fd.digest] /\ Passes
        /\ UNCHANGED <<inode, data, dup>> /\ (Now' = Now => NextPart = << >>)
    BY EndReached DEF SelfEnd, Goto, dbvars
  <1>2. CallerOK /\ OwnOK /\ StepOK
    BY <1>1 DEF VerifyInv, Steps
  <1>3. /\ job'.hash = fd.digest /\ job'.status = job.status /\ CallerStays /\ OwnStays
        /\ job.status = << >>
    <2>1. DOMAIN job' = DOMAIN job
      BY <1>1
    <2>2. /\ job'.hash = fd.digest /\ job'.status = job.status
          /\ job'.path = job.path /\ job'.dups = job.dups /\ job'.todo = job.todo
          /\ job'.since = job.since /\ job'.errors = job.errors
          /\ job'.hardlink_is_unique = job.hardlink_is_unique
      BY <1>1, <1>2 DEF CallerOK, OwnOK, Caller, Own
    <2> QED BY <1>1, <1>2, <2>1, <2>2 DEF CallerStays, OwnStays, CallerOK, OwnOK, StepOK
  <1>4. Step
    BY <1>1, <1>3 DEF Step, Steps
  <1>5. StepOK'
    BY <1>1, <1>3 DEF StepOK
  <1>6. ASSUME Now' = Now, job.since = Now PROVE Learnt'
    <2>1. Reads(job.path) /\ file_exists(job.path)
      BY <1>1, <1>6 DEF VerifyInv, Learnt, Steps
    <2>2. fd.digest = Data(job.path)
      BY <1>1, <1>2, <1>6, <2>1, ReadsAll DEF OwnOK
    <2>3. (job.hash = Data(job.path))' /\ file_exists(job.path)'
      BY <1>1, <1>3, <2>1, <2>2 DEF OwnStays, file_exists, Data
    <2> QED BY <1>1, <2>3 DEF Learnt
  <1> QED BY <1>4, <1>5, <1>6, StepKeeps

\* Its inode is learnt.
LEMMA StatSelfKeeps ==
  ASSUME VerifyInv, FsInv, Paths' = Paths, StatSelf
  PROVE  VerifyInv'
  <1>1. CASE Return
    BY <1>1, ReturnEnds, NotVerifying
  <1>2. CASE ~Return
    <2>1. /\ Verifying /\ pc = "stat_self" /\ cmd' = cmd /\ pc' = "dup"
          /\ job' = [job EXCEPT !.inode = Number(job.path)]
          /\ UNCHANGED <<inode, data, changes, failures, dup>>
      BY <1>2 DEF StatSelf, Goto, fsvars, dbvars
    <2>2. CallerOK /\ OwnOK /\ StepOK
      BY <2>1 DEF VerifyInv, Steps
    <2>3. /\ job'.inode = Number(job.path) /\ job'.hash = job.hash /\ job'.status = job.status
          /\ CallerStays /\ OwnStays /\ job.status = << >>
      <3>1. DOMAIN job' = DOMAIN job
        BY <2>1
      <3>2. /\ job'.inode = Number(job.path) /\ job'.hash = job.hash /\ job'.status = job.status
            /\ job'.path = job.path /\ job'.dups = job.dups /\ job'.todo = job.todo
            /\ job'.since = job.since /\ job'.errors = job.errors
            /\ job'.hardlink_is_unique = job.hardlink_is_unique
        BY <2>1, <2>2 DEF CallerOK, OwnOK, Caller, Own
      <3> QED BY <2>1, <2>2, <3>1, <3>2 DEF CallerStays, OwnStays, CallerOK, OwnOK, StepOK
    <2>4. Step
      BY <2>1, <2>3 DEF Step, Steps, Passes
    <2>5. StepOK'
      BY <2>1 DEF StepOK
    <2>6. ASSUME job.since = Now PROVE Learnt'
      <3>1. job.hash = Data(job.path) /\ file_exists(job.path)
        BY <2>1, <2>6 DEF VerifyInv, Learnt, Steps
      <3>2. (job.hash = Data(job.path))' /\ file_exists(job.path)'
            /\ (job.inode = Number(job.path))'
        BY <2>1, <2>3, <3>1, ClaimsStay DEF OwnStays
      <3>3. Verdicts(job.status, job.path, job.dups)'
        BY <2>3 DEF Verdicts
      <3> QED BY <2>1, <3>2, <3>3 DEF Learnt
    <2> QED BY <2>4, <2>5, <2>6, StepKeeps
  <1> QED BY <1>1, <1>2

\* A duplicate gets its status.
LEMMA StatusGiven ==
  ASSUME VerifyInv, FsInv, Paths' = Paths, Verifying, pc \in {"dup", "open", "read"}, More,
         NEW s \in Statuses, Status(s),
         UNCHANGED <<inode, data, dup>>, Passes,
         Now' = Now /\ job.since = Now => Verdict(s, job.path, Dup)
  PROVE  VerifyInv'
  <1>1. /\ cmd' = cmd /\ pc' = "dup" /\ job' = [job EXCEPT !.status = Append(job.status, s)]
    BY DEF Status, Goto
  <1>2. CallerOK /\ OwnOK /\ StepOK
    BY DEF VerifyInv, Steps
  <1>3. Append(job.status, s) \in Seq(Statuses) /\ Len(job.status) + 1 \in 1 .. Len(job.dups)
        /\ Len(Append(job.status, s)) = Len(job.status) + 1
    BY <1>2, DupIsPath DEF OwnOK
  <1>4. /\ job'.status = Append(job.status, s) /\ job'.hash = job.hash
        /\ job'.inode = job.inode /\ CallerStays /\ OwnStays
    <2>1. DOMAIN job' = DOMAIN job
      BY <1>1
    <2>2. /\ job'.status = Append(job.status, s) /\ job'.hash = job.hash
          /\ job'.inode = job.inode
          /\ job'.path = job.path /\ job'.dups = job.dups /\ job'.todo = job.todo
          /\ job'.since = job.since /\ job'.errors = job.errors
          /\ job'.hardlink_is_unique = job.hardlink_is_unique
      BY <1>1, <1>2 DEF CallerOK, OwnOK, Caller, Own
    <2>3. Len(job'.status) <= Len(job.dups)
      BY <1>2, <1>3, <2>2 DEF OwnOK
    <2> QED BY <1>2, <1>3, <2>1, <2>2, <2>3 DEF CallerStays, OwnStays, CallerOK, OwnOK
  <1>5. Step
    BY <1>1, <1>4 DEF Step, Steps
  <1>6. StepOK'
    BY <1>1 DEF StepOK
  <1>7. ASSUME Now' = Now, job.since = Now PROVE Learnt'
    <2>1. /\ job.hash = Data(job.path) /\ file_exists(job.path) /\ job.inode = Number(job.path)
          /\ Verdicts(job.status, job.path, job.dups)
      BY <1>7 DEF VerifyInv, Learnt, Steps
    <2>2. (job.hash = Data(job.path))' /\ file_exists(job.path)'
          /\ (job.inode = Number(job.path))'
      BY <1>4, <2>1, ClaimsStay DEF OwnStays
    <2>3. Verdicts(job.status, job.path, job.dups)'
      <3>1. PICK status, n : status = job.status /\ n = Len(status) /\ n \in Nat
        BY <1>2 DEF OwnOK
      <3>2. \A i \in 1 .. n + 1 : Append(status, s)[i] = IF i = n + 1 THEN s ELSE status[i]
        BY <1>2, <3>1 DEF OwnOK
      <3>3. ASSUME NEW i \in 1 .. n + 1
            PROVE  Verdict(Append(status, s)[i], job.path, job.dups[i])
        <4>1. CASE i = n + 1
          BY <1>7, <3>1, <3>2, <4>1 DEF Dup
        <4>2. CASE i # n + 1
          <5>1. i \in 1 .. n
            BY <3>1, <4>2
          <5> QED BY <2>1, <3>1, <3>2, <4>2, <5>1 DEF Verdicts
        <4> QED BY <4>1, <4>2
      <3>4. Len(job'.status) = n + 1 /\ job'.status = Append(status, s)
            /\ job'.path = job.path /\ job'.dups = job.dups
        BY <1>3, <1>4, <3>1 DEF OwnStays
      <3> QED BY <3>3, <3>4, ClaimsStay DEF Verdicts
    <2> QED BY <1>1, <2>2, <2>3 DEF Learnt
  <1> QED BY <1>5, <1>6, <1>7, StepKeeps

\* What is known of the path and the duplicates so far.
KnownSoFar ==
  /\ file_exists(job.path) /\ job.hash = Data(job.path) /\ job.inode = Number(job.path)
  /\ Verdicts(job.status, job.path, job.dups)

\* It is known while the duplicates are looked at, and stays so.
LEMMA KnownStays ==
  ASSUME Learnt, pc \in {"dup", "open", "read"}
  PROVE  KnownSoFar /\ (UNCHANGED <<inode, data, job>> => KnownSoFar')
  <1>1. KnownSoFar
    BY DEF Learnt, KnownSoFar
  <1>2. ASSUME UNCHANGED <<inode, data, job>> PROVE KnownSoFar'
    <2>1. Verdicts(job.status, job.path, job.dups)'
      BY <1>1, <1>2, ClaimsStay DEF KnownSoFar, Verdicts
    <2> QED BY <1>1, <1>2, <2>1 DEF KnownSoFar, file_exists, Data, Number
  <1> QED BY <1>1, <1>2

\* A duplicate is looked at: it is the same file, or gone, or is to be read.
LEMMA StatDupKeeps ==
  ASSUME VerifyInv, FsInv, Paths' = Paths, StatDup
  PROVE  VerifyInv'
  <1>1. /\ Verifying /\ pc = "dup" /\ More
        /\ UNCHANGED <<inode, data, changes, failures, dup>>
    BY DEF StatDup, fsvars, dbvars
  <1>2. job.since = Now => Learnt /\ KnownSoFar
    BY <1>1, KnownStays DEF VerifyInv, Steps
  <1>3. ASSUME NEW s \in Statuses, Status(s), job.since = Now => Verdict(s, job.path, Dup)
        PROVE  VerifyInv'
    BY <1>1, <1>3, StatusGiven DEF Passes
  <1>4. CASE Excluded(Dup) /\ Status("EXCLUDE")
    BY <1>3, <1>4 DEF Statuses, Verdict
  <1>5. CASE ~Excluded(Dup) /\ ~file_exists(Dup) /\ Status("NOTDUP")
    BY <1>3, <1>5 DEF Statuses, Verdict, Same
  <1>6. CASE /\ ~Excluded(Dup) /\ file_exists(Dup) /\ Number(Dup) = job.inode
             /\ Status("HARDLINK")
    <2>1. ASSUME job.since = Now PROVE Verdict("HARDLINK", job.path, Dup)
      BY <1>2, <1>6, <2>1 DEF KnownSoFar, Verdict
    <2> QED BY <1>3, <1>6, <2>1 DEF Statuses
  <1>7. CASE /\ file_exists(Dup) /\ Number(Dup) # job.inode
             /\ Goto("open") /\ UNCHANGED job
    <2>1. cmd' = cmd /\ pc' = "open" /\ job' = job /\ Dup' = Dup
      BY <1>7 DEF Goto, Dup
    <2>2. Step /\ OwnOK /\ StepOK
      BY <1>1, <2>1, StepWithout DEF Steps, Passes
    <2>3. StepOK'
      BY <1>1, <2>1 DEF StepOK, More
    <2>4. ASSUME job.since = Now PROVE Learnt'
      <3>1. KnownSoFar'
        BY <1>1, <1>2, <2>1, <2>4, KnownStays
      <3>2. file_exists(Dup)' /\ (Number(Dup) # job.inode)'
        BY <1>1, <1>7, <2>1, ClaimsStay
      <3> QED BY <2>1, <3>1, <3>2 DEF KnownSoFar, Learnt
    <2> QED BY <2>2, <2>3, <2>4, StepKeeps
  <1> QED BY <1>4, <1>5, <1>6, <1>7 DEF StatDup

\* It is opened,
LEMMA OpenDupKeeps ==
  ASSUME VerifyInv, FsInv, Paths' = Paths, OpenDup
  PROVE  VerifyInv'
  <1>1. /\ Verifying /\ pc = "open" /\ UNCHANGED <<inode, data, changes, failures, dup>>
    BY DEF OpenDup, fsvars, dbvars
  <1>2. OwnOK /\ StepOK /\ More
    BY <1>1 DEF VerifyInv, Steps, StepOK
  <1>3. CASE ~file_exists(Dup)
    <2>1. Status("NOTDUP") /\ Verdict("NOTDUP", job.path, Dup)
      BY <1>3 DEF OpenDup, Verdict, Same
    <2> QED BY <1>1, <1>2, <2>1, StatusGiven DEF Statuses, Passes
  <1>4. CASE file_exists(Dup)
    <2>1. /\ cmd' = cmd /\ pc' = "read" /\ job' = job /\ Dup' = Dup
          /\ fd' = [inode |-> inode[Dup], digest |-> << >>]
      BY <1>4 DEF OpenDup, Goto, Open, hash_fn_buf_init, Dup
    <2>2. Step
      BY <1>1, <2>1, StepWithout DEF Steps, Passes
    <2>3. fd'.inode = inode[Dup] /\ fd'.digest = << >>
      BY <2>1
    <2>4. StepOK'
      BY <1>2, <2>1 DEF StepOK, More
    <2>5. Dup \in Paths
      BY <1>2, DupIsPath
    <2>6. ReadSoFar(fd'.digest, Data(Dup))
      <3>1. Data(Dup) \in Seq(Nat)
        BY <1>4, <2>5, DataTyped
      <3> QED BY <2>3, <3>1 DEF ReadSoFar
    <2>7. /\ Data(Dup)' = Data(Dup) /\ inode'[Dup'] = inode[Dup] /\ file_exists(Dup)'
          /\ Number(Dup)' = Number(Dup)
      BY <1>1, <1>4, <2>1 DEF Data, file_exists, Number
    <2>8. ReadSoFar(fd.digest, Data(Dup))'
      BY <2>6, <2>7 DEF ReadSoFar
    <2>9. Reads(Dup)'
      BY <2>3, <2>7, <2>8 DEF Reads
    <2>10. ASSUME job.since = Now PROVE Learnt'
      <3>1. Learnt
        BY <1>1, <2>10 DEF VerifyInv, Steps
      <3>2. KnownSoFar'
        BY <1>1, <2>1, <3>1, KnownStays
      <3>3. Number(Dup) # job.inode
        BY <1>1, <3>1 DEF Learnt
      <3>4. (Number(Dup) # job.inode)'
        BY <2>1, <2>7, <3>3
      <3> QED BY <2>1, <2>7, <2>9, <3>2, <3>4 DEF KnownSoFar, Learnt
    <2> QED BY <2>2, <2>4, <2>10, StepKeeps
  <1> QED BY <1>3, <1>4

\* and what was read of it compared.
LEMMA DupEndKeeps ==
  ASSUME VerifyInv, FsInv, Paths' = Paths, DupEnd
  PROVE  VerifyInv'
  <1>1. /\ Verifying /\ pc = "read" /\ UNCHANGED <<inode, data, dup>>
        /\ Passes /\ (Now' = Now => NextPart = << >>)
        /\ Status(IF fd.digest = job.hash THEN "DUPLICATE" ELSE "NOTDUP")
    BY EndReached DEF DupEnd, dbvars
  <1>2. OwnOK /\ StepOK /\ More
    BY <1>1 DEF VerifyInv, Steps, StepOK
  <1>3. PICK s : s = (IF fd.digest = job.hash THEN "DUPLICATE" ELSE "NOTDUP")
    OBVIOUS
  <1>4. s \in Statuses /\ Status(s)
    BY <1>1, <1>3 DEF Statuses
  <1>5. ASSUME Now' = Now, job.since = Now PROVE Verdict(s, job.path, Dup)
    <2>1. Learnt
      BY <1>1, <1>5 DEF VerifyInv, Steps
    <2>2. KnownSoFar /\ file_exists(Dup) /\ Number(Dup) # job.inode /\ Reads(Dup)
      BY <1>1, <2>1, KnownStays DEF Learnt
    <2>3. Dup \in Paths
      BY <1>2, DupIsPath
    <2>4. fd.digest = Data(Dup)
      BY <1>1, <1>5, <2>2, <2>3, ReadsAll
    <2> QED BY <1>3, <2>2, <2>4 DEF KnownSoFar, Verdict, Same, Number
  <1> QED BY <1>1, <1>2, <1>4, <1>5, StatusGiven

\* reverify_duplicates() begins.
LEMMA ReverifyKeeps ==
  ASSUME VerifyInv, Paths' = Paths, Verifying, pc = "next",
         UNCHANGED <<inode, data, changes, failures, dup>>,
         NEW path \in Paths, NEW dups \in Seq(Paths), NEW todo, todo \subseteq job.todo,
         Reverify(path, dups, todo),
         cmd \in DOMAIN Shown => dups = get_known_duplicates(path),
         cmd = "validate" /\ job.since = Now =>
           \A row \in dup.rows :
             \/ row \in todo \/ job.errors # 0 \/ Holds(row)
             \/ path = row.paths[1] /\ dups = Tail(row.paths)
  PROVE  VerifyInv'
  <1>1. CallerOK /\ Now' = Now /\ \A t : Past(t) => Past(t)'
    BY DEF VerifyInv, Now, Past
  <1>2. /\ cmd' = cmd /\ pc' = "self"
        /\ job' = [path |-> path, dups |-> dups, hash |-> << >>, inode |-> NoInode,
                   status |-> << >>, todo |-> todo, since |-> job.since, errors |-> job.errors,
                   hardlink_is_unique |-> job.hardlink_is_unique,
                   exclude_path |-> job.exclude_path]
    BY DEF Reverify, Goto
  <1>3. /\ job'.path = path /\ job'.dups = dups /\ job'.status = << >> /\ job'.todo = todo
        /\ job'.since = job.since /\ job'.errors = job.errors
        /\ job'.hardlink_is_unique = job.hardlink_is_unique
        /\ Caller \subseteq DOMAIN job' /\ Own \subseteq DOMAIN job'
    BY <1>2 DEF Caller, Own
  <1>4. CallerOK'
    BY <1>1, <1>2, <1>3 DEF CallerOK
  <1>5. OwnOK'
    <2>1. get_known_duplicates(path)' = get_known_duplicates(path)
      BY DEF get_known_duplicates
    <2>2. << >> \in Seq(Statuses) /\ Len(<< >>) <= Len(dups)
      OBVIOUS
    <2> QED BY <1>2, <1>3, <2>1, <2>2 DEF OwnOK
  <1>6. StepOK' /\ Learnt'
    BY <1>2, <1>3 DEF StepOK, Learnt
  <1>7. ASSUME cmd = "validate", job.since = Now PROVE Validated'
    <2>1. \A row : Holds(row)' <=> Holds(row)
      BY HoldsStays
    <2> QED BY <1>2, <1>3, <1>7, <2>1 DEF Validated, SeenHolds, OwnRow
  <1> QED BY <1>1, <1>2, <1>3, <1>4, <1>5, <1>6, <1>7 DEF VerifyInv, Verifying, Steps

\* A command that verifies begins,
LEMMA VerifyStartKeeps ==
  ASSUME VerifyInv, FsInv, Paths' = Paths, NEW c, NEW todo, NEW options \in Options,
         VerifyStart(c, todo, options),
         \/ c \in DOMAIN Shown /\ todo \subseteq Paths
         \/ c = "validate" /\ todo = dup.rows
  PROVE  VerifyInv'
  <1>1. /\ cmd' = c /\ pc' = "next" /\ UNCHANGED <<changes, failures, dup>>
        /\ job' = [todo |-> todo, since |-> Now, errors |-> 0,
                   hardlink_is_unique |-> options.hardlink_is_unique,
                   exclude_path |-> options.exclude_path]
    BY DEF VerifyStart, Begin, Visits, fsvars, dbvars
  <1>2. /\ job'.todo = todo /\ job'.since = Now /\ job'.errors = 0
        /\ job'.hardlink_is_unique = options.hardlink_is_unique /\ Caller \subseteq DOMAIN job'
    BY <1>1 DEF Caller
  <1>3. options.hardlink_is_unique \in BOOLEAN /\ Past(Now)'
    BY <1>1, NowPast, CommandsAssumption DEF Past, Now
  <1>4. c = "validate" => c \notin DOMAIN Shown /\ todo = dup.rows
    BY DEF Shown
  <1>5. CallerOK'
    BY <1>1, <1>2, <1>3, <1>4 DEF CallerOK, Now
  <1>6. ASSUME c = "validate" PROVE Validated'
    BY <1>1, <1>2, <1>4, <1>6 DEF Validated, SeenHolds
  <1>7. pc' \notin Steps
    BY <1>1 DEF Steps
  <1> QED BY <1>1, <1>5, <1>6, <1>7 DEF VerifyInv

\* goes to the next file,
LEMMA NextFileKeeps ==
  ASSUME VerifyInv, FsInv, ScanInv, TablesInv, TrustInv, Paths' = Paths, NextFile
  PROVE  VerifyInv'
  <1>1. /\ Verifying /\ cmd \in DOMAIN Shown /\ cmd # "validate" /\ pc = "next" /\ ~Publishing
        /\ UNCHANGED <<inode, data, changes, failures, dup>>
    BY DEF NextFile, Verifying, Shown, Publishing, fsvars, dbvars
  <1>2. CallerOK
    BY <1>1 DEF VerifyInv
  <1>3. PICK path \in job.todo :
          \/ job' = [job EXCEPT !.todo = job.todo \ {path}] /\ Goto("next")
          \/ Reverify(path, get_known_duplicates(path), job.todo \ {path})
    BY Zenon DEF NextFile
  <1>4. CASE job' = [job EXCEPT !.todo = job.todo \ {path}] /\ Goto("next")
    <2>1. cmd' = cmd /\ pc' = "next" /\ pc' \notin Steps
      BY <1>4 DEF Goto, Steps
    <2>2. /\ job'.todo = job.todo \ {path} /\ job'.since = job.since
          /\ job'.errors = job.errors /\ job'.hardlink_is_unique = job.hardlink_is_unique
          /\ DOMAIN job' = DOMAIN job
      BY <1>2, <1>4 DEF CallerOK, Caller
    <2>3. CallerOK'
      BY <1>1, <1>2, <2>1, <2>2 DEF CallerOK, Past
    <2> QED BY <1>1, <2>1, <2>3 DEF VerifyInv
  <1>5. CASE Reverify(path, get_known_duplicates(path), job.todo \ {path})
    <2>1. path \in Paths
      BY <1>1, <1>2 DEF CallerOK
    <2>2. PICK dups : dups = get_known_duplicates(path)
      OBVIOUS
    <2>3. dups \in Seq(Paths)
      BY <1>1, <2>1, <2>2, KnownDuplicates DEF VerifyInv
    <2>4. PICK todo : todo = job.todo \ {path}
      OBVIOUS
    <2>5. todo \subseteq job.todo /\ Reverify(path, dups, todo)
      BY <1>5, <2>2, <2>4
    <2> QED BY <1>1, <2>1, <2>2, <2>3, <2>5, ReverifyKeeps
  <1> QED BY <1>3, <1>4, <1>5

\* The first path of a row, and the others.
LEMMA RowPaths ==
  ASSUME ScanInv, TablesInv, ~Publishing, NEW row \in dup.rows
  PROVE  /\ row.paths \in Seq(Paths) /\ row.paths[1] \in Paths
         /\ Tail(row.paths) \in Seq(Paths) /\ Len(row.paths) > 1
  <1>1. row \in Rows
    BY RowsOfFile
  <1>2. row.paths \in Seq(Paths) /\ Len(row.paths) > 1
    BY <1>1 DEF TablesInv, Tables, RowOK, Listed
  <1> QED BY <1>2

\* or row,
LEMMA NextRowKeeps ==
  ASSUME VerifyInv, ScanInv, TablesInv, Paths' = Paths, NextRow
  PROVE  VerifyInv'
  <1>1. /\ Verifying /\ cmd = "validate" /\ cmd \notin DOMAIN Shown /\ pc = "next"
        /\ ~Publishing /\ UNCHANGED <<inode, data, changes, failures, dup>>
    BY DEF NextRow, At, Verifying, Shown, Publishing, fsvars, dbvars
  <1>2. CallerOK
    BY <1>1 DEF VerifyInv
  <1>3. PICK row \in job.todo : Reverify(row.paths[1], Tail(row.paths), job.todo \ {row})
    BY DEF NextRow
  <1>4. row \in dup.rows
    BY <1>1, <1>2 DEF CallerOK
  <1>5. PICK path, dups, todo :
          path = row.paths[1] /\ dups = Tail(row.paths) /\ todo = job.todo \ {row}
    OBVIOUS
  <1>6. path \in Paths /\ dups \in Seq(Paths)
    BY <1>1, <1>4, <1>5, RowPaths
  <1>7. ASSUME job.since = Now, NEW r \in dup.rows
        PROVE  \/ r \in todo \/ job.errors # 0 \/ Holds(r)
               \/ path = r.paths[1] /\ dups = Tail(r.paths)
    BY <1>1, <1>5, <1>7 DEF VerifyInv, Validated, SeenHolds
  <1>8. todo \subseteq job.todo /\ Reverify(path, dups, todo)
    BY <1>3, <1>5
  <1> QED BY <1>1, <1>6, <1>7, <1>8, ReverifyKeeps

\* All duplicates have been looked at: those that count are counted.
LEMMA AllCounted ==
  ASSUME OwnOK, ~More
  PROVE  /\ Len(job.status) = Len(job.dups) /\ Len(job.dups) \in Nat
         /\ \A i \in 1 .. Len(job.dups) : job.status[i] \in Statuses
         /\ current_dups = 0 => \A i \in 1 .. Len(job.dups) : ~Counts(job.status[i])
         /\ current_dups # 0 => \E i \in 1 .. Len(job.dups) : Counts(job.status[i])
         /\ current_dups = Len(job.dups) => \A i \in 1 .. Len(job.dups) : Counts(job.status[i])
         /\ current_dups # Len(job.dups) => \E i \in 1 .. Len(job.dups) : ~Counts(job.status[i])
  <1>1. PICK n : n = Len(job.dups)
    OBVIOUS
  <1>2. n \in Nat /\ Len(job.status) = n /\ \A i \in 1 .. n : job.status[i] \in Statuses
    BY <1>1 DEF OwnOK, More
  <1>3. PICK S : S = {i \in 1 .. n : Counts(job.status[i])}
    OBVIOUS
  <1>4. current_dups = Cardinality(S)
    BY <1>2, <1>3 DEF current_dups
  <1>5. IsFiniteSet(1 .. n) /\ Cardinality(1 .. n) = n
    BY <1>2, FS_Interval
  <1>6. IsFiniteSet(S) /\ (Cardinality(S) = n => S = 1 .. n)
    BY <1>3, <1>5, FS_Subset
  <1>7. Cardinality(S) = 0 <=> S = {}
    BY <1>6, FS_EmptySet
  <1>8. S = 1 .. n => Cardinality(S) = n
    BY <1>5
  <1> QED BY <1>1, <1>2, <1>3, <1>4, <1>6, <1>7, <1>8

\* A row holds if all its other paths are the same as the first.
LEMMA RowHolds ==
  ASSUME NEW T, NEW paths \in Seq(T), Len(paths) > 1, Same(paths[1], paths[1]),
         \A i \in 1 .. Len(Tail(paths)) : Same(paths[1], Tail(paths)[i])
  PROVE  SetHolds(paths)
  <1>1. PICK n \in Nat : n = Len(paths)
    OBVIOUS
  <1>2. Len(Tail(paths)) = n - 1 /\ \A i \in 1 .. n - 1 : Tail(paths)[i] = paths[i + 1]
    BY <1>1
  <1>3. ASSUME NEW i \in 1 .. n PROVE Same(paths[1], paths[i])
    <2>1. CASE i = 1
      BY <2>1
    <2>2. CASE i # 1
      <3>1. i - 1 \in 1 .. n - 1 /\ (i - 1) + 1 = i
        BY <1>1, <2>2
      <3> QED BY <1>2, <3>1
    <2> QED BY <2>1, <2>2
  <1>4. ToSet(paths) = {paths[i] : i \in 1 .. n}
    BY <1>1 DEF ToSet
  <1> QED BY <1>3, <1>4 DEF SetHolds, Same

\* The first path of a row and the others are paths of the row.
LEMMA HeadAndTail ==
  ASSUME NEW T, NEW paths \in Seq(T), Len(paths) > 1
  PROVE  /\ paths[1] \in ToSet(paths)
         /\ \A i \in 1 .. Len(Tail(paths)) : Tail(paths)[i] \in ToSet(paths)
  <1>1. PICK n \in Nat : n = Len(paths)
    OBVIOUS
  <1>2. Len(Tail(paths)) = n - 1 /\ \A i \in 1 .. n - 1 : Tail(paths)[i] = paths[i + 1]
    BY <1>1
  <1>3. \A i \in 1 .. n : paths[i] \in ToSet(paths)
    BY <1>1 DEF ToSet
  <1> QED BY <1>1, <1>2, <1>3

\* Among files that numbers tell apart, what is called a link is one.
LEMMA VerdictTells ==
  ASSUME NEW paths, NumbersTell(paths), NEW path \in paths, NEW other \in paths,
         Verdict("HARDLINK", path, other)
  PROVE  Same(path, other) /\ inode[other] = inode[path]
  <1>1. file_exists(path) /\ file_exists(other) /\ Number(other) = Number(path)
    BY DEF Verdict
  <1>2. inode[other] = inode[path]
    BY <1>1 DEF NumbersTell, Existing
  <1> QED BY <1>1, <1>2 DEF Same, Data

\* The caller of reverify_duplicates() has the result,
LEMMA VerifiedKeeps ==
  ASSUME VerifyInv, FsInv, ScanInv, TablesInv, Paths' = Paths, Verified
  PROVE  VerifyInv'
  <1>1. /\ Verifying /\ pc = "dup" /\ ~More /\ ~Publishing
        /\ cmd' = cmd /\ pc' = "next" /\ UNCHANGED <<inode, data, changes, failures, dup>>
    BY DEF Verified, Goto, Verifying, Shown, Publishing, fsvars, dbvars
  <1>2. CallerOK /\ OwnOK
    BY <1>1 DEF VerifyInv, Steps
  <1>3. PICK more : /\ more \in {0, 1}
                    /\ cmd = "validate" /\ more = 0 => current_dups = Len(job.dups)
                    /\ job' = Visits(job.todo, job.since, job.errors + more, job)
    <2>1. PICK more : more = IF cmd = "validate" /\ ~(current_dups = Len(job.dups)) THEN 1 ELSE 0
      OBVIOUS
    <2>2. job' = Visits(job.todo, job.since, job.errors + more, job)
      BY <2>1, Zenon DEF Verified
    <2> QED BY <2>1, <2>2
  <1>4. /\ job'.todo = job.todo /\ job'.since = job.since /\ job'.errors = job.errors + more
        /\ job'.hardlink_is_unique = job.hardlink_is_unique /\ Caller \subseteq DOMAIN job'
    BY <1>3 DEF Visits, Caller
  <1>5. job.errors + more \in Nat /\ (job.errors + more = 0 => job.errors = 0 /\ more = 0)
    BY <1>2, <1>3 DEF CallerOK
  <1>6. CallerOK'
    BY <1>1, <1>2, <1>4, <1>5 DEF CallerOK, Past
  <1>7. ASSUME cmd = "validate", job.since = Now PROVE Validated'
    <2>1. Validated /\ Learnt
      BY <1>1, <1>7 DEF VerifyInv, Steps
    <2>2. ASSUME NEW row \in dup.rows, job.errors + more = 0, row \notin job.todo
          PROVE  Holds(row)
      <3>1. SeenHolds(row) \/ OwnRow(row)
        BY <1>1, <2>1 DEF Validated
      <3>2. CASE SeenHolds(row)
        BY <1>5, <2>2, <3>2 DEF SeenHolds
      <3>3. CASE OwnRow(row)
        <4>1. current_dups = Len(job.dups)
          BY <1>3, <1>5, <1>7, <2>2
        <4>2. \A i \in 1 .. Len(job.dups) : Counts(job.status[i])
          BY <1>1, <1>2, <4>1, AllCounted
        <4>3. KnownSoFar
          BY <1>1, <2>1, KnownStays
        <4>4. Len(job.status) = Len(job.dups)
          BY <1>1, <1>2, AllCounted
        <4>5. row.paths \in Seq(Paths) /\ Len(row.paths) > 1
          BY <1>1, RowPaths
        <4>6. ASSUME NumbersTell(ToSet(row.paths)), NEW i \in 1 .. Len(job.dups)
              PROVE  Same(job.path, job.dups[i])
          <5>1. Verdict(job.status[i], job.path, job.dups[i]) /\ Counts(job.status[i])
            BY <4>2, <4>3, <4>4 DEF KnownSoFar, Verdicts
          <5>2. job.path \in ToSet(row.paths) /\ job.dups[i] \in ToSet(row.paths)
            BY <3>3, <4>5, HeadAndTail DEF OwnRow
          <5> QED BY <4>6, <5>1, <5>2, VerdictTells DEF Verdict, Counts
        <4>7. Same(job.path, job.path)
          BY <4>3 DEF KnownSoFar, Same
        <4> QED BY <3>3, <4>5, <4>6, <4>7, RowHolds DEF OwnRow, Holds
      <3> QED BY <3>1, <3>2, <3>3
    <2>3. \A row : Holds(row)' <=> Holds(row)
      BY <1>1, HoldsStays
    <2> QED BY <1>1, <1>4, <2>2, <2>3 DEF Validated, SeenHolds
  <1>8. pc' \notin Steps /\ Now' = Now
    BY <1>1 DEF Steps, Now
  <1> QED BY <1>1, <1>4, <1>6, <1>7, <1>8 DEF VerifyInv

\* and the command ends when nothing is left.
LEMMA NextNoneKeeps ==
  ASSUME VerifyInv, Paths' = Paths, NextNone
  PROVE  VerifyInv'
  BY NotVerifying DEF NextNone, Verifying, Shown

\* Files change while it runs.
LEMMA FileChangeKeepsVerify ==
  ASSUME VerifyInv, FsInv, Paths' = Paths, FileChange
  PROVE  VerifyInv'
  <1>1. UNCHANGED <<cmd, pc, job, fd, dup>>
    BY DEF FileChange, cmdvars
  <1>2. changes' = changes + 1 /\ failures' = failures
    BY FileChangeTouches DEF Touch
  <1>3. Verifying' = Verifying /\ \A path : get_known_duplicates(path)' = get_known_duplicates(path)
    BY <1>1 DEF Verifying, get_known_duplicates
  <1>4. CASE ~Verifying
    BY <1>3, <1>4, NotVerifying
  <1>5. CASE Verifying
    <2>1. CallerOK /\ pc \in {"next"} \cup Steps /\ (pc \in Steps => OwnOK /\ StepOK)
      BY <1>5 DEF VerifyInv
    <2>2. CallerOK' /\ job'.since # Now'
      BY <1>1, <1>2, <2>1, MomentPasses DEF CallerOK
    <2>3. pc \in Steps => OwnOK'
      BY <1>1, <1>3, <2>1 DEF OwnOK
    <2>4. pc \in Steps => StepOK'
      BY <1>1, <2>1 DEF StepOK, More
    <2> QED BY <1>1, <2>1, <2>2, <2>3, <2>4 DEF VerifyInv
  <1> QED BY <1>4, <1>5

\* Commands that verify nothing leave it at that.
LEMMA OthersVerify ==
  ASSUME VerifyInv, FsInv, Paths' = Paths,
         (CacheNext /\ UNCHANGED dbvars) \/ DbNext \/ Operation
  PROVE  VerifyInv'
  <1>1. CASE CacheNext
    <2>1. ~Verifying
      <3>1. pc \in {"open_cache", "create_hashes"} \/ cmd = "hash"
        BY <1>1 DEF CacheNext, CacheOpen, CacheCreate, HashFind, HashScrub, HashOpen, HashRead,
                    HashReadEnd, HashAdd, HashCommit, At
      <3> QED BY <3>1 DEF VerifyInv, Verifying, Shown, Steps
    <2>2. cmd' \in {cmd, "none"}
      BY <1>1 DEF CacheNext, CacheOpen, CacheCreate, AfterOpen, HashFind, HashScrub, HashOpen,
                  HashRead, HashReadEnd, HashAdd, HashCommit, ReadPart, Goto, Return
    <2>3. ~Verifying'
      BY <2>1, <2>2 DEF Verifying, Shown
    <2> QED BY <2>3, NotVerifying
  <1>2. CASE DbNext
    <2>1. cmd' \in {"scan", "refresh", "none"}
      BY <1>2 DEF DbNext, ScanUnlink, ScanCreate, ScanFind, ScanPublish, ScanCommit,
                  RefreshRow, RefreshLook, RefreshLooked, RefreshDelete, RefreshInsert,
                  RefreshEnd, At, Goto, Return, cmdvars
    <2> QED BY <2>1, NotVerifying DEF Verifying, Shown
  <1>3. ASSUME cmd' \in {"none", "scan", "refresh", "hash", "cache"}
        PROVE  VerifyInv'
    BY <1>3, NotVerifying DEF Verifying, Shown
  <1>4. ASSUME CacheListStart \/ CacheDelete \/ \E path \in Asked : HashStart(path)
        PROVE  VerifyInv'
    BY <1>3, <1>4 DEF CacheListStart, CacheDelete, HashStart, Begin
  <1>5. ASSUME NEW options \in Options,
               \/ ScanStart(options.hardlink_is_unique)
               \/ RefreshStart(options.hardlink_is_unique)
               \/ operation_report(options.hardlink_is_unique)
               \/ \E link \in Links : operation_shell_script(link, options.hardlink_is_unique)
        PROVE  VerifyInv'
    BY <1>3, <1>5 DEF ScanStart, RefreshStart, operation_report, operation_shell_script, Tell,
                      Begin
  <1>6. ASSUME NEW options \in Options,
               \/ \E path \in Asked : FileStart(path, options)
               \/ \E c \in Walks : WalkStart(c, Asked, options)
               \/ ValidateStart(options)
        PROVE  VerifyInv'
    <2>1. Asked \subseteq Paths
      BY DEF FsInv
    <2>2. \A path \in Asked : {path} \subseteq Paths
      BY <2>1
    <2>3. "file" \in DOMAIN Shown /\ \A c \in Walks : c \in DOMAIN Shown
      BY CommandsAssumption DEF Shown
    <2>4. \E c, todo : /\ VerifyStart(c, todo, options)
                       /\ \/ c \in DOMAIN Shown /\ todo \subseteq Paths
                          \/ c = "validate" /\ todo = dup.rows
      BY <1>6, <2>1, <2>2, <2>3, Zenon DEF FileStart, WalkStart, ValidateStart
    <2> QED BY <2>4, VerifyStartKeeps
  <1> QED BY <1>1, <1>2, <1>4, <1>5, <1>6, Zenon DEF Operation

\* Nothing happens.
LEMMA SameVerify ==
  ASSUME VerifyInv, Paths' = Paths,
         UNCHANGED <<inode, data, changes, failures, cmd, pc, job, fd, dup>>
  PROVE  VerifyInv'
  <1>1. Verifying' = Verifying /\ \A path : get_known_duplicates(path)' = get_known_duplicates(path)
    BY DEF Verifying, get_known_duplicates
  <1>2. CallerOK' = CallerOK /\ OwnOK' = OwnOK /\ StepOK' = StepOK /\ Now' = Now
    BY <1>1 DEF CallerOK, OwnOK, StepOK, More, Past, Now
  <1>3. Learnt => Learnt'
    <2>1. Verdicts(job.status, job.path, job.dups) => Verdicts(job.status, job.path, job.dups)'
      BY ClaimsStay DEF Verdicts
    <2> QED BY <2>1 DEF Learnt, Reads, ReadSoFar, Dup, file_exists, Data, Number
  <1>4. Validated => Validated'
    BY HoldsStays DEF Validated, SeenHolds, OwnRow
  <1> QED BY <1>1, <1>2, <1>3, <1>4 DEF VerifyInv

\* Every step keeps what is known of what is verified.
LEMMA VerifyStep ==
  ASSUME CacheInv, ScanInv, TablesInv, TrustInv, VerifyInv, [Next]_vars
  PROVE  VerifyInv'
  <1>1. Paths' = Paths /\ FsInv
    BY PathsStay DEF CacheInv
  <1>2. CASE (CacheNext /\ UNCHANGED dbvars) \/ DbNext \/ Operation
    BY <1>1, <1>2, OthersVerify
  <1>3. CASE ReportNext
    BY <1>1, <1>3, NextFileKeeps, NextRowKeeps, NextNoneKeeps, OpenSelfKeeps, ReadFileKeeps,
       SelfEndKeeps, StatSelfKeeps, StatDupKeeps, OpenDupKeeps, DupEndKeeps, VerifiedKeeps
       DEF ReportNext
  <1>4. CASE Crash
    BY <1>1, <1>4, ReturnEnds, NotVerifying DEF Crash
  <1>5. CASE FileChange
    BY <1>1, <1>5, FileChangeKeepsVerify
  <1>6. CASE UNCHANGED vars
    <2>1. UNCHANGED <<inode, data, changes, failures, cmd, pc, job, fd, dup>>
      BY <1>6 DEF vars, fsvars, cmdvars, dbvars
    <2> QED BY <1>1, <2>1, SameVerify
  <1> QED BY <1>2, <1>3, <1>4, <1>5, <1>6 DEF Next

-----------------------------------------------------------------------------
(* What is printed. *)
Claim(r) == Past(r.since) /\ (r.since = Now => Truth(r))

(* A step after which now is a new moment, unless all is as it was. *)
Onward ==
  \A t : Past(t) => Past(t)' /\ (t = Now' => Now' = Now /\ UNCHANGED <<inode, data, dup, trust>>)

\* Such is a step that changes no file, but may fail to read one.
LEMMA PassesOnward ==
  ASSUME FsInv, Passes, UNCHANGED <<inode, data, dup, trust>>
  PROVE  Onward
  BY PassesOn DEF Onward

\* As long as nothing changes, what was true is true.
LEMMA TruthStays ==
  ASSUME UNCHANGED <<inode, data, dup, trust>>, NEW r, Truth(r)
  PROVE  Truth(r)'
  <1>1. Paths' = Paths /\ dup'.rows = dup.rows /\ dup'.hardlinks = dup.hardlinks
    BY DEF Paths
  <1>2. /\ \A p, q : Same(p, q)' <=> Same(p, q)
        /\ \A paths : SetHolds(paths)' <=> SetHolds(paths)
        /\ \A p : Data(p)' = Data(p)
        /\ \A paths : NumbersTell(paths)' <=> NumbersTell(paths)
    BY ClaimsStay
  <1>3. HasDuplicate(r) => HasDuplicate(r)'
    BY <1>2 DEF HasDuplicate
  <1>4. IsInvalid(r) => IsInvalid(r)'
    BY <1>2 DEF IsInvalid
  <1>5. IsUnique(r) => IsUnique(r)'
    BY <1>1, <1>2 DEF IsUnique
  <1>6. IsSameData(r) => IsSameData(r)'
    BY <1>2 DEF IsSameData, Existing, file_exists
  <1>7. (\A row \in dup.rows : Holds(row)) => \A row \in dup'.rows : Holds(row)'
    BY <1>1, HoldsStays
  <1>8. NumbersTell(Compared(r))' <=> NumbersTell(Compared(r))
    BY <1>2 DEF Compared
  <1> QED BY <1>3, <1>4, <1>5, <1>6, <1>7, <1>8, Zenon DEF Truth, Holds

\* What was printed stays true until a file changes or a read fails, and what is
\* added is true.
LEMMA ClaimsKept ==
  ASSUME ClaimsInv, Onward,
         \A r \in printed' : r \in printed \/ Claim(r),
         cmd' \in {"scan", "refresh"} => cmd \in {"scan", "refresh"} /\ UNCHANGED printed
  PROVE  ClaimsInv'
  <1>1. ASSUME NEW r \in printed'
        PROVE  Past(r.since)' /\ (r.since = Now' => Truth(r)')
    <2>1. Claim(r)
      BY DEF ClaimsInv, Claim
    <2>2. PICK t : t = r.since
      OBVIOUS
    <2>3. Past(t)' /\ (t = Now' => Now' = Now /\ UNCHANGED <<inode, data, dup, trust>>)
      BY <2>1, <2>2 DEF Claim, Onward
    <2>4. r.since = Now' => Truth(r)'
      BY <2>1, <2>2, <2>3, TruthStays DEF Claim
    <2> QED BY <2>2, <2>3, <2>4 DEF Past
  <1>2. cmd' \in {"scan", "refresh"} => printed' = {}
    BY DEF ClaimsInv
  <1> QED BY <1>1, <1>2 DEF ClaimsInv

\* dupd report: what it prints of rows that can be trusted.
LEMMA ReportedSet ==
  ASSUME TablesInv, TrustInv, NEW row \in Rows, Len(row.paths) > 0,
         row.paths \in Seq(Paths), NEW r, r.kind = "SET", r.paths = row.paths
  PROVE  Truth(r)
  <1>1. PICK s \in scanned : ToSet(row.paths) \subseteq ToSet(s.paths)
    BY RowsOfSets
  <1>2. trust # "no" => Alike(s.paths)
    BY DEF TrustInv
  <1>3. trust = "exact" => Whole(row.paths)
    BY DEF TrustInv
  <1>4. trust # "no" => \A p, q \in Existing(ToSet(row.paths)) : Same(p, q)
    BY <1>1, <1>2 DEF Alike, Existing, Same
  <1>5. row.paths[1] \in ToSet(row.paths)
    BY DEF ToSet
  <1>6. trust = "exact" => SetHolds(row.paths)
    BY <1>3, <1>4, <1>5 DEF Whole, Existing, SetHolds
  <1>7. IsSameData(r)
    BY <1>4, <1>6 DEF IsSameData
  <1> QED BY <1>7 DEF Truth

\* A command that begins says nothing yet, or all at once.
LEMMA OperationClaims ==
  ASSUME ClaimsInv, ScanInv, TablesInv, TrustInv, FsInv, Operation
  PROVE  ClaimsInv'
  <1>1. CASE printed' = {}
    BY <1>1 DEF ClaimsInv
  <1>2. Onward /\ Past(Now)
    <2>1. UNCHANGED fsvars /\ UNCHANGED dbvars
      BY DEF Operation, CacheListStart, CacheDelete, HashStart, ScanStart, RefreshStart,
             operation_report, operation_shell_script, Tell, FileStart, WalkStart,
             ValidateStart, VerifyStart
    <2>2. UNCHANGED <<inode, data, dup, trust>> /\ Passes
      BY <2>1 DEF fsvars, dbvars, Passes
    <2> QED BY <2>2, PassesOnward, NowPast
  <1>3. ASSUME cmd' = "none", \A r \in printed' : r \in printed \/ Claim(r)
        PROVE  ClaimsInv'
    BY <1>2, <1>3, ClaimsKept
  <1>4. CASE CacheDelete
    BY <1>3, <1>4 DEF CacheDelete
  <1>5. ASSUME NEW h, operation_report(h)
        PROVE  ClaimsInv'
    <2>1. /\ cmd = "none" /\ cmd' = "none"
          /\ printed' = {[kind |-> "SET", paths |-> r.paths, total |-> Total(r),
                          each_size |-> r.each_size, since |-> Now] :
                           r \in {q \in dup.rows : Large(q)}}
      BY <1>5 DEF operation_report, Tell
    <2>2. ASSUME NEW r \in printed' PROVE Claim(r)
      <3>1. PICK row \in dup.rows :
              r = [kind |-> "SET", paths |-> row.paths, total |-> Total(row),
                   each_size |-> row.each_size, since |-> Now]
        BY <2>1, <2>2
      <3>2. r.kind = "SET" /\ r.paths = row.paths /\ r.since = Now
        BY <3>1
      <3>3. ~Publishing
        BY <2>1 DEF Publishing
      <3>4. row \in Rows
        BY <3>3, RowsOfFile
      <3>5. row.paths \in Seq(Paths) /\ Len(row.paths) > 0
        BY <3>3, RowPaths
      <3>6. Truth(r)
        BY <3>2, <3>4, <3>5, ReportedSet
      <3> QED BY <1>2, <3>2, <3>6 DEF Claim
    <2> QED BY <1>3, <2>1, <2>2
  <1>6. ASSUME NEW link, NEW h, operation_shell_script(link, h)
        PROVE  ClaimsInv'
    <2>1. /\ cmd' = "none"
          /\ printed' = {[kind |-> "SCRIPT", rm |-> Removed(r.paths), ln |-> link,
                          kept |-> r.paths[1], since |-> Now] : r \in dup.rows}
      BY <1>6 DEF operation_shell_script, Tell
    <2>2. ASSUME NEW r \in printed' PROVE Claim(r)
      <3>1. r.kind = "SCRIPT" /\ r.since = Now
        BY <2>1, <2>2
      <3> QED BY <1>2, <3>1 DEF Claim, Truth
    <2> QED BY <1>3, <2>1, <2>2
  <1>7. CASE CacheListStart \/ \E path \in Asked : HashStart(path)
    BY <1>1, <1>7 DEF CacheListStart, HashStart, Begin
  <1>8. ASSUME NEW options,
               \/ ScanStart(options.hardlink_is_unique)
               \/ RefreshStart(options.hardlink_is_unique)
               \/ \E path \in Asked : FileStart(path, options)
               \/ \E c \in Walks : WalkStart(c, Asked, options)
               \/ ValidateStart(options)
        PROVE  printed' = {}
    BY <1>8 DEF ScanStart, RefreshStart, FileStart, WalkStart, ValidateStart, VerifyStart, Begin
  <1> QED BY <1>1, <1>4, <1>5, <1>6, <1>7, <1>8, Zenon DEF Operation

\* A file without known duplicates has none, as far as the scan can tell.
LEMMA NoneKnown ==
  ASSUME ScanInv, TablesInv, TrustInv, CompleteInv, Paths \subseteq Seq(STRING), ~Publishing,
         cmd # "refresh", trust # "no", dup.hardlinks = "normal",
         NEW path \in Paths, NEW q \in Paths \ {path}, Same(path, q), Data(q) # << >>
  PROVE  q \in ToSet(get_known_duplicates(path))
  <1>1. HasAll
    BY DEF CompleteInv
  <1>2. Twins(path, q)
    BY DEF Twins
  <1>3. PICK r \in Rows : {path, q} \subseteq ToSet(r.paths)
    BY <1>1, <1>2 DEF HasAll, InARow
  <1>4. r \in dup.rows
    BY RowsOfFile
  <1> QED BY <1>3, <1>4, KnownDuplicates

\* dupd file, ls and uniques: of a file without known duplicates.
LEMMA NextFileClaims ==
  ASSUME ClaimsInv, VerifyInv, ScanInv, TablesInv, TrustInv, CompleteInv, FsInv, NextFile
  PROVE  ClaimsInv'
  <1>1. /\ Verifying /\ cmd \in DOMAIN Shown /\ cmd \notin {"scan", "refresh"} /\ pc = "next"
        /\ ~Publishing /\ cmd' = cmd
        /\ UNCHANGED <<inode, data, dup, trust>> /\ Passes
    BY DEF NextFile, Verifying, Shown, Publishing, Goto, Reverify, fsvars, dbvars, Passes
  <1>2. CallerOK /\ Paths \subseteq Seq(STRING)
    BY <1>1 DEF VerifyInv
  <1>3. PICK path \in job.todo :
          \/ UNCHANGED printed
          \/ /\ get_known_duplicates(path) = << >>
             /\ Say([kind |-> "UNIQUE", path |-> path, dups |-> << >>, status |-> << >>,
                     since |-> job.since])
    BY Zenon DEF NextFile
  <1>4. ASSUME get_known_duplicates(path) = << >>, NEW r, r.kind = "UNIQUE", r.path = path,
               r.since = job.since
        PROVE  Claim(r)
    <2>1. path \in Paths
      BY <1>1, <1>2 DEF CallerOK
    <2>2. ToSet(get_known_duplicates(path)) = {}
      BY <1>4 DEF ToSet
    <2>3. IsUnique(r)
      BY <1>1, <1>2, <1>4, <2>1, <2>2, NoneKnown DEF IsUnique
    <2> QED BY <1>2, <1>4, <2>3 DEF CallerOK, Claim, Truth
  <1>5. \A r \in printed' : r \in printed \/ Claim(r)
    BY <1>3, <1>4 DEF Say
  <1> QED BY <1>1, <1>5, PassesOnward, ClaimsKept

\* dupd validate: all rows were seen, and no error.
LEMMA NextNoneClaims ==
  ASSUME ClaimsInv, VerifyInv, FsInv, NextNone
  PROVE  ClaimsInv'
  <1>1. /\ Verifying /\ pc = "next" /\ job.todo = {} /\ cmd' = "none"
        /\ UNCHANGED <<inode, data, dup, trust>> /\ Passes
        /\ \/ UNCHANGED printed
           \/ /\ cmd = "validate" /\ job.errors = 0
              /\ Say([kind |-> "VALID", since |-> job.since])
    BY DEF NextNone, fsvars, dbvars, Passes
  <1>2. CallerOK
    BY <1>1 DEF VerifyInv
  <1>3. ASSUME cmd = "validate", job.errors = 0, NEW r, r.kind = "VALID", r.since = job.since
        PROVE  Claim(r)
    <2>1. ASSUME job.since = Now, NEW row \in dup.rows PROVE Holds(row)
      BY <1>1, <1>3, <2>1 DEF VerifyInv, Validated, SeenHolds
    <2> QED BY <1>2, <1>3, <2>1 DEF CallerOK, Claim, Truth, Holds
  <1>4. \A r \in printed' : r \in printed \/ Claim(r)
    BY <1>1, <1>3 DEF Say
  <1> QED BY <1>1, <1>4, PassesOnward, ClaimsKept

(* What is said of a path whose duplicates were looked at, r of job. *)
Told(r) ==
  /\ r.path = job.path /\ r.dups = job.dups /\ r.status = job.status /\ r.since = job.since
  /\ r.hardlink_is_unique = job.hardlink_is_unique

\* What is said of a path and a duplicate, when numbers tell files apart.
LEMMA ToldApart ==
  ASSUME OwnOK, ~More, KnownSoFar, NEW r, Told(r), NumbersTell(Compared(r)),
         NEW i \in 1 .. Len(job.dups)
  PROVE  /\ Verdict(job.status[i], job.path, job.dups[i])
         /\ job.status[i] = "HARDLINK" =>
              Same(job.path, job.dups[i]) /\ inode[job.dups[i]] = inode[job.path]
  <1>1. Verdict(job.status[i], job.path, job.dups[i])
    BY AllCounted DEF KnownSoFar, Verdicts
  <1>2. job.path \in Compared(r) /\ job.dups[i] \in Compared(r)
    BY DEF OwnOK, Told, Compared, ToSet
  <1> QED BY <1>1, <1>2, VerdictTells

\* One that counts is a duplicate,
LEMMA TellsDuplicate ==
  ASSUME OwnOK, ~More, KnownSoFar, current_dups # 0, NEW r, Told(r), NumbersTell(Compared(r))
  PROVE  HasDuplicate(r)
  <1>1. PICK i \in 1 .. Len(job.dups) : Counts(job.status[i])
    BY AllCounted
  <1>2. /\ Verdict(job.status[i], job.path, job.dups[i])
        /\ job.status[i] = "HARDLINK" =>
             Same(job.path, job.dups[i]) /\ inode[job.dups[i]] = inode[job.path]
    BY <1>1, ToldApart
  <1>3. /\ job.status[i] \in {"DUPLICATE", "HARDLINK"} /\ Same(job.path, job.dups[i])
        /\ job.hardlink_is_unique => inode[job.dups[i]] # inode[job.path]
    BY <1>1, <1>2 DEF Counts, Verdict
  <1> QED BY <1>3 DEF HasDuplicate, Told

\* one that does not, in a set said to be valid, is not the same or left out,
LEMMA TellsInvalid ==
  ASSUME OwnOK, ~More, KnownSoFar, current_dups # Len(job.dups), NEW r, Told(r)
  PROVE  IsInvalid(r)
  <1>1. PICK i \in 1 .. Len(job.dups) : ~Counts(job.status[i])
    BY AllCounted
  <1>2. Verdict(job.status[i], job.path, job.dups[i])
    BY <1>1, AllCounted DEF KnownSoFar, Verdicts
  <1>3. CASE job.status[i] \in {"EXCLUDE", "HARDLINK"}
    BY <1>3 DEF IsInvalid, Told
  <1>4. CASE job.status[i] \notin {"EXCLUDE", "HARDLINK"}
    <2>1. ~Same(job.path, job.dups[i])
      BY <1>1, <1>2, <1>4 DEF Counts, Verdict
    <2>2. PICK path, dups, n : /\ path = job.path /\ dups = job.dups /\ n = Len(dups)
                               /\ n \in Nat /\ path \in Paths /\ dups \in Seq(Paths)
      BY DEF OwnOK
    <2>3. PICK all : all = <<path>> \o dups
      OBVIOUS
    <2>4. Len(all) = n + 1 /\ all[1] = path /\ all[i + 1] = dups[i] /\ i + 1 \in 1 .. n + 1
      BY <2>2, <2>3
    <2>5. all[i + 1] \in ToSet(all)
      <3>1. all \in Seq(Paths)
        BY <2>2, <2>3
      <3>2. DOMAIN all = 1 .. n + 1
        BY <2>4, <3>1
      <3> QED BY <2>4, <3>2 DEF ToSet
    <2>6. ~SetHolds(all)
      BY <2>1, <2>2, <2>4, <2>5 DEF SetHolds, Same
    <2> QED BY <2>2, <2>3, <2>6 DEF IsInvalid, Told
  <1> QED BY <1>3, <1>4

\* and when none does the file is unique, as far as the scan can tell.
LEMMA TellsUnique ==
  ASSUME OwnOK, ~More, KnownSoFar, current_dups = 0, NEW r, Told(r), NumbersTell(Compared(r)),
         ScanInv, TablesInv, TrustInv, CompleteInv, Paths \subseteq Seq(STRING),
         cmd \in DOMAIN Shown
  PROVE  IsUnique(r)
  <1>1. ~Publishing /\ cmd # "refresh"
    BY DEF Shown, Publishing
  <1>2. ASSUME trust # "no", dup.hardlinks = "normal", "EXCLUDE" \notin ToSet(job.status),
               NEW q \in Paths \ {job.path}, Same(job.path, q), Data(q) # << >>
        PROVE  inode[q] = inode[job.path] /\ "HARDLINK" \in ToSet(job.status)
    <2>1. q \in ToSet(job.dups)
      <3>1. PICK path : path = job.path
        OBVIOUS
      <3>2. path \in Paths /\ q \in Paths \ {path} /\ Same(path, q)
        BY <1>2, <3>1 DEF OwnOK
      <3>3. q \in ToSet(get_known_duplicates(path))
        BY <1>1, <1>2, <3>2, NoneKnown
      <3> QED BY <3>1, <3>3 DEF OwnOK
    <2>2. PICK i \in 1 .. Len(job.dups) : job.dups[i] = q
      <3>1. PICK dups \in Seq(Paths) : dups = job.dups
        BY DEF OwnOK
      <3>2. DOMAIN dups = 1 .. Len(dups)
        BY <3>1
      <3> QED BY <2>1, <3>1, <3>2 DEF ToSet
    <2>3. /\ Verdict(job.status[i], job.path, q) /\ ~Counts(job.status[i])
          /\ job.status[i] = "HARDLINK" => inode[q] = inode[job.path]
      BY <2>2, AllCounted, ToldApart
    <2>4. job.status[i] \in ToSet(job.status)
      BY <2>2, AllCounted DEF OwnOK, ToSet
    <2> QED BY <1>2, <2>3, <2>4 DEF Verdict, Counts
  <1> QED BY <1>2 DEF IsUnique, Told

\* The result of reverify_duplicates() is true.
LEMMA VerifiedClaims ==
  ASSUME ClaimsInv, VerifyInv, ScanInv, TablesInv, TrustInv, CompleteInv, FsInv, Verified
  PROVE  ClaimsInv'
  <1>1. /\ Verifying /\ pc = "dup" /\ ~More /\ cmd \notin {"scan", "refresh"} /\ cmd' = cmd
        /\ UNCHANGED <<inode, data, dup, trust>> /\ Passes
    BY DEF Verified, Goto, Verifying, Shown, fsvars, dbvars, Passes
  <1>2. CallerOK /\ OwnOK /\ Paths \subseteq Seq(STRING)
    BY <1>1 DEF VerifyInv, Steps
  <1> DEFINE About(k) == [kind |-> k, path |-> job.path, dups |-> job.dups,
                          status |-> job.status, exclude_path |-> job.exclude_path,
                          hardlink_is_unique |-> job.hardlink_is_unique, since |-> job.since]
  <1>3. \A k : About(k).kind = k /\ Told(About(k))
    BY DEF Told
  <1>4. \/ UNCHANGED printed
        \/ Say(About("INVALID")) /\ cmd = "validate" /\ current_dups # Len(job.dups)
        \/ Say(About("UNIQUE")) /\ cmd # "validate" /\ current_dups = 0
        \/ Say(About("DUPLICATE")) /\ cmd # "validate" /\ current_dups # 0
    BY DEF Verified
  <1> HIDE DEF About
  <1>5. job.since = Now => KnownSoFar
    BY <1>1, KnownStays DEF VerifyInv, Steps
  <1>6. cmd # "validate" => cmd \in DOMAIN Shown
    BY <1>1 DEF Verifying
  <1>7. ASSUME NEW r, Told(r),
               \/ r.kind = "INVALID" /\ current_dups # Len(job.dups)
               \/ r.kind = "UNIQUE" /\ cmd # "validate" /\ current_dups = 0
               \/ r.kind = "DUPLICATE" /\ current_dups # 0
        PROVE  Claim(r)
    <2>1. r.since = job.since
      BY <1>7 DEF Told
    <2>2. ASSUME job.since = Now PROVE Truth(r)
      <3>1. KnownSoFar
        BY <1>5, <2>2
      <3>2. r.kind = "INVALID" => IsInvalid(r)
        BY <1>1, <1>2, <1>7, <3>1, TellsInvalid
      <3>3. r.kind = "UNIQUE" /\ NumbersTell(Compared(r)) => IsUnique(r)
        BY <1>1, <1>2, <1>6, <1>7, <3>1, TellsUnique
      <3>4. r.kind = "DUPLICATE" /\ NumbersTell(Compared(r)) => HasDuplicate(r)
        BY <1>1, <1>2, <1>7, <3>1, TellsDuplicate
      <3> QED BY <1>7, <3>2, <3>3, <3>4 DEF Truth
    <2> QED BY <1>2, <2>1, <2>2 DEF CallerOK, Claim
  <1>8. \A r \in printed' : r \in printed \/ Claim(r)
    BY <1>3, <1>4, <1>7 DEF Say
  <1> QED BY <1>1, <1>8, PassesOnward, ClaimsKept

\* Other steps print nothing.
LEMMA OthersClaim ==
  ASSUME ClaimsInv, FsInv, ScanInv,
         \/ CacheNext /\ UNCHANGED dbvars
         \/ DbNext \/ Crash
         \/ NextRow \/ OpenSelf \/ ReadFile \/ SelfEnd \/ StatSelf \/ StatDup \/ OpenDup \/ DupEnd
  PROVE  ClaimsInv'
  <1>1. CASE CacheNext /\ UNCHANGED dbvars
    <2>1. UNCHANGED <<inode, data, dup, trust>> /\ Passes
      BY <1>1 DEF CacheNext, CacheOpen, CacheCreate, HashFind, HashScrub, HashOpen, HashRead,
                  HashReadEnd, HashAdd, HashCommit, ReadPart, EndOfFile, fsvars, dbvars, Passes
    <2>2. UNCHANGED printed /\ cmd' \in {cmd, "none"}
      BY <1>1 DEF CacheNext, CacheOpen, CacheCreate, AfterOpen, HashFind, HashScrub, HashOpen,
                  HashRead, HashReadEnd, HashAdd, HashCommit, ReadPart, Goto, Return
    <2> QED BY <2>1, <2>2, PassesOnward, ClaimsKept
  <1>2. CASE DbNext
    <2>1. cmd \in {"scan", "refresh"} /\ UNCHANGED printed
      BY <1>2 DEF DbNext, ScanUnlink, ScanCreate, ScanFind, ScanPublish, ScanCommit,
                  RefreshRow, RefreshLook, RefreshLooked, RefreshDelete, RefreshInsert,
                  RefreshEnd, At, Return, cmdvars
    <2> QED BY <2>1 DEF ClaimsInv
  <1>3. CASE Crash
    <2>1. UNCHANGED <<inode, data, dup, printed>> /\ Passes /\ cmd' = "none"
          /\ (trust' = trust \/ cmd = "refresh")
      BY <1>3 DEF Crash, Return, At, fsvars, Passes
    <2>2. CASE cmd = "refresh"
      BY <2>1, <2>2 DEF ClaimsInv
    <2>3. CASE cmd # "refresh"
      BY <2>1, <2>3, PassesOnward, ClaimsKept
    <2> QED BY <2>2, <2>3
  <1>4. CASE \/ NextRow \/ OpenSelf \/ ReadFile \/ SelfEnd \/ StatSelf \/ StatDup \/ OpenDup
             \/ DupEnd
    <2>1. UNCHANGED <<inode, data, dup, trust>> /\ Passes
      BY <1>4 DEF NextRow, OpenSelf, ReadFile, SelfEnd, StatSelf, StatDup, OpenDup, DupEnd,
                  ReadPart, EndOfFile, fsvars, dbvars, Passes
    <2>2. UNCHANGED printed /\ cmd' \in {cmd, "none"} /\ cmd \notin {"scan", "refresh"}
      BY <1>4 DEF NextRow, OpenSelf, ReadFile, SelfEnd, StatSelf, StatDup, OpenDup, DupEnd,
                  ReadPart, Verifying, Shown, At, Goto, Return, Reverify, Status
    <2> QED BY <2>1, <2>2, PassesOnward, ClaimsKept
  <1> QED BY <1>1, <1>2, <1>3, <1>4

\* Every step keeps what was printed true.
LEMMA ClaimsStep ==
  ASSUME CacheInv, ScanInv, TablesInv, TrustInv, CompleteInv, VerifyInv, ClaimsInv, [Next]_vars
  PROVE  ClaimsInv'
  <1>1. FsInv
    BY DEF CacheInv
  <1>2. CASE Operation
    BY <1>1, <1>2, OperationClaims
  <1>3. CASE (CacheNext /\ UNCHANGED dbvars) \/ DbNext \/ Crash
    BY <1>1, <1>3, OthersClaim
  <1>4. CASE ReportNext
    BY <1>1, <1>4, NextFileClaims, NextNoneClaims, VerifiedClaims, OthersClaim DEF ReportNext
  <1>5. CASE FileChange
    <2>1. UNCHANGED <<cmd, printed>>
      BY <1>5 DEF FileChange, cmdvars
    <2>2. changes' = changes + 1 /\ failures' = failures
      BY <1>1, <1>5, FileChangeTouches DEF Touch
    <2>3. Onward
      BY <1>1, <2>2, MomentPasses DEF Onward
    <2> QED BY <2>1, <2>3, ClaimsKept
  <1>6. CASE UNCHANGED vars
    <2>1. UNCHANGED <<inode, data, cmd, printed, dup, trust>> /\ Passes
      BY <1>6 DEF vars, fsvars, cmdvars, dbvars, Passes
    <2> QED BY <1>1, <2>1, PassesOnward, ClaimsKept
  <1> QED BY <1>2, <1>3, <1>4, <1>5, <1>6 DEF Next

\* Nothing is known or said at first.
LEMMA ClaimsAtFirst ==
  ASSUME Init
  PROVE  CompleteInv /\ VerifyInv /\ ClaimsInv
  <1>1. cmd = "none" /\ trust = "no" /\ printed = {}
    BY DEF Init, CommandInit, DbInit
  <1>2. Paths \subseteq Seq(STRING)
    BY FilesAssumption DEF Init, FilesInit, Paths
  <1>3. ~Scanning /\ ~At("scan", "create") /\ ~Current /\ ~Verifying
    BY <1>1 DEF Scanning, At, Current, Publishing, Verifying, Shown
  <1> QED BY <1>1, <1>2, <1>3 DEF CompleteInv, VerifyInv, ClaimsInv

(* Whatever commands ran or were killed before, and whatever happened to the
   files since the scan: what a command says of files that do not change while
   it runs, when none of its reads fails, is true (reverify_duplicates() and
   its callers, operation_validate() and operation_report()), where the numbers
   of inodes, which are compared without their devices, tell the files that it
   compares apart; that a file is unique, if files were only deleted since a
   scan that did not leave the links out. *)
THEOREM SaysTheTruth == Spec => []ClaimsAreTrue
  <1> DEFINE I == /\ CacheInv /\ ScanInv /\ TablesInv /\ KeptTogether /\ TrustInv
                  /\ CompleteInv /\ VerifyInv /\ ClaimsInv
  <1>1. Init => I
    BY CacheInvAtFirst, TablesAtFirst, TrustAtFirst, ClaimsAtFirst
  <1>2. I /\ [Next]_vars => I'
    BY CacheStep, ScanStep, TablesStep, TogetherStep, TrustStep, CompleteStep, VerifyStep,
       ClaimsStep
  <1>3. I => ClaimsAreTrue
    BY DEF ClaimsInv, ClaimsAreTrue
  <1> QED BY <1>1, <1>2, <1>3, PTL DEF Spec
=============================================================================
