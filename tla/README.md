# A TLA+ model of dupd

dupd finds duplicate files.  `dupd scan` walks directories, groups the files it
finds by size, reads and hashes the files of each size in ever larger steps, and
saves the groups of equal files in an SQLite database, which the other
operations (`report`, `file`, `ls`, `uniques`, `dups`, `validate`, `rmsh`,
`refresh`) read.

These modules model the whole way from the command line to what the reports say.
What could go wrong on it takes several steps, often of several threads or of
other programs that change files meanwhile, and is hard to reach with a test.
TLC checks small instances; TLAPS proves the most important results for all of
them.  `PROJECT.json` says which lines each definition stands for, and lists the
hazards the properties are for.

## The system

    main, process_args --> scan --> status thread
                            |
    walk_dir --add_queue--> 4 queues --worker_main--> add_file --> size tree
       | new_child_dir                                  |  (two files of a size)
       v                                                v
    directory tree         size list (sets) <---- path list ----> read list
                                 |                                   | sorted
           reader thread  <------+-----------------------------------+
             |  fills buffers; submits a set when all of them are ready
             |  (size_list_flusher when the buffers take too much memory)
             v
           hasher queues --> hasher threads --> hash table of the pass
                                 |  unique files drop out, the rest goes back
                                 v  to the reader, or is published
                           duplicates database, hash cache
                                 ^
           refresh, report, file, ls, uniques, dups, validate, rmsh, hash

| Part | State | Operations | What is hard | What makes it correct |
|---|---|---|---|---|
| Command line (`main.c`) | the settings | `process_args`, `opt_add_path` | numbers of any size and sign | the settings meet what later phases assume |
| Directory walk, scan (`scan.c`, `stats.c`) | stack of directories, counters, two times | `walk_dir`, `scan`, `scan_status`, `report_stats` | files that vanish between being named and being looked at; a status thread that goes by unset times | every file asked for is given to `add_file` once; the scan ends |
| Directory tree (`dirtree.c`) | parent links, blocks of memory | `new_child_dir`, `build_path`, `dirbuf_alloc` | lengths kept in few bits, blocks never checked | a path is built as it was found; no two names share memory |
| Queue exchange (`sizetree.c`) | 4 fixed queues, who owns which, two condition variables | `add_queue`, `scan_done`, `worker_main` | two threads, entries accessed without the lock, an end mark in a reused entry | exclusive queues, no lost wakeup, each file once and in order |
| Size tree, path lists (`sizetree.c`, `paths.c`) | tree by size, lists in blocks of memory | `add_file`, `insert_first_path`, `insert_end_path`, `add_to_size_list` | the first file of a size is revisited when a second one shows up, and may be another file by then | a set has all files of its size, and is listed once it has two |
| Read list (`readlist.c`) | blocks to read, by disk block | `add_to_read_list`, `sort_read_list` | hard links, files of many blocks | every block of every file that matters, once |
| Block reader (`sizelist.c`, `utils.c`) | position, block and buffer of each file | `get_block_info_from_path`, `fill_data_block`, `read_entry_bytes` | gaps, boundaries that coincide, failed reads | the bytes hashed are the file's; each pass covers the same bytes of all files of a set |
| Reader and flusher (`sizelist.c`) | read list, counters of buffers and open files | `read_list_reader`, `size_list_flusher`, `submit_path_list` | goes round and round the list while the hashers work on the same sets | each ready set is submitted once; the loop ends |
| Hashers (`hashers.c`) | a queue and a hash table each | `round1_hasher`, `build_hash_list_round` | taking work while it is submitted, leaving at the right time | verdicts are right and final |
| Hash table (`hashlist.c`) | 256 chains of nodes | add, reset, skim, publish | reused without being cleared | a pass sees its own files only |
| Duplicates database, refresh (`dbops.c`, `refresh.c`) | `duplicates` and `meta` tables | open, publish, delete, look up, rewrite | a stop between two statements; rows rewritten while they are read | a set on record is a set of files found equal, or what is left of it |
| Hash cache (`dbops.c`, `cache.c`) | `files` and `hashes` tables | find, add, scrub, delete | files that change while they are read, or twice in a second; reads that fail | a cached hash is that of the file as it is |
| Reports (`report.c`) | none of their own | `report`, `file`, `ls`, `uniques`, `dups`, `validate`, `rmsh`, `hash` | files that change while they are verified, reads that fail, numbers of inodes that two devices share | only files verified to be duplicates are called so |

The threads of a scan share memory: the queue exchange under `queue_lock`; a set
of files under the lock of its `size_list` node; a hasher's queue under its own
lock; the counters under `stats_lock` and `counters_lock`.  Commands share the
two databases, and everything shares the file system with other programs.

## The modules

    Settings  BlockInfo   Blocks                PathSet -- BlockReader    Files  Hash
        |         |         |                   /  |    \                   \   /
        |         |      DirTree        SizeTree ReadList ReadHash         Command
        |         |         |               \     /    (DupSets)              |
        |         |      WalkDir           ScanSets                        CacheDb
        |         |         |             (SizeGroups)                        |
        +---- ScanDriver ---+                                               DupDb
                                                                              |
    ScanQueue (ScanFifo)   FillBlock   HashTable (HashGroups)              Report
                                                                              |
                                                                            Dupd

Abstract specifications are in parentheses; the module next to them is shown to
implement them.  What one composition leaves as a step is what another one
expands: `ScanDriver` has the queue of `ScanFifo`, which `ScanQueue` implements;
the files it gives to `add_file` are the inputs of `ScanSets`; the sets that
`ScanSets` ends with (`ReadyToRead`) are those `ReadHash` begins with; what
`ReadHash` publishes, the groups of `DupSets`, is what `ScanFind` of `DupDb`
finds.

Every thread, and every command, has a control variable.  What a thread does
between taking a lock and giving it up, or waiting, is one action, since no
other thread can see any of it; what it does without a lock is an action of its
own for each step that others could see.  In the databases a step is an SQL
statement, a part of a file that is read, or a look at a file.  A call of
`exit(1)` ends the behaviour, and the sanity checks that make it are conditions
of the models, so that "no sanity check ever fires" is a property.

### Settings, WalkDir, DirTree, Blocks, ScanDriver: up to the size tree

`Settings` is `process_args()` and `opt_add_path()` as functions of the
arguments; numbers are cut to the width the code keeps them in.  `WalkDir` is
`walk_dir()`: `OpenDir`, `ReadEntry` (a round of the loop over `readdir()`, with
`SkipHidden`, `SkipSeparator`, `SkipType`, `FoundDir` and `FoundFile` for its
branches), `CloseDir`; `WorkerAdd` is the worker thread with `add_file()`, and
`Vanish` another program that deletes files and directories at any time. That
`new_stat_info.st_dev` is not written before the first file is looked up is a
choice (`Values`).

`DirTree` has `new_child_dir()` and `build_path()`, which writes a path
backwards into a buffer: the buffer is a function of the positions written.
`Blocks` is the allocator underneath, with the sizes as constants, since
`dirbuf_alloc()` and `check_space()` of `paths.c` are the same but for these.

`ScanDriver` composes them: `ProcessArgs`, `CheckFiemap`, `NextPath`, `EndScan`,
`ReturnEarly`, `Process`, `Processed` and `Report` are `main()`, `scan()` and
`report_stats()`; `StatusCounting`, `StatusSets` and `Timeout` are
`scan_status()`.

### ScanQueue and ScanFifo: from the scan to the size tree

`ScanQueue` is the exchange of queues in `sizetree.c`.

| TLA+ | `sizetree.c` |
|---|---|
| `current_producer_queue`, `current_worker_queue`, `last_owner`, `queue_added`, `queue_removed` | the variables of these names |
| `slot`, `end`, `producer_next`, `worker_next` | the linked entries of `queue[]` and the pointers into them; an index of `QueueLength` is NULL |
| `want`, `want_queue` | the locals of `add_queue` and `worker_main` |
| `AddQueue` | `add_queue` up to its first return |
| `ProducerWait`, `ProducerTake` | its loop around `pthread_cond_wait`, and what follows |
| `ScanDone`, `ScanJoin` | `scan_done` before and after it joins the worker |
| `WorkerWait`, `WorkerTake` | `worker_main` getting a queue |
| `WorkerAdd`, `WorkerEnd`, `WorkerRelease` | its loop over the entries, and giving the queue back |

`ScanFifo` is what the rest of dupd relies on: the files found are given to
`add_file`, each once and in the order in which they were found, and all of them
before `scan_done` returns.  `ScanQueue` implements it (`ImplementsFifo`).

### SizeTree, SizeGroups, ReadList, BlockInfo, ScanSets: the sets

`SizeTree` is `add_file()` with the tree (`Place` is where `add_below()` gets
to), the path lists and the size list.  `disk` is what the paths are now and
`seen` what they were when found, so that the first file of a size, looked at
again when the second one shows up, may be gone or another one.  `SizeGroups` is
what it is for: files grouped by size, a group listed when it gets its second
file.  `BlockInfo` turns extents into block lists, `ReadList` is
`sort_read_list()`: any arrangement that its comparison allows is one `qsort()`
may return.  `ScanSets` composes them with `process_cached_hashes()`.

### BlockReader and FillBlock: reading one file

`BlockReader` has `fill_data_block` as a function: from a file's entry, block
list and content to the entry afterwards and what became of the visit ("ready",
"filling", "unreadable", or the check that stops the program).  An entry has the
fields of `struct path_list_entry`; `buffer` is the sequence of bytes in the
buffer, so that `next_buffer_pos` is its length, and `hashed` are the bytes that
`hash_ctx` was fed.  Gap sizes go through `Word`, as they go through a
`uint32_t` in the code.

`FillBlock` follows one file through all its passes: `Fill` is the reader's
visit, `Hash` the hasher's, `blocks` the list that `BlockInfo` makes of any
layout of extents and gaps.  `MCHashing` checks it in one run with `HashTable`,
the two having nothing to do with each other.

### ReadHash, PathSet, DupSets: the pipeline

`PathSet` holds what is done to one set of files (a `size_list` node and its
path list) under its lock, as functions on a record with the fields of
`path_list_head`: the functions of `paths.c` that mark an entry, one visit of
the reader (`reader_visit`), one pass of a hasher (`hasher_pass`), and the
flusher's work on a set (`flusher_visit`).  What these add to counters kept for
all sets together is kept with the set, and `ReadHash` adds it up.  Hashes are
perfect: the hash of a file is the sequence of its bytes.

`ReadHash` composes them with the threads:

| TLA+ | code |
|---|---|
| `SkipDone`, `ReadEntry`, `CheckBuffers`, `LoopEnd` | the two loops of `read_list_reader` |
| `Submit` | `submit_path_list`, called after the set is unlocked |
| `Flush` | one node of `size_list_flusher`, called by the reader |
| `Get`, `Hash` | `round1_hasher`: under its queue's lock, then under the set's |
| `JoinReader`, `TellDone`, `JoinHashers` | `process_size_list` and `signal_hashers` |

The reader submits a set after it has unlocked it, and checks the memory in use
after that: these are steps of their own.  A read of a file that is unreliable
may fail at any time (gone, unreadable or cut short: the code treats these
alike).

`DupSets` is the abstract specification: every file gets one verdict, for good;
a group is published once, with all equal files that can be read; a file is
unique only if no file that can be read equals it.  `ReadHash` implements it
(`FindsDuplicates`): no interleaving of reader, flusher and hashers makes a
difference to the result.

### HashTable and HashGroups: the hash table of a pass

`HashTable` is the table of `hashlist.c`, a sequence of nodes for each bucket. A
table is made once per thread and reset between passes by invalidating the first
node of each chain only.  `unhashed` is the environment: the files a pass has
still to add, each of them once.  `HashGroups` is what a pass wants: the files
added in this pass, under their hashes, and whether two have the same.

### Files, Hash, Command, CacheDb, DupDb, Report, Dupd: the databases

`Files` is the file system and the other programs that use it: paths, inodes,
data in parts, times in seconds.  An inode is one of all devices together, and
`st_ino` its number on its own: two inodes may have the same, and the number is
all that the code compares.  `Command` is a running command: its step `pc`, its
locals `job`, the file `hash_fn()` reads part by part, and what it printed, as
records.  A read may fail before the end of the file, which `hash_fn()` takes
for the end (`EndOfFile`).

| TLA+ | code |
|---|---|
| `CacheOpen`, `CacheCreate` | `open_cache_database`, a statement each |
| `HashFind`, `HashScrub`, `HashAdd`, `HashCommit` | `cache_db_find_entry`, `cache_db_scrub_entry`, `cache_db_add_entry` as `operation_hash_file` calls them |
| `CacheDelete`, `CacheListStart` | `cache.c` |
| `ScanUnlink`, `ScanCreate`, `ScanFind`, `ScanPublish`, `ScanCommit` | `open_database` for a scan, `begin_transaction`, `duplicate_to_db` for each set, `commit_transaction` |
| `RefreshRow`, `RefreshLook`, `RefreshLooked` | `operation_refresh`: the next row, a look at each of its paths, and whether any is gone |
| `RefreshDelete`, `RefreshInsert`, `RefreshEnd` | `operation_refresh`: its two statements for such a row, and its end |
| `NextFile`, `NextRow`, `OpenSelf` ... `DupEnd`, `Verified` | `print_status_from_db`, `operation_validate` and `reverify_duplicates` |
| `operation_report`, `operation_shell_script` | the two that only read the database |

`Dupd` runs any of these, one after the other, on one database and one cache;
`Crash` kills the command between any two steps, which rolls back what was not
committed, and `FileChange` is another program that deletes, overwrites or
creates a file.  Six variables are not of the program: `scanned` is what the
last scan found, `trust` whether files changed since, `unsure` the paths that
the cache cannot know about because they changed while they were read or again
within the second of a recorded change, `misread` those whose cached hash was
made with a read that failed, `changes` counts changes to files and `failures`
failed reads.  The last two are apart since a failed read changes no file: what
it leaves in the cache is wrong of a file that never changed (finding 6).

Two properties are about reads and inodes and have exceptions that are the
code's.  `CacheTruthful` excepts `unsure` and `misread`; that the second
exception is needed is what the run `cache_read_error` shows, which checks the
same without it (`CacheOfWholeFiles`).  `ClaimsAreTrue` is about commands during
which no file changed and no read failed, and about records whose files have
different numbers if they are different files (`NumbersTell`):
`reverify_duplicates()` compares `st_ino` and not `st_dev` (`report.c:260`), and
calls a file of another device with the same number a hard link, a duplicate
unless links do not count, without reading it.

`SetsFound`, what a scan finds, takes all reads of the scan to succeed and what
it takes from the cache to be right; `ReadHash` has the failing reads of a scan.
With `--hardlink-is-unique` it leaves out one of two files whose inodes have the
same number, as `sort_read_list()` does.

## What the runs check

| Run | Instance | Shows |
|---|---|---|
| `scan_queue` | 4 queues of 2, up to 20 files | type, `QueueExclusion`, `SanityChecksHold`, `NoLostWakeup`, the inductive invariant, `ImplementsFifo`, `ScanCompletes` |
| `hashing` | all extents of files of 1 to 7 bytes, buffers of 2, later 3 bytes; then a table over 3 files, 4 hashes, 3 of them in one bucket | `DataIsFilePrefix`, `RoundsAligned`, `BlockInList`, `FullyHashed`; type, `ChainsOK`, `IsHashGroups` |
| `read_hash` | 3 files of 4 bytes and 2 files of 2, two hashers; buffers limited to 7 bytes, or failing reads of three files | `SanityChecksHold`, `CountersRight`, `SubmittedOnce`, `ListCountsRight`, `AccountedFor`, `FindsDuplicates`, `AllDecided` |
| `scan_sets` | 4 paths to 7 inodes, cached or not, that may change | `BlocksCounted`, `ReadListComplete`, `OnePathPerInode`, `ReadyToRead`, `CachedVerdicts`, `ExitsForMissing`, `GroupsBySize` |
| `walk` | five file systems of up to six paths, all walk options, some 11 000 command lines | `SettingsMeetAssumptions`, `FilesGivenOnce`, `PathsRebuilt`, `RegionsApart`, `StopsForReason`, `ScanEnds` |
| `databases` | four disks of three or four paths, one of them with two inodes of one number, up to three commands and four events, one read that fails | `RowsFromScan`, `CacheTruthful`, `ClaimsAreTrue`, `ScriptKeepsContent`, `ScanAllOrNothing`, `RefreshKeepsSets` |
| `fill_block_gap` | the files of `hashing`, all gaps | finding 1 |
| `read_hash_flush_fail` | failing reads and the flusher | finding 2 |
| `scan_sets_cache` | cached hashes and hard links | finding 3 |
| `walk_vanish` | as `walk`, file systems that lose files | finding 4 |
| `report_exclude` | as `databases`, with `--exclude-path` | finding 5 |
| `cache_read_error` | as `databases`, `misread` not excepted | finding 6 |

Bounds.  In `scan_queue` the producer goes round the four queues two and a half
times, so that every queue is reused with the entries of two earlier rounds in
it, and stops at any file: the end mark lands in every entry of every queue.
Queues of two entries have a first and a last one.  In `hashing` files span
several passes and all relations between the ends of blocks, gaps, buffers and
the file occur.  In `read_hash` the sets take three and two passes; a file has
two blocks with a gap between them that lie on disk in reverse order, so that
the reader needs several loops; five files that differ early, late, in the gap
or not at all make passes that complete a set, drop files and keep all of them;
with 7 bytes of buffers the flusher finds sets in every state; with two
descriptors files are kept open, or not.  In `hashing` a chain has up to
three nodes and so a stale part of two; the table is used after one layout only,
as neither part looks at the other.  In `scan_sets` four paths give a tree
with a node on both sides, sets of two to four files, two sets, and two links to
one file in one of them.

In `walk`, a name may have 7 characters before its length is cut (`ByteSize` is
8), a path 6 (`DUPD_PATH_MAX` is 7) so that one of the file systems has a file
beyond it; blocks of memory begin with room for one directory and grow from
there.  The file systems have hidden files, files that are too small, links,
names with the separator, mount points, nested start paths, start paths without
a block, and files and directories that vanish.  A measured time
is positive, or negative as the clock was set back, or exactly -1, which is the
mark for "not yet": a walk that took -1 milliseconds keeps the status thread
waiting, and `main` with it; `ScanEnds` excepts it.

In `databases`, two files of a disk may be the same, links to one another, or of
a size that an `int` does not hold (`IntSize` is 4); one path is a part of
another as text; one disk has two sets of links, and one has two files
of the same data on different devices whose inodes have one number.  One read
may fail (`MaxFailures`).  Three commands are enough for
scan, refresh and a report, or for hash, another hash of the changed file, and a
third; four events for two changes among two commands.  The bound is on commands
and changes together, since each of them multiplies the states.

Fairness.  Both threads of the exchange are scheduled (weak fairness of each
thread's step), but a thread in `pthread_cond_wait` is woken only by a signal:
spurious wakeups are possible and never assumed.  The same holds for the reader,
each hasher and the main thread of `ReadHash`; there the fairness conditions are
on the control variables alone (`ReaderMoves`, `HasherMoves`), which these threads
change with every step.  In `FillBlock` reader and hasher come back to the file
(`FairSpec`, and `HashingSpec`, which asks nothing of the table).  In `ScanDriver`
main, worker and status thread run, and a `pthread_cond_timedwait` of a quarter of
a second ends; other programs need not do anything.  Nothing is assumed of the
order in which threads run, and reads are never assumed to succeed.  `ScanSets`
and `Dupd` have no fairness: their properties are about safety.

Deadlock is checked in every run but `databases`, `report_exclude` and
`cache_read_error`, where the behaviours end with the last command allowed;
elsewhere the stuttering steps `Terminated`, `Finished` and `Ended` are enabled
only once the program has ended or exited.

## What the code does not do

1. `fill_block_gap`: a gap after a block that exactly fills the buffer (`<` in
   `sizelist.c:477` where line 382 has `<=`) leaves the entry in FS_NEED_DATA
   with a full buffer; the next visit asks `read_entry_bytes` for zero bytes,
   which exits.  `hashing` therefore leaves out layouts with such gaps
   (`GapEndsPass`), and only these.
2. `read_hash_flush_fail`: the flusher completes a set of which it could not
   hash a file; that file still needs data, and the reader's next visit to it
   exits. `read_hash` has the flusher or failures (`FlushOrFail`), and not both.
3. `scan_sets_cache`: hard links left out with `--hardlink-is-unique` are
   published after all when the hashes of their set are all cached.
4. `walk_vanish`: a file that vanishes between `readdir()` and `add_file()` is
   counted as seen and nowhere else, and the scan ends with its own final check
   failing.  `StopsForReason` says that this is the only reason, besides paths
   too long for the system.
5. `report_exclude`: `exclude_path_len` is never set, so `--exclude-path`
   excludes every duplicate.
6. `cache_read_error`: a read that fails ends the loop of every hash function
   (`hash.c:83`) as the end of the file does, and the function returns 0.  The
   hash of the part that was read is cached under the size and time of the file,
   which did not change, and is returned for it from then on.

What was found by reading and is not shown by a run: a file is called a hard link
for the number of its inode, also on another device (`report.c:260`, excepted by
`NumbersTell`); a gap of 4 GB is cut to 32 bits; a set of 65536 files of which one
is ignored exits, as `list_size` is compared with `UINT16_MAX`; inodes far apart
are sorted wrong, as `rl_compare_i()` returns an `int`; a start path of 256
characters or more is rebuilt cut; the array of known duplicates may be one short.
Also seen, and stated as it is in `AccountedFor`: a set that ends because a read
failed is not counted by `show_processed`.

## What is proved

For every number of queues up to 42, every length of them and every number of
files (`SizesAssumption`), `ScanQueueProofs` proves:

* `Invariance`: the inductive invariant `IInv`.  The properties are not
  inductive: that the worker's next queue is one the producer has filled, with
  equal counts of added and removed entries, depends on what lies in all the
  queues between the two threads.  As files are numbered in the order found,
  `IInv` says where: `SlotInv` that a full queue holds `QueueLength` consecutive
  files, `OrderInv` that the queue after one that starts with file n starts with
  n + `QueueLength`, from the worker's queue to the producer's, `CountInv` that
  the two counts of a queue differ by what it still holds; `ProducerInv`,
  `WorkerInv` and `EndInv` tie the threads' control to the shared variables.
* `TypeCorrect`, `QueuesExclusive`, `ChecksHold`, `WakeupsKept`: from `IInv`.
* `Refinement`: the exchange implements `ScanFifo`.

For all sets of files, hashes and buckets (`HashTableAssumption`),
`HashTableProofs` proves that a chain is always a live part followed by a stale
part whose first node is empty and invalid (`ChainsInOrder`), from which
`Refinement` follows: whatever passes came before, the table holds the groups of
this pass.

For any size of the first block that holds the largest request after one growth
(`BlocksAssumption`), `ScanDriverProofs` proves `AllocationsApart`: no two regions
of memory overlap and each lies in its block.  The invariant (`Sound`) adds that
blocks never get smaller and that what is used of the last block covers every
region in it; from the former it follows that a new block holds any request, which
the code relies on without a check.  The same module carries this over to a whole
scan (`DirectoriesApart`): every name that `new_child_dir()` is given, from the
command line or from `readdir()`, leads to requests within the limit (`WalkInv`,
`DirTreeAssumption`), whatever the file system does and in whatever order the
threads run.

For any file systems that are trees of paths, whose directories hold the names of
the paths below them (`InstancesAssumption`), any options and a machine with some
memory (`OptionsAssumption`, which leaves the numbers on the command line free),
`ScanDriverProofs` also proves of a scan, with its threads interleaved in any way
and files vanishing at any time:

* `StopsOnlyForReason`: the property `StopsForReason`.  The invariant `StopInv`
  says that while the walk goes on every file seen is skipped, counted as too
  small, in the size tree or in the queue (`Balanced`), unless a file vanished or a
  path is too long (`Calm`), for which the names still to be read and the files in
  the queue have to be those of paths (`Reading`, `Queued`); that the queue is
  empty after the walks (`Emptied`); and, for the division by the number of blocks,
  that a scan that is to use FIEMAP and counted no block had no start path to walk
  (`Blockless`), so that it has seen no file and returned early.
* `SettingsAreOfUse`: the property `SettingsMeetAssumptions`, for every command
  line.  That there is a start path, and not too many (`StartPathsAre`), is shown
  of one call of `opt_add_path()` after the other: the fold over the arguments is a
  recursive function on the sets of positions, which is unfolded by a least
  counterexample as below.
* `EachFileGivenOnce`: the property `FilesGivenOnce`.  It says nothing of the walk
  itself, so that the invariant `FoundInv` has to: what lies below a directory on
  the stack, or is or lies below a name of the current directory that was not read,
  is ahead (`Ahead`); nothing on the stack and no file found is ahead
  (`Partitioned`), so no path is come to twice, within a walk as names in a
  directory are not below one another (`OneName`), and from one walk to the next as
  start paths are apart (`Apart`, kept by `opt_add_path()`).  Every directory that
  is still there when it is opened has only directories above it that the options
  let the walk take (`Clear`), from which what is found is what was asked for; and
  if nothing disappears, what was asked for is found, ahead, or too small
  (`NoneLost`), which with an empty stack leaves the first and the last.
* `PathsComeBack`: the property `PathsRebuilt`, if start paths are shorter than 256
  characters (`StartsFit`), as the length of a name has a byte; with longer ones it
  fails in the code.  The invariant `TreeInv` assigns a path to each directory kept
  (`Registered`), such that an entry holds the name, the parent and the length that
  the path has (`Entered`), and that stack, current directory and files refer to the
  directory of their path.  That the recursion of `build_path()` then writes just
  these names is again shown by a least counterexample (`AboveExists`, `AboveIs`),
  and that they end at the first end of a string by `ReadBack`.

For any files, any number of paths, changes and commands, killed anywhere,
`DupdProofs` proves:

* `CacheNeverLies`: the property `CacheTruthful`: the cache returns no wrong hash
  for a file that did not change while it was read or twice in a second, and of
  which no read failed when its hash was made.  It is not inductive: an entry that
  is outdated now may match again, if the file gets the recorded time and size
  once more.  The invariant `CacheInv` therefore says (`RowsInv`, `Known`) that no
  time on record is later than the last change of the path's file, so that a
  change in a later second can never be taken for the recorded one; (`Truthful`)
  that rows for which every entry matches are right; and (`HashInv`, `FdInv`) that
  what `dupd hash` has read is a beginning of the file, and at the end all of it,
  to the commit, as long as nothing changed and no read failed since it opened it.
  Nothing is claimed of the paths in `unsure` and `misread` (`Doubted`).  `Touch`
  is what all changes of other programs have in common.
* `ScanIsAtomic`: the property `ScanAllOrNothing`.  The invariant `ScanInv` is
  that a transaction is open exactly while a scan publishes, that the database
  is empty then, and that the transaction has all sets found but for those still
  to do.

* `RowsAreFromScan`: the property `RowsFromScan`.  The invariant `TablesInv` adds
  that the sets of a scan are disjoint lists (`SetOK`, `Apart`), that a set which
  is still to be published is in no row (`Unpublished`), and that a row which a
  refresh writes again is in the table until it is deleted, after which its files
  are in no row (`Rewritten`).  It rests on what `Only()` keeps of a row
  (`OnlyIs`), again by a least counterexample, and on `column_int()` not changing
  a size twice (`ColumnTwice`).
* `RefreshKeepsTogether`: the property `RefreshKeepsSets`.  `KeptTogether` says that
  as long as files are only deleted, those that remain of a row of the beginning
  are in one row at each step, or in the one about to be written.  As other
  programs act between the looks at two paths of a row, it says of the paths that
  refresh has looked at (`Behind`) that those which still exist are among those it
  keeps, which are some of them (`Looking`).
* `ScriptsKeepContent`: the property `ScriptKeepsContent`.  `TrustInv` says what the
  rows may be trusted with: that existing files of a set are the same if nothing
  but deletions happened since the scan, that the files of all rows exist if
  nothing happened since the scan or a refresh, and, for the latter, that the rows
  which a refresh has seen are whole if no file changed since it began (`Seen`),
  which needs that no two rows have the same number (`Ids`, `NextIdIsNew`).
  `ScriptsInv` says that a script is one of a row until a file changes.
* `SaysTheTruth`: the property `ClaimsAreTrue`, of all that `dupd file`, `ls`,
  `uniques`, `dups`, `validate` and `report` say of files that do not change while
  they run, when none of their reads fails and the numbers of inodes tell the
  files compared apart (`NumbersTell`).  Three more invariants: rows are complete
  (`CompleteInv`): files with the same data are in one row, or in the one that
  refresh is about to write, as long as files were only deleted since a scan that
  did not leave the links out; what `reverify_duplicates()` has learnt at each of
  its steps is so as long as no file changed and no read failed since the command
  began (`VerifyInv`: `Learnt` of the path, its hash, inode and the status of each
  duplicate so far, `Validated` of the rows that `dupd validate` has seen); and
  what was printed is true until a file changes or a read fails (`ClaimsInv`), as
  a step that is neither leaves it as it was (`Onward`).  That a file is unique
  needs that `get_known_duplicates()` finds the row of the path among those that
  contain it as text (`PathInText`, `KnownDuplicates`).  Empty files are left out
  of this one claim: no scan looks at them, so two of them are each said to be
  unique.

For files of any size, lying on disk in any extents that do not overlap and
start within the file (`LayoutsAssumption`), and for buffers of any size
(`BufferSizesAssumption`, `BlockInfoAssumption`), `FillBlockProofs` proves:

* `ReadsThePrefix`: what the hasher gets are the bytes of the file, in order and
  without loss.
* `RoundsAreAligned`: how many of them a pass hashes depends on the size of the
  file and of the buffer alone.
* `StaysInList`: the reader never indexes a block the file does not have.

None of the three is inductive.  The invariant `IInv` adds where the entry is
(`AtBlock`: at or past the end of every block before its own), that what is hashed
and buffered are the file up to there (`Data`), and that a buffer handed to the
hasher is full or has the end of the file (`Ready`).  The steps rest on what
`get_block_info_from_path()` makes of extents (`BlocksSound`), and on the first
part of `PathSetProofs`, where the same is shown of one visit to a file with any
block list (`BlockList`: the last block ends where the file does, and what lies
between two blocks is a hole), with one lemma for each part of the visit: the
buffer is allocated, the gap before the block filled, the block read, the gap
behind it filled, the end looked at.  A file whose gap ends where a pass does is
no exception: the program stops there (finding 1), with nothing wrong read before.

For any files, sizes, extents and contents (`SizeTreeAssumption`,
`ReadListAssumption`, `ScanSetsAssumption`), and while other programs delete and
replace files at any moment, `ScanSetsProofs` proves of what a scan does before it
reads:

* `FilesGroupedBySize`: tree and sets implement `SizeGroups` (`GroupsBySize`);
* `BlocksAlwaysCounted`: the files of sets have their blocks and inodes listed,
  once each (`BlocksCounted`);
* `CacheDecidesRight`: what the cache decides is right (`CachedVerdicts`);
* `StopsOnlyForMissing` and `SetsReadyToRead`: only a missing or replaced file
  stops the scan (`ExitsForMissing`), and the sets that are left are what
  `ReadHash` begins with (`ReadyToRead`), when there are no more than `UINT16_MAX`
  files (`FewFiles`: a set that a link leaves with as many as that exits);
* `OnePathRead`: of the paths to one file exactly one is read (`OnePathPerInode`),
  when also no two inodes are 2^31 or more apart (`CloseInodes`:
  `rl_compare_i()` returns their difference as an `int`, and `qsort()` may then
  leave two paths to one file apart).

The inductive invariant `SetsInv` says what the properties leave out.  `Tree`: the
nodes have ranks that grow downwards, so that the search of `add_below()` ends,
and for every size in the tree there is a set of nodes that leads its search there
(`Leads`), so that a size is not hung in two places.  `SizesOK`: a file is in the
node or the set of one size, and of that size unless it was replaced.  `SetsOK`
ties sets, size list and `have_cached_hashes` together.  Until the read list is
sorted, sets are as they were made (`FreshOK`) and the inodes are listed
(`InodesOK`); after that, each set has had some links left out (`LinkedFor`) or
was decided by the cache (`DecidedFor`).  `LinkedFor` says which state that is
(`LinksLeft`), and that a link is left out only if another path to the same inode
stays (`Marked`).  That two paths to one inode are not both left follows from the
order of the sorted list, for every arrangement that `SortedByInode` allows.  The
loop over that list is a recursive function and `skim_uniques()` a fold, so that
both are unfolded by a least counterexample.  A set of which one path was left is
done, and the program stops if the cache then finds a file without equal in it; by
`Marked` all its paths are the same file, so that there is none.

For any sets of files, block lists, buffer sizes and hashers
(`ReadHashAssumption`, `BufferSizesAssumption`), `ReadHashProofs` proves of the
pipeline, with its threads interleaved in any way and reads failing at any time:

* `SubmittedOnceHolds` and `ListCountsHold`: until a check stops the program, a
  set that is ready is in one place, and its counters are right, whichever reads
  fail;
* `PipelineFindsDuplicates`: the pipeline implements `DupSets`
  (`FindsDuplicates`), also up to a check that stops the program;
* `CountersHold`: what the flusher and the limit on open files go by
  (`CountersRight`) is right, when buffers do not get smaller from a pass to the
  next (`GrowingBuffers`: the first size is no more than 512 KiB with the cache and
  2 MiB without, as it is by default; with a larger `--firstblocksize` a buffer
  shrinks, and the difference, which has no sign, wraps);
* `ChecksHold`: no check ever stops the program (`SanityChecksHold`), when no set
  has more than `UINT16_MAX` files (`FewFiles`), the blocks of a file follow each
  other and no gap is longer than a word (`PlainBlocks`), and no gap fills a buffer
  to its end (`Unfilled`, the condition that finding 1 is about);
* `SeamlessChecksHold`: for files without gaps the last condition is not needed;
* `AllAccountedFor`: under the conditions of `ChecksHold`, in the end all sets are
  done and all files counted (`AccountedFor`).

They hold of behaviours in which the flusher does not run while reads may fail
(`Cautious`), which leaves out finding 2 and nothing else.  The proof has two
layers:

* `PathSetProofs` is about one set: each operation (`FlusherKeeps`,
  `HasherKeeps`, `ReaderKeeps`) keeps what holds of a set between any two of them
  (`Steady`): `list_size` and `buffer_ready` count what they should (`Counted`),
  the verdicts were counted (`Tallied`), files that are still compared have been
  read as far as each other, and the equals of one that is still compared are
  too, but for unreadable ones (`ReadSoFar`), and nothing is both published and
  compared (`Settled`).  `Judges` says what verdicts the operation may give, and
  is where perfect hashes of equal prefixes turn into equal files.  The sums, and
  `skim_uniques()`, are folds over finite sets.  They are unfolded from their
  definitions by induction over finite sets in the form of a least
  counterexample (`MinimalSubset`), since no fact of the library with an operator
  as a parameter can be used.
* `ReadHashProofs` is about the threads: where each of them is (`Places`), that a
  set that is ready is in exactly one place, so that no two threads work on it,
  and that the others are not disturbed by what happens to a set they do not have
  (`Working`).  For `ChecksHold` the invariant has to say more (`Undisturbed`): a
  set that is not done can go on (`AllGoing`: each file is within the block it is
  at, with room to read), its counters are right (`AllSized`), no more entries of a
  file are marked done in the read list than blocks were read (`WithinBlocks`), and
  an entry that the reader passes and counts is settled (`NothingMissed`).  So when
  it has counted them all, no file needs data, and when the hashers are told that
  the list is done (`Leaving`), nothing is left to be flushed; all sets are done
  when the threads have ended (`AllFinished`).  That a set that is not done has not
  been counted keeps `stats_size_list_done` at the number of sets at most.

Model-checked only: `ScanCompletes`, `FullyHashed`, `AllDecided` and `ScanEnds`,
as liveness under fairness is outside of what the prover does; `ReadListComplete`,
whose read list is made of sequences sorted and joined by recursion over data; what
a flush does while reads fail (finding 2); what happens to sets of more than
`UINT16_MAX` files and with inodes far apart; and paths rebuilt below a start path
of 256 characters or more, where they are wrong.

## What is not modelled

* The parser of options (`optgen.c`, generated), license, manual and version
  texts (`copying.c`, `man.h`, `info.c`), the format of what is printed.
* The hash functions (`xxhash.c`, OpenSSL): a hash is taken to be the data it
  was made of, so that two files never have the same hash by accident.
* `filecompare.c`: `compare_two_files()` is no longer called.
* Probes, artificial delays and the test driver (`dtrace.c`, `testing.c`,
  `test_hashlist.c`).
* Time, beyond the order of changes in seconds: how long the reader sleeps, how
  long SQLite waits for a lock.
* Allocation failures, which exit.  The capacities of growing arrays (hasher
  queues, node entries, the array of known duplicates) are unbounded sequences.
* Two commands at a time.  `dupd` has no lock of its own between them; SQLite
  makes their statements atomic, and the model has one command at a time.
* A scan writes hashes to the cache from its hashers, as `dupd hash` does; only
  the latter is modelled, as are the cached hashes that a scan finds.

## The plan

Everything planned is modelled, and what a run checks is proved, but for what
"Model-checked only" lists.
