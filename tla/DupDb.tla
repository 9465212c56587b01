-------------------------------- MODULE DupDb --------------------------------
(***************************************************************************)
(* The database of duplicates, src/dbops.c, as dupd scan and dupd refresh  *)
(* (src/refresh.c) write it.  It is a file of tables; every statement is   *)
(* a transaction of its own unless one was begun, and a command that stops *)
(* loses what it did not commit.                                           *)
(***************************************************************************)
EXTENDS CacheDb

VARIABLES
  dup,     (* stage, hardlinks and rows: what is in the file                 *)
  txn,     (* the rows as the transaction has them; Closed without one       *)
  scanned, (* the sets that the last scan found                              *)
  trust    (* "exact" when no file changed since the rows were written,
              "deleted" when some were deleted, "no" after other changes     *)

dbvars == <<dup, txn, scanned, trust>>

(* What there is of the database: no file, or the tables one after the other
   and at last the row of meta. *)
Stages == <<"none", "duplicates", "meta", "ready">>
Ready  == Len(Stages)

NoTxn == [open |-> FALSE, rows |-> {}]
NoDb  == [stage |-> 1, hardlinks |-> "normal", rows |-> {}]

DbInit == dup = NoDb /\ txn = NoTxn /\ scanned = {} /\ trust = "no"

-----------------------------------------------------------------------------
Rows == IF txn.open THEN txn.rows ELSE dup.rows

NextId(rows) == 1 + Max({0} \cup {r.id : r \in rows})

NowRows(rows) ==
  IF txn.open THEN txn' = [txn EXCEPT !.rows = rows] /\ UNCHANGED dup
  ELSE dup' = [dup EXCEPT !.rows = rows] /\ UNCHANGED txn

duplicate_to_db(count, size, paths) ==
  NowRows(Rows \cup {[id |-> NextId(Rows), count |-> count, each_size |-> size,
                      paths |-> paths]})

delete_duplicate_entry(row) == NowRows(Rows \ {row})

(* open_database() of a database to be read goes on only if it is whole, and
   not with --hardlink-is-unique if the scan had left the links out. *)
Opens(hardlink_is_unique) ==
  dup.stage = Ready /\ ~(hardlink_is_unique /\ dup.hardlinks = "ignore")

-----------------------------------------------------------------------------
(* dupd scan.  What it finds are the files with the same data at one moment;
   how it finds them is the matter of ScanSets and ReadHash, and so is what
   becomes of files that cannot be read.  That what it takes from the cache is
   right is CacheTruthful, with the exceptions made there.  Of the files
   that are not alone in their size, links are left out on request, and so are
   files of other devices whose inodes have the same number. *)
SetsFound(hardlink_is_unique) ==
  LET Seen    == {p \in Paths : file_exists(p) /\ Data(p) # << >>}
      Listed  == {p \in Seen : \E q \in Seen \ {p} : Size(q) = Size(p)}
      Counted == {p \in Listed : hardlink_is_unique =>
                                   p = CHOOSE q \in Listed : Number(q) = Number(p)}
      Same(p) == {q \in Counted : Data(q) = Data(p)}
  IN  {SetToSeq(Same(p)) : p \in {q \in Counted : Cardinality(Same(q)) > 1}}

ScanStart(hardlink_is_unique) ==
  /\ Begin("scan", "open_cache", [hardlink_is_unique |-> hardlink_is_unique])
  /\ UNCHANGED <<fsvars, cachevars, dbvars>>

\* The old database is deleted.
ScanUnlink ==
  /\ At("scan", "unlink")
  /\ dup' = [NoDb EXCEPT !.hardlinks = IF job.hardlink_is_unique THEN "ignore" ELSE "normal"]
  /\ trust' = "no" /\ scanned' = {}
  /\ Goto("create")
  /\ UNCHANGED <<fsvars, job, fd, printed, txn>>

ScanCreate ==
  /\ At("scan", "create") /\ dup.stage < Ready
  /\ dup' = [dup EXCEPT !.stage = @ + 1]
  /\ UNCHANGED <<fsvars, cmdvars, txn, scanned, trust>>

NotBegun == UNCHANGED txn                       \* mutant of begin_transaction
begin_transaction == txn' = [open |-> TRUE, rows |-> dup.rows]

ScanFind ==
  /\ At("scan", "create") /\ dup.stage = Ready
  /\ begin_transaction
  /\ scanned' = {[paths |-> paths, size |-> Len(Data(paths[1]))] :
                   paths \in SetsFound(job.hardlink_is_unique)}
  /\ job' = [since |-> changes, todo |-> scanned']
  /\ Goto("publish")
  /\ UNCHANGED <<fsvars, fd, printed, dup, trust>>

ScanPublish ==
  /\ At("scan", "publish")
  /\ \E s \in job.todo :
       /\ duplicate_to_db(Len(s.paths), s.size, s.paths)
       /\ job' = [job EXCEPT !.todo = @ \ {s}]
  /\ UNCHANGED <<fsvars, cmd, pc, fd, printed, ran, scanned, trust>>

ScanCommit ==
  /\ At("scan", "publish") /\ job.todo = {}
  /\ dup' = IF txn.open THEN [dup EXCEPT !.rows = txn.rows] ELSE dup
  /\ txn' = NoTxn
  /\ trust' = IF changes = job.since THEN "exact" ELSE "no"
  /\ Return
  /\ UNCHANGED <<fsvars, scanned>>

-----------------------------------------------------------------------------
(* dupd refresh.  It reads on after a row while it deletes that row and adds
   another: whether the one added is read as well is not defined. *)
RefreshStart(hardlink_is_unique) ==
  /\ Begin("refresh", "row",
           [since |-> changes, before |-> dup.rows, todo |-> {r.id : r \in dup.rows}])
  /\ Opens(hardlink_is_unique)
  /\ UNCHANGED <<fsvars, cachevars, dbvars>>

RowsLeft == {r \in dup.rows : r.id \in job.todo}

RefreshRow ==
  /\ At("refresh", "row")
  /\ \E row \in RowsLeft :
       /\ \A r \in RowsLeft : row.id <= r.id
       /\ job' = [row |-> row, looked |-> 0, left |-> << >>, since |-> job.since,
                  before |-> job.before, todo |-> job.todo \ {row.id}]
  /\ Goto("look")
  /\ UNCHANGED <<fsvars, fd, printed, dbvars>>

\* The paths of the row that are still there, one after the other.
RefreshLook ==
  /\ At("refresh", "look") /\ job.looked < Len(job.row.paths)
  /\ LET path == job.row.paths[job.looked + 1]
     IN  job' = [job EXCEPT !.looked = @ + 1,
                            !.left = IF file_exists(path) THEN Append(@, path) ELSE @]
  /\ Goto("look")
  /\ UNCHANGED <<fsvars, fd, printed, dbvars>>

RefreshLooked ==
  /\ At("refresh", "look") /\ job.looked = Len(job.row.paths)
  /\ Goto(IF Len(job.left) = job.row.count THEN "row" ELSE "delete")
  /\ UNCHANGED <<fsvars, job, fd, printed, dbvars>>

\* Mutants of IsSet, and of NewCount.
IsLarger(paths) == Len(paths) > 2
OldCount(row, paths) == row.count

IsSet(paths) == Len(paths) > 1
NewCount(row, paths) == Len(paths)

RefreshDelete ==
  /\ At("refresh", "delete")
  /\ delete_duplicate_entry(job.row)
  /\ Goto(IF IsSet(job.left) THEN "insert" ELSE "row")
  /\ UNCHANGED <<fsvars, job, fd, printed, scanned, trust>>

RefreshInsert ==
  /\ At("refresh", "insert")
  /\ duplicate_to_db(NewCount(job.row, job.left), column_int(job.row.each_size), job.left)
  /\ \/ UNCHANGED job
     \/ job' = [job EXCEPT !.todo = @ \cup {NextId(Rows)}]
  /\ Goto("row")
  /\ UNCHANGED <<fsvars, fd, printed, scanned, trust>>

RefreshEnd ==
  /\ At("refresh", "row") /\ RowsLeft = {}
  /\ trust' = IF trust = "deleted" /\ changes = job.since THEN "exact" ELSE trust
  /\ Return
  /\ UNCHANGED <<fsvars, dup, txn, scanned>>

DbNext ==
  /\ \/ ScanUnlink \/ ScanCreate \/ ScanFind \/ ScanPublish \/ ScanCommit
     \/ RefreshRow \/ RefreshLook \/ RefreshLooked
     \/ RefreshDelete \/ RefreshInsert \/ RefreshEnd
  /\ UNCHANGED cachevars

(* What happens to files counts for as much as the rows may rely on them. *)
Trusted(deleted) ==
  trust' = IF trust = "no" \/ ~deleted THEN "no" ELSE "deleted"
=============================================================================
