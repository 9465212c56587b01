------------------------------- MODULE PathSet -------------------------------
(***************************************************************************)
(* What the reader and the hashers do to one set of files of equal size (a *)
(* size_list node with its path_list), each while it holds that node's     *)
(* lock: the marking functions of src/paths.c, the passes of               *)
(* src/hashers.c over the set, and the part of src/hashlist.c that a pass  *)
(* sees: which files have which hash.                                      *)
(*                                                                         *)
(* A set is a record: the fields of path_list_head and size_list, its      *)
(* entries, and what operations on it added so far to counters which the   *)
(* code keeps for all sets together.  Hashes are perfect: a file's hash is *)
(* the sequence of the bytes hashed.  When the code would exit(1) the set  *)
(* gets the name of the check in exited.                                   *)
(***************************************************************************)
EXTENDS BlockReader, FiniteSets, FiniteSetsExt

CONSTANT UINT16_MAX   (* 65535                                               *)

NewSet(files, size) ==
  [state |-> "PLS_NEED_DATA", list_size |-> Cardinality(files), buffer_ready |-> 0,
   wanted_bufsize |-> FirstBufsize(size), hash_passes |-> 0, fully_read |-> FALSE,
   entry     |-> [f \in files |-> NewEntry],
   allocated |-> 0,     (* of stats_read_buffers_allocated                   *)
   open      |-> 0,     (* of current_open_files                             *)
   dups      |-> 0,     (* of s_files_completed_dups                         *)
   unique    |-> 0,     (* of s_files_completed_unique                       *)
   processed |-> 0,     (* of stats_size_list_done                           *)
   published |-> {},    (* the groups of files given to duplicate_to_db()    *)
   exited    |-> "none"]

InState(h, states) == {f \in DOMAIN h.entry : h.entry[f].state \in states}
Active(h) == InState(h, {"FS_NEED_DATA", "FS_BUFFER_READY"})
Remaining(h) == InState(h, {"FS_NEED_DATA", "FS_BUFFER_READY", "FS_CACHE_DONE"})

Exit(h, check) == [h EXCEPT !.exited = check]

(* A file gets its final state, and free_path_entry() its buffer, hash context
   and file descriptor. *)
Freed(e, state) ==
  [e EXCEPT !.state = state, !.buffer = << >>, !.bufsize = 0, !.data_in_buffer = 0,
            !.hashed = hash_fn_buf_init, !.fd = FALSE]

Retire(h, files, state) ==
  [h EXCEPT
     !.entry = [f \in DOMAIN @ |-> IF f \in files THEN Freed(@[f], state) ELSE @[f]],
     !.allocated = @ - SumFunctionOnSet([f \in DOMAIN h.entry |-> h.entry[f].bufsize], files),
     !.open = @ - Cardinality({f \in files : h.entry[f].fd})]

\* One file is left, or none: it has nothing to be compared with.
clear_remaining_entry(h) ==
  LET cleared == [Retire(h, Remaining(h), "FS_UNIQUE")
                    EXCEPT !.state = "PLS_DONE", !.list_size = 0]
  IN  IF InState(h, {"FS_DONE"}) # {}
      THEN Exit(cleared, "invalid state in clear_remaining_entry")
      ELSE cleared

MarkNever(h) == h     \* mutant of MarkIfReady

\* After list_size shrank, all the entries left may be ready.
MarkIfReady(h) ==
  IF h.list_size = h.buffer_ready THEN [h EXCEPT !.state = "PLS_ALL_BUFFERS_READY"] ELSE h

\* Mutant of mark_path_entry_unique: no early return for a unique entry.
mark_unique_again(h, f) ==
  LET marked == MarkIfReady([Retire(h, {f}, "FS_UNIQUE") EXCEPT !.list_size = @ - 1])
  IN  IF h.entry[f].state # "FS_NEED_DATA" \/ h.list_size = 0
      THEN Exit(h, "FS_UNIQUE from a wrong state")
      ELSE IF marked.list_size = 1 THEN clear_remaining_entry(marked) ELSE marked

mark_path_entry_unique(h, f) ==
  LET marked == MarkIfReady([Retire(h, {f}, "FS_UNIQUE") EXCEPT !.list_size = @ - 1])
  IN  CASE h.entry[f].state = "FS_UNIQUE" -> h
        [] h.entry[f].state \notin {"FS_UNIQUE", "FS_NEED_DATA", "FS_CACHE_DONE"} ->
             Exit(h, "FS_UNIQUE from a wrong state")
        [] h.entry[f].state \in {"FS_NEED_DATA", "FS_CACHE_DONE"} /\ h.list_size = 0 ->
             Exit(h, "FS_UNIQUE but list size is zero")
        [] OTHER -> IF marked.list_size = 1 THEN clear_remaining_entry(marked) ELSE marked

\* The entry gets ignore_state; the last one left is unique, and the rest may
\* all be ready.
mark_path_entry_ignore_int(h, f, ignore_state) ==
  LET marked == [Retire(h, {f}, ignore_state) EXCEPT !.list_size = @ - 1]
      rest   == IF marked.list_size # 1 THEN marked
                ELSE IF Cardinality(Remaining(marked)) = 1 THEN clear_remaining_entry(marked)
                ELSE Exit(marked, "expected one remaining entry")
  IN  CASE rest.list_size = UINT16_MAX -> Exit(rest, "list_size=-1")
        [] rest.list_size # UINT16_MAX /\ rest.list_size > 1 -> MarkIfReady(rest)
        [] OTHER -> rest

mark_path_entry_ignore(h, f) ==
  CASE h.entry[f].state # "FS_NEED_DATA" -> Exit(h, "FS_IGNORE from a wrong state")
    [] h.entry[f].state = "FS_NEED_DATA" /\ h.list_size = 0 ->
         Exit(h, "FS_IGNORE but list size is zero")
    [] OTHER -> mark_path_entry_ignore_int(h, f, "FS_IGNORE")

(* sort_read_list() found f to be a hard link of another file.  Its set may be
   empty by then, and f unique. *)
mark_path_entry_ignore_hardlink(h, f) ==
  CASE h.list_size = 0 -> h
    [] h.list_size # 0 /\ h.entry[f].state \notin {"FS_NEED_DATA", "FS_UNIQUE"} ->
         Exit(h, "FS_IGNORE_HL from a wrong state")
    [] OTHER -> mark_path_entry_ignore_int(h, f, "FS_IGNORE_HL")

mark_path_entry_ready(h, f) ==
  IF h.state # "PLS_NEED_DATA"
  THEN Exit(h, "mark_path_entry_ready: head->state")
  ELSE MarkIfReady([h EXCEPT !.entry[f].state = "FS_BUFFER_READY", !.buffer_ready = @ + 1])

-----------------------------------------------------------------------------
\* Mutant of Groups: hashes are not compared.
OneGroup(hash) == {DOMAIN hash}

(* The hash table of a pass: files grouped by their hash.  hash is defined on
   the files that were added to it. *)
Groups(hash) == {{g \in DOMAIN hash : hash[g] = hash[f]} : f \in DOMAIN hash}
HasDups(groups) == \E g \in groups : Cardinality(g) > 1

\* skim_uniques(): a file alone with its hash is unique.
Skim(f, h) == [mark_path_entry_unique(h, f) EXCEPT !.unique = @ + 1]
skim_uniques(h, groups) == FoldSet(Skim, h, UNION {g \in groups : Cardinality(g) = 1})

\* publish_duplicate_hash_table(), and increase_dup_counter() after it.
publish(h, groups) ==
  LET dups == {g \in groups : Cardinality(g) > 1}
  IN  [Retire(h, UNION dups, "FS_DONE") EXCEPT
         !.published = @ \cup dups, !.dups = @ + h.list_size]

\* Mutant of process_cached: the set is left to be read.
cached_not_done(h, hash) ==
  skim_uniques([h EXCEPT !.entry = [f \in DOMAIN @ |-> [@[f] EXCEPT !.state = "FS_CACHE_DONE"]]],
               Groups(hash))

(* A set of which all hashes are in the cache: process_cached_hashes() of
   src/sizelist.c does with it what a hasher does, over all of its entries. *)
process_cached(h, hash) ==
  LET looked_up == [h EXCEPT !.entry = [f \in DOMAIN @ |->
                                          [@[f] EXCEPT !.state = "FS_CACHE_DONE"]],
                             !.state = "PLS_DONE"]
      groups    == Groups(hash)
      skimmed   == skim_uniques(looked_up, groups)
      result    == IF HasDups(groups) THEN publish(skimmed, groups) ELSE skimmed
  IN  [result EXCEPT !.processed = @ + 1]

-----------------------------------------------------------------------------
\* How many files the failure of one left unique: "additional" in the code.
Additional(before, after) == before - 1 - after

(* One visit of the reader to file f, which needs data: fill_data_block() and
   what it marks.  keep says whether read_entry_bytes() would keep a file of
   this entry open. *)
reader_visit(h, f, blocks, content, readable, keep) ==
  LET e     == h.entry[f]
      visit == fill_data_block(e, h.wanted_bufsize, blocks, content, readable)
      reads == ~GapFills(e, h.wanted_bufsize, blocks)
      fd    == IF reads THEN keep ELSE e.fd
      grown == [h EXCEPT !.allocated = @ + Growth(e, h.wanted_bufsize),
                         !.entry[f] = [visit.entry EXCEPT !.fd = fd],
                         !.open = @ + (IF fd THEN 1 ELSE 0) - (IF e.fd THEN 1 ELSE 0)]
      \* The failed file is ignored; those this leaves alone are unique.
      ignored == mark_path_entry_ignore(grown, f)
      ready   == mark_path_entry_ready(grown, f)
  IN  CASE visit.outcome = "filling" -> grown
        [] visit.outcome = "ready" ->
             [ready EXCEPT !.fully_read = @ \/ visit.entry.next_read_byte >= Len(content)]
        [] visit.outcome = "unreadable" ->
             [ignored EXCEPT !.unique = @ + Additional(h.list_size, ignored.list_size)]
        [] OTHER -> Exit(grown, visit.outcome)

\* Mutants of PassCompletes.
PassAlwaysCompletes(h, groups) == TRUE
PassCompletesIfRead(h, groups) == h.fully_read

(* A pass completes the set when no duplicates can be left, or when their
   hashes are those of the whole files. *)
PassCompletes(h, groups) == h.fully_read \/ ~HasDups(groups)

(* build_hash_list_round(), and show_processed() when it completed the set. *)
hasher_pass(h, size) ==
  LET ready     == InState(h, {"FS_BUFFER_READY"})
      Hashed(e) == [e EXCEPT !.hashed = update_node_hash(e),
                             !.buffer = << >>, !.data_in_buffer = 0,
                             !.state = "FS_NEED_DATA"]
      updated   == [h EXCEPT !.entry = [f \in DOMAIN @ |->
                                          IF f \in ready THEN Hashed(@[f]) ELSE @[f]],
                             !.state = "PLS_NEED_DATA", !.buffer_ready = 0]
      groups    == Groups([f \in ready |-> hash_fn_get_partial(updated.entry[f].hashed)])
      skimmed   == skim_uniques(updated, groups)
      completed == PassCompletes(h, groups)
      passes    == IF h.hash_passes < 255 THEN h.hash_passes + 1 ELSE h.hash_passes
      result    ==
        IF ~completed
        THEN [skimmed EXCEPT
                !.wanted_bufsize = NextBufsize(h.wanted_bufsize, passes, size)]
        ELSE [(IF HasDups(groups) THEN publish(skimmed, groups) ELSE skimmed)
                EXCEPT !.state = "PLS_DONE", !.processed = @ + 1]
      aligned   == \A f, g \in ready : h.entry[f].data_in_buffer = h.entry[g].data_in_buffer
  IN  IF aligned THEN [result EXCEPT !.hash_passes = passes]
      ELSE Exit(h, "inconsistent amount of data in buffers")

(* What size_list_flusher() does to a set that needs data: hash its files
   from the start, whatever was read of them before.  A file in failed could
   not be read: it is in no group, and keeps its state. *)
flusher_visit(h, content, failed) ==
  LET files   == Active(h)
      fresh   == [h EXCEPT !.entry = [f \in DOMAIN @ |->
                    IF f \in files THEN [@[f] EXCEPT !.state = "FS_NEED_DATA"] ELSE @[f]]]
      groups  == Groups([f \in files \ failed |-> content[f]])
      skimmed == skim_uniques(fresh, groups)
      result  == IF HasDups(groups) THEN publish(skimmed, groups) ELSE skimmed
  IN  IF InState(h, {"FS_DONE"}) # {}
      THEN Exit(h, "flusher bad state")
      ELSE [result EXCEPT !.state = "PLS_DONE", !.processed = @ + 1]
=============================================================================
