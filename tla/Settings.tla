------------------------------ MODULE Settings ------------------------------
(***************************************************************************)
(* What src/main.c makes of the command line: process_args() and the       *)
(* callback opt_add_path().  An option with an argument is a sequence: the *)
(* argument, or nothing.  A number is what atoi() or atol() returns, which *)
(* may be anything.                                                        *)
(***************************************************************************)
EXTENDS Integers, Sequences, SequencesExt

CONSTANTS
  IntSize,                     (* 2^32: of an int and a uint32_t             *)
  LongSize,                    (* 2^64: of a uint64_t                        *)
  DEF_HDD_hash_one_block_size,
  DefaultBlocks,               (* 8: hash_one_max_blocks                     *)
  K512, MB1, MB8, GB1,
  L_PROGRESS, L_MAX_LOG_LEVEL,
  MAX_START_PATH

ASSUME SettingsAssumption ==
  /\ {IntSize, LongSize, DEF_HDD_hash_one_block_size, DefaultBlocks, K512, MB1, MB8, GB1}
       \subseteq Nat \ {0}
  /\ MAX_START_PATH \in Nat \ {0, 1}
  /\ DEF_HDD_hash_one_block_size < IntSize /\ GB1 < LongSize

UInt32(n)      == n % IntSize
UInt64(n)      == n % LongSize
opt_arg(o, default) == IF o = << >> THEN default ELSE o[1]

-----------------------------------------------------------------------------
IsPartOf(s, t) == \E i \in 0 .. Len(t) - Len(s) : SubSeq(t, i + 1, i + Len(s)) = s

OverlapIfBelow(p, q) == IsPartOf(q, p)        \* mutant of Overlap
Overlap(p, q) == IsPartOf(p, q) \/ IsPartOf(q, p)

(* The callback for one --path argument.  paths are those accepted so far,
   path is what realpath() makes of the argument: a path, or NULL. *)
opt_add_path(st, path, directories) ==
  CASE st.state = "exit" -> st
    [] st.state # "exit" /\ path = << >> -> [st EXCEPT !.state = "exit"]
    [] st.state # "exit" /\ path # << >>
         /\ (path \notin directories \/ \E p \in ToSet(st.paths) : Overlap(p, path)) ->
         [st EXCEPT !.state = "START_PATH_ERROR"]
    [] OTHER ->
         [paths |-> Append(st.paths, path),
          state |-> IF Len(st.paths) + 1 = MAX_START_PATH THEN "exit"
                    ELSE IF st.state = "START_PATH_NULL" THEN "START_PATH_GIVEN" ELSE st.state]

start_paths(args, cwd, directories) ==
  LET Add(st, path) == opt_add_path(st, path, directories)
      given == FoldLeft(Add, [paths |-> << >>, state |-> "START_PATH_NULL"], args)
  IN  IF given.state = "START_PATH_NULL" THEN [given EXCEPT !.paths = <<cwd>>] ELSE given

-----------------------------------------------------------------------------
log_level(o) ==
  LET level == opt_arg(o.verbose_level, IF o.quiet THEN -99 ELSE 1) + o.verbose
  IN  IF level > L_MAX_LOG_LEVEL THEN L_MAX_LOG_LEVEL ELSE level

(* --buflimit: a number, perhaps with a suffix; at least 8M.  "0" is none. *)
NoLimit(o) == o.buflimit \in {<< >>, <<[number |-> 0, suffix |-> ""]>>}
user_ram_limit(o) ==
  LET asked == o.buflimit[1]
      unit  == CASE asked.suffix = "M" -> MB1 [] asked.suffix = "G" -> GB1 [] OTHER -> 1
      limit == UInt64(asked.number * unit)
  IN  IF limit < MB8 THEN MB8 ELSE limit

buffer_limit(o, ram) ==
  LET asked == IF NoLimit(o) THEN 0
               ELSE IF user_ram_limit(o) > ram THEN (9 * ram) \div 10 ELSE user_ram_limit(o)
  IN  CASE asked > 0                    -> asked
        [] asked = 0 /\ o.small_buffers -> MB1
        [] OTHER                        -> ram \div 2

\* Mutant of hash_one_block_size: zero is kept.
ZeroBlockSize(o) == UInt32(opt_arg(o.firstblocksize, 0))

hash_one_block_size(o) ==
  LET asked == UInt32(opt_arg(o.firstblocksize, 0))
  IN  IF asked = 0 THEN DEF_HDD_hash_one_block_size ELSE asked

round1_max_bytes(o) ==
  UInt32(hash_one_block_size(o) * opt_arg(o.firstblocks, DefaultBlocks))

cache_min_size(o) ==
  LET asked == UInt64(opt_arg(o.x_cache_min_size, 0))
  IN  CASE asked # 0                                  -> asked
        [] asked = 0 /\ round1_max_bytes(o) < K512    -> K512
        [] OTHER                                      -> round1_max_bytes(o)

minimum_file_size(o) ==
  LET asked == UInt32(opt_arg(o.minsize, 1)) IN IF asked < 1 THEN 1 ELSE asked

sort_bypass(o) == opt_arg(o.sort_by, "def") \in {"inode", "block", "none"}

\* Whether process_args() returns 2: an argument is of no use.
BadArgument(o) ==
  \/ o.exclude_path # << >> /\ o.exclude_path[1][1] # "/"
  \/ opt_arg(o.hash, "xxhash") \notin {"md5", "sha1", "sha512", "xxhash"}
  \/ opt_arg(o.format, "text") \notin {"text", "csv", "json"}
  \/ sort_bypass(o) /\ o.hardlink_is_unique

process_args(o, ram) ==
  [log_level           |-> log_level(o),
   buffer_limit        |-> buffer_limit(o, ram),
   hash_one_block_size |-> hash_one_block_size(o),
   round1_max_bytes    |-> round1_max_bytes(o),
   cache_min_size      |-> cache_min_size(o),
   minimum_file_size   |-> minimum_file_size(o),
   scan_hidden         |-> o.hidden,
   one_file_system     |-> o.one_file_system,
   threaded_sizetree   |-> ~o.no_thread_scan,
   using_fiemap        |-> ~o.x_nofie /\ opt_arg(o.sort_by, "def") \notin {"inode", "none"}]
=============================================================================
