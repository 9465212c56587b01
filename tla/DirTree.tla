------------------------------ MODULE DirTree ------------------------------
(***************************************************************************)
(* src/dirtree.c: a directory keeps its own name and its parent, and the   *)
(* path of a file is put together from the names above it, last one first. *)
(* Strings are sequences of characters; "NUL" is the one that ends them.    *)
(***************************************************************************)
EXTENDS Blocks, Integers

CONSTANTS
  ByteSize,            (* 256: name_size is a uint8_t                        *)
  direntry_size        (* sizeof(struct direntry)                            *)

ASSUME DirTreeAssumption ==
  /\ ByteSize \in Nat \ {0}
  /\ direntry_size \in Nat /\ direntry_size <= MaxRequest /\ ByteSize - 1 <= MaxRequest

VARIABLE direntries    (* the directories known, in the order they were made;
                          a parent is a position in it                       *)
NULL == 0

Root == <<"/">>

\* Mutant of total_size: the separator is not counted.
TotalWithoutSeparator(len, parent) ==
  IF parent = NULL THEN len ELSE len + direntries[parent].total_size

total_size(len, parent) ==
  IF parent = NULL THEN len ELSE len + 1 + direntries[parent].total_size

(* The root directory has no name; only a start path can be it. *)
new_child_dir(name, parent) ==
  LET len == IF name = Root THEN 0 ELSE Len(name) % ByteSize
      entry == dirbuf_alloc(dirbuf, direntry_size)
  IN  /\ direntries' = Append(direntries, [name |-> SubSeq(name, 1, len), name_size |-> len,
                                           parent |-> parent,
                                           total_size |-> total_size(len, parent)])
      /\ dirbuf' = IF name = Root THEN entry ELSE dirbuf_alloc(entry, len)

(* internal_build_path(): the string in the buffer, given as a function of the
   positions written.  The last write to a position counts: the names above a
   directory are written after its own, and the file name before all. *)
At(pos, string) == [p \in pos .. pos + Len(string) - 1 |-> string[p - pos + 1]]
Over(late, early) ==
  [p \in DOMAIN late \cup DOMAIN early |-> IF p \in DOMAIN late THEN late[p] ELSE early[p]]

internal_build_path(name, dir) ==
  LET above[d \in 0 .. Len(direntries)] ==
        [pos \in Int |->
           IF d = NULL THEN At(0, << >>)
           ELSE LET e     == direntries[d]
                    start == IF e.name_size > 0 THEN pos - e.name_size - 1 ELSE pos
                IN  Over(Over(above[e.parent][start],
                              At(start, IF e.parent # NULL THEN Root ELSE << >>)),
                         At(start + 1, e.name))]
      pos0 == direntries[dir].total_size
  IN  Over(above[dir][pos0], At(pos0, Root \o name \o <<"NUL">>))

(* The buffer read as a string.  What was not written is unknown. *)
build_path(name, dir) ==
  LET buffer == internal_build_path(name, dir)
      len    == CHOOSE n \in DOMAIN buffer :
                  buffer[n] = "NUL" /\ \A m \in DOMAIN buffer : buffer[m] = "NUL" => m >= n
  IN  [i \in 1 .. len |-> IF i - 1 \in DOMAIN buffer THEN buffer[i - 1] ELSE "unknown"]
=============================================================================
