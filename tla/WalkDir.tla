------------------------------ MODULE WalkDir ------------------------------
(***************************************************************************)
(* walk_dir() of src/scan.c: the files below a directory, one at a time,   *)
(* with the directories still to be read on a stack; and add_file(), which *)
(* looks at the files some time later, in the worker thread, and by then   *)
(* may not find them.                                                      *)
(*                                                                         *)
(* The queue between the two is that of ScanFifo, which the exchange of    *)
(* src/sizetree.c implements.  "." and ".." are not among the names here;  *)
(* the code passes over them.                                              *)
(***************************************************************************)
EXTENDS DirTree, SequencesExt

CONSTANTS
  Instances,           (* what fs and the options may be                     *)
  DUPD_PATH_MAX

\* What the paths of all that is in a directory begin with.
Base(dir) == IF dir = Root THEN Root ELSE dir \o Root

Join(dir, name)  == Base(dir) \o name
Below(path, dir) == path # dir /\ IsPrefix(Base(dir), path)

(* A tree of directories: the names in one are those of the paths below it, and
   there are no others.  "/" and the end of a string are not part of a name, a
   name has fewer than ByteSize characters (NAME_MAX), and 0 is not the number
   of a device. *)
ASSUME InstancesAssumption ==
  /\ DUPD_PATH_MAX \in Nat
  /\ \A i \in Instances :
       /\ DOMAIN i.fs.kind \subseteq Seq(STRING) \ {<< >>}
       /\ \A path \in DOMAIN i.fs.kind : \A k \in 1 .. Len(path) : path[k] # "NUL"
       /\ DOMAIN i.fs.names = {dir \in DOMAIN i.fs.kind : i.fs.kind[dir] = "dir"}
       /\ \A dir \in DOMAIN i.fs.names : \A name \in i.fs.names[dir] :
            /\ name \in Seq(STRING) \ {<< >>} /\ Len(name) < ByteSize
            /\ \A k \in 1 .. Len(name) : name[k] # "/"
            /\ Join(dir, name) \in DOMAIN i.fs.kind
       /\ \A path, dir \in DOMAIN i.fs.kind : Below(path, dir) =>
            /\ dir \in DOMAIN i.fs.names
            /\ \E name \in i.fs.names[dir] :
                 path = Join(dir, name) \/ Below(path, Join(dir, name))
       /\ \A path \in DOMAIN i.fs.kind : i.fs.dev[path] \in Nat \ {0}

VARIABLES
  fs,                  (* the file system: names[dir], and the kind, device
                          and size of every path; which paths may vanish     *)
  gone,                (* the paths that did                                 *)
  settings,            (* the options                                        *)
  scan_list, current,  (* directories to read, and the one that is read      *)
  left,                (* the names readdir() has yet to return              *)
  device,              (* that of the start path                             *)
  st_dev,              (* new_stat_info.st_dev, Unknown before the first use *)
  s_total_files_seen, s_files_skip_badsep, s_files_skip_notfile, s_files_skip_error,
  queue,               (* files found and not added yet                      *)
  added,               (* files add_file() took                              *)
  s_files_too_small, s_files_in_sizetree,
  exited               (* the check that stopped the program, or "none"      *)

walkvars  == <<scan_list, current, left, device, st_dev>>
countvars == <<s_total_files_seen, s_files_skip_badsep, s_files_skip_notfile,
               s_files_skip_error>>
addvars   == <<added, s_files_too_small, s_files_in_sizetree>>
treevars  == <<dirbuf, direntries>>

NoDir   == [path |-> << >>, dir |-> NULL]
Unknown == -1

WalkInit ==
  /\ gone = {}
  /\ dirbuf = EmptyBuf /\ direntries = << >>
  /\ scan_list = << >> /\ current = NoDir /\ left = {}
  /\ device = Unknown /\ st_dev = Unknown
  /\ s_total_files_seen = 0 /\ s_files_skip_badsep = 0
  /\ s_files_skip_notfile = 0 /\ s_files_skip_error = 0
  /\ queue = << >> /\ added = << >>
  /\ s_files_too_small = 0 /\ s_files_in_sizetree = 0
  /\ exited = "none"

\* The system takes no path of PATH_MAX, which is DUPD_PATH_MAX, or more.
Exists(path) == path \in DOMAIN fs.kind /\ path \notin gone /\ Len(path) < DUPD_PATH_MAX
IsHidden(name) == name[1] = "."
HasSeparator(name) == \E i \in 1 .. Len(name) : name[i] = "FS"

-----------------------------------------------------------------------------
(* add_file().  file.looked_up says whether walk_dir() got its size. *)
AddFile(file) ==
  CASE ~file.looked_up /\ ~Exists(file.path) -> UNCHANGED addvars
    [] (file.looked_up \/ Exists(file.path)) /\ fs.size[file.path] < settings.minimum_file_size ->
         /\ s_files_too_small' = s_files_too_small + 1
         /\ UNCHANGED <<added, s_files_in_sizetree>>
    [] OTHER ->
         /\ s_files_in_sizetree' = s_files_in_sizetree + 1
         /\ added' = Append(added, file)
         /\ UNCHANGED s_files_too_small

\* The worker thread.
WorkerAdd ==
  /\ exited = "none" /\ queue # << >>
  /\ AddFile(Head(queue))
  /\ queue' = Tail(queue)
  /\ UNCHANGED <<fs, gone, settings, walkvars, treevars, countvars, exited>>

-----------------------------------------------------------------------------
\* The beginning of walk_dir().
StartWalk(path) ==
  /\ new_child_dir(path, NULL)
  /\ scan_list' = <<[path |-> path, dir |-> Len(direntries) + 1]>>
  /\ device' = fs.dev[path] /\ st_dev' = Unknown
  /\ UNCHANGED <<current, left>>

OpenDir ==
  /\ exited = "none" /\ scan_list # << >> /\ current = NoDir
  /\ scan_list' = Front(scan_list)
  /\ LET top == scan_list[Len(scan_list)]
     IN  IF Exists(top.path) /\ top.path \in DOMAIN fs.names
         THEN current' = top /\ left' = fs.names[top.path]
         ELSE UNCHANGED <<current, left>>
  /\ UNCHANGED <<fs, gone, settings, device, st_dev, treevars, countvars, queue, addvars, exited>>

CloseDir ==
  /\ exited = "none" /\ current # NoDir /\ left = {}
  /\ current' = NoDir
  /\ UNCHANGED <<fs, gone, settings, scan_list, left, device, st_dev, treevars, countvars, queue,
                 addvars, exited>>

(* What walk_dir() takes a name for, and whether it looked it up: d_type says
   of some file systems what is a file or a directory. *)
TypeOf(path) ==
  CASE fs.typed /\ fs.kind[path] \in {"dir", "file"} -> [type |-> fs.kind[path], looked_up |-> FALSE]
    [] Exists(path) -> [type |-> fs.kind[path], looked_up |-> TRUE]
    [] OTHER -> [type |-> "error", looked_up |-> TRUE]

\* What st_dev is after a get_file_info() of path: as before, if that failed.
DeviceOf(path, before) == IF Exists(path) THEN fs.dev[path] ELSE before

(* What may be read of it: memory that was not written may hold anything. *)
Values(dev) == IF dev = Unknown THEN {Unknown, device} ELSE {dev}

\* The test on a directory.  device > 0 means that there is a device to stay on.
OtherDevice(dev) ==
  /\ settings.one_file_system /\ device > 0
  /\ dev # device

FoundDir(name, path, dev) ==
  \E known \in Values(IF settings.one_file_system THEN DeviceOf(path, dev) ELSE dev) :
      /\ st_dev' = known
      /\ CASE OtherDevice(known) -> UNCHANGED <<scan_list, treevars, exited>>
           [] ~OtherDevice(known) /\ Len(path) >= DUPD_PATH_MAX ->
                exited' = "path too long" /\ UNCHANGED <<scan_list, treevars>>
           [] OTHER -> /\ new_child_dir(name, current.dir)
                       /\ scan_list' = Append(scan_list, [path |-> path,
                                                          dir |-> Len(direntries) + 1])
                       /\ UNCHANGED exited
      /\ UNCHANGED <<countvars, queue, addvars>>

\* add_queue(), or add_file() at once.
FoundFile(name, path, dev, looked_up) ==
  LET file == [path |-> path, name |-> name, dir |-> current.dir, looked_up |-> looked_up]
  IN  /\ CASE settings.threaded_sizetree /\ Len(path) >= DUPD_PATH_MAX ->
                exited' = "path too long" /\ UNCHANGED <<queue, addvars>>
           [] settings.threaded_sizetree /\ Len(path) < DUPD_PATH_MAX ->
                queue' = Append(queue, file) /\ UNCHANGED <<addvars, exited>>
           [] OTHER -> AddFile(file) /\ UNCHANGED <<queue, exited>>
      /\ s_total_files_seen' = s_total_files_seen + 1
      /\ st_dev' = dev
      /\ UNCHANGED <<scan_list, treevars, s_files_skip_badsep, s_files_skip_notfile,
                     s_files_skip_error>>

SkipHidden(name) ==
  /\ ~settings.scan_hidden /\ IsHidden(name)
  /\ UNCHANGED <<scan_list, st_dev, treevars, countvars, queue, addvars, exited>>

\* Mutant of SkipSeparator: the file is not counted among those skipped.
SkipUncounted(name) ==
  /\ settings.scan_hidden \/ ~IsHidden(name)
  /\ HasSeparator(name)
  /\ s_total_files_seen' = s_total_files_seen + 1
  /\ UNCHANGED <<scan_list, st_dev, treevars, s_files_skip_badsep, s_files_skip_notfile,
                 s_files_skip_error, queue, addvars, exited>>

SkipSeparator(name) ==
  /\ settings.scan_hidden \/ ~IsHidden(name)
  /\ HasSeparator(name)
  /\ s_total_files_seen' = s_total_files_seen + 1
  /\ s_files_skip_badsep' = s_files_skip_badsep + 1
  /\ UNCHANGED <<scan_list, st_dev, treevars, s_files_skip_notfile, s_files_skip_error, queue,
                 addvars, exited>>

SkipType(type, dev) ==
  /\ type \in {"other", "error"}
  /\ s_total_files_seen' = s_total_files_seen + 1
  /\ s_files_skip_notfile' = s_files_skip_notfile + (IF type = "other" THEN 1 ELSE 0)
  /\ s_files_skip_error'   = s_files_skip_error + (IF type = "error" THEN 1 ELSE 0)
  /\ st_dev' = dev
  /\ UNCHANGED <<scan_list, treevars, s_files_skip_badsep, queue, addvars, exited>>

TakeName(name) ==
  LET path == Join(current.path, name)
      t    == TypeOf(path)
      dev  == IF t.looked_up THEN DeviceOf(path, st_dev) ELSE st_dev
  IN  /\ settings.scan_hidden \/ ~IsHidden(name)
      /\ ~HasSeparator(name)
      /\ \/ t.type = "dir"  /\ FoundDir(name, path, dev)
         \/ t.type = "file" /\ FoundFile(name, path, dev, t.looked_up)
         \/ SkipType(t.type, dev)

\* A round of the loop over readdir().
ReadEntry ==
  /\ exited = "none" /\ current # NoDir
  /\ \E name \in left :
       /\ left' = left \ {name}
       /\ SkipHidden(name) \/ SkipSeparator(name) \/ TakeName(name)
  /\ UNCHANGED <<fs, gone, settings, current, device>>

\* A name deleted while its directory is read may not be returned.
MissEntry ==
  /\ exited = "none" /\ current # NoDir
  /\ \E name \in left :
       /\ Join(current.path, name) \in gone
       /\ left' = left \ {name}
  /\ UNCHANGED <<fs, gone, settings, scan_list, current, device, st_dev, treevars, countvars,
                 queue, addvars, exited>>

\* Another program deletes a file, or a directory with all that is in it.
Vanish ==
  /\ exited = "none"
  /\ \E path \in fs.vanishing \ gone :
       gone' = gone \cup {p \in DOMAIN fs.kind : p = path \/ Below(p, path)}
  /\ UNCHANGED <<fs, settings, walkvars, treevars, countvars, queue, addvars, exited>>

Walk == OpenDir \/ CloseDir \/ ReadEntry \/ MissEntry

WalkOver == scan_list = << >> /\ current = NoDir
=============================================================================
