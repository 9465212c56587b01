---------------------------- MODULE MCScanDriver ----------------------------
(***************************************************************************)
(* ScanDriver for TLC: small file systems with every kind of file, on one  *)
(* or two devices, walked with the options that matter to a walk; and many *)
(* command lines over a single file.                                       *)
(***************************************************************************)
EXTENDS ScanDriver, FiniteSets

a  == Root \o <<"a">>
d  == Root \o <<"d">>
e  == Root \o <<"e">>
ds == Join(d, <<"s">>)
In(dir, c) == Join(dir, <<c>>)

File(n)  == [kind |-> "file", dev |-> 1, size |-> n]
Dir      == [kind |-> "dir", dev |-> 1, size |-> 1]
Mount    == [kind |-> "dir", dev |-> 2, size |-> 1]
Link     == [kind |-> "other", dev |-> 1, size |-> 1]

Fs(node, typed, extents, vanishing) ==
  LET dirs == {p \in DOMAIN node : node[p].kind = "dir"}
      Name(dir, p) == SubSeq(p, Len(p) - (Len(p) - Len(Join(dir, << >>))) + 1, Len(p))
      Holds(dir, p) == /\ IsPrefix(Join(dir, << >>), p) /\ p # dir
                       /\ ~\E i \in 1 .. Len(Name(dir, p)) : Name(dir, p)[i] = "/"
  IN  [kind |-> [p \in DOMAIN node |-> node[p].kind], dev |-> [p \in DOMAIN node |-> node[p].dev],
       size |-> [p \in DOMAIN node |-> node[p].size],
       names |-> [dir \in dirs |-> {Name(dir, p) : p \in {q \in DOMAIN node : Holds(dir, q)}}],
       extents |-> [dir \in dirs |-> extents], typed |-> typed, vanishing |-> vanishing]

Extent == <<[fe_logical |-> 0, fe_length |-> 1, fe_physical |-> 0]>>

Tree ==
  d :> Dir @@ In(d, "a") :> File(2) @@ In(d, ".") \o <<"h">> :> File(2) @@ In(d, "b") :> File(0)
  @@ Join(d, <<"x", "FS">>) :> Dir @@ In(d, "l") :> Link
Two == d :> Dir @@ In(d, "a") :> File(2) @@ e :> Dir @@ In(e, "m") :> Mount
       @@ In(In(e, "m"), "b") :> File(2)
Deep == Root :> Dir @@ a :> File(2) @@ d :> Dir @@ ds :> Dir @@ In(ds, "b") :> File(2)
        @@ In(ds, "l") :> Link
Long == d :> Dir @@ ds :> Dir @@ Join(ds, <<"b", "b">>) :> File(2)
        @@ In(Join(d, <<"s", "t">>), "u") :> File(1) @@ Join(d, <<"s", "t">>) :> Dir
One  == Root :> Dir @@ a :> File(1)

Default ==
  [path |-> <<Root>>, cwd |-> Root, ram |-> 40, verbose_level |-> <<2>>, verbose |-> 0,
   quiet |-> FALSE, buflimit |-> << >>, small_buffers |-> FALSE, firstblocksize |-> << >>,
   firstblocks |-> << >>, x_cache_min_size |-> << >>, minsize |-> << >>, sort_by |-> << >>,
   exclude_path |-> << >>, hash |-> << >>, format |-> << >>, hardlink_is_unique |-> FALSE,
   hidden |-> FALSE, one_file_system |-> FALSE, no_thread_scan |-> FALSE, x_nofie |-> FALSE]

Walks(node, paths, vanishing, extents) ==
  {[fs |-> Fs(node, typed, x, v),
    options |-> [Default EXCEPT !.path = path, !.hidden = hidden, !.one_file_system = one,
                                !.no_thread_scan = no_thread]] :
     typed \in BOOLEAN, x \in extents, v \in vanishing, path \in paths,
     hidden \in BOOLEAN, one \in BOOLEAN, no_thread \in BOOLEAN}

Still == Walks(Tree, {<<d>>}, {{}}, {Extent})
         \cup Walks(Two, {<<d, e>>, <<e>>}, {{}}, {Extent})
         \cup Walks(Deep, {<<Root>>, <<ds>>, <<d, ds>>, <<ds, d>>, << >>, <<d, a>>, <<d, << >>>>},
                    {{}}, {Extent})
         \cup Walks(Long, {<<d>>}, {{}}, {Extent})
Vanishing == Walks(Two, {<<d, e>>}, {{In(d, "a"), In(e, "m"), d}}, {Extent, << >>})
             \cup Walks(One, {<<Root>>}, {{Root}, {a}}, {Extent})

Args(values) == {<< >>} \cup {<<v>> : v \in values}
Limits == {<<[number |-> n, suffix |-> x]>> : n \in {-1, 0, 1, 9}, x \in {"", "M", "G"}}
CommandLines ==
  {[Default EXCEPT !.verbose_level = << >>, !.quiet = quiet, !.buflimit = limit,
                   !.small_buffers = small, !.firstblocksize = block, !.firstblocks = blocks,
                   !.x_cache_min_size = cache, !.minsize = min, !.sort_by = sort,
                   !.hardlink_is_unique = sort # << >>] :
     quiet \in BOOLEAN, limit \in Limits \cup {<< >>}, small \in BOOLEAN,
     block \in Args({0, 40, -2}), blocks \in Args({0, 2}), cache \in Args({0, 3}),
     min \in Args({0, -1}), sort \in Args({"block"})}
  \cup {[Default EXCEPT !.exclude_path = x] : x \in {<< <<"a">> >>, <<a>>}}
  \cup {[Default EXCEPT !.hash = h, !.format = f] : h \in {<<"md5">>, <<"crc">>}, f \in {<<"csv">>, <<"xml">>}}

ScanInstances ==
  Still \cup Vanishing
  \cup {[fs |-> Fs(One, TRUE, Extent, {}), options |-> o] : o \in CommandLines}
VanishInstances == Vanishing

(* -1 is what the status thread takes for no time. *)
MCTimes == {-2, -1, 7}
=============================================================================
