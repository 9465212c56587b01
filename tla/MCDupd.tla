------------------------------- MODULE MCDupd -------------------------------
(***************************************************************************)
(* Dupd for TLC: three paths, one of which is a part of another as text,   *)
(* or four in two sets of links.  A size of 2 is more than an int holds.   *)
(* Inodes 1 and 4 are on different devices and have the same number.       *)
(***************************************************************************)
EXTENDS Dupd

a  == <<"a">>
ab == <<"a", "b">>
c  == <<"c">>
d  == <<"d">>

Short == <<1>>
Long  == <<1, 2>>

MCContents == {Short, Long}

Disk(i, j, k, content) ==
  [inode |-> a :> i @@ ab :> j @@ c :> k, data |-> content]

MCst_ino == [i \in {1, 2, 3, 4} |-> IF i = 4 THEN 1 ELSE i]

TwoSets ==
  [inode |-> a :> 1 @@ ab :> 2 @@ c :> 1 @@ d :> 2, data |-> <<Short, Long, Short, Short>>]

MCDisks ==
  {Disk(1, 2, 3, <<Short, Short, Short, Short>>), Disk(1, 1, 2, <<Long, Long, Short, Short>>),
   Disk(1, 2, 4, <<Short, Short, Short, Short>>), TwoSets}

MCAsked == {a, c}

Plain  == [hardlink_is_unique |-> FALSE, exclude_path |-> << >>]
Unique == [Plain EXCEPT !.hardlink_is_unique = TRUE]
Exclude == [Plain EXCEPT !.exclude_path = c]

MCOptions == {Plain, Unique}
ExcludeOptions == {Exclude}
=============================================================================
