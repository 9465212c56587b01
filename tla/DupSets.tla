------------------------------ MODULE DupSets ------------------------------
(***************************************************************************)
(* What reading and hashing is for: every file of a set of equal size gets *)
(* a verdict, once.  It is a duplicate when it is published in a group,    *)
(* which has all the files of one content that are still undecided; unique *)
(* when no other file of its set that could be read has its content; and   *)
(* ignored when it could not be read.                                      *)
(***************************************************************************)
CONSTANTS Files, setOf

VARIABLES content,   (* the files' contents                                  *)
          unreliable,(* the files that reads may fail for                    *)
          verdict,   (* "open", "duplicate", "unique" or "ignored"           *)
          groups     (* the groups of duplicates published                   *)

dupVars == <<content, unreliable, verdict, groups>>

DupInit ==
  /\ verdict = [f \in Files |-> "open"]
  /\ groups = {}

Equal(f, g) == setOf[f] = setOf[g] /\ content[f] = content[g]

Ignore(f) == f \in unreliable /\ verdict'[f] = "ignored"

\* Every equal of a unique file is ignored, if only in the same step.
FindUnique(f) ==
  /\ verdict'[f] = "unique"
  /\ \A g \in Files \ {f} : Equal(f, g) => verdict'[g] = "ignored"

FindDuplicate(f) ==
  /\ verdict'[f] = "duplicate"
  /\ \E group \in groups' \ groups : f \in group

\* Equal files, and all of those that could be read.
Publish(group) ==
  /\ \E f, g \in group : f # g
  /\ \A f \in group : verdict[f] = "open" /\ verdict'[f] = "duplicate"
  /\ \A f, g \in group : Equal(f, g)
  /\ \A f \in group, g \in Files \ group : Equal(f, g) => verdict'[g] = "ignored"

(* A step decides one or more files: the second of two files is unique as
   soon as the first turns out to be unreadable. *)
DupNext ==
  /\ UNCHANGED <<content, unreliable>>
  /\ \A f \in Files :
       \/ verdict'[f] = verdict[f]
       \/ verdict[f] = "open" /\ (Ignore(f) \/ FindUnique(f) \/ FindDuplicate(f))
  /\ groups \subseteq groups'
  /\ \A group \in groups' \ groups : Publish(group)

DupSpec == DupInit /\ [][DupNext]_dupVars
=============================================================================
