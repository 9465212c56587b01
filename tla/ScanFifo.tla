------------------------------ MODULE ScanFifo ------------------------------
(***************************************************************************)
(* What the threaded scan promises the rest of dupd: the files walk_dir()  *)
(* finds are numbered in the order it finds them, and add_file() is called *)
(* exactly once for each of them, in that order.  scan() goes on to read   *)
(* and hash only when the scan has ended and every file it found has been  *)
(* added.                                                                  *)
(***************************************************************************)
EXTENDS Naturals, Sequences

CONSTANT MaxFiles    (* the most files one scan finds (a bound of the model) *)

VARIABLES found,     (* how many files walk_dir() has found so far           *)
          inserted,  (* the files given to add_file(), in order              *)
          scanning   (* FALSE once scan_done() has returned                  *)

fifoVars == <<found, inserted, scanning>>

FifoInit == found = 0 /\ inserted = << >> /\ scanning = TRUE

Find ==
  /\ scanning
  /\ found < MaxFiles
  /\ found' = found + 1
  /\ UNCHANGED <<inserted, scanning>>

\* The next file in order, never another one.
Insert ==
  /\ Len(inserted) < found
  /\ inserted' = Append(inserted, Len(inserted) + 1)
  /\ UNCHANGED <<found, scanning>>

Finish ==
  /\ scanning
  /\ Len(inserted) = found
  /\ scanning' = FALSE
  /\ UNCHANGED <<found, inserted>>

FifoNext == Find \/ Insert \/ Finish

FifoSpec == FifoInit /\ [][FifoNext]_fifoVars
=============================================================================
