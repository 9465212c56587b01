---------------------------- MODULE MCScanQueue ----------------------------
(* ScanQueue for TLC: the four queues of the code, shortened to two entries,
   and enough files to go round them twice and a half. *)
EXTENDS ScanQueue
=============================================================================
