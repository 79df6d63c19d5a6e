------------------------ MODULE MCModerationHistory ------------------------
(* One softban, which ModLog, audit log and gateway report. *)
EXTENDS ModerationHistory

Softban == <<[does |-> "softban", at |-> 1, red |-> TRUE]>>
OneSoftban ==
  {[deeds |-> Softban, modes |-> {},
    allowed |-> [live |-> 5, calls |-> 0, faults |-> 0, crashes |-> 0, erasures |-> 0, removals |-> 0]]}
=============================================================================
