---------------------------- MODULE MCSnapshots ----------------------------
(* Model-checking instances of Snapshots. *)
EXTENDS Snapshots, TLC

\* A fault is explored while no update journal names a checkpoint.
FaultOrUpdate == faults = 0 \/ protected = {}
LiveSpec == Init /\ [][Next /\ FaultOrUpdate']_vars /\ Fairness
=============================================================================
