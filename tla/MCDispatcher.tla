---------------------------- MODULE MCDispatcher ----------------------------
(* Model-checking instances of Dispatcher. *)
EXTENDS Dispatcher, TLC

\* Progress is checked with a fault or with continuations, not with both.
Waiting(q) == doc.items[q].status # "absent"
FaultOrWork == faults = 0 \/ ~\E q \in ContIds : Waiting(q)
LiveSpec == DInit /\ [][DNext /\ FaultOrWork']_vars /\ Fairness

DSymmetry == Permutations(Leases) \cup Permutations(RootIds) \cup Permutations(Contacts)
=============================================================================
