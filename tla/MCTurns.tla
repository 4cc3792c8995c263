------------------------------ MODULE MCTurns ------------------------------
(***************************************************************************)
(* Model-checking instance of Dispatcher without fairness, in parts:       *)
(*   "turns"    one contact, two roots and a continuation; one turn fails  *)
(*              or the process crashes once; more than two leases only     *)
(*              without a failure and a drain;                             *)
(*   "writes"   two contacts, a root each at a time, no workers; twice a   *)
(*              write of the coordinator raises or a turn fails, in a      *)
(*              drain once;                                                *)
(*   "ingress"  one contact, a root and an ingress record, no workers; one *)
(*              turn fails or the process crashes once.                    *)
(***************************************************************************)
EXTENDS MCDispatcher

CONSTANT Parts
VARIABLE part

Given(S) == {q \in S : doc.items[q].status # "absent"}
Served == {c \in Contacts : \E q \in QueueIds : doc.items[q].contact = c}
First == CHOOSE c \in Contacts : TRUE
Bounded ==
    \/ /\ part = "turns" /\ Given(IngressIds) = {}
       /\ Served \subseteq {First} /\ faults <= 1
       /\ (faults = 0 /\ doc.epoch = 0) \/ Cardinality(LiveLeases(doc)) <= 2
    \/ /\ part = "writes" /\ Given(IngressIds) = {} /\ workers = {}
       /\ Cardinality(Given(RootIds)) = Cardinality(Served)
       /\ doc.epoch = 0 \/ faults <= 1
    \/ /\ part = "ingress" /\ Given(ContIds) = {} /\ workers = {}
       /\ Cardinality(Given(RootIds)) <= 1
       /\ Served \subseteq {First} /\ faults <= 1
WriteRaises == faults' # faults /\ ~Crash /\ \A c \in Contacts : ~RunnerEnds(c)

MCInit == DInit /\ part \in Parts

MCNext ==
    /\ DNext /\ part' = part /\ Bounded'
    /\ IF part = "writes" THEN ~Crash ELSE ~WriteRaises

MCSpec == MCInit /\ [][MCNext]_<<vars, part>>

TSymmetry == Permutations(Leases) \cup Permutations(RootIds)

\* Where no write fails, a root that a turn was given and completed is never run
\* again, heartbeat_scope keeps its lease alive for the whole turn; a write that
\* raises may take the lease away, and the root is run once more.
BatchRunsOnce == part # "writes" => BatchRootsRunOnce
=============================================================================
