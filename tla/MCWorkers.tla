----------------------------- MODULE MCWorkers -----------------------------
(***************************************************************************)
(* Model-checking instance of Workers, in two parts that one run explores: *)
(*   "table"    two runs and two callers, at the same time only while no   *)
(*              manager turn is under way; no drain, and no fault but one  *)
(*              that meets the main loop on its way from the browser queue *)
(*              into the table, after which no caller comes;               *)
(*   "fence"    one run and one caller at a time, which starts or stops a  *)
(*              worker; one fault; a drain, and one that takes its place   *)
(*              within a tick.                                             *)
(***************************************************************************)
EXTENDS Workers, TLC

VARIABLE part

UsedRuns == {r \in Runs : procs[r] # "none" \/ \E p \in Actors : act[p].run = r}
Busy == {p \in Callers : act[p] # IdleAct}
Bounded ==
    \/ /\ part = "table" /\ doc.epoch = 0 /\ (faults = 0 \/ Busy = {})
       /\ Cardinality(Busy) <= 1 \/ Claimed(doc) = {}
    \/ /\ part = "fence" /\ Cardinality(UsedRuns) <= 1 /\ Cardinality(Busy) <= 1
       /\ \A p \in Busy : act[p].op = "resume" => act[p].at = "release"
       /\ doc.epoch = 2 => Busy = {} /\ main.at \in {"attest", "idle"}
SecondDrain == doc'.epoch = 2 => doc.epoch = 2 \/ main.at = "attest"
LateFault == part = "table" /\ faults' # faults => Launching(Main)

MCInit == WInit /\ part \in {"table", "fence"}

MCNext == WNext /\ part' = part /\ Bounded' /\ SecondDrain /\ LateFault

MCSpec == MCInit /\ [][MCNext]_<<vars, part>>

WSymmetry == Permutations(Leases) \cup Permutations(Mids) \cup Permutations(Callers)
             \cup Permutations(Runs) \cup Permutations(Profiled)
             \cup Permutations(Workers \ Profiled)
=============================================================================
