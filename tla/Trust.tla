-------------------------------- MODULE Trust --------------------------------
(* The cached trust policy (core/trust.py) between Glass, trust_policy.json and
   the levels in contacts.json.  The sidecar's reconciler thread (glass_agent.py)
   and the main process (the sync at startup, the trust tools) fetch, apply and
   save with no lock over the whole, so answers are applied out of order.  A
   policy is known by its revision: the team's and the silicon's revisions are
   one number, its entries and its ETag follow from it. *)
EXTENDS Naturals, FiniteSets

CONSTANTS
  MaxRev,     \* changes of the policy in Glass
  MaxFaults   \* crashes of either process
ASSUME TAssumption == MaxRev \in Nat \ {0} /\ MaxFaults \in Nat

Actors == {"sidecar", "main"}

VARIABLES
  glass,     \* the revision in Glass
  told,      \* the last revision a trust.changed message announced
  st,        \* trust_policy.json
  contacts,  \* the revision whose levels contacts.json holds
  want,      \* the request the sidecar's thread will take up next
  pc, got,   \* per actor: where it is, and what it carries from step to step
  faults
tvars == <<glass, told, st, contacts, want, pc, got, faults>>

NoTag == 0
(* _default_state *)
Empty == [rev |-> 0, etag |-> NoTag, boot |-> FALSE, pend |-> 0]
Idle == [rev |-> 0, etag |-> NoTag, then |-> "done"]
(* _pending_revision_is_newer *)
NewerPending(s) == s.pend > s.rev
(* _state_has_current_policy *)
Current(s) == s.boot /\ ~NewerPending(s)
Requests == {"plain", "force"}

At(a, p) == pc[a] = p
To(a, p) == pc' = [pc EXCEPT ![a] = p]
Carry(a, g) == got' = [got EXCEPT ![a] = g]

(* A carbon, the team or another silicon changes the policy. *)
GlassChanges == glass < MaxRev /\ glass' = glass + 1
                /\ UNCHANGED <<told, st, contacts, want, pc, got, faults>>
(* handle_message, "trust.changed"; messages get lost but are not reordered *)
Nudge ==
  /\ \E r \in told + 1 .. glass :
       told' = r /\ st' = [st EXCEPT !.pend = IF r > @ THEN r ELSE @]
  /\ want' = "force"
  /\ UNCHANGED <<glass, contacts, pc, got, faults>>
(* run_live: forced when the socket connects, plain once a minute. *)
Request ==
  /\ want # "force"
  /\ \E w \in Requests : want' = w
  /\ UNCHANGED <<glass, told, st, contacts, pc, got, faults>>

(* reconcile_trust_policy reads the state before it asks Glass. *)
Ask(a, forced, then) ==
  /\ To(a, IF st.boot THEN "fetch" ELSE "bootstrap")
  /\ Carry(a, [rev |-> 0, etag |-> IF forced THEN NoTag ELSE st.etag, then |-> then])
(* TrustPolicyReconciler._run *)
SidecarStarts ==
  /\ At("sidecar", "idle") /\ want \in Requests /\ want' = "no"
  /\ Ask("sidecar", want = "force", "done")
  /\ UNCHANGED <<glass, told, st, contacts, faults>>
(* acquire_activity refuses: the request is forgotten. *)
SidecarFenced ==
  /\ At("sidecar", "idle") /\ want \in Requests /\ want' = "no"
  /\ UNCHANGED <<glass, told, st, contacts, pc, got, faults>>
(* The sync at startup and the tools that look. *)
MainLooks ==
  /\ At("main", "idle") /\ Ask("main", TRUE, "done")
  /\ UNCHANGED <<glass, told, st, contacts, want, faults>>
(* set_contact_trust: a policy that is not current is fetched first. *)
MainSets ==
  /\ At("main", "idle")
  /\ IF Current(st) THEN To("main", "read") /\ UNCHANGED got
     ELSE Ask("main", TRUE, "patch")
  /\ UNCHANGED <<glass, told, st, contacts, want, faults>>
MainReads ==
  /\ \/ At("main", "read")
     \/ At("main", "refreshed") /\ Current(st)
  /\ To("main", "patch") /\ Carry("main", [Idle EXCEPT !.rev = st.rev])
  /\ UNCHANGED <<glass, told, st, contacts, want, faults>>
MainGivesUp ==
  /\ At("main", "refreshed") /\ ~Current(st) /\ To("main", "idle") /\ Carry("main", Idle)
  /\ UNCHANGED <<glass, told, st, contacts, want, faults>>

(* The answer is what Glass holds now; what follows happens later. *)
Answer(a) ==
  /\ \/ At(a, "bootstrap") /\ To(a, "apply")
        /\ Carry(a, [got[a] EXCEPT !.rev = glass, !.etag = NoTag])
     \/ At(a, "fetch") /\ got[a].etag = glass /\ glass # NoTag
        /\ To(a, "unchanged") /\ UNCHANGED got
     \/ At(a, "fetch") /\ (got[a].etag # glass \/ glass = NoTag) /\ To(a, "apply")
        /\ Carry(a, [got[a] EXCEPT !.rev = glass, !.etag = glass])
  /\ UNCHANGED <<glass, told, st, contacts, want, faults>>
(* trust-overrides compares the override's revision, which a later policy may
   have left alone. *)
Patched ==
  /\ At("main", "patch") /\ To("main", "apply")
  /\ \/ glass < MaxRev /\ glass' = glass + 1
        /\ Carry("main", [rev |-> glass + 1, etag |-> NoTag, then |-> "done"])
     \/ got["main"].rev # glass /\ UNCHANGED glass
        /\ Carry("main", [rev |-> glass, etag |-> NoTag, then |-> "raise"])
  /\ UNCHANGED <<told, st, contacts, want, faults>>
(* Any other answer, or none *)
Fails(a) ==
  /\ pc[a] \in {"bootstrap", "fetch", "patch", "ack"}
  /\ To(a, "idle") /\ Carry(a, Idle)
  /\ UNCHANGED <<glass, told, st, contacts, want, faults>>

(* _apply_confirmed_policy: the contacts, then the state. *)
Apply(a) ==
  /\ At(a, "apply") /\ contacts' = got[a].rev /\ To(a, "save")
  /\ UNCHANGED <<glass, told, st, want, got, faults>>
Confirmed(s, g) ==
  [rev |-> g.rev, etag |-> g.etag, boot |-> TRUE,
   pend |-> IF s.pend > g.rev THEN s.pend ELSE 0]
Save(a) ==
  /\ At(a, "save") /\ st' = Confirmed(st, got[a])
  /\ IF got[a].then = "raise" THEN To(a, "idle") /\ Carry(a, Idle)
     ELSE To(a, "ack") /\ UNCHANGED got
  /\ UNCHANGED <<glass, told, contacts, want, faults>>
(* 304: the confirmed snapshot repairs contacts that a crash or another process
   left behind. *)
Unchanged(a) ==
  /\ At(a, "unchanged")
  /\ IF NewerPending(st) THEN To(a, "idle") /\ Carry(a, Idle)
     ELSE To(a, "repair") /\ Carry(a, [got[a] EXCEPT !.rev = st.rev])
  /\ UNCHANGED <<glass, told, st, contacts, want, faults>>
(* Fault: an unchanged policy leaves the contacts alone. *)
RepairedNot(a) == contacts
Repaired(a) == got[a].rev
Repair(a) ==
  /\ At(a, "repair") /\ contacts' = Repaired(a) /\ To(a, "ack")
  /\ UNCHANGED <<glass, told, st, want, got, faults>>
Ack(a) ==
  /\ At(a, "ack")
  /\ To(a, IF got[a].then = "patch" THEN "refreshed" ELSE "idle") /\ Carry(a, Idle)
  /\ UNCHANGED <<glass, told, st, contacts, want, faults>>

Crash(a) ==
  /\ faults < MaxFaults /\ pc[a] # "idle" /\ faults' = faults + 1
  /\ To(a, "idle") /\ Carry(a, Idle)
  /\ want' = IF a = "sidecar" THEN "no" ELSE want
  /\ UNCHANGED <<glass, told, st, contacts>>

Step(a) == Answer(a) \/ Apply(a) \/ Save(a) \/ Unchanged(a) \/ Repair(a) \/ Ack(a)
Main == MainReads \/ MainGivesUp \/ Patched
TInit ==
  /\ glass \in 0 .. 1 /\ told = 0 /\ contacts = 0 /\ want = "no" /\ faults = 0
  /\ st = Empty /\ pc = [a \in Actors |-> "idle"] /\ got = [a \in Actors |-> Idle]
TNext ==
  \/ GlassChanges \/ Nudge \/ Request \/ SidecarStarts \/ SidecarFenced
  \/ MainLooks \/ MainSets \/ Main
  \/ \E a \in Actors : Step(a) \/ Fails(a) \/ Crash(a)

(* A request ends, by its timeout at the latest, and the steps after it are not
   held up.  A minute after minute the sidecar asks again; some of those requests
   are admitted, and some of them answered. *)
TFairness ==
  /\ \A a \in Actors : WF_tvars(Step(a) \/ Fails(a))
  /\ WF_tvars(Main \/ Fails("main"))
  /\ WF_tvars(want = "no" /\ Request)
  /\ SF_tvars(SidecarStarts) /\ SF_tvars(Answer("sidecar")) /\ SF_tvars(Ack("sidecar"))
TSpec == TInit /\ [][TNext]_tvars
TFairSpec == TSpec /\ TFairness

-----------------------------------------------------------------------------
(* Once Glass has stopped changing, the contacts and the cache come to hold its
   policy and keep it, whatever raced, crashed or got lost before. *)
Converges == <>[](contacts = glass /\ st.rev = glass)
=============================================================================
