----------------------------- MODULE Dispatcher -----------------------------
(***************************************************************************)
(* The running Stemcell around the maintenance document: ManagerDispatcher *)
(* of main.py with its thread per contact, mid-run injection, the main     *)
(* loop's submissions and attestation, the workers a turn starts, and the  *)
(* death of the process.                                                   *)
(*                                                                         *)
(* A step is what one thread does between two points where another can     *)
(* interleave: one holding of _condition, or one transaction of the        *)
(* coordinator.  An admission is <<queue id, lease>>.                      *)
(*                                                                         *)
(* Heartbeats come three to a LeaseTTL, so a unit of time never passes     *)
(* without one; the steps between the return of a turn and the settling of *)
(* its roots, which the code takes at once, let no time pass.              *)
(***************************************************************************)
EXTENDS Maintenance

CONSTANTS
    MaxActive,      \* max_active_contacts
    MaxFaults,      \* bound on failed turns, failed writes and crashes together
    WritesFail      \* may a write of the coordinator raise?

ASSUME DispatcherAssumption ==
    MaxActive \in Nat \ {0} /\ MaxFaults \in Nat /\ WritesFail \in BOOLEAN

VARIABLES
    pending,        \* _pending: contact -> admissions for its thread to pop
    injected,       \* _injected: contact -> admissions handed to a live turn
    batch,          \* contact -> admissions of the turn, later those it settles
    stage,          \* contact -> where its _run_contact thread is; "new": not
                    \* yet started; "lost": never going to be
    mute,           \* contacts whose turn has lost its heartbeat thread
    live,           \* contacts whose turn is registered with injection
    running,        \* _running
    exiting,        \* contacts whose finished thread has yet to replay
    claimedRoots,   \* _claimed_roots
    overflow,       \* admissions submit is about to defer, holding _condition
    main,           \* where the main loop is, and the epoch it attests
    workers,        \* leases of the workers turns have started
    faults,         \* faults so far
    handled,        \* roots whose turn returned and was completed
    joined          \* roots that entered a turn by injection

dispatch == <<pending, injected, batch, stage, mute, live, running, exiting,
              claimedRoots, overflow, main>>
history == <<faults, handled, joined>>
vars == <<doc, dispatch, workers, history>>

Nothing == [c \in Contacts |-> {}]

Held4(c) == pending[c] \cup injected[c] \cup batch[c]
AllHeld == overflow \cup UNION {Held4(c) : c \in Contacts}
HeldLeases == {a[2] : a \in AllHeld} \cup workers
MayFault == faults < MaxFaults

DInit ==
    /\ Init
    /\ pending = Nothing /\ injected = Nothing /\ batch = Nothing
    /\ stage = [c \in Contacts |-> "none"] /\ mute = {} /\ live = {}
    /\ running = {} /\ exiting = {} /\ claimedRoots = 0 /\ overflow = {}
    /\ main = [at |-> "idle", epoch |-> 0]
    /\ workers = {} /\ faults = 0 /\ handled = {} /\ joined = {}

-----------------------------------------------------------------------------
(* Scheduling *)

\* _schedule_admissions_locked for admissions whose contacts have no turn:
\* each gets a thread.  st is where the calling thread has moved the stages,
\* at where the new threads are.
Schedule(A, st, at) ==
    LET of(c) == {a \in A : doc'.items[a[1]].contact = c}
        started == {c \in Contacts : of(c) # {}}
    IN  /\ pending' = [c \in Contacts |-> pending[c] \cup of(c)]
        /\ running' = running \cup started
        /\ stage' = [c \in Contacts |-> IF c \in started THEN at ELSE st[c]]
        /\ claimedRoots' = claimedRoots + Cardinality(A)

\* submit of one contact's root by the main loop, under _condition.  A root
\* that is admitted gets a thread that submit starts when it is done with all
\* contacts, or enters the contact's live turn, or is refused there and will
\* be deferred; a root that is not admitted waits in the durable queue.
Submit(d, q, c, b) ==
    LET adm == <<q, doc'.items[q].lease>> IN
    /\ main.at \in {"idle", "submit"} /\ overflow = {}
    /\ q \notin handled
    /\ EnqueueRoot(d, q, c, b, claimedRoots < MaxActive)
    /\ doc'.items[q].lease \notin HeldLeases
    /\ main' = [main EXCEPT !.at = "submit"]
    /\ UNCHANGED <<exiting, workers, batch, mute, live, faults, handled>>
    /\ \/ /\ doc'.items[q].status = "pending"
          /\ UNCHANGED <<pending, injected, stage, running, claimedRoots,
                         overflow, joined>>
       \/ /\ doc'.items[q].status = "claimed" /\ c \notin running
          /\ Schedule({adm}, stage, "new")
          /\ UNCHANGED <<injected, overflow, joined>>
       \/ /\ doc'.items[q].status = "claimed" /\ c \in running
          /\ c \in live
          /\ injected' = [injected EXCEPT ![c] = @ \cup {adm}]
          /\ claimedRoots' = claimedRoots + 1
          /\ joined' = joined \cup {q}
          /\ UNCHANGED <<pending, stage, running, overflow>>
       \/ /\ doc'.items[q].status = "claimed" /\ c \in running
          /\ overflow' = {adm}
          /\ UNCHANGED <<pending, injected, stage, running, claimedRoots, joined>>

\* After a refused injection, still under _condition
DeferOverflow(d) ==
    /\ overflow # {}
    /\ DeferRoots(d, overflow)
    /\ overflow' = {}
    /\ UNCHANGED <<pending, injected, batch, stage, mute, live, running, exiting,
                   claimedRoots, main, workers, history>>

\* The end of submit: its threads are started, unless the write of a later
\* contact's root (or a deferral) raised; the main loop logs that and goes on.
NewThreads(at) == [c \in Contacts |-> IF stage[c] = "new" THEN at ELSE stage[c]]
SubmitReturns ==
    /\ main.at = "submit"
    /\ main' = [main EXCEPT !.at = "idle"]
    /\ \/ /\ overflow = {}
          /\ stage' = NewThreads("loop") /\ UNCHANGED faults
       \/ /\ WritesFail /\ MayFault /\ faults' = faults + 1
          /\ \E c \in Contacts : stage[c] # "new"
          /\ stage' = NewThreads("lost")
    /\ overflow' = {}
    /\ UNCHANGED <<doc, pending, injected, batch, mute, live, running, exiting,
                   claimedRoots, workers, handled, joined>>

\* Mutant: running contacts are not excluded.
BusyNobody == {}

\* The contacts whose queued roots a replay leaves alone
Busy == running

\* replay_maintenance_queue
Replay(d, st) ==
    /\ overflow = {}
    /\ IF claimedRoots < MaxActive
       THEN /\ ClaimPendingRoots(d, Busy, MaxActive - claimedRoots)
            /\ LET new == {q \in QueueIds : /\ d.items[q].status = "pending"
                                            /\ doc'.items[q].status = "claimed"}
                   A == {<<q, doc'.items[q].lease>> : q \in new}
               IN  /\ {a[2] : a \in A} \cap HeldLeases = {}
                   /\ Schedule(A, st, "loop")
       ELSE stage' = st /\ UNCHANGED <<doc, pending, running, claimedRoots>>
    /\ UNCHANGED <<injected, batch, mute, live, overflow, workers, history>>

-----------------------------------------------------------------------------
(* _run_contact *)

\* Mutant: the admissions are read without being removed.
PopReads(c) == pending

\* self._pending.pop(carbon_id, [])
Pop(c) == [pending EXCEPT ![c] = {}]

\* Pop the admissions, or leave _running when there are none.  A contact has
\* at most one pending admission (OneBatch), so there is one batch.
PopPending(c) ==
    /\ overflow = {} /\ stage[c] = "loop"
    /\ pending' = Pop(c)
    /\ \/ /\ pending[c] # {}
          /\ batch' = [batch EXCEPT ![c] = pending[c]]
          /\ stage' = [stage EXCEPT ![c] = "run"]
          /\ UNCHANGED <<running, exiting>>
       \/ /\ pending[c] = {}
          /\ running' = running \ {c}
          /\ stage' = [stage EXCEPT ![c] = "none"]
          /\ exiting' = exiting \cup {c}
          /\ UNCHANGED batch
    /\ UNCHANGED <<doc, injected, mute, live, claimedRoots, overflow, main, workers, history>>

\* The turn becomes reachable for injection, or stops being so
\* (injection.accepting around each provider call).
OpenInjection(c) ==
    /\ stage[c] = "run" /\ c \notin live
    /\ live' = live \cup {c}
    /\ UNCHANGED <<doc, pending, injected, batch, stage, mute, running, exiting,
                   claimedRoots, overflow, main, workers, history>>
CloseInjection(c) ==
    /\ c \in live
    /\ live' = live \ {c}
    /\ UNCHANGED <<doc, pending, injected, batch, stage, mute, running, exiting,
                   claimedRoots, overflow, main, workers, history>>

\* settled = batch + self._take_injected(carbon_id)
Settled(c) == batch[c] \cup injected[c]

\* The runner returns or raises; what was injected is taken with the batch.
RunnerEnds(c) ==
    /\ overflow = {} /\ stage[c] = "run" /\ c \notin live
    /\ batch' = [batch EXCEPT ![c] = Settled(c)]
    /\ injected' = [injected EXCEPT ![c] = {}]
    /\ mute' = mute \ {c}
    /\ \/ stage' = [stage EXCEPT ![c] = "ok"] /\ UNCHANGED faults
       \/ /\ MayFault /\ faults' = faults + 1
          /\ stage' = [stage EXCEPT ![c] = "failed"]
    /\ UNCHANGED <<doc, pending, live, running, exiting, claimedRoots, overflow,
                   main, workers, handled, joined>>

\* complete_roots, or its failure, which leads to retry_roots
Complete(d, c) ==
    /\ stage[c] = "ok"
    /\ \/ /\ CompleteRoots(d, batch[c])
          /\ stage' = [stage EXCEPT ![c] = "settled"]
          /\ handled' = handled \cup {a[1] : a \in batch[c]}
          /\ UNCHANGED faults
       \/ /\ WritesFail /\ MayFault /\ faults' = faults + 1
          /\ stage' = [stage EXCEPT ![c] = "failed"]
          /\ UNCHANGED <<doc, handled>>
    /\ UNCHANGED <<pending, injected, batch, mute, live, running, exiting, claimedRoots,
                   overflow, main, workers, joined>>

\* retry_roots; when it raises too, the thread ends in the outer finally
Retry(d, c) ==
    /\ stage[c] = "failed"
    /\ \/ /\ RetryRoots(d, batch[c])
          /\ stage' = [stage EXCEPT ![c] = "settled"]
          /\ UNCHANGED <<batch, running, faults>>
       \/ /\ WritesFail /\ MayFault /\ faults' = faults + 1
          /\ overflow = {}
          /\ stage' = [stage EXCEPT ![c] = "none"]
          /\ running' = running \ {c}
          /\ batch' = [batch EXCEPT ![c] = {}]
          /\ UNCHANGED doc
    /\ UNCHANGED <<pending, injected, mute, live, exiting, claimedRoots, overflow, main,
                   workers, handled, joined>>

\* _release_claimed_roots
CountAfter(n) == IF claimedRoots > n THEN claimedRoots - n ELSE 0
ReleaseClaimed(c) ==
    /\ overflow = {} /\ stage[c] = "settled"
    /\ claimedRoots' = CountAfter(Cardinality(batch[c]))
    /\ batch' = [batch EXCEPT ![c] = {}]
    /\ stage' = [stage EXCEPT ![c] = "replay"]
    /\ UNCHANGED <<doc, pending, injected, mute, live, running, exiting, overflow, main,
                   workers, history>>

\* The replay after a batch (when it raises, the thread ends), after a thread
\* has left _running, and in the main loop's tick.
TurnReplay(d, c) ==
    /\ stage[c] = "replay"
    /\ \/ Replay(d, [stage EXCEPT ![c] = "loop"]) /\ UNCHANGED <<exiting, main>>
       \/ /\ WritesFail /\ MayFault /\ overflow = {}
          /\ faults' = faults + 1
          /\ running' = running \ {c}
          /\ stage' = [stage EXCEPT ![c] = "none"]
          /\ UNCHANGED <<doc, pending, injected, batch, mute, live, exiting, claimedRoots,
                         overflow, main, workers, handled, joined>>
ExitReplay(d, c) ==
    /\ c \in exiting
    /\ exiting' = exiting \ {c}
    /\ UNCHANGED main
    /\ \/ Replay(d, stage)
       \/ /\ WritesFail /\ MayFault /\ faults' = faults + 1
          /\ UNCHANGED <<doc, pending, injected, batch, stage, mute, live, running,
                         claimedRoots, overflow, workers, handled, joined>>
\* Mutant: the main loop replays only during maintenance.
TickReplayFenced(d) ==
    /\ main.at = "idle" /\ d.phase # "available"
    /\ Replay(d, stage)
    /\ UNCHANGED <<exiting, main>>
TickReplay(d) ==
    /\ main.at = "idle"
    /\ Replay(d, stage)
    /\ UNCHANGED <<exiting, main>>

-----------------------------------------------------------------------------
(* The attestation of _maintenance_runtime_tick, in the main loop's thread *)

\* public_status: draining and active_count = 0
ReadStatus(d) ==
    /\ main.at = "idle" /\ overflow = {}
    /\ d.phase = "draining"
    /\ Quiescent(d)
    /\ Poll(d)
    /\ main' = [at |-> "status", epoch |-> d.epoch]
    /\ UNCHANGED <<pending, injected, batch, stage, mute, live, running, exiting,
                   claimedRoots, overflow, workers, history>>

\* Mutant: threads between two batches are overlooked.
IdleIfNothingPending == pending = Nothing

\* wait_for_idle(timeout=0)
Idle == running = {} /\ pending = Nothing
CheckIdle ==
    /\ main.at = "status" /\ overflow = {}
    /\ main' = [main EXCEPT !.at =
            IF Idle THEN "inbox" ELSE "idle"]
    /\ UNCHANGED <<doc, pending, injected, batch, stage, mute, live, running, exiting,
                   claimedRoots, overflow, workers, history>>

\* acknowledge_runtime_quiescent with what maintenance_inbox_quiescent said
Attest(d, secured) ==
    /\ main.at = "inbox"
    /\ Acknowledge(d, main.epoch, secured)
    /\ main' = [main EXCEPT !.at = "idle"]
    /\ UNCHANGED <<pending, injected, batch, stage, mute, live, running, exiting,
                   claimedRoots, overflow, workers, history>>

-----------------------------------------------------------------------------
(* Workers, other processes, time and faults *)

\* A turn starts a worker under its own lease.
StartWorker(d, c) ==
    /\ stage[c] = "run"
    /\ \E a \in batch[c], l \in FreshLeases(d) \ HeldLeases :
        /\ AcquireActivity(d, a[2], l)
        /\ workers' = IF doc'.leases[l].live THEN workers \cup {l} ELSE workers
    /\ UNCHANGED <<dispatch, history>>

\* A worker's result is transferred into a continuation, or its lease released
\* (also when the transfer is refused).
WorkerResult(d, l, q, c, b) ==
    /\ l \in workers /\ q \notin handled /\ d.items[q].status = "absent"
    /\ EnqueueContinuation(d, q, c, b, l)
    /\ workers' = workers \ {l}
    /\ UNCHANGED <<dispatch, history>>
WorkerEnds(d, l) ==
    /\ l \in workers
    /\ Release(d, l)
    /\ workers' = workers \ {l}
    /\ UNCHANGED <<dispatch, history>>

\* An ingress record is transferred by a handler of the main loop.
Ingress(d, q, c, b) ==
    /\ main.at = "idle" /\ overflow = {}
    /\ q \notin handled
    /\ EnqueueIngress(d, q, c, b)
    /\ UNCHANGED <<dispatch, workers, history>>

\* The host updater, through the CLI of core/maintenance.py
Update(d) == Updater(d) /\ UNCHANGED <<dispatch, workers, history>>

\* Mutant: only workers are kept alive.
BeatingWorkers == workers

\* A heartbeat of the turn raises, which ends the thread that beats.
HeartbeatDies(c) ==
    /\ stage[c] = "run" /\ c \notin mute
    /\ MayFault /\ faults' = faults + 1
    /\ mute' = mute \cup {c}
    /\ UNCHANGED <<doc, pending, injected, batch, stage, live, running, exiting,
                   claimedRoots, overflow, main, workers, handled, joined>>

\* heartbeat_scope around a runner, and reconcile_maintenance_activities for
\* workers: a unit of time passes and these leases are renewed.
Beating ==
    workers \cup UNION {{a[2] : a \in batch[c]} :
                            c \in {x \in Contacts \ mute : stage[x] = "run"}}

TimePasses ==
    /\ overflow = {} /\ \A c \in Contacts : stage[c] \in {"none", "lost", "run"}
    /\ doc' = Renew(Age(doc), Beating)
    /\ UNCHANGED <<dispatch, workers, history>>

\* The process dies and is started again; only the document survives.
Crash ==
    /\ MayFault /\ faults' = faults + 1
    /\ pending' = Nothing /\ injected' = Nothing /\ batch' = Nothing
    /\ stage' = [c \in Contacts |-> "none"] /\ mute' = {} /\ live' = {}
    /\ running' = {} /\ exiting' = {} /\ claimedRoots' = 0 /\ overflow' = {}
    /\ main' = [main EXCEPT !.at = "idle"]
    /\ UNCHANGED <<doc, workers, handled, joined>>

Turn(d, c) ==
    \/ PopPending(c) \/ RunnerEnds(c) \/ Complete(d, c) \/ Retry(d, c)
    \/ ReleaseClaimed(c) \/ TurnReplay(d, c) \/ ExitReplay(d, c)
MainLoop(d) ==
    \/ DeferOverflow(d) \/ SubmitReturns \/ TickReplay(d) \/ ReadStatus(d) \/ CheckIdle
    \/ \E secured \in BOOLEAN : Attest(d, secured)
Arrivals(d) ==
    \E c \in Contacts, b \in Bodies :
        \/ \E q \in RootIds : Submit(d, q, c, b)
        \/ \E q \in IngressIds : Ingress(d, q, c, b)
        \/ \E l \in workers, q \in ContIds : WorkerResult(d, l, q, c, b)

DNext ==
    LET d == Prune(doc) IN
    \/ \E c \in Contacts : Turn(d, c) \/ OpenInjection(c) \/ CloseInjection(c)
                           \/ StartWorker(d, c) \/ HeartbeatDies(c)
    \/ \E l \in workers : WorkerEnds(d, l)
    \/ MainLoop(d) \/ Arrivals(d) \/ Update(d)
    \/ TimePasses \/ Crash

DSpec == DInit /\ [][DNext]_vars

\* The operating system runs every thread, a turn ends (its iterations and its
\* provider calls are bounded), a worker ends, time passes, and the inbox is
\* sooner or later quiescent when the attestation asks.  Nothing is asked of
\* the updater, of arrivals, or of faults.
Fairness ==
    /\ \A c \in Contacts :
        /\ WF_vars(PopPending(c)) /\ SF_vars(RunnerEnds(c))
        /\ WF_vars(Complete(Prune(doc), c)) /\ WF_vars(Retry(Prune(doc), c))
        /\ WF_vars(ReleaseClaimed(c)) /\ WF_vars(TurnReplay(Prune(doc), c))
        /\ WF_vars(ExitReplay(Prune(doc), c)) /\ WF_vars(CloseInjection(c))
    /\ WF_vars(DeferOverflow(Prune(doc))) /\ WF_vars(SubmitReturns) /\ SF_vars(TickReplay(Prune(doc)))
    /\ SF_vars(ReadStatus(Prune(doc))) /\ WF_vars(CheckIdle)
    /\ WF_vars(\E secured \in BOOLEAN : Attest(Prune(doc), secured))
    /\ SF_vars(Attest(Prune(doc), TRUE))
    /\ \A l \in Leases : WF_vars(WorkerEnds(Prune(doc), l))
    /\ SF_vars(TimePasses)
DFairSpec == DSpec /\ Fairness

-----------------------------------------------------------------------------
(* Properties *)

\* safe_to_stop and the phases past it mean that the process is idle: no
\* thread of the dispatcher holds or runs an admission, although the
\* attestation reads the document, _condition and the inbox one by one.
StopBoundary ==
    doc.safe \/ doc.phase \in {"updating", "validating"} =>
        running = {} /\ AllHeld = {}

\* No root is in two hands: a queue id is held by one contact, in one of
\* pending, injected and batch, under one lease.
OneHolder ==
    /\ \A a, b \in AllHeld : a[1] = b[1] => a = b
    /\ \A c \in Contacts : /\ pending[c] \cap injected[c] = {}
                           /\ pending[c] \cap batch[c] = {}
                           /\ injected[c] \cap batch[c] = {}
    /\ \A c, e \in Contacts : Held4(c) \cap Held4(e) # {} => c = e

\* What _run_contact takes for granted: a popped batch is a single admission,
\* so reviews need no splitting off, and an injected root is always taken by
\* the turn it entered, so none is stranded when the thread leaves.
OneBatch ==
    \A c \in Contacts : /\ Cardinality(pending[c]) <= 1
                        /\ injected[c] # {} => stage[c] = "run"

\* A root that a turn was given as its batch and that the turn completed is
\* gone from the queue: it is never run again.
BatchRootsRunOnce == \A q \in handled \ joined : doc.items[q].status = "absent"

\* "an injected root is completed with the run it entered": when that run
\* completes, the injected root is gone from the queue as well.
InjectedSharesFate == \A q \in handled \cap joined : doc.items[q].status = "absent"

\* "a message for another contact starts independently": a contact that submit
\* put into _running gets its turn and leaves _running again.
StartsIndependently == \A c \in Contacts : c \in running ~> c \notin running

\* A drain ends: the runtime reaches safe_to_stop, or the drain is called off,
\* whatever was running, retrying or left behind by a crash when it began.
DrainEnds == doc.phase = "draining" ~> doc.safe \/ doc.phase # "draining"

\* An accepted root is eventually run to completion, or waits behind a fence:
\* a failed turn, a lost claim or a restart only delays it.
RootsSettle ==
    \A q \in QueueIds :
        doc.items[q].status # "absent" ~>
            doc.items[q].status = "absent" \/ doc.phase # "available"
=============================================================================
