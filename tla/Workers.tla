------------------------------ MODULE Workers ------------------------------
(***************************************************************************)
(* The worker handler of worker/handler.py over the maintenance document:  *)
(* starting, resuming and stopping workers from manager turns, the browser *)
(* queue that serialises the shared profile, and the sweep of the main     *)
(* loop that claims finished runs, transfers their results and reconciles  *)
(* leases, across the death of the Stemcell, which its workers survive.    *)
(*                                                                         *)
(* A step is one locked update of a file, one transaction of the           *)
(* coordinator, or what is done between taking and releasing a launch      *)
(* lock; only the start of a process and its entry into the table are two  *)
(* steps of that.  The body of a root is the set of runs whose results it  *)
(* carries.                                                                *)
(***************************************************************************)
EXTENDS Maintenance, Sequences, SequencesExt

CONSTANTS
    Workers,        \* worker ids
    Profiled,       \* the browser workers that are not incognito
    Callers,        \* threads and processes that call the handler for a manager
    Runs,           \* run ids (time stamps): the bound on launches
    Main,           \* the main loop, as a caller of _process_browser_queue
    CompletionTTL,  \* the 60 seconds of _claim_completed_worker
    MaxFaults       \* bound on crashes and raising steps

ASSUME WorkersAssumption ==
    /\ Profiled \subseteq Workers /\ Bodies = SUBSET Runs
    /\ None \notin Workers \cup Runs /\ Main \notin Callers
    /\ CompletionTTL \in Nat \ {0} /\ MaxFaults \in Nat

VARIABLES
    registry,   \* _worker_registry.json: worker -> the contact that owns it
    active,     \* _active_workers.json: worker -> its run
    bqueue,     \* _browser_queue.json
    procs,      \* run -> its process
    act,        \* caller or main loop -> the call of the handler it is in
    main,       \* where check_completed_workers and the main loop are
    results,    \* contact -> results that only the main loop's memory holds
    delivered,  \* run -> how often its result entered root_queue
    stopped,    \* runs terminated by stop_worker or by their own launch
    orphans,    \* runs that a fault cut off between their start and their record
    faults,     \* faults so far
    covered     \* work of the epochs below had a lease when a tick last reconciled

files == <<registry, active, bqueue>>
history == <<delivered, stopped, orphans, faults, covered>>
vars == <<doc, files, procs, act, main, results, history>>

Actors == Callers \cup {Main}
NoRun == [run |-> None, contact |-> None, lease |-> None, since |-> 0, claim |-> 0]
IdleAct == [at |-> "idle", op |-> "new", w |-> None, contact |-> None, lease |-> None,
            run |-> None]
IdleMain == [at |-> "idle", todo |-> {}, w |-> None, rec |-> NoRun]
MayFault == faults < MaxFaults
Active(w) == active[w].run # None
InQueue(w) == \E i \in DOMAIN bqueue : bqueue[i].w = w
LiveIn(d, l) == \E m \in Leases : m = l /\ d.leases[m].live
Mentioned == {active[w].lease : w \in Workers} \cup {bqueue[i].lease : i \in DOMAIN bqueue}
             \cup {act[a].lease : a \in Actors} \cup {main.rec.lease}

\* A uuid is new to the document and to the files.
NewLeases(d) == FreshLeases(d) \ Mentioned
OnlyNewLeases(d) == \A l \in Leases : doc'.leases[l].live => d.leases[l].live \/ l \in NewLeases(d)

WInit ==
    /\ Init
    /\ registry = [w \in Workers |-> None] /\ active = [w \in Workers |-> NoRun]
    /\ bqueue = <<>> /\ procs = [r \in Runs |-> "none"]
    /\ act = [a \in Actors |-> IdleAct] /\ main = IdleMain
    /\ results = [c \in Contacts |-> {}]
    /\ delivered = [r \in Runs |-> 0] /\ stopped = {} /\ orphans = {}
    /\ faults = 0 /\ covered = 1

-----------------------------------------------------------------------------
(* Starting and resuming, by a tool of a manager turn or a command it runs *)

\* acquire_descendant_activity: a tool has the lineage of its turn, a command
\* that runs in a process of its own has none.  A refusal ends the call.
Admit(d, p, next) ==
    \E l \in NewLeases(d), parent \in {d.items[q].lease : q \in Claimed(d)} \cup {None} :
        /\ AcquireActivity(d, parent, l)
        /\ act' = IF doc'.leases[l].live THEN [act EXCEPT ![p] = [next EXCEPT !.lease = l]]
                  ELSE act

\* start_worker
StartWorker(d, p, w, c) ==
    /\ act[p].at = "idle"
    /\ Admit(d, p, [IdleAct EXCEPT !.at = "create", !.op = "new", !.w = w, !.contact = c])
    /\ UNCHANGED <<files, procs, main, results, history>>

\* _create_worker_record
CreateRecord(p) ==
    /\ act[p].at = "create"
    /\ IF registry[act[p].w] = None
       THEN /\ registry' = [registry EXCEPT ![act[p].w] = act[p].contact]
            /\ act' = [act EXCEPT ![p].at = "enter"]
       ELSE /\ act' = [act EXCEPT ![p].at = "release"]
            /\ UNCHANGED registry
    /\ UNCHANGED <<doc, active, bqueue, procs, main, results, history>>

\* message_worker
MessageWorker(d, p, w, c) ==
    /\ act[p].at = "idle" /\ registry[w] = c /\ ~Active(w) /\ ~InQueue(w)
    /\ Admit(d, p, [IdleAct EXCEPT !.at = "enter", !.op = "resume", !.w = w, !.contact = c])
    /\ UNCHANGED <<files, procs, main, results, history>>

\* Mutant: each worker has a launch lock of its own, profiled or not.
LockFreeOwn(w) == \A a \in Actors : act[a].at = "launch" => act[a].w # w

\* The launch lock of a worker; profiled browsers share one.
LockFree(w) ==
    \A a \in Actors : act[a].at = "launch" =>
        ~(act[a].w = w \/ {act[a].w, w} \subseteq Profiled)

\* The lock of the browser queue, which a profiled launch holds as well
QueueLockFree == \A a \in Actors : act[a].at = "launch" => act[a].w \notin Profiled

\* _is_profiled_browser_active
ProfileActive == \E w \in Profiled : Active(w)

\* start_browser_worker, start_terminal_worker, start_writer_worker under the
\* launch lock: refuse, queue, or go on to launch.
EnterStart(p) ==
    LET w == act[p].w IN
    /\ act[p].at = "enter" /\ LockFree(w)
    /\ \/ /\ Active(w) \/ InQueue(w)
          /\ \/ act[p].op = "new" /\ act' = [act EXCEPT ![p].at = "unregister"]
             \/ /\ act[p].op = "resume" \/ w \notin Profiled
                /\ act' = [act EXCEPT ![p].at = "release"]
          /\ UNCHANGED bqueue
       \/ /\ ~Active(w) /\ ~InQueue(w) /\ w \in Profiled /\ ProfileActive
          /\ bqueue' = Append(bqueue, [w |-> w, contact |-> act[p].contact,
                                      lease |-> act[p].lease, since |-> doc.epoch])
          /\ act' = [act EXCEPT ![p] = IdleAct]
       \/ /\ ~Active(w) /\ ~InQueue(w) /\ ~(w \in Profiled /\ ProfileActive)
          /\ act' = [act EXCEPT ![p].at = "launch"]
          /\ UNCHANGED bqueue
    /\ UNCHANGED <<doc, registry, active, procs, main, results, history>>

\* A call whose process is started and not yet in the table
Launching(a) == act[a].at = "launch" /\ act[a].run # None

\* Popen, under a new run id: the process is detached and survives the Stemcell.
LaunchStarts(a) ==
    /\ act[a].at = "launch" /\ act[a].run = None /\ registry[act[a].w] # None
    /\ \E r \in {x \in Runs : procs[x] = "none"} :
        /\ procs' = [procs EXCEPT ![r] = "running"]
        /\ act' = [act EXCEPT ![a].run = r]
    /\ UNCHANGED <<doc, files, main, results, history>>

\* _record_active_run: at once for Claude, and for Codex once the new thread
\* has reported its session id.
RecordActiveRun(a) ==
    /\ Launching(a)
    /\ active' = [active EXCEPT ![act[a].w] =
            [run |-> act[a].run, contact |-> act[a].contact, lease |-> act[a].lease,
             since |-> doc.epoch, claim |-> 0]]
    /\ act' = [act EXCEPT ![a] = IdleAct]
    /\ UNCHANGED <<doc, registry, bqueue, procs, main, results, history>>

\* Codex reports no session id within 20 seconds or exits: it is terminated,
\* and the next provider is tried or every one has failed.  When its task
\* cannot be written it is reported as failed, and is left running.
LaunchGivesUp(a) ==
    /\ Launching(a) /\ act[a].op # "resume"
    /\ \/ /\ procs' = [procs EXCEPT ![act[a].run] = "ended"]
          /\ stopped' = stopped \cup {act[a].run}
          /\ UNCHANGED <<orphans, faults>>
       \/ /\ MayFault /\ faults' = faults + 1
          /\ orphans' = orphans \cup {act[a].run}
          /\ UNCHANGED <<procs, stopped>>
    /\ act' = [act EXCEPT ![a].run = None]
    /\ UNCHANGED <<doc, files, main, results, delivered, covered>>

\* The record cannot be written, or the task of a resumed Codex: the call ends
\* with the process running and its lease unreleased.  In the main loop the
\* exception leaves check_completed_workers, whose contexts are lost.
LaunchRaises(a) ==
    /\ Launching(a) /\ MayFault /\ faults' = faults + 1
    /\ orphans' = orphans \cup {act[a].run}
    /\ act' = [act EXCEPT ![a] = IdleAct]
    /\ IF a = Main THEN main' = IdleMain /\ results' = [c \in Contacts |-> {}]
       ELSE UNCHANGED <<main, results>>
    /\ UNCHANGED <<doc, files, procs, delivered, stopped, covered>>

\* Every provider failed.  A new worker is unregistered and its lease given
\* back; a resumed one may report "Claude launch failed", which is not taken
\* for an error, and then its lease is left to expire.
LaunchFails(a) ==
    /\ act[a].at = "launch" /\ act[a].run = None
    /\ \/ act[a].op = "new" /\ act' = [act EXCEPT ![a].at = "unregister"]
       \/ act[a].op = "queue" /\ act' = [act EXCEPT ![a].at = "release"]
       \/ act[a].op = "resume" /\ act' \in {[act EXCEPT ![a].at = "release"],
                                            [act EXCEPT ![a] = IdleAct]}
    /\ UNCHANGED <<doc, files, procs, main, results, history>>

\* _remove_worker_record
Unregister(p) ==
    /\ act[p].at = "unregister"
    /\ registry' = [registry EXCEPT ![act[p].w] = None]
    /\ act' = [act EXCEPT ![p].at = "release"]
    /\ UNCHANGED <<doc, active, bqueue, procs, main, results, history>>

\* release_activity, after which stop_worker looks at the browser queue
ReleaseLease(d, a) ==
    /\ act[a].at = "release"
    /\ IF act[a].lease = None THEN Poll(d) ELSE Release(d, act[a].lease)
    /\ act' = [act EXCEPT ![a] =
            IF act[a].op = "stop" THEN [IdleAct EXCEPT !.at = "browse"] ELSE IdleAct]
    /\ UNCHANGED <<files, procs, main, results, history>>

-----------------------------------------------------------------------------
(* stop_worker *)

\* The queue has one job of a worker (OneJobEach), which is taken out.
StopQueued(p, w, c) ==
    /\ act[p].at = "idle" /\ QueueLockFree
    /\ \E i \in DOMAIN bqueue :
        /\ bqueue[i].w = w /\ bqueue[i].contact = c
        /\ act' = [act EXCEPT ![p] = [IdleAct EXCEPT !.at = "release", !.op = "resume",
                                                     !.lease = bqueue[i].lease]]
        /\ bqueue' = RemoveAt(bqueue, i)
    /\ UNCHANGED <<doc, registry, active, procs, main, results, history>>

\* The record is read and its process terminated; then what is still that run
\* is removed from the table.
StopActive(p, w, c) ==
    /\ act[p].at = "idle" /\ ~InQueue(w) /\ Active(w) /\ active[w].contact = c
    /\ act' = [act EXCEPT ![p] = [IdleAct EXCEPT !.at = "remove", !.op = "stop", !.w = w,
                                  !.lease = active[w].lease, !.run = active[w].run]]
    /\ procs' = [procs EXCEPT ![active[w].run] = "ended"]
    /\ stopped' = stopped \cup {active[w].run}
    /\ UNCHANGED <<doc, files, main, results, delivered, orphans, faults, covered>>

\* Mutant: a record whose completion is claimed is not removed.
WithoutUnclaimed(w, run) ==
    IF active[w].run = run /\ active[w].claim = 0 THEN [active EXCEPT ![w] = NoRun] ELSE active

\* _remove_active_worker with the run that the caller expects
WithoutRun(w, run) == IF active[w].run = run THEN [active EXCEPT ![w] = NoRun] ELSE active
StopRemoves(p) ==
    /\ act[p].at = "remove"
    /\ active' = WithoutRun(act[p].w, act[p].run)
    /\ act' = [act EXCEPT ![p].at = "release"]
    /\ UNCHANGED <<doc, registry, bqueue, procs, main, results, history>>

-----------------------------------------------------------------------------
(* _process_browser_queue *)

\* The first job is taken from the queue and launched under the lease l, or
\* everything is left as it is.
TakeJob(a, l) ==
    /\ bqueue' = Tail(bqueue)
    /\ act' = [act EXCEPT ![a] = [IdleAct EXCEPT !.at = "launch", !.op = "queue",
                    !.w = Head(bqueue).w, !.contact = Head(bqueue).contact, !.lease = l]]
LeaveQueue(a) == act' = [act EXCEPT ![a] = IdleAct] /\ UNCHANGED bqueue

\* Nothing is started while the profile is in use, for an empty queue, and for
\* a job that has lost its lease and cannot have another behind a fence.
Dequeue(d, a) ==
    LET lease == Head(bqueue).lease IN
    /\ act[a].at = "browse" /\ QueueLockFree
    /\ \/ ProfileActive /\ LeaveQueue(a) /\ UNCHANGED doc
       \/ ~ProfileActive /\ bqueue = <<>> /\ LeaveQueue(a) /\ UNCHANGED doc
       \/ /\ ~ProfileActive /\ bqueue # <<>> /\ LiveIn(d, lease)
          /\ Heartbeat(d, lease) /\ TakeJob(a, lease)
       \/ /\ ~ProfileActive /\ bqueue # <<>> /\ ~LiveIn(d, lease)
          /\ d.phase # "available" /\ Poll(d) /\ LeaveQueue(a)
       \/ /\ ~ProfileActive /\ bqueue # <<>> /\ ~LiveIn(d, lease)
          /\ d.phase = "available"
          /\ \E l \in NewLeases(d) : AcquireActivity(d, None, l) /\ TakeJob(a, l)
    /\ UNCHANGED <<registry, active, procs, main, results, history>>

-----------------------------------------------------------------------------
(* check_completed_workers, in the main loop *)

\* A record or a job without a live lease that adopt_prefence_activity would
\* give one: it started before the fence.
Adoptable(d, rec) == ~LiveIn(d, rec.lease) /\ (d.phase = "available" \/ rec.since < d.epoch)

\* Mutant: queued jobs are forgotten.
ReconciledActive(d) == \A w \in Workers : Active(w) => ~Adoptable(d, active[w])
Reconciled(d) == /\ \A w \in Workers : Active(w) => ~Adoptable(d, active[w])
                 /\ \A i \in DOMAIN bqueue : ~Adoptable(d, bqueue[i])

\* reconcile_maintenance_activities, at the beginning of a tick.  It goes
\* through all of them, or raises and the tick goes on without it.
ReconcileEnds(d) == \/ Reconciled(d) /\ UNCHANGED faults
                    \/ MayFault /\ faults' = faults + 1
ReconcileActive(d, w) ==
    /\ main.at \in {"idle", "tick"} /\ Active(w) /\ Adoptable(d, active[w])
    /\ \E l \in NewLeases(d) : /\ AdoptPrefence(d, l, active[w].since < d.epoch)
                               /\ active' = [active EXCEPT ![w].lease = l]
    /\ UNCHANGED <<registry, bqueue, procs, act, main, results, history>>
ReconcileQueued(d, i) ==
    /\ main.at \in {"idle", "tick"} /\ QueueLockFree /\ Adoptable(d, bqueue[i])
    /\ \E l \in NewLeases(d) : /\ AdoptPrefence(d, l, bqueue[i].since < d.epoch)
                               /\ bqueue' = [bqueue EXCEPT ![i].lease = l]
    /\ UNCHANGED <<registry, active, procs, act, main, results, history>>

\* The sweep works on the records it has loaded.
SweepStart(d) ==
    /\ main.at = "idle" /\ ReconcileEnds(d)
    /\ main' = [IdleMain EXCEPT !.at = "sweep",
                                !.todo = {<<w, active[w].run>> : w \in {x \in Workers : Active(x)}}]
    /\ UNCHANGED <<doc, files, procs, act, results, delivered, stopped, orphans, covered>>

\* _claim_completed_worker
Claimable60(w, run) == active[w].run = run /\ active[w].claim = 0

\* Mutant: the record is removed before its result is transferred.
SweepNextRemoves(w, run) ==
    /\ main.at = "sweep" /\ <<w, run>> \in main.todo
    /\ IF procs[run] = "ended" /\ Claimable60(w, run)
       THEN /\ active' = [active EXCEPT ![w] = NoRun]
            /\ main' = [at |-> "transfer", todo |-> main.todo \ {<<w, run>>}, w |-> w,
                        rec |-> active[w]]
       ELSE main' = [main EXCEPT !.todo = @ \ {<<w, run>>}] /\ UNCHANGED active
    /\ UNCHANGED <<doc, registry, bqueue, procs, act, results, history>>

\* A run that goes on is left; a finished one is claimed, unless the worker has
\* another run by now or the claim is taken.
SweepNext(w, run) ==
    /\ main.at = "sweep" /\ <<w, run>> \in main.todo
    /\ IF procs[run] = "ended" /\ Claimable60(w, run)
       THEN /\ active' = [active EXCEPT ![w].claim = CompletionTTL]
            /\ main' = [at |-> "transfer", todo |-> main.todo \ {<<w, run>>}, w |-> w,
                        rec |-> active[w]]
       ELSE main' = [main EXCEPT !.todo = @ \ {<<w, run>>}] /\ UNCHANGED active
    /\ UNCHANGED <<doc, registry, bqueue, procs, act, results, history>>

\* enqueue_continuation under a fresh queue id; a refusal or an error leaves
\* the result with the sweep.
Transfer(d) ==
    /\ main.at = "transfer"
    /\ \/ /\ LiveIn(d, main.rec.lease)
          /\ \E q \in {k \in ContIds : d.items[k].status = "absent" /\ d.receipts[k].ttl = 0} :
                EnqueueContinuation(d, q, main.rec.contact, {main.rec.run}, main.rec.lease)
          /\ delivered' = [delivered EXCEPT ![main.rec.run] = @ + 1]
          /\ main' = [main EXCEPT !.at = "remove"]
          /\ UNCHANGED faults
       \/ /\ \/ ~LiveIn(d, main.rec.lease) /\ Poll(d) /\ UNCHANGED faults
             \/ MayFault /\ faults' = faults + 1 /\ UNCHANGED doc
          /\ main' = [main EXCEPT !.at = "refused"]
          /\ UNCHANGED delivered
    /\ UNCHANGED <<files, procs, act, results, stopped, orphans, covered>>

\* The record is removed; a result that was not transferred is kept in memory
\* and its lease released.
SweepRemoves ==
    /\ main.at \in {"remove", "refused"}
    /\ active' = WithoutRun(main.w, main.rec.run)
    /\ main' = IF main.at = "refused" THEN [main EXCEPT !.at = "drop"]
               ELSE [IdleMain EXCEPT !.at = "sweep", !.todo = main.todo]
    /\ UNCHANGED <<doc, registry, bqueue, procs, act, results, history>>
SweepDrops(d) ==
    /\ main.at = "drop"
    /\ Release(d, main.rec.lease)
    /\ results' = [results EXCEPT ![main.rec.contact] = @ \cup {main.rec.run}]
    /\ main' = [IdleMain EXCEPT !.at = "sweep", !.todo = main.todo]
    /\ UNCHANGED <<files, procs, act, history>>

\* _process_browser_queue at the end of the sweep
SweepBrowses ==
    /\ main.at = "sweep" /\ main.todo = {}
    /\ main' = [IdleMain EXCEPT !.at = "browse"]
    /\ act' = [act EXCEPT ![Main].at = "browse"]
    /\ UNCHANGED <<doc, files, procs, results, history>>

\* The contacts whose manager is in a turn
InTurn(d) == {d.items[q].contact : q \in Claimed(d)}

\* dispatcher.submit of the contexts the tick returned.  Anything that raises
\* before it is logged, and the contexts are gone.
SubmitResults(d) ==
    /\ main.at = "browse" /\ act[Main].at = "idle"
    /\ \/ /\ \E c \in Contacts, q \in RootIds :
                /\ results[c] # {}
                /\ EnqueueRoot(d, q, c, results[c], c \notin InTurn(d)) /\ OnlyNewLeases(d)
                /\ delivered' = [r \in Runs |-> delivered[r] + IF r \in results[c] THEN 1 ELSE 0]
                /\ results' = [results EXCEPT ![c] = {}]
          /\ UNCHANGED <<main, faults>>
       \/ /\ \A c \in Contacts : results[c] = {}
          /\ main' = [main EXCEPT !.at = "tick"]
          /\ UNCHANGED <<doc, results, delivered, faults>>
       \/ /\ MayFault /\ faults' = faults + 1
          /\ results' = [c \in Contacts |-> {}] /\ main' = IdleMain
          /\ UNCHANGED <<doc, delivered>>
    /\ UNCHANGED <<files, procs, act, stopped, orphans, covered>>

\* The tick at the end of the loop attests when no turn is left.  Its
\* reconciliation has seen to the work of every epoch but the one of a fence.
TickReconciled(d) ==
    /\ main.at = "tick" /\ ReconcileEnds(d)
    /\ covered' = IF ~Reconciled(d) THEN 0
                  ELSE IF d.phase = "available" THEN d.epoch + 1 ELSE d.epoch
    /\ main' = [main EXCEPT !.at = "attest"]
    /\ UNCHANGED <<doc, files, procs, act, results, delivered, stopped, orphans>>
TickAttests(d) ==
    /\ main.at = "attest"
    /\ IF d.phase = "draining" /\ Quiescent(d) THEN Acknowledge(d, d.epoch, TRUE) ELSE Poll(d)
    /\ main' = IdleMain
    /\ UNCHANGED <<files, procs, act, results, history>>

-----------------------------------------------------------------------------
(* Turns, processes, time and crashes *)

\* Results become turns, and turns end, as the dispatcher has them.
BeginTurn(d) ==
    /\ ClaimPendingRoots(d, InTurn(d), 1) /\ OnlyNewLeases(d)
    /\ UNCHANGED <<files, procs, act, main, results, history>>
EndTurn(d, q) ==
    /\ CompleteRoots(d, {<<q, d.items[q].lease>>})
    /\ UNCHANGED <<files, procs, act, main, results, history>>

ProcessEnds(r) ==
    /\ procs[r] = "running"
    /\ procs' = [procs EXCEPT ![r] = "ended"]
    /\ UNCHANGED <<doc, files, act, main, results, history>>

\* A unit of time: turns, records and queued jobs are beaten in it, calls of
\* the handler and sweeps are shorter.
TimePasses(d) ==
    /\ main.at = "idle" /\ \A a \in Actors : act[a].at = "idle"
    /\ doc' = Renew(Age(d), {active[w].lease : w \in Workers}
                              \cup {bqueue[i].lease : i \in DOMAIN bqueue}
                              \cup {d.items[q].lease : q \in Claimed(d)})
    /\ active' = [w \in Workers |-> [active[w] EXCEPT !.claim = Less(@)]]
    /\ UNCHANGED <<registry, bqueue, procs, act, main, results, history>>

\* The Stemcell dies and is started again at once, or after a while in which
\* nobody beats.  No file names a process that was started and not recorded.
Crash ==
    /\ MayFault /\ faults' = faults + 1
    /\ orphans' = orphans \cup {act[a].run : a \in {x \in Actors : Launching(x)}}
    /\ act' = [a \in Actors |-> IdleAct] /\ main' = IdleMain
    /\ results' = [c \in Contacts |-> {}]
    /\ \/ UNCHANGED <<doc, active>>
       \/ /\ doc' = Age(doc)
          /\ active' = [w \in Workers |-> [active[w] EXCEPT !.claim = Less(@)]]
    /\ UNCHANGED <<registry, bqueue, procs, delivered, stopped, covered>>

\* The updater raises a fence and may lower it again.  What it does once it has
\* seen safe_to_stop is the subject of Maintenance.
Update(d) ==
    /\ (\E m \in Mids : RequestDrain(d, m, NoDeadline)) \/ CancelDrain(d, None)
    /\ UNCHANGED <<files, procs, act, main, results, history>>

Call(d, p) ==
    \/ \E w \in Workers, c \in Contacts :
            \/ StartWorker(d, p, w, c) \/ MessageWorker(d, p, w, c)
            \/ StopQueued(p, w, c) \/ StopActive(p, w, c)
    \/ CreateRecord(p) \/ EnterStart(p) \/ Unregister(p) \/ StopRemoves(p)
Launch(d, a) ==
    \/ LaunchStarts(a) \/ RecordActiveRun(a) \/ LaunchGivesUp(a) \/ LaunchRaises(a)
    \/ LaunchFails(a) \/ ReleaseLease(d, a) \/ Dequeue(d, a)
Reconcile(d) == \/ \E w \in Workers : ReconcileActive(d, w)
                \/ \E i \in DOMAIN bqueue : ReconcileQueued(d, i)
Sweep(d) ==
    \/ SweepStart(d) \/ (\E w \in Workers, r \in Runs : SweepNext(w, r)) \/ Transfer(d)
    \/ SweepRemoves \/ SweepDrops(d) \/ SweepBrowses \/ SubmitResults(d)
    \/ TickReconciled(d) \/ TickAttests(d)

WNext ==
    LET d == Prune(doc) IN
    \/ \E p \in Callers : Call(d, p)
    \/ \E a \in Actors : Launch(d, a)
    \/ Reconcile(d) \/ Sweep(d)
    \/ BeginTurn(d) \/ (\E q \in Claimed(d) : EndTurn(d, q))
    \/ (\E r \in Runs : ProcessEnds(r))
    \/ TimePasses(d) \/ Crash \/ Update(d)

WSpec == WInit /\ [][WNext]_vars

-----------------------------------------------------------------------------
(* Properties *)

\* "serialises browser starts through a queue so profiles are not shared
\* concurrently": whoever starts, stops and sweeps, the profile never has two
\* browsers that are in the table or on their way into it, and no worker is
\* both queued and active.  A process that a fault cut off is not counted.
UsesProfile(w) ==
    w \in Profiled /\ (Active(w) \/ \E a \in Actors : Launching(a) /\ act[a].w = w)
ProfileSerial ==
    /\ \A v, w \in Workers : UsesProfile(v) /\ UsesProfile(w) => v = w
    /\ \A w \in Workers : ~(InQueue(w) /\ Active(w))

\* The result of a run that was started is never lost by a single fault: it was
\* delivered, or the run is in the table or about to be entered, or the sweep or
\* the main loop holds it, unless the run was stopped or the fault fell between
\* the start of its process and the record of it.
Accounted(r) ==
    \/ delivered[r] > 0 \/ r \in stopped
    \/ \E a \in Actors : Launching(a) /\ act[a].run = r
    \/ \E w \in Workers : active[w].run = r
    \/ main.rec.run = r
    \/ \E c \in Contacts : r \in results[c]
ResultKept ==
    \A r \in Runs : faults <= 1 /\ procs[r] # "none" => Accounted(r) \/ r \in orphans

\* While nothing fails a result enters root_queue once.
DeliveredOnce == faults = 0 => \A r \in Runs : delivered[r] <= 1

\* "Work that demonstrably predates the fence" blocks the stop: a worker or a
\* queued job that is there when safe_to_stop is true started behind the fence,
\* or behind one that was still up when the tick reconciled.
PrefenceBlocks ==
    LET Predates(rec) == rec.since < doc.epoch /\ rec.since < covered IN
    doc.safe => /\ \A w \in Workers : Active(w) => ~Predates(active[w])
                /\ \A i \in DOMAIN bqueue : ~Predates(bqueue[i])
=============================================================================
