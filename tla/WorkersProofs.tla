--------------------------- MODULE WorkersProofs ---------------------------
(***************************************************************************)
(* Proofs about Workers for any workers, callers, runs, contacts, leases   *)
(* and number of faults.  The shared browser profile is never used by two  *)
(* runs, and while nothing fails no result enters root_queue twice: both   *)
(* follow from the files, the calls and the sweep, and of the document     *)
(* only its types are needed.  That older work blocks the stop, and that   *)
(* one fault loses no result, also rests on how long the leases live: who  *)
(* works under which, and what takes it away from him.                     *)
(***************************************************************************)
EXTENDS Workers, MaintenanceProofs, SequenceTheorems

RunRecord == [run: Runs \cup {None}, contact: Contacts \cup {None}, lease: Leases \cup {None},
              since: Nat, claim: 0..CompletionTTL]
Job == [w: Profiled, contact: Contacts, lease: Leases, since: Nat]
CallRecord == [at: {"idle", "create", "enter", "launch", "unregister", "release", "remove",
                    "browse"},
               op: {"new", "resume", "stop", "queue"},
               w: Workers \cup {None}, contact: Contacts \cup {None},
               lease: Leases \cup {None}, run: Runs \cup {None}]
SweepRecord == [at: {"idle", "sweep", "transfer", "remove", "refused", "drop", "browse",
                     "tick", "attest"},
                todo: SUBSET (Workers \X Runs), w: Workers \cup {None}, rec: RunRecord]

\* A run that is recorded belongs to a contact and has a lease.
Whole(rec) == rec.run # None => rec.contact \in Contacts /\ rec.lease \in Leases

\* The stages in which the sweep has a finished run in its hands
Claiming == main.at \in {"transfer", "remove", "refused", "drop"}

\* What a call in the stages that use it has
FitCall(rec) ==
    /\ rec.at \in {"create", "enter", "launch", "unregister", "remove"} => rec.w \in Workers
    /\ rec.at \in {"create", "enter", "launch"} =>
            rec.contact \in Contacts /\ rec.lease \in Leases
    /\ rec.at \in {"create", "enter"} => rec.run = None
    /\ rec.at = "remove" => rec.run \in Runs

\* The types of the files, the calls and the sweep
TableOK == active \in [Workers -> RunRecord] /\ \A w \in Workers : Whole(active[w])
ActsOK == act \in [Actors -> CallRecord] /\ \A a \in Actors : FitCall(act[a])
SweepOK == /\ main \in SweepRecord /\ Whole(main.rec)
           /\ Claiming => main.w \in Workers /\ main.rec.run \in Runs
RestOK == /\ registry \in [Workers -> Contacts \cup {None}]
          /\ procs \in [Runs -> {"none", "running", "ended"}]
          /\ results \in [Contacts -> SUBSET Runs]
          /\ delivered \in [Runs -> Nat] /\ stopped \subseteq Runs /\ orphans \subseteq Runs
          /\ faults \in Nat /\ covered \in Nat
WTypeOK == TableOK /\ ActsOK /\ SweepOK /\ RestOK /\ bqueue \in Seq(Job)

\* The jobs of the queue, by their position
LEMMA JobTyped ==
  ASSUME NEW s \in Seq(Job)
  PROVE  /\ DOMAIN s = 1..Len(s) /\ Len(s) \in Nat
         /\ \A i \in DOMAIN s : s[i] \in Job
BY ElementOfSeq, LenProperties

\* Taking a job out
LEMMA RemoveTyped ==
  ASSUME NEW s \in Seq(Job), NEW i \in DOMAIN s
  PROVE  /\ RemoveAt(s, i) \in Seq(Job) /\ Len(RemoveAt(s, i)) = Len(s) - 1
         /\ \A j \in 1..Len(s) - 1 : RemoveAt(s, i)[j] = IF j < i THEN s[j] ELSE s[j + 1]
<1>1. Len(s) \in Nat /\ i \in 1..Len(s) /\ \A j \in 1..Len(s) : s[j] \in Job
  BY JobTyped
<1> DEFINE a == SubSeq(s, 1, i - 1)  b == SubSeq(s, i + 1, Len(s))
<1>2. a \in Seq(Job) /\ Len(a) = i - 1 /\ \A j \in 1..i - 1 : a[j] = s[j]
  BY <1>1, SubSeqProperties
<1>3. b \in Seq(Job) /\ Len(b) = Len(s) - i /\ \A j \in 1..Len(s) - i : b[j] = s[j + i]
  BY <1>1, SubSeqProperties
<1> HIDE DEF a, b
<1>4. /\ a \o b \in Seq(Job) /\ Len(a \o b) = Len(s) - 1
      /\ \A j \in 1..Len(s) - 1 : (a \o b)[j] = IF j <= i - 1 THEN a[j] ELSE b[j - (i - 1)]
  <2>1. /\ a \o b \in Seq(Job) /\ Len(a \o b) = Len(a) + Len(b)
        /\ \A j \in 1..Len(a) + Len(b) : (a \o b)[j] = IF j <= Len(a) THEN a[j] ELSE b[j - Len(a)]
    BY <1>2, <1>3, ConcatProperties
  <2>2. Len(a) = i - 1 /\ Len(a) + Len(b) = Len(s) - 1
    BY <1>1, <1>2, <1>3
  <2> QED
    BY <2>1, <2>2
<1>5. ASSUME NEW j \in 1..Len(s) - 1
      PROVE  (a \o b)[j] = IF j < i THEN s[j] ELSE s[j + 1]
  <2>1. CASE j < i
    BY <1>1, <1>2, <1>4, <2>1
  <2>2. CASE ~(j < i)
    <3>1. j - (i - 1) \in 1..Len(s) - i /\ j - (i - 1) + i = j + 1
      BY <1>1, <2>2
    <3>2. (a \o b)[j] = b[j - (i - 1)]
      BY <1>1, <1>4, <2>2
    <3> QED
      BY <1>1, <1>3, <2>2, <3>1, <3>2
  <2> QED
    BY <2>1, <2>2
<1> QED
  BY <1>4, <1>5 DEF RemoveAt, a, b

-----------------------------------------------------------------------------
(* The document under the handler *)

\* What the handler and its surroundings do to the pruned document d
DocumentOps(d) ==
    \/ doc' = d \/ Updater(d)
    \/ \E l \in Leases : Release(d, l) \/ Heartbeat(d, l) \/ Acquire(d, l)
    \/ \E c \in Contacts, b \in Bodies :
        \/ \E q \in RootIds, admit \in BOOLEAN : EnqueueRoot(d, q, c, b, admit)
        \/ \E q \in ContIds, l \in Leases : EnqueueContinuation(d, q, c, b, l)
    \/ \E x : ClaimPendingRoots(d, x, 1)
    \/ \E A : CompleteRoots(d, A)
    \/ \E n : Acknowledge(d, n, TRUE)

\* Each of them keeps the invariant of the document.
LEMMA DocumentOpsInv ==
  ASSUME NEW d, Inv(d), ClaimsAreLeased(d), DocumentOps(d)
  PROVE  Inv(doc')
<1>1. ASSUME NEW l \in Leases, Release(d, l) \/ Heartbeat(d, l) \/ Acquire(d, l)
      PROVE  Inv(doc')
  BY <1>1, DropLeaseInv, HeartbeatInv, AcquireInv DEF Release
<1>2. ASSUME NEW c \in Contacts, NEW b \in Bodies,
             \/ \E q \in RootIds, admit \in BOOLEAN : EnqueueRoot(d, q, c, b, admit)
             \/ \E q \in ContIds, l \in Leases : EnqueueContinuation(d, q, c, b, l)
      PROVE  Inv(doc')
  BY <1>2, EnqueueRootInv, EnqueueContinuationInv
<1>3. ASSUME NEW x, ClaimPendingRoots(d, x, 1) PROVE Inv(doc')
  BY <1>3, ClaimPendingRootsInv
<1>4. ASSUME NEW A, CompleteRoots(d, A) PROVE Inv(doc')
  BY <1>4, SettleRootsInv
<1>5. ASSUME NEW n, Acknowledge(d, n, TRUE) PROVE Inv(doc')
  BY <1>5, AcknowledgeInv
<1> QED
  BY <1>1, <1>2, <1>3, <1>4, <1>5, UpdaterInv DEF DocumentOps

\* The document after any step
LEMMA WDocumentInv ==
  ASSUME WTypeOK, Inv(doc), [WNext]_vars
  PROVE  Inv(doc)'
<1> SUFFICES ASSUME NEW d, d = Prune(doc), Inv(d), ClaimsAreLeased(d),
                    \/ UNCHANGED vars
                    \/ \E p \in Callers : Call(d, p)
                    \/ \E a \in Actors : Launch(d, a)
                    \/ Reconcile(d) \/ Sweep(d)
                    \/ BeginTurn(d) \/ (\E q \in Claimed(d) : EndTurn(d, q))
                    \/ (\E r \in Runs : ProcessEnds(r))
                    \/ TimePasses(d) \/ Crash \/ Update(d)
             PROVE  Inv(doc')
  BY PruneInv DEF WNext, Inv, FenceIn, QuiescentIn, NoTurnIn, OwnerIn, BookkeepingIn, ReceiptIn
<1>0. (DocumentOps(d) => Inv(doc')) /\ (doc' = doc => Inv(doc'))
  BY DocumentOpsInv
<1>1. ASSUME NEW p \in Callers, Call(d, p) PROVE doc' = doc \/ DocumentOps(d)
  <2>1. ASSUME NEW next, Admit(d, p, next) PROVE DocumentOps(d)
    <3>1. PICK l \in NewLeases(d), x \in {d.items[q].lease : q \in Claimed(d)} \cup {None} :
               AcquireActivity(d, x, l)
      BY <2>1 DEF Admit
    <3>2. x \in Leases \cup {None}
      BY DEF Claimed, Inv, Document, Item
    <3> QED
      BY <3>1, <3>2 DEF DocumentOps, Acquire, NewLeases, FreshLeases
  <2>2. ASSUME NEW w, NEW c, StartWorker(d, p, w, c) \/ MessageWorker(d, p, w, c)
        PROVE  DocumentOps(d)
    BY <2>1, <2>2 DEF StartWorker, MessageWorker
  <2>3. ASSUME \/ \E w, c : StopQueued(p, w, c) \/ StopActive(p, w, c)
               \/ CreateRecord(p) \/ EnterStart(p) \/ Unregister(p) \/ StopRemoves(p)
        PROVE  doc' = doc
    BY <2>3 DEF StopQueued, StopActive, CreateRecord, EnterStart, Unregister, StopRemoves
  <2> QED
    BY <1>1, <2>2, <2>3 DEF Call
<1>2. ASSUME NEW a \in Actors, Launch(d, a) PROVE doc' = doc \/ DocumentOps(d)
  <2>1. CASE ReleaseLease(d, a)
    BY <2>1 DEF WTypeOK, ActsOK, CallRecord, ReleaseLease, Poll, DocumentOps
  <2>2. CASE Dequeue(d, a)
    <3>1. bqueue # <<>> => Head(bqueue).lease \in Leases
      <4>1. bqueue # <<>> => Head(bqueue) \in Job
        BY HeadTailProperties DEF WTypeOK
      <4> QED
        BY <4>1 DEF Job
    <3> QED
      BY <2>2, <3>1 DEF Dequeue, Poll, DocumentOps, Acquire, NewLeases, FreshLeases
  <2> QED
    BY <1>2, <2>1, <2>2
       DEF Launch, LaunchStarts, RecordActiveRun, LaunchGivesUp, LaunchRaises, LaunchFails
<1>3. CASE Reconcile(d)
  <2>1. ASSUME NEW l \in NewLeases(d), NEW since \in Nat, AdoptPrefence(d, l, since < d.epoch)
        PROVE  Inv(doc')
    <3>1. (since < d.epoch) \in BOOLEAN
      BY DEF Inv, Document
    <3> QED
      BY <1>0, <2>1, <3>1 DEF DocumentOps, Acquire, NewLeases, FreshLeases
  <2>2. CASE \E w \in Workers : ReconcileActive(d, w)
    <3>1. \A w \in Workers : active[w].since \in Nat
      BY DEF WTypeOK, TableOK, RunRecord
    <3> QED
      BY <2>1, <2>2, <3>1 DEF ReconcileActive
  <2>3. CASE \E i \in DOMAIN bqueue : ReconcileQueued(d, i)
    <3>1. \A i \in DOMAIN bqueue : bqueue[i].since \in Nat
      BY JobTyped DEF WTypeOK, Job
    <3> QED
      BY <2>1, <2>3, <3>1 DEF ReconcileQueued
  <2> QED
    BY <1>0, <1>3, <2>2, <2>3 DEF Reconcile
<1>4. CASE Sweep(d)
  <2>1. CASE Transfer(d)
    <3>1. /\ main.rec.contact \in Contacts /\ main.rec.lease \in Leases
          /\ {main.rec.run} \in Bodies
      <4>1. main.rec.run \in Runs /\ Whole(main.rec)
        BY <2>1 DEF Transfer, WTypeOK, SweepOK, Claiming
      <4>2. main.rec.run # None
        BY <4>1, WorkersAssumption
      <4> QED
        BY <4>1, <4>2, WorkersAssumption DEF Whole
    <3>2. \/ \E q \in ContIds :
               EnqueueContinuation(d, q, main.rec.contact, {main.rec.run}, main.rec.lease)
          \/ doc' = d \/ doc' = doc
      BY <2>1 DEF Transfer, Poll
    <3>3. doc' = doc \/ DocumentOps(d)
      BY <3>1, <3>2 DEF DocumentOps
    <3> QED
      BY <1>0, <3>3
  <2>2. CASE SweepDrops(d)
    <3>1. main.rec.lease \in Leases
      <4>1. main.rec.run \in Runs /\ Whole(main.rec)
        BY <2>2 DEF SweepDrops, WTypeOK, SweepOK, Claiming
      <4> QED
        BY <4>1, WorkersAssumption DEF Whole
    <3> QED
      BY <1>0, <2>2, <3>1 DEF SweepDrops, DocumentOps
  <2>3. CASE SubmitResults(d)
    <3>1. \A c \in Contacts : results[c] \in Bodies
      BY WorkersAssumption DEF WTypeOK, RestOK
    <3>2. \/ doc' = doc
          \/ \E c \in Contacts, q \in RootIds :
                EnqueueRoot(d, q, c, results[c], c \notin InTurn(d))
      BY <2>3 DEF SubmitResults
    <3>3. doc' = doc \/ DocumentOps(d)
      BY <3>1, <3>2 DEF DocumentOps
    <3> QED
      BY <1>0, <3>3
  <2>4. CASE TickAttests(d)
    BY <1>0, <2>4 DEF TickAttests, Poll, DocumentOps
  <2> QED
    BY <1>0, <1>4, <2>1, <2>2, <2>3, <2>4
       DEF Sweep, SweepStart, SweepNext, SweepRemoves, SweepBrowses, TickReconciled
<1>5. CASE TimePasses(d)
  BY <1>5, AgeInv, RenewInv DEF TimePasses
<1>6. CASE Crash
  BY <1>6, AgeInv DEF Crash
<1>7. CASE Update(d)
  <2>1. Updater(d)
    BY <1>7 DEF Update, Updater
  <2> QED
    BY <1>0, <2>1 DEF DocumentOps
<1> QED
  BY <1>0, <1>1, <1>2, <1>3, <1>4, <1>5, <1>6, <1>7
     DEF BeginTurn, EndTurn, ProcessEnds, DocumentOps, vars

-----------------------------------------------------------------------------
(* The types *)

\* The call of one actor moves on.
LEMMA ActsKept ==
  ASSUME ActsOK, NEW a \in Actors, NEW rec \in CallRecord, FitCall(rec),
         act' = [act EXCEPT ![a] = rec]
  PROVE  ActsOK'
BY DEF ActsOK, FitCall

\* A call that ends, or goes on with what it has
LEMMA CallGoesOn ==
  ASSUME ActsOK, NEW a \in Actors,
         \/ act' = act
         \/ act' = [act EXCEPT ![a] = IdleAct]
         \/ act' = [act EXCEPT ![a].at = "release"]
         \/ act[a].w \in Workers /\ act' = [act EXCEPT ![a].at = "unregister"]
         \/ /\ act[a].w \in Workers /\ act[a].contact \in Contacts /\ act[a].lease \in Leases
            /\ act[a].run = None
            /\ \E at \in {"enter", "launch"} : act' = [act EXCEPT ![a].at = at]
  PROVE  ActsOK'
<1>1. act[a] \in CallRecord /\ IdleAct \in CallRecord /\ FitCall(IdleAct)
  BY DEF ActsOK, IdleAct, CallRecord, FitCall
<1>2. CASE act' = act
  BY <1>2 DEF ActsOK
<1>3. CASE act' = [act EXCEPT ![a] = IdleAct]
  BY <1>1, <1>3, ActsKept
<1>4. ASSUME NEW at \in {"release", "unregister", "enter", "launch"},
             at \in {"enter", "launch", "unregister"} => act[a].w \in Workers,
             at \in {"enter", "launch"} => act[a].contact \in Contacts /\ act[a].lease \in Leases,
             at = "enter" => act[a].run = None,
             act' = [act EXCEPT ![a].at = at]
      PROVE  ActsOK'
  <2> DEFINE rec == [act[a] EXCEPT !.at = at]
  <2>1. rec \in CallRecord /\ FitCall(rec)
    BY <1>1, <1>4 DEF CallRecord, FitCall
  <2>2. act' = [act EXCEPT ![a] = rec]
    BY <1>4
  <2> HIDE DEF rec
  <2> QED
    BY <2>1, <2>2, ActsKept
<1> QED
  BY <1>2, <1>3, <1>4

\* Removing a record from the table
LEMMA TableLess ==
  ASSUME TableOK, NEW w, active' \in {active, [active EXCEPT ![w] = NoRun]}
  PROVE  TableOK'
<1>1. NoRun \in RunRecord /\ Whole(NoRun)
  BY WorkersAssumption DEF NoRun, RunRecord, Whole
<1> QED
  BY <1>1 DEF TableOK, Whole

\* A call of the handler by a manager
LEMMA CallTyped ==
  ASSUME WTypeOK, Inv(doc), NEW d, NEW p \in Callers, Call(d, p)
  PROVE  WTypeOK'
<1>1. p \in Actors /\ act[p] \in CallRecord /\ FitCall(act[p])
      /\ ActsOK /\ TableOK /\ SweepOK /\ RestOK /\ bqueue \in Seq(Job)
  BY DEF WTypeOK, ActsOK, Actors
<1>2. SweepOK'
  <2>1. main' = main
    BY DEF Call, StartWorker, MessageWorker, StopQueued, StopActive, CreateRecord,
           EnterStart, Unregister, StopRemoves
  <2> QED
    BY <1>1, <2>1 DEF SweepOK, Claiming, Whole
<1> DEFINE Goal == TableOK' /\ ActsOK' /\ RestOK' /\ bqueue' \in Seq(Job)
<1>3. active' = active => TableOK'
  BY <1>1 DEF TableOK, Whole
<1>4. UNCHANGED <<registry, procs, results, history>> => RestOK'
  BY <1>1 DEF RestOK, history
<1>5. ASSUME NEW w \in Workers, NEW c \in Contacts,
             StartWorker(d, p, w, c) \/ MessageWorker(d, p, w, c)
      PROVE  Goal
  <2>1. ASSUME NEW l \in Leases, NEW next \in CallRecord,
               next.at \in {"create", "enter"}, next.w = w, next.contact = c, next.run = None,
               act' = [act EXCEPT ![p] = [next EXCEPT !.lease = l]]
        PROVE  ActsOK'
    <3> DEFINE rec == [next EXCEPT !.lease = l]
    <3>1. rec \in CallRecord /\ FitCall(rec)
      BY <2>1 DEF CallRecord, FitCall
    <3> HIDE DEF rec
    <3> QED
      BY <1>1, <2>1, <3>1, ActsKept DEF rec
  <2>2. ASSUME NEW next \in CallRecord, next.at \in {"create", "enter"}, next.w = w,
               next.contact = c, next.run = None, Admit(d, p, next)
        PROVE  ActsOK'
    <3>1. PICK l \in Leases : act' \in {act, [act EXCEPT ![p] = [next EXCEPT !.lease = l]]}
      BY <2>2 DEF Admit, NewLeases, FreshLeases
    <3>2. CASE act' = act
      BY <1>1, <3>2 DEF ActsOK
    <3> QED
      BY <2>1, <2>2, <3>1, <3>2
  <2>3. ActsOK'
    <3>1. CASE StartWorker(d, p, w, c)
      <4> DEFINE next == [IdleAct EXCEPT !.at = "create", !.op = "new", !.w = w, !.contact = c]
      <4>1. next \in CallRecord /\ next.at = "create" /\ next.w = w /\ next.contact = c /\ next.run = None
        BY DEF IdleAct, CallRecord
      <4>2. Admit(d, p, next)
        BY <3>1 DEF StartWorker
      <4> HIDE DEF next
      <4> QED
        BY <2>2, <4>1, <4>2
    <3>2. CASE MessageWorker(d, p, w, c)
      <4> DEFINE next == [IdleAct EXCEPT !.at = "enter", !.op = "resume", !.w = w, !.contact = c]
      <4>1. next \in CallRecord /\ next.at = "enter" /\ next.w = w /\ next.contact = c /\ next.run = None
        BY DEF IdleAct, CallRecord
      <4>2. Admit(d, p, next)
        BY <3>2 DEF MessageWorker
      <4> HIDE DEF next
      <4> QED
        BY <2>2, <4>1, <4>2
    <3> QED
      BY <1>5, <3>1, <3>2
  <2>4. UNCHANGED <<registry, active, bqueue, procs, results, history>>
    BY <1>5 DEF StartWorker, MessageWorker, files
  <2> QED
    BY <1>1, <1>3, <1>4, <2>3, <2>4
<1>6. ASSUME CreateRecord(p) PROVE Goal
  <2>1. /\ act[p].w \in Workers /\ act[p].contact \in Contacts /\ act[p].lease \in Leases
        /\ act[p].run = None
    BY <1>1, <1>6 DEF CreateRecord, FitCall
  <2>2. ActsOK'
    BY <1>1, <1>6, <2>1, CallGoesOn DEF CreateRecord
  <2>3. RestOK'
    BY <1>1, <1>6, <2>1 DEF CreateRecord, RestOK, history
  <2> QED
    BY <1>1, <1>3, <1>6, <2>2, <2>3 DEF CreateRecord
<1>7. ASSUME EnterStart(p) PROVE Goal
  <2>1. /\ act[p].w \in Workers /\ act[p].contact \in Contacts /\ act[p].lease \in Leases
        /\ act[p].run = None
    BY <1>1, <1>7 DEF EnterStart, FitCall
  <2>2. ActsOK'
    BY <1>1, <1>7, <2>1, CallGoesOn DEF EnterStart
  <2>3. \/ bqueue' = bqueue
        \/ /\ act[p].w \in Profiled
           /\ bqueue' = Append(bqueue, [w |-> act[p].w, contact |-> act[p].contact,
                                        lease |-> act[p].lease, since |-> doc.epoch])
    BY <1>7 DEF EnterStart
  <2>4. doc.epoch \in Nat
    BY DEF Inv, Document
  <2>5. bqueue' \in Seq(Job)
    <3> DEFINE job == [w |-> act[p].w, contact |-> act[p].contact, lease |-> act[p].lease,
                       since |-> doc.epoch]
    <3>1. act[p].w \in Profiled => job \in Job
      BY <2>1, <2>4 DEF Job
    <3> HIDE DEF job
    <3>2. act[p].w \in Profiled => Append(bqueue, job) \in Seq(Job)
      BY <1>1, <3>1, AppendProperties
    <3> QED
      BY <1>1, <2>3, <3>2 DEF job
  <2> QED
    BY <1>1, <1>3, <1>4, <1>7, <2>2, <2>5 DEF EnterStart
<1>8. ASSUME Unregister(p) PROVE Goal
  <2>1. ActsOK'
    BY <1>1, <1>8, CallGoesOn DEF Unregister
  <2>2. RestOK'
    BY <1>1, <1>8 DEF Unregister, RestOK, history
  <2> QED
    BY <1>1, <1>3, <1>8, <2>1, <2>2 DEF Unregister
<1>9. ASSUME StopRemoves(p) PROVE Goal
  <2>1. active' \in {active, [active EXCEPT ![act[p].w] = NoRun]}
    BY <1>9 DEF StopRemoves, WithoutRun
  <2>2. ActsOK'
    BY <1>1, <1>9, CallGoesOn DEF StopRemoves
  <2> QED
    <3>1. TableOK'
      BY <1>1, <2>1, TableLess
    <3> QED
      BY <1>1, <1>4, <1>9, <2>2, <3>1 DEF StopRemoves
<1>10. ASSUME NEW w \in Workers, NEW c \in Contacts, StopQueued(p, w, c) PROVE Goal
  <2>1. PICK i \in DOMAIN bqueue :
          /\ act' = [act EXCEPT ![p] = [IdleAct EXCEPT !.at = "release", !.op = "resume",
                                                       !.lease = bqueue[i].lease]]
          /\ bqueue' = RemoveAt(bqueue, i)
    BY <1>10 DEF StopQueued
  <2>2. bqueue[i].lease \in Leases
    BY <1>1, <2>1, JobTyped DEF Job
  <2>3. bqueue' \in Seq(Job)
    BY <1>1, <2>1, RemoveTyped
  <2> DEFINE rec == [IdleAct EXCEPT !.at = "release", !.op = "resume", !.lease = bqueue[i].lease]
  <2>4. rec \in CallRecord /\ FitCall(rec)
    BY <2>2 DEF CallRecord, FitCall, IdleAct
  <2>5. ActsOK'
    <3> HIDE DEF rec
    <3> QED
      BY <1>1, <2>1, <2>4, ActsKept DEF rec
  <2> QED
    BY <1>3, <1>4, <1>10, <2>3, <2>5 DEF StopQueued
<1>11. ASSUME NEW w \in Workers, NEW c \in Contacts, StopActive(p, w, c) PROVE Goal
  <2>1. active[w].run \in Runs /\ active[w].lease \in Leases
    BY <1>1, <1>11 DEF StopActive, Active, Whole, TableOK, RunRecord
  <2> DEFINE rec == [IdleAct EXCEPT !.at = "remove", !.op = "stop", !.w = w,
                                    !.lease = active[w].lease, !.run = active[w].run]
  <2>2. rec \in CallRecord /\ FitCall(rec)
    BY <2>1 DEF CallRecord, FitCall, IdleAct
  <2>3. act' = [act EXCEPT ![p] = rec]
    BY <1>11 DEF StopActive
  <2>4. ActsOK'
    <3> HIDE DEF rec
    <3> QED
      BY <1>1, <2>2, <2>3, ActsKept
  <2>5. RestOK'
    BY <1>1, <1>11, <2>1 DEF StopActive, RestOK, files
  <2> QED
    BY <1>1, <1>3, <1>11, <2>4, <2>5 DEF StopActive, files
<1>12. Goal
  <2> HIDE DEF Goal
  <2> QED
    BY <1>5, <1>6, <1>7, <1>8, <1>9, <1>10, <1>11 DEF Call
<1> QED
  BY <1>2, <1>12 DEF WTypeOK

\* The launch of a worker, and the browser queue
LEMMA LaunchTyped ==
  ASSUME WTypeOK, Inv(doc), NEW d, NEW a \in Actors, Launch(d, a)
  PROVE  WTypeOK'
<1>1. act[a] \in CallRecord /\ FitCall(act[a])
      /\ ActsOK /\ TableOK /\ SweepOK /\ RestOK /\ bqueue \in Seq(Job)
  BY DEF WTypeOK, ActsOK
<1> DEFINE Goal == TableOK' /\ ActsOK' /\ SweepOK' /\ RestOK' /\ bqueue' \in Seq(Job)
<1>2. main' = main => SweepOK'
  BY <1>1 DEF SweepOK, Claiming, Whole
<1>3. active' = active => TableOK'
  BY <1>1 DEF TableOK, Whole
<1>4. UNCHANGED <<registry, procs, results, history>> => RestOK'
  BY <1>1 DEF RestOK, history
<1>5. ASSUME RecordActiveRun(a) PROVE Goal
  <2>1. /\ act[a].w \in Workers /\ act[a].contact \in Contacts /\ act[a].lease \in Leases
        /\ act[a].run \in Runs
    BY <1>1, <1>5 DEF RecordActiveRun, Launching, FitCall, CallRecord
  <2> DEFINE rec == [run |-> act[a].run, contact |-> act[a].contact, lease |-> act[a].lease,
                     since |-> doc.epoch, claim |-> 0]
  <2>2. active' = [active EXCEPT ![act[a].w] = rec]
    BY <1>5 DEF RecordActiveRun
  <2>3. TableOK'
    <3>1. rec \in RunRecord /\ Whole(rec)
      BY <2>1, WorkersAssumption DEF Inv, Document, RunRecord, Whole
    <3> HIDE DEF rec
    <3> QED
      BY <1>1, <2>2, <3>1 DEF TableOK, Whole
  <2>4. ActsOK'
    BY <1>1, <1>5, CallGoesOn DEF RecordActiveRun
  <2> QED
    BY <1>1, <1>2, <1>4, <1>5, <2>3, <2>4 DEF RecordActiveRun
<1>10. ASSUME LaunchStarts(a) \/ LaunchGivesUp(a) \/ LaunchRaises(a) PROVE Goal
  <2>1. /\ act[a].w \in Workers /\ act[a].contact \in Contacts /\ act[a].lease \in Leases
        /\ act[a].at = "launch"
    BY <1>1, <1>10 DEF LaunchStarts, LaunchGivesUp, LaunchRaises, Launching, FitCall
  <2>2. active' = active /\ bqueue' = bqueue /\ registry' = registry
    BY <1>10 DEF LaunchStarts, LaunchGivesUp, LaunchRaises, files
  <2>3. act[a].run \in Runs \/ LaunchStarts(a)
    BY <1>1, <1>10 DEF LaunchGivesUp, LaunchRaises, Launching, CallRecord
  <2>4. ActsOK'
    <3>1. ASSUME NEW run \in Runs \cup {None}, act' = [act EXCEPT ![a].run = run]
          PROVE  ActsOK'
      <4> DEFINE rec == [act[a] EXCEPT !.run = run]
      <4>1. rec \in CallRecord /\ FitCall(rec)
        BY <1>1, <2>1 DEF CallRecord, FitCall
      <4>2. act' = [act EXCEPT ![a] = rec]
        BY <3>1
      <4> HIDE DEF rec
      <4> QED
        BY <1>1, <4>1, <4>2, ActsKept
    <3>2. \/ \E run \in Runs \cup {None} : act' = [act EXCEPT ![a].run = run]
          \/ act' = [act EXCEPT ![a] = IdleAct]
      BY <1>10 DEF LaunchStarts, LaunchGivesUp, LaunchRaises
    <3> QED
      BY <1>1, <3>1, <3>2, CallGoesOn
  <2>5. SweepOK'
    <3>1. IdleMain \in SweepRecord /\ Whole(NoRun)
      BY WorkersAssumption DEF IdleMain, NoRun, SweepRecord, RunRecord, Whole
    <3>2. main' = main \/ main' = IdleMain
      BY <1>10 DEF LaunchStarts, LaunchGivesUp, LaunchRaises
    <3>3. main' = IdleMain => SweepOK'
      BY <3>1 DEF SweepOK, IdleMain, Claiming
    <3> QED
      BY <1>2, <3>2, <3>3
  <2>6. RestOK'
    <3>1. procs' \in [Runs -> {"none", "running", "ended"}]
      BY <1>1, <1>10 DEF LaunchStarts, LaunchGivesUp, LaunchRaises, RestOK
    <3>2. results' \in [Contacts -> SUBSET Runs] /\ delivered' = delivered /\ covered' = covered
      BY <1>1, <1>10 DEF LaunchStarts, LaunchGivesUp, LaunchRaises, RestOK, history
    <3>3. stopped' \subseteq Runs /\ orphans' \subseteq Runs /\ faults' \in Nat
      BY <1>1, <1>10, <2>3 DEF LaunchStarts, LaunchGivesUp, LaunchRaises, RestOK, history
    <3> QED
      BY <1>1, <2>2, <3>1, <3>2, <3>3 DEF RestOK
  <2> QED
    BY <1>1, <1>3, <2>2, <2>4, <2>5, <2>6
<1>6. ASSUME LaunchFails(a) PROVE Goal
  <2>1. ActsOK'
    BY <1>1, <1>6, CallGoesOn DEF LaunchFails, FitCall
  <2> QED
    BY <1>1, <1>2, <1>3, <1>4, <1>6, <2>1 DEF LaunchFails, files
<1>7. ASSUME ReleaseLease(d, a) PROVE Goal
  <2>1. CASE act' = [act EXCEPT ![a] = IdleAct]
    <3>1. ActsOK'
      BY <1>1, <2>1, CallGoesOn
    <3> QED
      BY <1>1, <1>2, <1>3, <1>4, <1>7, <3>1 DEF ReleaseLease, files
  <2>2. CASE act' = [act EXCEPT ![a] = [IdleAct EXCEPT !.at = "browse"]]
    <3> DEFINE rec == [IdleAct EXCEPT !.at = "browse"]
    <3>1. rec \in CallRecord /\ FitCall(rec)
      BY DEF IdleAct, CallRecord, FitCall
    <3> HIDE DEF rec
    <3>2. ActsOK'
      BY <1>1, <2>2, <3>1, ActsKept DEF rec
    <3> QED
      BY <1>1, <1>2, <1>3, <1>4, <1>7, <3>2 DEF ReleaseLease, files
  <2> QED
    BY <1>7, <2>1, <2>2 DEF ReleaseLease
<1>8. ASSUME Dequeue(d, a) PROVE Goal
  <2>1. ASSUME bqueue # <<>>, NEW l \in Leases, TakeJob(a, l) PROVE ActsOK' /\ bqueue' \in Seq(Job)
    <3>1. Head(bqueue) \in Job /\ Tail(bqueue) \in Seq(Job)
      BY <1>1, <2>1, HeadTailProperties
    <3> DEFINE rec == [IdleAct EXCEPT !.at = "launch", !.op = "queue", !.w = Head(bqueue).w,
                                      !.contact = Head(bqueue).contact, !.lease = l]
    <3>2. rec \in CallRecord /\ FitCall(rec)
      BY <3>1, WorkersAssumption DEF IdleAct, CallRecord, FitCall, Job
    <3> HIDE DEF rec
    <3>3. ActsOK'
      BY <1>1, <2>1, <3>2, ActsKept DEF rec, TakeJob
    <3> QED
      BY <2>1, <3>1, <3>3 DEF TakeJob
  <2>2. LeaveQueue(a) => ActsOK' /\ bqueue' \in Seq(Job)
    BY <1>1, CallGoesOn DEF LeaveQueue
  <2>3. bqueue # <<>> => Head(bqueue).lease \in Leases
    <3>1. bqueue # <<>> => Head(bqueue) \in Job
      BY <1>1, HeadTailProperties
    <3> QED
      BY <3>1 DEF Job
  <2>4. ActsOK' /\ bqueue' \in Seq(Job)
    <3>1. \/ LeaveQueue(a)
          \/ bqueue # <<>> /\ \E l \in Leases : TakeJob(a, l)
      BY <1>8, <2>3 DEF Dequeue, NewLeases, FreshLeases
    <3> QED
      BY <2>1, <2>2, <3>1
  <2> QED
    BY <1>2, <1>3, <1>4, <1>8, <2>4 DEF Dequeue
<1>9. Goal
  <2> HIDE DEF Goal
  <2> QED
    BY <1>5, <1>6, <1>7, <1>8, <1>10 DEF Launch
<1> QED
  BY <1>9 DEF WTypeOK

\* The sweep of the main loop
LEMMA SweepTyped ==
  ASSUME WTypeOK, NEW d, d.epoch \in Nat, Sweep(d)
  PROVE  WTypeOK'
<1>1. /\ ActsOK /\ TableOK /\ SweepOK /\ RestOK /\ bqueue \in Seq(Job)
      /\ main \in SweepRecord /\ Whole(main.rec)
  BY DEF WTypeOK, SweepOK
<1>2. bqueue' = bqueue
  BY DEF Sweep, SweepStart, SweepNext, Transfer, SweepRemoves, SweepDrops, SweepBrowses,
         SubmitResults, TickReconciled, TickAttests, files
<1>3. active' = active => TableOK'
  BY <1>1 DEF TableOK, Whole
<1>4. UNCHANGED <<registry, procs, results, history>> => RestOK'
  BY <1>1 DEF RestOK, history
<1>5. act' = act => ActsOK'
  BY <1>1 DEF ActsOK
<1>6. IdleMain \in SweepRecord /\ Whole(NoRun) /\ IdleMain.rec = NoRun
      /\ NoRun \in RunRecord
  BY WorkersAssumption DEF IdleMain, NoRun, SweepRecord, RunRecord, Whole
<1> DEFINE Goal == TableOK' /\ ActsOK' /\ SweepOK' /\ RestOK'
<1>7. ASSUME NEW at \in {"idle", "sweep", "browse", "tick", "attest"},
             NEW todo \in SUBSET (Workers \X Runs),
             \/ main' = [main EXCEPT !.at = at]
             \/ main' = [IdleMain EXCEPT !.at = at, !.todo = todo]
      PROVE  SweepOK'
  <2>1. CASE main' = [main EXCEPT !.at = at]
    BY <1>1, <2>1 DEF SweepOK, SweepRecord, Claiming, Whole
  <2>2. CASE main' = [IdleMain EXCEPT !.at = at, !.todo = todo]
    BY <1>6, <2>2 DEF SweepOK, SweepRecord, Claiming, Whole
  <2> QED
    BY <1>7, <2>1, <2>2
<1>8. ASSUME SweepStart(d) PROVE Goal
  <2> DEFINE todo == {<<w, active[w].run>> : w \in {x \in Workers : Active(x)}}
  <2>1. todo \in SUBSET (Workers \X Runs)
    BY <1>1 DEF TableOK, Active, RunRecord
  <2>2. main' = [IdleMain EXCEPT !.at = "sweep", !.todo = todo]
    BY <1>8 DEF SweepStart
  <2>3. SweepOK'
    <3> HIDE DEF todo
    <3> QED
      BY <1>7, <2>1, <2>2
  <2>4. RestOK'
    BY <1>1, <1>8 DEF SweepStart, ReconcileEnds, RestOK, files
  <2> QED
    BY <1>3, <1>5, <1>8, <2>3, <2>4 DEF SweepStart, files
<1>9. ASSUME NEW w \in Workers, NEW run \in Runs, SweepNext(w, run) PROVE Goal
  <2>1. CASE procs[run] = "ended" /\ Claimable60(w, run)
    <3>1. /\ active' = [active EXCEPT ![w].claim = CompletionTTL]
          /\ main' = [at |-> "transfer", todo |-> main.todo \ {<<w, run>>}, w |-> w,
                      rec |-> active[w]]
      BY <1>9, <2>1 DEF SweepNext
    <3>2. active[w] \in RunRecord /\ Whole(active[w]) /\ active[w].run = run
      BY <1>1, <2>1 DEF TableOK, Claimable60
    <3>3. TableOK'
      BY <1>1, <3>1, WorkersAssumption DEF TableOK, RunRecord, Whole
    <3>4. SweepOK'
      BY <1>1, <3>1, <3>2 DEF SweepOK, SweepRecord, Claiming
    <3> QED
      BY <1>4, <1>5, <1>9, <3>3, <3>4 DEF SweepNext
  <2>2. CASE ~(procs[run] = "ended" /\ Claimable60(w, run))
    <3>1. main' = [main EXCEPT !.todo = @ \ {<<w, run>>}] /\ active' = active
      BY <1>9, <2>2 DEF SweepNext
    <3>2. SweepOK'
      BY <1>1, <3>1 DEF SweepOK, SweepRecord, Claiming, Whole
    <3> QED
      BY <1>3, <1>4, <1>5, <1>9, <3>1, <3>2 DEF SweepNext
  <2> QED
    BY <2>1, <2>2
<1>10. ASSUME Transfer(d) PROVE Goal
  <2>1. main.w \in Workers /\ main.rec.run \in Runs
    BY <1>1, <1>10 DEF Transfer, SweepOK, Claiming
  <2>2. \E at \in {"remove", "refused"} : main' = [main EXCEPT !.at = at]
    BY <1>10 DEF Transfer
  <2>3. SweepOK'
    BY <1>1, <2>1, <2>2 DEF SweepOK, SweepRecord, Claiming, Whole
  <2>4. RestOK'
    <3>1. delivered \in [Runs -> Nat] /\ faults \in Nat
      BY <1>1 DEF RestOK
    <3>2. delivered' \in [Runs -> Nat] /\ faults' \in Nat
      BY <1>10, <2>1, <3>1 DEF Transfer
    <3> QED
      BY <1>1, <1>10, <3>2 DEF Transfer, RestOK, files
  <2> QED
    BY <1>3, <1>5, <1>10, <2>3, <2>4 DEF Transfer, files
<1>11. ASSUME SweepRemoves PROVE Goal
  <2>1. active' \in {active, [active EXCEPT ![main.w] = NoRun]}
    BY <1>11 DEF SweepRemoves, WithoutRun
  <2>2. TableOK'
    BY <1>1, <2>1, TableLess
  <2>3. main.w \in Workers /\ main.rec.run \in Runs /\ main.todo \in SUBSET (Workers \X Runs)
    BY <1>1, <1>11 DEF SweepRemoves, SweepOK, Claiming, SweepRecord
  <2>4. SweepOK'
    <3>1. CASE main' = [main EXCEPT !.at = "drop"]
      <4>1. main' \in SweepRecord
        BY <1>1, <3>1 DEF SweepRecord
      <4>2. main'.w = main.w /\ main'.rec = main.rec
        BY <1>1, <3>1 DEF SweepRecord
      <4> QED
        BY <1>1, <2>3, <4>1, <4>2 DEF SweepOK, Whole
    <3>2. CASE main' = [IdleMain EXCEPT !.at = "sweep", !.todo = main.todo]
      BY <1>7, <2>3, <3>2
    <3> QED
      BY <1>11, <3>1, <3>2 DEF SweepRemoves
  <2> QED
    BY <1>4, <1>5, <1>11, <2>2, <2>4 DEF SweepRemoves
<1>12. ASSUME SweepDrops(d) PROVE Goal
  <2>1. main.rec.run \in Runs /\ main.todo \in SUBSET (Workers \X Runs)
    BY <1>1, <1>12 DEF SweepDrops, SweepOK, Claiming, SweepRecord
  <2>2. SweepOK'
    BY <1>7, <1>12, <2>1 DEF SweepDrops
  <2>3. RestOK'
    BY <1>1, <1>12, <2>1 DEF SweepDrops, RestOK, files, history
  <2> QED
    BY <1>3, <1>5, <1>12, <2>2, <2>3 DEF SweepDrops, files
<1>13. ASSUME SweepBrowses PROVE Goal
  <2>1. SweepOK'
    <3>1. main' = [IdleMain EXCEPT !.at = "browse"]
      BY <1>13 DEF SweepBrowses
    <3> QED
      BY <1>6, <3>1 DEF SweepOK, SweepRecord, Claiming
  <2>2. ActsOK'
    <3> DEFINE rec == [act[Main] EXCEPT !.at = "browse"]
    <3>1. Main \in Actors /\ rec \in CallRecord /\ FitCall(rec)
      BY <1>1 DEF ActsOK, Actors, CallRecord, FitCall
    <3>2. act' = [act EXCEPT ![Main] = rec]
      BY <1>13 DEF SweepBrowses
    <3> HIDE DEF rec
    <3> QED
      BY <1>1, <3>1, <3>2, ActsKept
  <2> QED
    BY <1>3, <1>4, <1>13, <2>1, <2>2 DEF SweepBrowses, files
<1>14. ASSUME SubmitResults(d) PROVE Goal
  <2>1. SweepOK'
    <3>1. CASE main' = main
      BY <1>1, <3>1 DEF SweepOK, Claiming, Whole
    <3>2. CASE main' = [main EXCEPT !.at = "tick"]
      BY <1>7, <3>2
    <3>3. CASE main' = IdleMain
      BY <1>6, <3>3 DEF SweepOK, Claiming, IdleMain
    <3> QED
      BY <1>14, <3>1, <3>2, <3>3 DEF SubmitResults
  <2>2. RestOK'
    <3>1. results \in [Contacts -> SUBSET Runs] /\ delivered \in [Runs -> Nat] /\ faults \in Nat
      BY <1>1 DEF RestOK
    <3>2. results' \in [Contacts -> SUBSET Runs]
      BY <1>14, <3>1 DEF SubmitResults
    <3>3. delivered' \in [Runs -> Nat]
      BY <1>14, <3>1 DEF SubmitResults
    <3>4. faults' \in Nat
      BY <1>14, <3>1 DEF SubmitResults
    <3> QED
      BY <1>1, <1>14, <3>2, <3>3, <3>4 DEF SubmitResults, RestOK, files
  <2> QED
    BY <1>3, <1>5, <1>14, <2>1, <2>2 DEF SubmitResults, files
<1>15. ASSUME TickReconciled(d) \/ TickAttests(d) PROVE Goal
  <2>1. SweepOK'
    <3>1. CASE main' = [main EXCEPT !.at = "attest"]
      BY <1>7, <3>1
    <3>2. CASE main' = IdleMain
      BY <1>6, <3>2 DEF SweepOK, Claiming, IdleMain
    <3> QED
      BY <1>15, <3>1, <3>2 DEF TickReconciled, TickAttests
  <2>2. RestOK'
    <3>1. CASE TickReconciled(d)
      <4>1. covered' \in Nat
        BY <1>15, <3>1 DEF TickReconciled
      <4>2. faults' \in Nat
        BY <1>1, <3>1 DEF TickReconciled, ReconcileEnds, RestOK
      <4> QED
        BY <1>1, <3>1, <4>1, <4>2 DEF TickReconciled, RestOK, files
    <3>2. CASE TickAttests(d)
      BY <1>4, <3>2 DEF TickAttests, files
    <3> QED
      BY <1>15, <3>1, <3>2
  <2> QED
    BY <1>3, <1>4, <1>5, <1>15, <2>1, <2>2 DEF TickReconciled, TickAttests, files
<1>16. Goal
  <2> HIDE DEF Goal
  <2> QED
    BY <1>8, <1>9, <1>10, <1>11, <1>12, <1>13, <1>14, <1>15 DEF Sweep
<1> QED
  BY <1>1, <1>2, <1>16 DEF WTypeOK

\* Reconciliation, turns, processes, time, crashes and the updater
LEMMA OthersTyped ==
  ASSUME WTypeOK, NEW d,
         \/ Reconcile(d) \/ BeginTurn(d) \/ (\E q : EndTurn(d, q))
         \/ (\E r \in Runs : ProcessEnds(r)) \/ TimePasses(d) \/ Crash \/ Update(d)
         \/ UNCHANGED vars
  PROVE  WTypeOK'
<1>1. ActsOK /\ TableOK /\ SweepOK /\ RestOK /\ bqueue \in Seq(Job)
  BY DEF WTypeOK
<1>2. CASE UNCHANGED <<files, procs, act, main, results, history>>
  BY <1>2 DEF WTypeOK, TableOK, ActsOK, SweepOK, RestOK, files, history, Whole, Claiming
<1>3. ASSUME NEW w \in Workers, ReconcileActive(d, w) PROVE WTypeOK'
  <2>1. PICK l \in Leases : active' = [active EXCEPT ![w].lease = l]
    BY <1>3 DEF ReconcileActive, NewLeases, FreshLeases
  <2>2. TableOK'
    BY <1>1, <1>3, <2>1 DEF TableOK, RunRecord, Whole, ReconcileActive, Active
  <2> QED
    BY <1>3, <2>2
       DEF ReconcileActive, WTypeOK, ActsOK, SweepOK, RestOK, history, Whole, Claiming
<1>4. ASSUME NEW i \in DOMAIN bqueue, ReconcileQueued(d, i) PROVE WTypeOK'
  <2>1. PICK l \in Leases : bqueue' = [bqueue EXCEPT ![i].lease = l]
    BY <1>4 DEF ReconcileQueued, NewLeases, FreshLeases
  <2>2. [bqueue[i] EXCEPT !.lease = l] \in Job
    BY <1>1, <2>1, JobTyped DEF Job
  <2>3. bqueue' \in Seq(Job)
    BY <1>1, <2>1, <2>2, ExceptSeq
  <2> QED
    BY <1>4, <2>3
       DEF ReconcileQueued, WTypeOK, TableOK, ActsOK, SweepOK, RestOK, history, Whole, Claiming
<1>5. ASSUME active' = [w \in Workers |-> [active[w] EXCEPT !.claim = Less(@)]] PROVE TableOK'
  <2>1. ASSUME NEW w \in Workers PROVE active'[w] \in RunRecord /\ Whole(active'[w])
    <3>1. active[w] \in RunRecord /\ Whole(active[w]) /\ Less(active[w].claim) \in 0..CompletionTTL
      BY <1>1, WorkersAssumption DEF TableOK, RunRecord, Less
    <3> QED
      BY <1>5, <3>1 DEF RunRecord, Whole
  <2> QED
    BY <1>5, <2>1 DEF TableOK
<1>6. ASSUME NEW r \in Runs, ProcessEnds(r) PROVE WTypeOK'
  BY <1>6 DEF ProcessEnds, WTypeOK, TableOK, ActsOK, SweepOK, RestOK, files, history, Whole,
              Claiming
<1>7. CASE TimePasses(d)
  BY <1>5, <1>7 DEF TimePasses, WTypeOK, ActsOK, SweepOK, RestOK, history, Whole, Claiming
<1>8. CASE Crash
  <2>1. TableOK'
    <3>1. active' = active \/ active' = [w \in Workers |-> [active[w] EXCEPT !.claim = Less(@)]]
      BY <1>8 DEF Crash
    <3> QED
      BY <1>1, <1>5, <3>1 DEF TableOK, Whole
  <2>2. ActsOK'
    BY <1>8 DEF Crash, ActsOK, IdleAct, CallRecord, FitCall
  <2>3. SweepOK'
    <3>1. IdleMain \in SweepRecord /\ Whole(NoRun)
      BY WorkersAssumption DEF IdleMain, NoRun, SweepRecord, RunRecord, Whole
    <3> QED
      BY <1>8, <3>1 DEF Crash, SweepOK, IdleMain, Claiming
  <2>4. RestOK'
    <3>1. {act[a].run : a \in {x \in Actors : Launching(x)}} \subseteq Runs
      BY <1>1 DEF Launching, ActsOK, CallRecord
    <3> QED
      BY <1>1, <1>8, <3>1 DEF Crash, RestOK, MayFault
  <2> QED
    BY <1>1, <1>8, <2>1, <2>2, <2>3, <2>4 DEF Crash, WTypeOK
<1> QED
  BY <1>2, <1>3, <1>4, <1>6, <1>7, <1>8 DEF Reconcile, BeginTurn, EndTurn, Update, vars

\* The types hold from the first state on ...
LEMMA WInitTyped ==
  ASSUME WInit
  PROVE  WTypeOK /\ Inv(doc)
<1>1. NoRun \in RunRecord /\ Whole(NoRun)
  BY WorkersAssumption DEF NoRun, RunRecord, Whole
<1>2. TableOK /\ RestOK
  BY <1>1 DEF WInit, TableOK, RestOK
<1>3. ActsOK
  BY DEF WInit, ActsOK, IdleAct, CallRecord, FitCall
<1>4. SweepOK
  BY <1>1 DEF WInit, SweepOK, IdleMain, SweepRecord, Claiming
<1>5. bqueue \in Seq(Job)
  BY EmptySeq DEF WInit
<1> QED
  BY <1>2, <1>3, <1>4, <1>5, InitInv DEF WInit, Init, WTypeOK

\* ... and every step keeps them.
LEMMA WTypeInv ==
  ASSUME WTypeOK, Inv(doc), [WNext]_vars
  PROVE  WTypeOK'
<1>1. Prune(doc).epoch \in Nat
  BY PruneInv DEF Inv, Document
<1> QED
  BY <1>1, CallTyped, LaunchTyped, SweepTyped, OthersTyped DEF WNext

-----------------------------------------------------------------------------
(* The shared profile: the launch lock and the lock of the queue decide who  *)
(* may start, on what the table and the queue say under them.                *)

AtLaunch(a) == act[a].at = "launch"

\* A worker has one job in the queue.
OneJobEach == \A i, j \in DOMAIN bqueue : bqueue[i].w = bqueue[j].w => i = j

\* What was found under a launch lock stays true while it is held.
LaunchAlone ==
    \A a \in Actors : AtLaunch(a) =>
        /\ ~Active(act[a].w) /\ ~InQueue(act[a].w)
        /\ act[a].w \in Profiled => ~ProfileActive

\* No two launches are of the same worker or of two profiled browsers.
LaunchLocks ==
    \A a, b \in Actors : AtLaunch(a) /\ AtLaunch(b) /\ a # b =>
        act[a].w # act[b].w /\ ~({act[a].w, act[b].w} \subseteq Profiled)

\* The table has one profiled browser, and no worker that is queued.
TableSerial ==
    /\ \A v, w \in Profiled : Active(v) /\ Active(w) => v = w
    /\ \A w \in Workers : ~(InQueue(w) /\ Active(w))

SerialInv == TableSerial /\ OneJobEach /\ LaunchAlone /\ LaunchLocks

\* So the profile has one browser, whether it is in the table or not yet.
LEMMA SerialGives ==
  ASSUME SerialInv
  PROVE  ProfileSerial
<1> SUFFICES ASSUME NEW v \in Workers, NEW w \in Workers, UsesProfile(v), UsesProfile(w)
             PROVE  v = w
  BY DEF SerialInv, TableSerial, ProfileSerial
<1>1. v \in Profiled /\ w \in Profiled
  BY DEF UsesProfile
<1>2. CASE Active(v) /\ Active(w)
  BY <1>1, <1>2 DEF SerialInv, TableSerial
<1>3. ASSUME NEW u \in Profiled, Active(u), NEW a \in Actors, AtLaunch(a), act[a].w \in Profiled
      PROVE  FALSE
  BY <1>3 DEF SerialInv, LaunchAlone, ProfileActive
<1>4. ASSUME NEW a \in Actors, NEW b \in Actors, AtLaunch(a), AtLaunch(b), act[a].w = v,
             act[b].w = w
      PROVE  v = w
  BY <1>1, <1>4 DEF SerialInv, LaunchLocks
<1> QED
  BY <1>1, <1>2, <1>3, <1>4 DEF UsesProfile, Launching, AtLaunch

\* Nothing is started or queued.
FewerRuns == \A w \in Workers : active'[w].run # None => active[w].run # None
FewerJobs == /\ \A j \in DOMAIN bqueue' : \E i \in DOMAIN bqueue : bqueue[i].w = bqueue'[j].w
             /\ \A i, j \in DOMAIN bqueue' : bqueue'[i].w = bqueue'[j].w => i = j
FewerLaunches == \A a \in Actors :
    act'[a].at = "launch" => act[a].at = "launch" /\ act'[a].w = act[a].w

\* Then the invariant stays.
LEMMA QuietSerial ==
  ASSUME WTypeOK, SerialInv, FewerRuns, FewerJobs, FewerLaunches
  PROVE  SerialInv'
<1>1. \A w : InQueue(w)' => InQueue(w)
  BY DEF InQueue, FewerJobs
<1>2. \A w \in Workers : Active(w)' => Active(w)
  BY DEF Active, FewerRuns
<1>3. ProfileActive' => ProfileActive
  BY <1>2, WorkersAssumption DEF ProfileActive
<1>4. \A a \in Actors : AtLaunch(a) => act[a].w \in Workers
  BY DEF WTypeOK, ActsOK, FitCall, AtLaunch
<1>5. TableSerial'
  BY <1>1, <1>2, WorkersAssumption DEF SerialInv, TableSerial
<1>6. OneJobEach'
  BY DEF FewerJobs, OneJobEach
<1>7. LaunchAlone'
  <2> SUFFICES ASSUME NEW a \in Actors, AtLaunch(a)'
               PROVE  (/\ ~Active(act[a].w) /\ ~InQueue(act[a].w)
                       /\ act[a].w \in Profiled => ~ProfileActive)'
    BY DEF LaunchAlone
  <2>1. AtLaunch(a) /\ act'[a].w = act[a].w
    BY DEF FewerLaunches, AtLaunch
  <2>2. /\ act[a].w \in Workers /\ ~Active(act[a].w) /\ ~InQueue(act[a].w)
        /\ act[a].w \in Profiled => ~ProfileActive
    BY <1>4, <2>1 DEF SerialInv, LaunchAlone
  <2>3. active'[act[a].w].run = None /\ ~\E i \in DOMAIN bqueue' : bqueue'[i].w = act[a].w
    BY <1>1, <1>2, <2>2 DEF Active, InQueue
  <2> QED
    BY <1>3, <2>1, <2>2, <2>3 DEF Active, InQueue
<1>8. LaunchLocks'
  BY DEF FewerLaunches, SerialInv, LaunchLocks, AtLaunch
<1> QED
  BY <1>5, <1>6, <1>7, <1>8 DEF SerialInv

\* A queue that loses a job or is rewritten in place
LEMMA ShorterQueue ==
  ASSUME bqueue \in Seq(Job), OneJobEach,
         \/ bqueue' = bqueue
         \/ bqueue # <<>> /\ bqueue' = Tail(bqueue)
         \/ \E i \in DOMAIN bqueue : bqueue' = RemoveAt(bqueue, i)
         \/ \E i \in DOMAIN bqueue, l \in Leases : bqueue' = [bqueue EXCEPT ![i].lease = l]
  PROVE  FewerJobs
<1>1. DOMAIN bqueue = 1..Len(bqueue) /\ Len(bqueue) \in Nat
  BY JobTyped
<1>2. CASE bqueue' = bqueue
  BY <1>2 DEF OneJobEach, FewerJobs
<1>3. CASE bqueue # <<>> /\ bqueue' = Tail(bqueue)
  <2>1. /\ bqueue' \in Seq(Job) /\ Len(bqueue') = Len(bqueue) - 1
        /\ \A j \in 1..Len(bqueue') : bqueue'[j] = bqueue[j + 1]
    BY <1>3, HeadTailProperties
  <2>2. DOMAIN bqueue' = 1..Len(bqueue) - 1
    BY <2>1, JobTyped
  <2>3. ASSUME NEW j \in DOMAIN bqueue'
        PROVE  j + 1 \in DOMAIN bqueue /\ bqueue'[j] = bqueue[j + 1]
    <3>0. j \in 1..Len(bqueue) - 1
      BY <2>2
    <3>1. j \in 1..Len(bqueue) - 1 /\ j + 1 \in 1..Len(bqueue)
      BY <1>1, <3>0
    <3> QED
      BY <1>1, <2>1, <3>1
  <2>4. \A i, j \in DOMAIN bqueue' : i \in Int /\ j \in Int /\ (i + 1 = j + 1 => i = j)
    BY <2>2
  <2> QED
    BY <2>3, <2>4 DEF OneJobEach, FewerJobs
<1>4. ASSUME NEW i \in DOMAIN bqueue, bqueue' = RemoveAt(bqueue, i) PROVE FewerJobs
  <2>1. /\ bqueue' \in Seq(Job) /\ Len(bqueue') = Len(bqueue) - 1
        /\ \A j \in 1..Len(bqueue) - 1 : bqueue'[j] = IF j < i THEN bqueue[j] ELSE bqueue[j + 1]
    BY <1>4, RemoveTyped
  <2>2. DOMAIN bqueue' = 1..Len(bqueue) - 1
    BY <2>1, JobTyped
  <2> DEFINE at(j) == IF j < i THEN j ELSE j + 1
  <2>3. ASSUME NEW j \in DOMAIN bqueue'
        PROVE  j \in Int /\ at(j) \in DOMAIN bqueue /\ bqueue'[j] = bqueue[at(j)]
    <3>0. j \in 1..Len(bqueue) - 1
      BY <2>2
    <3>1. j \in 1..Len(bqueue) - 1 /\ j \in 1..Len(bqueue) /\ j + 1 \in 1..Len(bqueue)
      BY <1>1, <3>0
    <3> QED
      BY <1>1, <2>1, <3>1
  <2>4. ASSUME NEW j \in DOMAIN bqueue', NEW k \in DOMAIN bqueue', at(j) = at(k)
        PROVE  j = k
    <3>1. j \in Int /\ k \in Int /\ i \in Int
      BY <1>1, <2>3
    <3> QED
      BY <2>4, <3>1
  <2> HIDE DEF at
  <2> QED
    BY <2>3, <2>4 DEF OneJobEach, FewerJobs
<1>5. ASSUME NEW i \in DOMAIN bqueue, NEW l \in Leases, bqueue' = [bqueue EXCEPT ![i].lease = l]
      PROVE  FewerJobs
  <2>1. DOMAIN bqueue' = DOMAIN bqueue /\ \A j \in DOMAIN bqueue : bqueue'[j].w = bqueue[j].w
    <3>1. bqueue[i] \in Job
      BY JobTyped
    <3> QED
      BY <1>5, <3>1 DEF Job
  <2> QED
    BY <2>1 DEF OneJobEach, FewerJobs
<1> QED
  BY <1>2, <1>3, <1>4, <1>5

\* The job that is taken was the only one of its worker.
LEMMA HeadIsTaken ==
  ASSUME bqueue \in Seq(Job), bqueue # <<>>, OneJobEach, bqueue' = Tail(bqueue)
  PROVE  /\ Head(bqueue) \in Job
         /\ \A j \in DOMAIN bqueue' : bqueue'[j].w # Head(bqueue).w
<1>1. DOMAIN bqueue = 1..Len(bqueue) /\ Len(bqueue) \in Nat \ {0}
  <2>1. Len(bqueue) \in Nat \ {0}
    BY EmptySeq
  <2> QED
    BY <2>1, JobTyped
<1>2. /\ bqueue' \in Seq(Job) /\ Len(bqueue') = Len(bqueue) - 1
      /\ \A j \in 1..Len(bqueue') : bqueue'[j] = bqueue[j + 1]
      /\ Head(bqueue) \in Job
  BY HeadTailProperties
<1>3. DOMAIN bqueue' = 1..Len(bqueue')
  BY <1>2, JobTyped
<1>4. Head(bqueue) = bqueue[1]
  OBVIOUS
<1>5. ASSUME NEW j \in DOMAIN bqueue' PROVE bqueue'[j].w # bqueue[1].w
  <2>1. j + 1 \in 1..Len(bqueue) /\ 1 \in 1..Len(bqueue) /\ j + 1 # 1 /\ bqueue'[j] = bqueue[j + 1]
    BY <1>1, <1>2, <1>3
  <2> QED
    BY <1>1, <2>1 DEF OneJobEach
<1> QED
  BY <1>2, <1>4, <1>5


\* A call that moves on to something else than a launch, or goes on with one
LEMMA NoLaunch ==
  ASSUME act \in [Actors -> CallRecord], NEW a \in Actors,
         \/ act' = act
         \/ \E rec : rec.at # "launch" /\ act' = [act EXCEPT ![a] = rec]
         \/ \E at : at # "launch" /\ act' = [act EXCEPT ![a].at = at]
         \/ \E run : act' = [act EXCEPT ![a].run = run]
  PROVE  FewerLaunches
<1>1. CASE \E at : at # "launch" /\ act' = [act EXCEPT ![a].at = at]
  <2>1. PICK at : at # "launch" /\ act' = [act EXCEPT ![a].at = at]
    BY <1>1
  <2>2. act'[a].at = at
    BY <2>1 DEF CallRecord
  <2> QED
    BY <2>1, <2>2 DEF FewerLaunches
<1>2. CASE \E rec : rec.at # "launch" /\ act' = [act EXCEPT ![a] = rec]
  BY <1>2 DEF FewerLaunches
<1>3. CASE \E run : act' = [act EXCEPT ![a].run = run]
  BY <1>3 DEF FewerLaunches, CallRecord
<1> QED
  BY <1>1, <1>2, <1>3 DEF FewerLaunches

\* A record that is removed or rewritten with its run
LEMMA NoStart ==
  ASSUME active \in [Workers -> RunRecord], NEW w,
         \/ active' = active
         \/ active' = [active EXCEPT ![w] = NoRun]
         \/ \E l : active' = [active EXCEPT ![w].lease = l]
         \/ active' = [active EXCEPT ![w].claim = CompletionTTL]
         \/ active' = [v \in Workers |-> [active[v] EXCEPT !.claim = Less(@)]]
  PROVE  FewerRuns
<1> SUFFICES ASSUME NEW v \in Workers, active'[v].run # None PROVE active[v].run # None
  BY DEF FewerRuns
<1>1. active[v] \in RunRecord
  OBVIOUS
<1>2. CASE active' = active \/ active' = [active EXCEPT ![w] = NoRun]
  BY <1>2 DEF NoRun
<1>3. CASE \E l : active' = [active EXCEPT ![w].lease = l]
  BY <1>1, <1>3 DEF RunRecord
<1>4. CASE active' = [active EXCEPT ![w].claim = CompletionTTL]
  BY <1>1, <1>4 DEF RunRecord
<1>5. CASE active' = [x \in Workers |-> [active[x] EXCEPT !.claim = Less(@)]]
  BY <1>1, <1>5 DEF RunRecord
<1> QED
  BY <1>2, <1>3, <1>4, <1>5

\* Entering the launch lock, to queue the job or to launch
LEMMA EnterSerial ==
  ASSUME WTypeOK, SerialInv, NEW p \in Callers, EnterStart(p)
  PROVE  SerialInv'
<1> DEFINE w == act[p].w
<1>1. /\ p \in Actors /\ w \in Workers /\ act \in [Actors -> CallRecord]
      /\ bqueue \in Seq(Job) /\ act[p].at = "enter"
      /\ active' = active /\ LockFree(w)
  BY DEF EnterStart, WTypeOK, ActsOK, FitCall, Actors
<1>2. FewerRuns
  BY <1>1 DEF FewerRuns
<1>3. CASE bqueue' = bqueue /\ \E x \in {"unregister", "release"} : act' = [act EXCEPT ![p].at = x]
  BY <1>1, <1>2, <1>3, QuietSerial, ShorterQueue, NoLaunch DEF SerialInv
<1>4. ASSUME ~Active(w), ~InQueue(w), w \in Profiled,
             bqueue' = Append(bqueue, [w |-> w, contact |-> act[p].contact,
                                       lease |-> act[p].lease, since |-> doc.epoch]),
             act' = [act EXCEPT ![p] = IdleAct]
      PROVE  SerialInv'
  <2> DEFINE n == Len(bqueue)
  <2>1. n \in Nat /\ DOMAIN bqueue = 1..n /\ n + 1 \notin 1..n
    BY <1>1, JobTyped
  <2>2. /\ DOMAIN bqueue' = 1..n + 1 /\ bqueue'[n + 1].w = w
        /\ \A i \in 1..n : bqueue'[i] = bqueue[i]
    <3> DEFINE job == [w |-> w, contact |-> act[p].contact, lease |-> act[p].lease,
                       since |-> doc.epoch]
    <3>1. job.w = w /\ bqueue' = Append(bqueue, job)
      BY <1>4
    <3> HIDE DEF job
    <3>2. /\ Len(bqueue') = n + 1 /\ bqueue'[n + 1] = job
          /\ \A i \in 1..n : bqueue'[i] = bqueue[i]
      BY <1>1, <3>1, AppendProperties
    <3>3. DOMAIN bqueue' = 1..n + 1
      BY <1>1, <3>1, <3>2, AppendProperties
    <3> QED
      BY <3>1, <3>2, <3>3
  <2> HIDE DEF n
  <2>3. \A i \in 1..n + 1 : i \in 1..n \/ i = n + 1
    BY <2>1
  <2>4. \A i \in 1..n : bqueue'[i].w # w
    BY <1>4, <2>1, <2>2 DEF InQueue
  <2>5. \A v : InQueue(v)' => InQueue(v) \/ v = w
    BY <2>1, <2>2, <2>3 DEF InQueue
  <2>6. TableSerial'
    <3>1. \A v \in Workers : ~((\E i \in DOMAIN bqueue' : bqueue'[i].w = v) /\ Active(v))
      BY <1>4, <2>5 DEF SerialInv, TableSerial, InQueue
    <3> QED
      BY <1>1, <3>1 DEF SerialInv, TableSerial, Active, InQueue
  <2>7. OneJobEach'
    BY <2>1, <2>2, <2>3, <2>4 DEF SerialInv, OneJobEach
  <2>8. \A a \in Actors : AtLaunch(a)' =>
            AtLaunch(a) /\ act'[a] = act[a] /\ act[a].w # w
    BY <1>1, <1>4 DEF AtLaunch, IdleAct, LockFree
  <2>9. LaunchAlone'
    <3> SUFFICES ASSUME NEW a \in Actors, AtLaunch(a)'
                 PROVE  (/\ ~Active(act[a].w) /\ ~InQueue(act[a].w)
                         /\ act[a].w \in Profiled => ~ProfileActive)'
      BY DEF LaunchAlone
    <3>1. /\ act'[a] = act[a] /\ ~Active(act[a].w) /\ ~InQueue(act[a].w) /\ act[a].w # w
          /\ act[a].w \in Profiled => ~ProfileActive
      BY <2>8 DEF SerialInv, LaunchAlone
    <3>2. ~\E i \in DOMAIN bqueue' : bqueue'[i].w = act[a].w
      BY <2>5, <3>1 DEF InQueue
    <3> QED
      BY <1>1, <3>1, <3>2 DEF Active, InQueue, ProfileActive
  <2>10. LaunchLocks'
    BY <2>8 DEF SerialInv, LaunchLocks
  <2> QED
    BY <2>6, <2>7, <2>9, <2>10 DEF SerialInv
<1>5. ASSUME ~Active(w), ~InQueue(w), ~(w \in Profiled /\ ProfileActive), bqueue' = bqueue,
             act' = [act EXCEPT ![p].at = "launch"]
      PROVE  SerialInv'
  <2>1. act' = [act EXCEPT ![p].at = "launch"] /\ act'[p].w = w
    BY <1>1, <1>5 DEF CallRecord
  <2>2. \A a \in Actors : a # p => act'[a] = act[a]
    BY <2>1
  <2>3. LaunchAlone'
    <3> SUFFICES ASSUME NEW a \in Actors, AtLaunch(a)'
                 PROVE  (/\ ~Active(act[a].w) /\ ~InQueue(act[a].w)
                         /\ act[a].w \in Profiled => ~ProfileActive)'
      BY DEF LaunchAlone
    <3>1. /\ act'[a].w = act[a].w /\ ~Active(act[a].w) /\ ~InQueue(act[a].w)
          /\ act[a].w \in Profiled => ~ProfileActive
      BY <1>5, <2>1, <2>2 DEF SerialInv, LaunchAlone, AtLaunch
    <3> QED
      BY <1>1, <1>5, <3>1 DEF Active, InQueue, ProfileActive
  <2>4. LaunchLocks'
    BY <1>1, <2>1, <2>2 DEF SerialInv, LaunchLocks, AtLaunch, LockFree
  <2> QED
    BY <1>1, <1>5, <2>3, <2>4 DEF SerialInv, TableSerial, OneJobEach, Active, InQueue
<1> QED
  BY <1>3, <1>4, <1>5 DEF EnterStart

\* The run that is recorded is the only one of its worker, and of the profile.
LEMMA RecordSerial ==
  ASSUME WTypeOK, SerialInv, NEW a \in Actors, RecordActiveRun(a)
  PROVE  SerialInv'
<1> DEFINE w == act[a].w
<1>1. /\ w \in Workers /\ act \in [Actors -> CallRecord] /\ active \in [Workers -> RunRecord]
      /\ AtLaunch(a) /\ act' = [act EXCEPT ![a] = IdleAct] /\ bqueue' = bqueue
  BY DEF RecordActiveRun, Launching, WTypeOK, ActsOK, TableOK, FitCall, AtLaunch
<1>2. active' = [active EXCEPT ![w] =
                [run |-> act[a].run, contact |-> act[a].contact, lease |-> act[a].lease,
                 since |-> doc.epoch, claim |-> 0]]
  BY DEF RecordActiveRun
<1>3. \A v \in Workers : Active(v)' => Active(v) \/ v = w
  BY <1>1, <1>2 DEF Active
<1>4. ~InQueue(w) /\ (w \in Profiled => ~ProfileActive)
  BY <1>1 DEF SerialInv, LaunchAlone
<1>5. TableSerial'
  BY <1>1, <1>3, <1>4, WorkersAssumption
     DEF SerialInv, TableSerial, ProfileActive, InQueue
<1>6. OneJobEach'
  BY <1>1 DEF SerialInv, OneJobEach
<1>7. \A b \in Actors : AtLaunch(b)' => AtLaunch(b) /\ b # a /\ act'[b] = act[b]
  BY <1>1 DEF AtLaunch, IdleAct
<1>8. LaunchAlone'
  <2> SUFFICES ASSUME NEW b \in Actors, AtLaunch(b)'
               PROVE  (/\ ~Active(act[b].w) /\ ~InQueue(act[b].w)
                       /\ act[b].w \in Profiled => ~ProfileActive)'
    BY DEF LaunchAlone
  <2>1. /\ AtLaunch(b) /\ act'[b] = act[b] /\ act[b].w # w /\ ~({act[b].w, w} \subseteq Profiled)
        /\ act[b].w \in Workers
    BY <1>1, <1>7 DEF SerialInv, LaunchLocks, WTypeOK, ActsOK, FitCall, AtLaunch
  <2>2. /\ ~Active(act[b].w) /\ ~InQueue(act[b].w)
        /\ act[b].w \in Profiled => ~ProfileActive
    BY <2>1 DEF SerialInv, LaunchAlone
  <2>3. active'[act[b].w].run = None
    BY <1>3, <2>1, <2>2 DEF Active
  <2>4. act[b].w \in Profiled => ~\E v \in Profiled : active'[v].run # None
    BY <1>3, <2>1, <2>2, WorkersAssumption DEF Active, ProfileActive
  <2> QED
    BY <1>1, <2>1, <2>2, <2>3, <2>4 DEF Active, InQueue, ProfileActive
<1>9. LaunchLocks'
  BY <1>7 DEF SerialInv, LaunchLocks
<1> QED
  BY <1>5, <1>6, <1>8, <1>9 DEF SerialInv

\* The queue's first job goes over to a launch, which no other profiled one is at.
LEMMA DequeueSerial ==
  ASSUME WTypeOK, SerialInv, NEW d, NEW a \in Actors, Dequeue(d, a)
  PROVE  SerialInv'
<1>1. /\ act \in [Actors -> CallRecord] /\ bqueue \in Seq(Job) /\ active' = active
      /\ act[a].at = "browse" /\ QueueLockFree
  BY DEF Dequeue, WTypeOK, ActsOK
<1>2. CASE LeaveQueue(a)
  <2>1. FewerRuns /\ FewerJobs
    BY <1>1, <1>2, ShorterQueue DEF FewerRuns, LeaveQueue, SerialInv
  <2>2. FewerLaunches
    BY <1>1, <1>2, NoLaunch DEF LeaveQueue, IdleAct
  <2> QED
    BY <2>1, <2>2, QuietSerial
<1>3. ASSUME ~ProfileActive, bqueue # <<>>, NEW l, TakeJob(a, l) PROVE SerialInv'
  <2> DEFINE w == Head(bqueue).w
  <2>1. bqueue' = Tail(bqueue) /\ FewerJobs
    BY <1>1, <1>3, ShorterQueue DEF TakeJob, SerialInv
  <2>2. Head(bqueue) \in Job /\ \A j \in DOMAIN bqueue' : bqueue'[j].w # w
    BY <1>1, <1>3, <2>1, HeadIsTaken DEF SerialInv
  <2>3. w \in Profiled /\ w \in Workers
    BY <2>2, WorkersAssumption DEF Job
  <2>4. act'[a].at = "launch" /\ act'[a].w = w /\ \A b \in Actors : b # a => act'[b] = act[b]
    BY <1>1, <1>3 DEF TakeJob, IdleAct
  <2> HIDE DEF w
  <2>5. \A v : (\E i \in DOMAIN bqueue' : bqueue'[i].w = v) => InQueue(v)
    BY <2>1 DEF FewerJobs, InQueue
  <2>6. TableSerial' /\ OneJobEach'
    BY <1>1, <2>1, <2>5 DEF SerialInv, TableSerial, OneJobEach, FewerJobs, Active, InQueue
  <2>7. LaunchAlone'
    <3> SUFFICES ASSUME NEW b \in Actors, AtLaunch(b)'
                 PROVE  (/\ ~Active(act[b].w) /\ ~InQueue(act[b].w)
                         /\ act[b].w \in Profiled => ~ProfileActive)'
      BY DEF LaunchAlone
    <3>1. CASE b = a
      <4>1. active[w].run = None
        BY <1>3, <2>3 DEF ProfileActive, Active
      <4> QED
        BY <1>1, <1>3, <2>2, <2>4, <3>1, <4>1 DEF Active, InQueue, ProfileActive
    <3>2. CASE b # a
      <4>1. /\ act'[b] = act[b] /\ ~Active(act[b].w) /\ ~InQueue(act[b].w)
        BY <2>4, <3>2 DEF SerialInv, LaunchAlone, AtLaunch
      <4> QED
        BY <1>1, <1>3, <2>5, <4>1 DEF Active, InQueue, ProfileActive
    <3> QED
      BY <3>1, <3>2
  <2>8. LaunchLocks'
    <3>1. \A b \in Actors : act[b].at = "launch" => act[b].w \notin Profiled
      BY <1>1 DEF QueueLockFree
    <3> QED
      BY <2>3, <2>4, <3>1 DEF SerialInv, LaunchLocks, AtLaunch
  <2> QED
    BY <2>6, <2>7, <2>8 DEF SerialInv
<1> QED
  BY <1>2, <1>3 DEF Dequeue

\* Every other step starts and queues nothing.
LEMMA SerialStep ==
  ASSUME WTypeOK, SerialInv, [WNext]_vars
  PROVE  SerialInv'
<1> SUFFICES ASSUME NEW d,
                    \/ UNCHANGED vars
                    \/ \E p \in Callers : Call(d, p)
                    \/ \E a \in Actors : Launch(d, a)
                    \/ Reconcile(d) \/ Sweep(d)
                    \/ BeginTurn(d) \/ (\E q \in Claimed(d) : EndTurn(d, q))
                    \/ (\E r \in Runs : ProcessEnds(r))
                    \/ TimePasses(d) \/ Crash \/ Update(d)
             PROVE  SerialInv'
  BY DEF WNext
<1>1. /\ act \in [Actors -> CallRecord] /\ active \in [Workers -> RunRecord]
      /\ bqueue \in Seq(Job) /\ OneJobEach
  BY DEF WTypeOK, ActsOK, TableOK, SerialInv
<1>2. active' = active => FewerRuns
  BY <1>1, NoStart
<1>3. bqueue' = bqueue => FewerJobs
  BY <1>1, ShorterQueue
<1>4. act' = act => FewerLaunches
  BY DEF FewerLaunches
<1>5. ASSUME NEW p \in Callers, Call(d, p) PROVE SerialInv'
  <2>1. p \in Actors
    BY DEF Actors
  <2>2. CASE EnterStart(p)
    BY <2>2, EnterSerial
  <2>3. ASSUME NEW w, NEW c, StartWorker(d, p, w, c) \/ MessageWorker(d, p, w, c)
        PROVE  SerialInv'
    <3>1. ASSUME NEW next, Admit(d, p, next), next.at # "launch",
                 \A l : [next EXCEPT !.lease = l].at = next.at
          PROVE  FewerLaunches
      <4>1. act' = act \/ \E l : act' = [act EXCEPT ![p] = [next EXCEPT !.lease = l]]
        BY <3>1 DEF Admit
      <4> QED
        BY <1>1, <2>1, <3>1, <4>1, NoLaunch
    <3>2. FewerLaunches
      BY <2>3, <3>1 DEF StartWorker, MessageWorker, IdleAct
    <3> QED
      BY <1>2, <1>3, <2>3, <3>2, QuietSerial DEF StartWorker, MessageWorker, files
  <2>4. CASE CreateRecord(p) \/ Unregister(p)
    <3>1. FewerLaunches
      BY <1>1, <2>1, <2>4, NoLaunch DEF CreateRecord, Unregister
    <3> QED
      BY <1>2, <1>3, <2>4, <3>1, QuietSerial DEF CreateRecord, Unregister
  <2>5. CASE StopRemoves(p)
    <3>1. FewerLaunches
      BY <1>1, <2>1, <2>5, NoLaunch DEF StopRemoves
    <3>2. FewerRuns
      BY <1>1, <2>5, NoStart DEF StopRemoves, WithoutRun
    <3> QED
      BY <1>3, <2>5, <3>1, <3>2, QuietSerial DEF StopRemoves
  <2>6. ASSUME NEW w, NEW c, StopQueued(p, w, c) PROVE SerialInv'
    <3>1. FewerLaunches
      BY <1>1, <2>1, <2>6, NoLaunch DEF StopQueued, IdleAct
    <3>2. FewerJobs
      BY <1>1, <2>6, ShorterQueue DEF StopQueued
    <3> QED
      BY <1>2, <2>6, <3>1, <3>2, QuietSerial DEF StopQueued
  <2>7. ASSUME NEW w, NEW c, StopActive(p, w, c) PROVE SerialInv'
    <3>1. FewerLaunches
      BY <1>1, <2>1, <2>7, NoLaunch DEF StopActive, IdleAct
    <3> QED
      BY <1>2, <1>3, <2>7, <3>1, QuietSerial DEF StopActive, files
  <2> QED
    BY <1>5, <2>2, <2>3, <2>4, <2>5, <2>6, <2>7 DEF Call
<1>6. ASSUME NEW a \in Actors, Launch(d, a) PROVE SerialInv'
  <2>1. CASE LaunchFails(a)
    <3>1. FewerLaunches
      BY <1>1, <2>1, NoLaunch DEF LaunchFails, IdleAct
    <3> QED
      BY <1>2, <1>3, <2>1, <3>1, QuietSerial DEF LaunchFails, files
  <2>2. CASE ReleaseLease(d, a)
    <3>1. FewerLaunches
      BY <1>1, <2>2, NoLaunch DEF ReleaseLease, IdleAct
    <3> QED
      BY <1>2, <1>3, <2>2, <3>1, QuietSerial DEF ReleaseLease, files
  <2>3. CASE LaunchStarts(a) \/ LaunchGivesUp(a) \/ LaunchRaises(a)
    <3>1. active' = active /\ bqueue' = bqueue
      BY <2>3 DEF LaunchStarts, LaunchGivesUp, LaunchRaises, files
    <3>2. \/ \E run : act' = [act EXCEPT ![a].run = run]
          \/ act' = [act EXCEPT ![a] = IdleAct] /\ IdleAct.at # "launch"
      BY <2>3 DEF LaunchStarts, LaunchGivesUp, LaunchRaises, IdleAct
    <3>3. FewerLaunches
      BY <1>1, <3>2, NoLaunch
    <3> QED
      BY <1>2, <1>3, <3>1, <3>3, QuietSerial
  <2> QED
    BY <1>6, <2>1, <2>2, <2>3, RecordSerial, DequeueSerial DEF Launch
<1>7. CASE Reconcile(d)
  <2>1. FewerRuns
    BY <1>1, <1>2, <1>7, NoStart DEF Reconcile, ReconcileActive, ReconcileQueued
  <2>2. FewerJobs
    BY <1>1, <1>3, <1>7, ShorterQueue
       DEF Reconcile, ReconcileActive, ReconcileQueued, NewLeases, FreshLeases
  <2> QED
    BY <1>4, <1>7, <2>1, <2>2, QuietSerial DEF Reconcile, ReconcileActive, ReconcileQueued
<1>8. CASE Sweep(d)
  <2>1. FewerRuns
    <3>1. \/ active' = active
          \/ \E w : active' = [active EXCEPT ![w] = NoRun]
          \/ \E w : active' = [active EXCEPT ![w].claim = CompletionTTL]
      BY <1>8 DEF Sweep, SweepStart, SweepNext, Transfer, SweepRemoves, SweepDrops, SweepBrowses,
                  SubmitResults, TickReconciled, TickAttests, files, WithoutRun
    <3> QED
      BY <1>1, <3>1, NoStart
  <2>2. FewerLaunches
    <3>1. act' = act \/ act' = [act EXCEPT ![Main].at = "browse"]
      BY <1>8 DEF Sweep, SweepStart, SweepNext, Transfer, SweepRemoves, SweepDrops, SweepBrowses,
                  SubmitResults, TickReconciled, TickAttests
    <3> QED
      BY <1>1, <3>1, NoLaunch DEF Actors
  <2>3. bqueue' = bqueue
    BY <1>8 DEF Sweep, SweepStart, SweepNext, Transfer, SweepRemoves, SweepDrops, SweepBrowses,
                SubmitResults, TickReconciled, TickAttests, files
  <2> QED
    BY <1>3, <2>1, <2>2, <2>3, QuietSerial
<1>9. CASE TimePasses(d) \/ Crash
  <2>1. FewerRuns
    BY <1>1, <1>9, NoStart DEF TimePasses, Crash
  <2>2. FewerLaunches
    BY <1>4, <1>9 DEF TimePasses, Crash, FewerLaunches, IdleAct
  <2> QED
    BY <1>3, <1>9, <2>1, <2>2, QuietSerial DEF TimePasses, Crash
<1> QED
  BY <1>2, <1>3, <1>4, <1>5, <1>6, <1>7, <1>8, <1>9, QuietSerial
     DEF BeginTurn, EndTurn, ProcessEnds, Update, vars, files

-----------------------------------------------------------------------------
(* Results: a run is at one place at a time, and where it is tells whether   *)
(* its result has been delivered.                                            *)

InTable(r) == \E w \in Workers : active[w].run = r
InMemory(r) == \E c \in Contacts : r \in results[c]

\* A run that was not started, or is on its way from Popen to its record
Launched(r) == \E a \in Actors : Launching(a) /\ act[a].run = r
Unrecorded(r) == procs[r] = "none" \/ Launched(r)

\* Such a run is nowhere, and on its way once.
Nowhere(r) == ~InTable(r) /\ ~InMemory(r) /\ main.rec.run # r /\ delivered[r] = 0
Unstarted == \A r \in Runs : Unrecorded(r) => Nowhere(r)
OneLaunch ==
    \A a \in Actors : Launching(a) =>
        /\ procs[act[a].run] # "none"
        /\ \A b \in Actors : Launching(b) /\ act[b].run = act[a].run => a = b

\* The table has a run once; the sweep has one only while it claims it, and
\* then the table has it at no other worker, and no longer when it is dropped.
OneRecord ==
    /\ \A v, w \in Workers : active[v].run = active[w].run => v = w \/ active[v].run = None
    /\ ~Claiming => main.rec.run = None
    /\ Claiming => \A w \in Workers :
            active[w].run = main.rec.run => w = main.w /\ main.at # "drop"

\* What has been delivered is in nobody's hands, but for the record that the
\* sweep is about to remove; and what is in memory is in memory only, once.
OneHand ==
    \A r \in Runs :
        /\ delivered[r] <= 1
        /\ delivered[r] > 0 =>
              /\ ~InMemory(r)
              /\ InTable(r) \/ main.rec.run = r => main.at = "remove" /\ main.rec.run = r
        /\ InMemory(r) => ~InTable(r) /\ main.rec.run # r
        /\ \A b, c \in Contacts : r \in results[b] /\ r \in results[c] => b = c

OnceInv == Unstarted /\ OneLaunch /\ OneRecord /\ (faults = 0 => OneHand)

\* Nothing is started.
FewerStarts == \A a \in Actors : Launching(a)' => Launching(a) /\ act'[a].run = act[a].run
NoNewRun == /\ FewerStarts
            /\ \A r \in Runs : procs'[r] = "none" => procs[r] = "none"

\* A call that goes on without starting a process
LEMMA NoProcess ==
  ASSUME act \in [Actors -> CallRecord], NEW a \in Actors,
         \/ act' = act
         \/ \E rec : (rec.at # "launch" \/ rec.run = None) /\ act' = [act EXCEPT ![a] = rec]
         \/ \E at : (at # "launch" \/ act[a].run = None) /\ act' = [act EXCEPT ![a].at = at]
         \/ act' = [act EXCEPT ![a].run = None]
  PROVE  FewerStarts
<1>1. ASSUME NEW at, at # "launch" \/ act[a].run = None, act' = [act EXCEPT ![a].at = at]
      PROVE  FewerStarts
  <2>1. act'[a].at = at /\ act'[a].run = act[a].run
    BY <1>1 DEF CallRecord
  <2> QED
    BY <1>1, <2>1 DEF FewerStarts, Launching
<1>2. CASE act' = [act EXCEPT ![a].run = None]
  <2>1. act'[a].run = None
    BY <1>2 DEF CallRecord
  <2> QED
    BY <1>2, <2>1 DEF FewerStarts, Launching
<1> QED
  BY <1>1, <1>2 DEF FewerStarts, Launching

\* Then what is not recorded had not been before.
LEMMA StaysUnrecorded ==
  ASSUME WTypeOK, OneLaunch, NoNewRun
  PROVE  OneLaunch' /\ \A r \in Runs : Unrecorded(r)' => Unrecorded(r)
<1>1. \A a \in Actors : Launching(a) => act[a].run \in Runs
  BY DEF WTypeOK, ActsOK, CallRecord, Launching
<1>2. OneLaunch'
  BY <1>1 DEF OneLaunch, NoNewRun, FewerStarts
<1> QED
  BY <1>2 DEF NoNewRun, FewerStarts, Unrecorded, Launched

\* A step that claims, delivers and forgets nothing
LEMMA QuietOnce ==
  ASSUME WTypeOK, OnceInv,
         \A w \in Workers : active'[w].run \in {active[w].run, None},
         OneLaunch', \A r \in Runs : Unrecorded(r)' => Unrecorded(r),
         UNCHANGED <<results, delivered>>, faults' = 0 => faults = 0,
         \/ main' = main
         \/ ~Claiming /\ ~Claiming' /\ main'.rec.run = None
  PROVE  OnceInv'
<1>1. \A r \in Runs : r # None /\ (InTable(r)' => InTable(r)) /\ (InMemory(r)' <=> InMemory(r))
  BY WorkersAssumption DEF InTable, InMemory
<1>2. Claiming => main.rec.run # None
  BY WorkersAssumption DEF WTypeOK, SweepOK
<1>3. Unstarted'
  <2> SUFFICES ASSUME NEW r \in Runs, Unrecorded(r)'
               PROVE  (~InTable(r) /\ ~InMemory(r) /\ main.rec.run # r /\ delivered[r] = 0)'
    BY DEF Unstarted, Nowhere
  <2> QED
    BY <1>1 DEF OnceInv, Unstarted, Nowhere
<1>4. OneRecord'
  <2>1. CASE main' = main
    BY <1>2, <2>1 DEF OnceInv, OneRecord, Claiming
  <2>2. CASE ~Claiming /\ ~Claiming' /\ main'.rec.run = None
    BY <2>2 DEF OnceInv, OneRecord
  <2> QED
    BY <2>1, <2>2
<1>5. ASSUME OneHand PROVE OneHand'
  <2> SUFFICES ASSUME NEW r \in Runs
               PROVE  /\ delivered'[r] <= 1
                      /\ delivered'[r] > 0 =>
                           /\ ~InMemory(r)'
                           /\ InTable(r)' \/ main'.rec.run = r =>
                                  main'.at = "remove" /\ main'.rec.run = r
                      /\ InMemory(r)' => ~InTable(r)' /\ main'.rec.run # r
                      /\ \A b, c \in Contacts : r \in results'[b] /\ r \in results'[c] => b = c
    BY DEF OneHand
  <2>1. CASE main' = main
    BY <1>1, <1>5, <2>1 DEF OneHand
  <2>2. CASE ~Claiming /\ ~Claiming' /\ main'.rec.run = None
    BY <1>1, <1>5, <2>2 DEF OneHand, Claiming
  <2> QED
    BY <2>1, <2>2
<1> QED
  BY <1>3, <1>4, <1>5 DEF OnceInv

\* The run that is recorded was nowhere and is on its way no more.
LEMMA RecordOnce ==
  ASSUME WTypeOK, OnceInv, NEW a \in Actors, RecordActiveRun(a)
  PROVE  OnceInv'
<1> PICK r \in Runs : r = act[a].run
  BY DEF RecordActiveRun, Launching, WTypeOK, ActsOK, CallRecord
<1>1. /\ Launching(a) /\ act[a].run = r /\ act' = [act EXCEPT ![a] = IdleAct]
      /\ active' = [active EXCEPT ![act[a].w] =
              [run |-> r, contact |-> act[a].contact, lease |-> act[a].lease,
               since |-> doc.epoch, claim |-> 0]]
  BY DEF RecordActiveRun
<1>2. /\ act[a].w \in Workers /\ active \in [Workers -> RunRecord]
      /\ act \in [Actors -> CallRecord]
      /\ UNCHANGED <<procs, main, results, delivered, faults>>
  BY DEF RecordActiveRun, Launching, WTypeOK, ActsOK, FitCall, TableOK, history
<1>3. ~InTable(r) /\ ~InMemory(r) /\ main.rec.run # r /\ delivered[r] = 0
  BY <1>1 DEF OnceInv, Unstarted, Nowhere, Unrecorded, Launched
<1>9. NoNewRun /\ ~Launching(a)'
  BY <1>1, <1>2, NoProcess DEF NoNewRun, IdleAct, Launching
<1>10. OneLaunch' /\ \A x \in Runs : Unrecorded(x)' => Unrecorded(x) /\ x # r
  <2>1. OneLaunch' /\ \A x \in Runs : Unrecorded(x)' => Unrecorded(x)
    BY <1>9, StaysUnrecorded DEF OnceInv
  <2>2. ~Unrecorded(r)'
    BY <1>1, <1>2, <1>9 DEF OnceInv, OneLaunch, Unrecorded, Launched, NoNewRun, FewerStarts
  <2> QED
    BY <2>1, <2>2
<1>4. \A w \in Workers : active'[w].run = IF w = act[a].w THEN r ELSE active[w].run
  BY <1>1, <1>2
<1>5. \A x \in Runs : (InTable(x)' => InTable(x) \/ x = r) /\ (InMemory(x)' <=> InMemory(x))
  BY <1>2, <1>4 DEF InTable, InMemory
<1>6. Unstarted'
  <2> SUFFICES ASSUME NEW x \in Runs, Unrecorded(x)'
               PROVE  (~InTable(x) /\ ~InMemory(x) /\ main.rec.run # x /\ delivered[x] = 0)'
    BY DEF Unstarted, Nowhere
  <2>1. x # r /\ Unrecorded(x)
    BY <1>10
  <2> QED
    BY <1>2, <1>5, <2>1 DEF OnceInv, Unstarted, Nowhere
<1>7. OneRecord'
  BY <1>2, <1>3, <1>4 DEF OnceInv, OneRecord, Claiming, InTable
<1>8. ASSUME OneHand PROVE OneHand'
  <2> SUFFICES ASSUME NEW x \in Runs
               PROVE  /\ delivered'[x] <= 1
                      /\ delivered'[x] > 0 =>
                           /\ ~InMemory(x)'
                           /\ InTable(x)' \/ main'.rec.run = x =>
                                  main'.at = "remove" /\ main'.rec.run = x
                      /\ InMemory(x)' => ~InTable(x)' /\ main'.rec.run # x
                      /\ \A b, c \in Contacts : x \in results'[b] /\ x \in results'[c] => b = c
    BY DEF OneHand
  <2> QED
    BY <1>2, <1>3, <1>5, <1>8 DEF OneHand
<1> QED
  BY <1>2, <1>6, <1>7, <1>8, <1>10 DEF OnceInv

\* A process is started, or its launch ends without a record of it.
LEMMA LaunchOnce ==
  ASSUME WTypeOK, OnceInv, NEW a \in Actors, LaunchStarts(a) \/ LaunchGivesUp(a) \/ LaunchRaises(a)
  PROVE  OnceInv'
<1>1. /\ act \in [Actors -> CallRecord] /\ procs \in [Runs -> {"none", "running", "ended"}]
      /\ faults \in Nat /\ \A b \in Actors : Launching(b) => act[b].run \in Runs
      /\ \A x \in Runs : x # None
  BY WorkersAssumption DEF WTypeOK, ActsOK, RestOK, CallRecord, Launching
<1>2. active' = active /\ delivered' = delivered
  BY DEF LaunchStarts, LaunchGivesUp, LaunchRaises, files, history
<1>3. OneLaunch' /\ \A x \in Runs : Unrecorded(x)' => Unrecorded(x)
  <2>1. CASE LaunchStarts(a)
    <3>1. PICK r \in Runs : /\ procs[r] = "none" /\ procs' = [procs EXCEPT ![r] = "running"]
                            /\ act' = [act EXCEPT ![a].run = r]
      BY <2>1 DEF LaunchStarts
    <3>2. /\ act[a].at = "launch" /\ act[a].run = None /\ act'[a].run = r
          /\ \A b \in Actors : b # a => act'[b] = act[b]
      BY <1>1, <2>1, <3>1 DEF LaunchStarts, CallRecord
    <3>3. \A b \in Actors : b # a /\ Launching(b)' =>
              Launching(b) /\ act'[b].run = act[b].run /\ act[b].run # r
      BY <3>1, <3>2 DEF Launching, OnceInv, OneLaunch
    <3>4. \A x \in Runs : procs'[x] = "none" => procs[x] = "none" /\ x # r
      BY <1>1, <3>1
    <3>5. OneLaunch'
      BY <1>1, <3>2, <3>3, <3>4 DEF OnceInv, OneLaunch
    <3>6. ASSUME NEW x \in Runs, Unrecorded(x)' PROVE Unrecorded(x)
      <4>1. CASE x = r
        BY <3>1, <4>1 DEF Unrecorded
      <4>2. CASE x # r
        BY <3>2, <3>3, <3>4, <3>6, <4>2 DEF Unrecorded, Launched
      <4> QED
        BY <4>1, <4>2
    <3> QED
      BY <3>5, <3>6
  <2>2. CASE LaunchGivesUp(a) \/ LaunchRaises(a)
    <3>1. FewerStarts
      BY <1>1, <2>2, NoProcess DEF LaunchGivesUp, LaunchRaises, IdleAct
    <3>2. \A r \in Runs : procs'[r] = "none" => procs[r] = "none"
      BY <1>1, <2>2 DEF LaunchGivesUp, LaunchRaises
    <3> QED
      BY <3>1, <3>2, StaysUnrecorded DEF OnceInv, NoNewRun
  <2> QED
    BY <2>1, <2>2
<1>4. CASE LaunchStarts(a) \/ LaunchGivesUp(a)
  <2>1. UNCHANGED <<main, results>> /\ faults' \in {faults, faults + 1}
    BY <1>4 DEF LaunchStarts, LaunchGivesUp, history
  <2> QED
    BY <1>1, <1>2, <1>3, <2>1, QuietOnce
<1>5. CASE LaunchRaises(a)
  <2>1. /\ faults' # 0
        /\ \/ UNCHANGED <<main, results>>
           \/ main' = IdleMain /\ results' = [c \in Contacts |-> {}]
    BY <1>1, <1>5 DEF LaunchRaises
  <2>2. main' = IdleMain => ~Claiming' /\ main'.rec.run = None
    BY DEF Claiming, IdleMain, NoRun
  <2>3. OneRecord'
    BY <1>2, <2>1, <2>2 DEF OnceInv, OneRecord, Claiming
  <2>4. Unstarted'
    <3> SUFFICES ASSUME NEW x \in Runs, Unrecorded(x)' PROVE Nowhere(x)'
      BY DEF Unstarted
    <3>1. Nowhere(x)
      BY <1>3 DEF OnceInv, Unstarted
    <3> QED
      BY <1>1, <1>2, <2>1, <2>2, <3>1 DEF Nowhere, InTable, InMemory
  <2> QED
    BY <1>3, <2>1, <2>3, <2>4 DEF OnceInv
<1> QED
  BY <1>4, <1>5

\* A run that is claimed has not been delivered.
LEMMA ClaimOnce ==
  ASSUME WTypeOK, OnceInv, NEW w \in Workers, NEW run \in Runs, SweepNext(w, run)
  PROVE  OnceInv'
<1>0. OneLaunch' /\ \A x \in Runs : Unrecorded(x)' => Unrecorded(x)
  <2>1. UNCHANGED <<procs, act>>
    BY DEF SweepNext
  <2> QED
    BY <2>1 DEF OnceInv, OneLaunch, Unrecorded, Launched, Launching
<1>1. /\ active \in [Workers -> RunRecord] /\ main.at = "sweep" /\ main.rec.run = None
      /\ main \in SweepRecord /\ UNCHANGED <<procs, results, delivered, faults>>
  BY DEF SweepNext, WTypeOK, TableOK, SweepOK, OnceInv, OneRecord, Claiming, history
<1>2. CASE ~(procs[run] = "ended" /\ Claimable60(w, run))
  <2>1. active' = active /\ main' = [main EXCEPT !.todo = @ \ {<<w, run>>}]
    BY <1>2 DEF SweepNext
  <2>2. ~Claiming /\ ~Claiming' /\ main'.rec.run = None
    BY <1>1, <2>1 DEF Claiming, SweepRecord
  <2> QED
    BY <1>0, <1>1, <2>1, <2>2, QuietOnce
<1>3. CASE procs[run] = "ended" /\ Claimable60(w, run)
  <2>1. /\ active' = [active EXCEPT ![w].claim = CompletionTTL]
        /\ main'.at = "transfer" /\ main'.w = w /\ main'.rec = active[w] /\ active[w].run = run
    BY <1>3 DEF SweepNext, Claimable60
  <2>2. \A v \in Workers : active'[v].run = active[v].run
    BY <1>1, <2>1 DEF RunRecord
  <2>3. \A x : (InTable(x)' <=> InTable(x)) /\ (InMemory(x)' <=> InMemory(x))
    BY <1>1, <2>2 DEF InTable, InMemory
  <2>4. InTable(run) /\ run # None
    BY <2>1, WorkersAssumption DEF InTable
  <2>5. Unstarted'
    <3> SUFFICES ASSUME NEW x \in Runs, Unrecorded(x)'
                 PROVE  (~InTable(x) /\ ~InMemory(x) /\ main.rec.run # x /\ delivered[x] = 0)'
      BY DEF Unstarted, Nowhere
    <3> QED
      BY <1>0, <1>1, <2>1, <2>3, <2>4 DEF OnceInv, Unstarted, Nowhere
  <2>6. OneRecord'
    BY <2>1, <2>2, <2>4 DEF OnceInv, OneRecord, Claiming
  <2>7. ASSUME OneHand PROVE OneHand'
    <3> SUFFICES ASSUME NEW x \in Runs
                 PROVE  /\ delivered'[x] <= 1
                        /\ delivered'[x] > 0 =>
                             /\ ~InMemory(x)'
                             /\ InTable(x)' \/ main'.rec.run = x =>
                                    main'.at = "remove" /\ main'.rec.run = x
                        /\ InMemory(x)' => ~InTable(x)' /\ main'.rec.run # x
                        /\ \A b, c \in Contacts : x \in results'[b] /\ x \in results'[c] => b = c
      BY DEF OneHand
    <3>1. delivered[run] \in Nat /\ ~(delivered[run] > 0) /\ ~InMemory(run)
      BY <1>1, <2>4, <2>7 DEF OneHand, WTypeOK, RestOK
    <3> QED
      BY <1>1, <2>1, <2>3, <2>7, <3>1 DEF OneHand
  <2> QED
    BY <1>0, <1>1, <2>5, <2>6, <2>7 DEF OnceInv
<1> QED
  BY <1>2, <1>3

\* The transfer delivers the run in hand, which had not been.
LEMMA TransferOnce ==
  ASSUME WTypeOK, OnceInv, NEW d, Transfer(d)
  PROVE  OnceInv'
<1>0. OneLaunch' /\ \A x \in Runs : Unrecorded(x)' => Unrecorded(x)
  <2>1. UNCHANGED <<procs, act>>
    BY DEF Transfer
  <2> QED
    BY <2>1 DEF OnceInv, OneLaunch, Unrecorded, Launched, Launching
<1> DEFINE run == main.rec.run
<1>1. /\ main.at = "transfer" /\ run \in Runs /\ main \in SweepRecord
      /\ delivered \in [Runs -> Nat] /\ faults \in Nat
      /\ UNCHANGED <<active, procs, results>>
  BY DEF Transfer, WTypeOK, SweepOK, RestOK, Claiming, files
<1>2. PICK at \in {"remove", "refused"} : main' = [main EXCEPT !.at = at]
  BY DEF Transfer
<1>3. main'.at = at /\ main'.w = main.w /\ main'.rec = main.rec
  BY <1>1, <1>2 DEF SweepRecord
<1>4. \/ delivered' = [delivered EXCEPT ![run] = @ + 1] /\ at = "remove" /\ faults' = faults
      \/ delivered' = delivered /\ at = "refused" /\ faults' \in {faults, faults + 1}
  <2>1. \A x \in {"remove", "refused"} : main' = [main EXCEPT !.at = x] => at = x
    BY <1>1, <1>3 DEF SweepRecord
  <2> QED
    BY <2>1 DEF Transfer
<1>5. \A x : (InTable(x)' <=> InTable(x)) /\ (InMemory(x)' <=> InMemory(x))
  BY <1>1 DEF InTable, InMemory
<1>6. Unstarted'
  <2> SUFFICES ASSUME NEW x \in Runs, Unrecorded(x)'
               PROVE  (~InTable(x) /\ ~InMemory(x) /\ main.rec.run # x /\ delivered[x] = 0)'
    BY DEF Unstarted, Nowhere
  <2>1. Unrecorded(x) /\ x # run
    BY <1>0, <1>1 DEF OnceInv, Unstarted, Nowhere
  <2>2. delivered'[x] = delivered[x]
    BY <1>1, <1>4, <2>1
  <2> QED
    BY <1>0, <1>3, <1>5, <2>1, <2>2 DEF OnceInv, Unstarted, Nowhere
<1>7. OneRecord'
  BY <1>1, <1>3 DEF OnceInv, OneRecord, Claiming
<1>8. ASSUME faults' = 0 PROVE OneHand'
  <2> SUFFICES ASSUME NEW x \in Runs
               PROVE  /\ delivered'[x] <= 1
                      /\ delivered'[x] > 0 =>
                           /\ ~InMemory(x)'
                           /\ InTable(x)' \/ main'.rec.run = x =>
                                  main'.at = "remove" /\ main'.rec.run = x
                      /\ InMemory(x)' => ~InTable(x)' /\ main'.rec.run # x
                      /\ \A b, c \in Contacts : x \in results'[b] /\ x \in results'[c] => b = c
    BY DEF OneHand
  <2>1. faults = 0 /\ OneHand
    BY <1>1, <1>4, <1>8 DEF OnceInv
  <2>2. ~(delivered[run] > 0) /\ ~InMemory(run)
    BY <1>1, <2>1 DEF OneHand
  <2>3. InTable(x) \/ x = run => ~(delivered[x] > 0)
    BY <1>1, <2>1, <2>2 DEF OneHand
  <2>4. CASE x = run
    <3>1. delivered'[x] <= 1 /\ (delivered'[x] > 0 => at = "remove")
      BY <1>1, <1>4, <2>2, <2>4
    <3> QED
      BY <1>1, <1>3, <1>5, <2>1, <2>2, <2>4, <3>1 DEF OneHand
  <2>5. CASE x # run
    <3>1. delivered'[x] = delivered[x]
      BY <1>1, <1>4, <2>5
    <3> QED
      BY <1>1, <1>3, <1>5, <2>1, <2>3, <2>5, <3>1 DEF OneHand
  <2> QED
    BY <2>4, <2>5
<1> QED
  BY <1>0, <1>6, <1>7, <1>8 DEF OnceInv

\* The record that is removed was the only one of its run.
LEMMA RemoveOnce ==
  ASSUME WTypeOK, OnceInv, SweepRemoves
  PROVE  OnceInv'
<1>0. OneLaunch' /\ \A x \in Runs : Unrecorded(x)' => Unrecorded(x)
  <2>1. UNCHANGED <<procs, act>>
    BY DEF SweepRemoves
  <2> QED
    BY <2>1 DEF OnceInv, OneLaunch, Unrecorded, Launched, Launching
<1> DEFINE run == main.rec.run
<1>1. /\ main.at \in {"remove", "refused"} /\ run \in Runs /\ main \in SweepRecord /\ main.w \in Workers
      /\ active \in [Workers -> RunRecord] /\ delivered \in [Runs -> Nat]
      /\ UNCHANGED <<procs, results, delivered, faults>>
  BY DEF SweepRemoves, WTypeOK, SweepOK, TableOK, RestOK, Claiming, history
<1>2. /\ \A w \in Workers : active'[w].run \in {active[w].run, None}
      /\ active'[main.w].run # run
  BY <1>1, WorkersAssumption DEF SweepRemoves, WithoutRun, NoRun
<1>3. \A w \in Workers : active'[w].run # run
  BY <1>1, <1>2, WorkersAssumption DEF OnceInv, OneRecord, Claiming
<1>4. \A x \in Runs : x # None /\ (InTable(x)' => InTable(x) /\ x # run) /\ (InMemory(x)' <=> InMemory(x))
  BY <1>1, <1>2, <1>3, WorkersAssumption DEF InTable, InMemory
<1>5. \/ main.at = "refused" /\ main'.at = "drop" /\ main'.rec = main.rec
      \/ main.at = "remove" /\ ~Claiming' /\ main'.rec.run = None
  BY <1>1 DEF SweepRemoves, IdleMain, NoRun, Claiming, SweepRecord
<1>6. Unstarted'
  <2> SUFFICES ASSUME NEW x \in Runs, Unrecorded(x)'
               PROVE  (~InTable(x) /\ ~InMemory(x) /\ main.rec.run # x /\ delivered[x] = 0)'
    BY DEF Unstarted, Nowhere
  <2> QED
    BY <1>0, <1>1, <1>4, <1>5 DEF OnceInv, Unstarted, Nowhere
<1>7. OneRecord'
  BY <1>1, <1>2, <1>3, <1>5 DEF OnceInv, OneRecord, Claiming
<1>8. ASSUME OneHand PROVE OneHand'
  <2> SUFFICES ASSUME NEW x \in Runs
               PROVE  /\ delivered'[x] <= 1
                      /\ delivered'[x] > 0 =>
                           /\ ~InMemory(x)'
                           /\ InTable(x)' \/ main'.rec.run = x =>
                                  main'.at = "remove" /\ main'.rec.run = x
                      /\ InMemory(x)' => ~InTable(x)' /\ main'.rec.run # x
                      /\ \A b, c \in Contacts : x \in results'[b] /\ x \in results'[c] => b = c
    BY DEF OneHand
  <2> QED
    BY <1>1, <1>4, <1>5, <1>8 DEF OneHand
<1> QED
  BY <1>0, <1>1, <1>6, <1>7, <1>8 DEF OnceInv

\* A result that is put into memory was nowhere else.
LEMMA DropOnce ==
  ASSUME WTypeOK, OnceInv, NEW d, SweepDrops(d)
  PROVE  OnceInv'
<1>0. OneLaunch' /\ \A x \in Runs : Unrecorded(x)' => Unrecorded(x)
  <2>1. UNCHANGED <<procs, act>>
    BY DEF SweepDrops
  <2> QED
    BY <2>1 DEF OnceInv, OneLaunch, Unrecorded, Launched, Launching
<1> DEFINE run == main.rec.run
<1>1. /\ main.at = "drop" /\ run \in Runs /\ results \in [Contacts -> SUBSET Runs]
      /\ main'.at = "sweep" /\ main'.rec = NoRun
      /\ results' = [results EXCEPT ![main.rec.contact] = @ \cup {run}]
      /\ UNCHANGED <<active, procs, delivered, faults>> /\ delivered \in [Runs -> Nat]
  BY DEF SweepDrops, WTypeOK, SweepOK, RestOK, Claiming, IdleMain, files, history
<1>2. NoRun.run = None /\ ~Claiming' /\ main'.rec.run # run /\ \A x \in Runs : x # None
  BY <1>1, WorkersAssumption DEF NoRun, Claiming
<1>3. \A x : (InTable(x)' <=> InTable(x)) /\ (InMemory(x)' => InMemory(x) \/ x = run)
  BY <1>1 DEF InTable, InMemory
<1>4. ~InTable(run)
  BY <1>1 DEF OnceInv, OneRecord, Claiming, InTable
<1>5. Unstarted'
  <2> SUFFICES ASSUME NEW x \in Runs, Unrecorded(x)'
               PROVE  (~InTable(x) /\ ~InMemory(x) /\ main.rec.run # x /\ delivered[x] = 0)'
    BY DEF Unstarted, Nowhere
  <2>1. Unrecorded(x) /\ x # run
    BY <1>0, <1>1 DEF OnceInv, Unstarted, Nowhere
  <2> QED
    BY <1>0, <1>1, <1>2, <1>3, <2>1 DEF OnceInv, Unstarted, Nowhere
<1>6. OneRecord'
  BY <1>1, <1>2 DEF OnceInv, OneRecord
<1>7. ASSUME OneHand PROVE OneHand'
  <2> SUFFICES ASSUME NEW x \in Runs
               PROVE  /\ delivered'[x] <= 1
                      /\ delivered'[x] > 0 =>
                           /\ ~InMemory(x)'
                           /\ InTable(x)' \/ main'.rec.run = x =>
                                  main'.at = "remove" /\ main'.rec.run = x
                      /\ InMemory(x)' => ~InTable(x)' /\ main'.rec.run # x
                      /\ \A b, c \in Contacts : x \in results'[b] /\ x \in results'[c] => b = c
    BY DEF OneHand
  <2>1. ~(delivered[run] > 0) /\ ~InMemory(run)
    BY <1>1, <1>7 DEF OneHand
  <2>2. \A b, c \in Contacts : x \in results'[b] /\ x \in results'[c] => b = c
    BY <1>1, <1>7, <2>1 DEF OneHand, InMemory
  <2> QED
    BY <1>1, <1>2, <1>3, <1>4, <1>7, <2>1, <2>2 DEF OneHand
<1> QED
  BY <1>0, <1>1, <1>5, <1>6, <1>7 DEF OnceInv

\* The results of a contact leave the memory as they are delivered.
LEMMA SubmitOnce ==
  ASSUME WTypeOK, OnceInv, NEW d, SubmitResults(d)
  PROVE  OnceInv'
<1>0. OneLaunch' /\ \A x \in Runs : Unrecorded(x)' => Unrecorded(x)
  <2>1. UNCHANGED <<procs, act>>
    BY DEF SubmitResults
  <2> QED
    BY <2>1 DEF OnceInv, OneLaunch, Unrecorded, Launched, Launching
<1>1. /\ main.at = "browse" /\ main \in SweepRecord /\ results \in [Contacts -> SUBSET Runs]
      /\ delivered \in [Runs -> Nat] /\ faults \in Nat /\ UNCHANGED <<active, procs>>
      /\ ~Claiming /\ main.rec.run = None
  BY DEF SubmitResults, WTypeOK, SweepOK, RestOK, Claiming, files, OnceInv, OneRecord
<1>2. ASSUME NEW c \in Contacts, main' = main, faults' = faults,
             delivered' = [r \in Runs |-> delivered[r] + IF r \in results[c] THEN 1 ELSE 0],
             results' = [results EXCEPT ![c] = {}]
      PROVE  OnceInv'
  <2>1. \A x : (InTable(x)' <=> InTable(x)) /\ (InMemory(x)' => InMemory(x))
    BY <1>1, <1>2 DEF InTable, InMemory
  <2>2. \A x \in Runs : x \in results[c] => InMemory(x)
    BY DEF InMemory
  <2>3. Unstarted'
    <3> SUFFICES ASSUME NEW x \in Runs, Unrecorded(x)'
                 PROVE  (~InTable(x) /\ ~InMemory(x) /\ main.rec.run # x /\ delivered[x] = 0)'
      BY DEF Unstarted, Nowhere
    <3>1. ~InMemory(x) /\ delivered[x] = 0
      BY <1>0, <1>1 DEF OnceInv, Unstarted, Nowhere
    <3>2. delivered'[x] = 0
      BY <1>2, <2>2, <3>1
    <3> QED
      BY <1>0, <1>1, <1>2, <2>1, <3>2 DEF OnceInv, Unstarted, Nowhere
  <2>4. OneRecord'
    BY <1>1, <1>2 DEF OnceInv, OneRecord, Claiming
  <2>5. ASSUME OneHand PROVE OneHand'
    <3> SUFFICES ASSUME NEW x \in Runs
                 PROVE  /\ delivered'[x] <= 1
                        /\ delivered'[x] > 0 =>
                             /\ ~InMemory(x)'
                             /\ InTable(x)' \/ main'.rec.run = x =>
                                    main'.at = "remove" /\ main'.rec.run = x
                        /\ InMemory(x)' => ~InTable(x)' /\ main'.rec.run # x
                        /\ \A a, b \in Contacts : x \in results'[a] /\ x \in results'[b] => a = b
      BY DEF OneHand
    <3>1. CASE x \in results[c]
      <4>1. InMemory(x) /\ ~(delivered[x] > 0) /\ ~InTable(x) /\ main.rec.run # x
        BY <2>2, <2>5, <3>1 DEF OneHand
      <4>2. delivered'[x] = 1
        BY <1>1, <1>2, <3>1, <4>1
      <4>3. \A b \in Contacts : x \notin results'[b]
        BY <1>1, <1>2, <2>5, <3>1 DEF OneHand
      <4> QED
        BY <1>2, <2>1, <4>1, <4>2, <4>3 DEF InMemory
    <3>2. CASE x \notin results[c]
      <4>1. delivered'[x] = delivered[x] /\ \A b \in Contacts : x \in results'[b] => x \in results[b]
        BY <1>1, <1>2, <3>2
      <4> QED
        BY <1>1, <1>2, <2>1, <2>5, <4>1 DEF OneHand
    <3> QED
      BY <3>1, <3>2
  <2> QED
    BY <1>0, <1>2, <2>3, <2>4, <2>5 DEF OnceInv
<1>3. CASE main' = [main EXCEPT !.at = "tick"] /\ UNCHANGED <<results, delivered, faults>>
  <2>1. ~Claiming' /\ main'.rec.run = None
    BY <1>1, <1>3 DEF Claiming, SweepRecord
  <2> QED
    BY <1>0, <1>1, <1>3, <2>1, QuietOnce
<1>4. CASE /\ faults' = faults + 1 /\ results' = [c \in Contacts |-> {}]
           /\ main' = IdleMain /\ delivered' = delivered
  <2>1. ~Claiming' /\ main'.rec.run = None /\ faults' # 0 /\ \A x \in Runs : x # None
    BY <1>1, <1>4, WorkersAssumption DEF Claiming, IdleMain, NoRun
  <2>2. OneRecord'
    BY <1>1, <2>1 DEF OnceInv, OneRecord
  <2>3. Unstarted'
    BY <1>0, <1>1, <1>4, <2>1 DEF OnceInv, Unstarted, Nowhere, InTable, InMemory
  <2> QED
    BY <1>0, <2>1, <2>2, <2>3 DEF OnceInv
<1> QED
  BY <1>2, <1>3, <1>4 DEF SubmitResults

\* The other steps move no run and no result.
LEMMA OnceStep ==
  ASSUME WTypeOK, OnceInv, [WNext]_vars
  PROVE  OnceInv'
<1> SUFFICES ASSUME NEW d,
                    \/ UNCHANGED vars
                    \/ \E p \in Callers : Call(d, p)
                    \/ \E a \in Actors : Launch(d, a)
                    \/ Reconcile(d) \/ Sweep(d)
                    \/ BeginTurn(d) \/ (\E q \in Claimed(d) : EndTurn(d, q))
                    \/ (\E r \in Runs : ProcessEnds(r))
                    \/ TimePasses(d) \/ Crash \/ Update(d)
             PROVE  OnceInv'
  BY DEF WNext
<1>1. /\ active \in [Workers -> RunRecord] /\ procs \in [Runs -> {"none", "running", "ended"}]
      /\ main \in SweepRecord /\ faults \in Nat /\ act \in [Actors -> CallRecord]
      /\ (~Claiming => main.rec.run = None)
  BY DEF WTypeOK, TableOK, ActsOK, SweepOK, RestOK, OnceInv, OneRecord
<1> DEFINE SameTable == active' = active \/ \E w : active' = [active EXCEPT ![w] = NoRun]
                                         \/ \E l : active' = [active EXCEPT ![w].lease = l]
           SameProcs == procs' = procs \/ \E r : procs' = [procs EXCEPT ![r] = "ended"]
           SameHands == UNCHANGED <<results, delivered>> /\ (faults' = 0 => faults = 0)
           SameMain == \/ main' = main
                       \/ ~Claiming /\ ~Claiming' /\ main'.rec.run = None
<1>0. act' = act => FewerStarts
  BY DEF FewerStarts, Launching
<1>2. ASSUME SameTable, SameProcs, FewerStarts, SameHands, SameMain PROVE OnceInv'
  <2>1. \A w \in Workers : active'[w].run \in {active[w].run, None}
    BY <1>1, <1>2 DEF RunRecord, NoRun
  <2>2. \A r \in Runs : procs'[r] = "none" => procs[r] = "none"
    BY <1>1, <1>2
  <2>3. OneLaunch' /\ \A r \in Runs : Unrecorded(r)' => Unrecorded(r)
    BY <1>2, <2>2, StaysUnrecorded DEF OnceInv, NoNewRun
  <2> QED
    BY <1>2, <2>1, <2>3, QuietOnce
<1>3. ASSUME NEW p \in Callers, Call(d, p) PROVE OnceInv'
  <2>1. SameTable
    BY <1>3 DEF Call, StartWorker, MessageWorker, StopQueued, StopActive, CreateRecord,
                EnterStart, Unregister, StopRemoves, files, WithoutRun
  <2>2. SameProcs
    BY <1>3 DEF Call, StartWorker, MessageWorker, StopQueued, StopActive, CreateRecord,
                EnterStart, Unregister, StopRemoves
  <2>3. SameHands /\ SameMain
    BY <1>3 DEF Call, StartWorker, MessageWorker, StopQueued, StopActive, CreateRecord,
                EnterStart, Unregister, StopRemoves, history
  <2>4. FewerStarts
    <3>1. p \in Actors
      BY DEF Actors
    <3>2. ASSUME NEW next, Admit(d, p, next), \A l : [next EXCEPT !.lease = l].run = None
          PROVE  FewerStarts
      <4>1. act' = act \/ \E l : act' = [act EXCEPT ![p] = [next EXCEPT !.lease = l]]
        BY <3>2 DEF Admit
      <4> QED
        BY <1>1, <3>1, <3>2, <4>1, NoProcess
    <3>3. CASE \E w, c : StartWorker(d, p, w, c) \/ MessageWorker(d, p, w, c)
      BY <3>2, <3>3 DEF StartWorker, MessageWorker, IdleAct
    <3>4. ASSUME NEW w, NEW c, StopQueued(p, w, c) PROVE FewerStarts
      BY <1>1, <3>1, <3>4, NoProcess DEF StopQueued, IdleAct
    <3>7. ASSUME NEW w, NEW c, StopActive(p, w, c) PROVE FewerStarts
      BY <1>1, <3>1, <3>7, NoProcess DEF StopActive, IdleAct
    <3>5. CASE EnterStart(p)
      <4>1. act[p].run = None
        BY <3>1, <3>5 DEF EnterStart, WTypeOK, ActsOK, FitCall
      <4> QED
        BY <1>1, <3>1, <3>5, <4>1, NoProcess DEF EnterStart, IdleAct
    <3>6. CASE CreateRecord(p) \/ Unregister(p) \/ StopRemoves(p)
      BY <1>1, <3>1, <3>6, NoProcess DEF CreateRecord, Unregister, StopRemoves
    <3> QED
      BY <1>3, <3>3, <3>4, <3>5, <3>6, <3>7 DEF Call
  <2> QED
    BY <1>2, <2>1, <2>2, <2>3, <2>4
<1>4. ASSUME NEW a \in Actors, LaunchFails(a) \/ ReleaseLease(d, a) \/ Dequeue(d, a)
      PROVE  OnceInv'
  <2>1. SameTable /\ SameProcs /\ SameHands /\ SameMain
    BY <1>4 DEF LaunchFails, ReleaseLease, Dequeue, files, history
  <2>2. FewerStarts
    <3>1. CASE LaunchFails(a) \/ ReleaseLease(d, a)
      BY <1>1, <3>1, NoProcess DEF LaunchFails, ReleaseLease, IdleAct
    <3>2. CASE Dequeue(d, a)
      <4>1. LeaveQueue(a) \/ \E l : TakeJob(a, l)
        BY <3>2 DEF Dequeue
      <4> QED
        BY <1>1, <4>1, NoProcess DEF LeaveQueue, TakeJob, IdleAct
    <3> QED
      BY <1>4, <3>1, <3>2
  <2> QED
    BY <1>2, <2>1, <2>2
<1>5. CASE Reconcile(d)
  <2>1. SameTable /\ SameProcs /\ SameHands /\ SameMain
    BY <1>5 DEF Reconcile, ReconcileActive, ReconcileQueued, history
  <2>2. act' = act
    BY <1>5 DEF Reconcile, ReconcileActive, ReconcileQueued
  <2> QED
    BY <1>0, <1>2, <2>1, <2>2
<1>6. CASE SweepStart(d) \/ SweepBrowses \/ TickReconciled(d) \/ TickAttests(d)
  <2>1. SameTable /\ SameProcs /\ UNCHANGED <<results, delivered>>
    BY <1>6 DEF SweepStart, SweepBrowses, TickReconciled, TickAttests, files, history
  <2>2. faults' \in {faults, faults + 1}
    BY <1>6 DEF SweepStart, SweepBrowses, TickReconciled, TickAttests, ReconcileEnds, history
  <2>3. SameHands
    BY <1>1, <2>1, <2>2
  <2>4. SameMain
    <3>1. ~Claiming
      BY <1>6 DEF SweepStart, SweepBrowses, TickReconciled, TickAttests, Claiming
    <3>2. main' = [main EXCEPT !.at = "attest"] => ~Claiming' /\ main'.rec.run = None
      BY <1>1, <3>1 DEF Claiming, SweepRecord
    <3>3. main' = IdleMain \/ main' = [IdleMain EXCEPT !.at = "browse"]
            => ~Claiming' /\ main'.rec.run = None
      BY DEF Claiming, IdleMain, NoRun
    <3>4. \A todo : main' = [IdleMain EXCEPT !.at = "sweep", !.todo = todo]
            => ~Claiming' /\ main'.rec.run = None
      BY DEF Claiming, IdleMain, NoRun
    <3> QED
      BY <1>6, <3>1, <3>2, <3>3, <3>4 DEF SweepStart, SweepBrowses, TickReconciled, TickAttests
  <2>5. FewerStarts
    <3>1. act' = act \/ act' = [act EXCEPT ![Main].at = "browse"]
      BY <1>6 DEF SweepStart, SweepBrowses, TickReconciled, TickAttests
    <3> QED
      BY <1>1, <3>1, NoProcess DEF Actors
  <2> QED
    BY <1>2, <2>1, <2>3, <2>4, <2>5
<1>7. CASE Sweep(d)
  BY <1>6, <1>7, ClaimOnce, TransferOnce, RemoveOnce, DropOnce, SubmitOnce DEF Sweep
<1>8. CASE BeginTurn(d) \/ (\E q : EndTurn(d, q)) \/ Update(d) \/ (\E r \in Runs : ProcessEnds(r))
           \/ UNCHANGED vars
  <2>1. SameTable /\ SameProcs /\ SameHands /\ SameMain
    BY <1>8 DEF BeginTurn, EndTurn, Update, ProcessEnds, files, history, vars
  <2>2. act' = act
    BY <1>8 DEF BeginTurn, EndTurn, Update, ProcessEnds, vars
  <2> QED
    BY <1>0, <1>2, <2>1, <2>2
<1>9. ASSUME active' = active \/ active' = [w \in Workers |-> [active[w] EXCEPT !.claim = Less(@)]]
      PROVE  \A w \in Workers : active'[w].run = active[w].run
  BY <1>1, <1>9 DEF RunRecord
<1>10. CASE TimePasses(d)
  <2>1. UNCHANGED <<procs, act, main, results, history>>
    BY <1>10 DEF TimePasses
  <2>2. OneLaunch' /\ \A r \in Runs : Unrecorded(r)' => Unrecorded(r)
    BY <1>0, <2>1, StaysUnrecorded DEF OnceInv, NoNewRun
  <2> QED
    BY <1>9, <1>10, <2>1, <2>2, QuietOnce DEF TimePasses, history
<1>11. CASE Crash
  <2>1. /\ ~Claiming' /\ main'.rec.run = None /\ faults' # 0 /\ UNCHANGED <<procs, delivered>>
        /\ results' = [c \in Contacts |-> {}] /\ \A x \in Runs : x # None
    BY <1>1, <1>11, WorkersAssumption DEF Crash, Claiming, IdleMain, NoRun
  <2>2. \A w \in Workers : active'[w].run = active[w].run
    BY <1>9, <1>11 DEF Crash
  <2>3. OneRecord'
    BY <2>1, <2>2 DEF OnceInv, OneRecord
  <2>4. OneLaunch' /\ \A r \in Runs : Unrecorded(r)' => Unrecorded(r)
    <3>1. FewerStarts
      BY <1>11 DEF Crash, FewerStarts, Launching, IdleAct
    <3> QED
      BY <2>1, <3>1, StaysUnrecorded DEF OnceInv, NoNewRun
  <2>5. Unstarted'
    <3> SUFFICES ASSUME NEW x \in Runs, Unrecorded(x)' PROVE Nowhere(x)'
      BY DEF Unstarted
    <3>1. Nowhere(x)
      BY <2>4 DEF OnceInv, Unstarted
    <3> QED
      BY <2>1, <2>2, <3>1 DEF Nowhere, InTable, InMemory
  <2> QED
    BY <2>1, <2>3, <2>4, <2>5 DEF OnceInv
<1> QED
  BY <1>3, <1>4, <1>5, <1>7, <1>8, <1>10, <1>11, LaunchOnce, RecordOnce DEF Launch

-----------------------------------------------------------------------------
(* The clock of a lease.  What no step but time may take from whoever works  *)
(* under it.                                                                 *)

\* The next transaction still finds the lease in the document.
AliveIn(e, l) == e.leases[l].live /\ e.leases[l].ttl > 0
Alive(l) == \E m \in Leases : m = l /\ AliveIn(doc, m)

\* From the pruned document d to e: only the leases of D are given up; no root
\* is claimed, or under leases that are new; and nothing becomes safe.
KeepsLeases(d, e, D) == \A l \in Leases \ D : d.leases[l].live => AliveIn(e, l)
KeepsClaims(d, e) ==
    \A q \in QueueIds, l \in Leases : e.items[q].lease = l => d.items[q].lease = l
GivesClaims(d, e) ==
    \A q \in QueueIds, l \in Leases : e.items[q].lease = l =>
        d.items[q].lease = l \/ (~d.leases[l].live /\ e.leases[l].live)
KeepsFence(d, e) == e.safe => d.safe /\ e.epoch = d.epoch
Keeps(d, e, D) == KeepsLeases(d, e, D) /\ KeepsClaims(d, e) /\ KeepsFence(d, e)
Gives(d, e) == KeepsLeases(d, e, {}) /\ GivesClaims(d, e) /\ KeepsFence(d, e)

\* What _prune leaves of a document
LEMMA PrunedLeases ==
  ASSUME NEW e, Inv(e), NEW d, d = Prune(e)
  PROVE  /\ Inv(d) /\ d.epoch = e.epoch /\ (d.safe => e.safe)
         /\ \A l \in Leases : d.leases[l].live <=> AliveIn(e, l)
         /\ \A l \in Leases : d.leases[l].live => AliveIn(d, l)
         /\ \A q \in QueueIds, l \in Leases : d.items[q].lease = l => e.items[q].lease = l
<1> DEFINE c == CancelExpiredDrain(e)
<1>1. /\ c.leases = e.leases /\ c.items = e.items /\ c.epoch = e.epoch /\ (c.safe => e.safe)
      /\ e.leases \in [Leases -> Lease] /\ Inv(c) /\ c \in Document
  BY CancelExpiredInv DEF CancelExpiredDrain, Inv, Document
<1>2. /\ d.leases = PruneLeases(c.leases) /\ d.items = PruneItems(c.items, PruneLeases(c.leases))
      /\ d.epoch = c.epoch /\ (d.safe => c.safe)
  BY <1>1 DEF Prune, Document
<1> HIDE DEF c
<1>3. ASSUME NEW l \in Leases
      PROVE  (d.leases[l].live <=> AliveIn(e, l)) /\ (d.leases[l].live => AliveIn(d, l))
  <2>1. d.leases[l] = IF e.leases[l].ttl = 0 THEN NoLease ELSE e.leases[l]
    BY <1>1, <1>2 DEF PruneLeases
  <2>2. e.leases[l].ttl \in Nat /\ NoLease.live = FALSE
    BY <1>1, BoundsAssumption DEF Lease, NoLease
  <2> QED
    BY <2>1, <2>2 DEF AliveIn
<1>4. ASSUME NEW q \in QueueIds, NEW l \in Leases, d.items[q].lease = l
      PROVE  e.items[q].lease = l
  BY <1>1, <1>2, <1>4, PrunePointwise, IdsAssumption
<1>5. Inv(d)
  BY PruneInv
<1> QED
  BY <1>1, <1>2, <1>3, <1>4, <1>5

\* The changes transactions are built from
LEMMA PollKeeps ==
  ASSUME NEW d, \A l \in Leases : d.leases[l].live => AliveIn(d, l), NEW D
  PROVE  Keeps(d, d, D)
BY DEF Keeps, KeepsLeases, KeepsClaims, KeepsFence

LEMMA NewLeaseKeeps ==
  ASSUME NEW d, Inv(d), \A l \in Leases : d.leases[l].live => AliveIn(d, l),
         NEW l \in Leases, NEW n
  PROVE  /\ Keeps(d, NewLease(d, l, n), {}) /\ AliveIn(NewLease(d, l, n), l)
         /\ NewLease(d, l, n).items = d.items
<1> SUFFICES ASSUME NEW e, e = NewLease(d, l, n)
             PROVE  Keeps(d, e, {}) /\ AliveIn(e, l) /\ e.items = d.items
  OBVIOUS
<1>1. d.leases \in [Leases -> Lease] /\ d \in Document
  BY DEF Inv, Document
<1>2. /\ e.leases = [d.leases EXCEPT ![l] = [live |-> TRUE, epoch |-> n, ttl |-> LeaseTTL]]
      /\ e.items = d.items /\ e.safe = FALSE
  BY <1>1 DEF NewLease, Document
<1>3. AliveIn(e, l) /\ \A k \in Leases : k # l => e.leases[k] = d.leases[k]
  BY <1>1, <1>2, BoundsAssumption DEF AliveIn
<1> QED
  BY <1>2, <1>3 DEF Keeps, KeepsLeases, KeepsClaims, KeepsFence, AliveIn

LEMMA DropLeaseKeeps ==
  ASSUME NEW d, Inv(d), \A l \in Leases : d.leases[l].live => AliveIn(d, l),
         NEW l \in Leases
  PROVE  Keeps(d, DropLease(d, l), {l})
<1> SUFFICES ASSUME NEW e, e = DropLease(d, l) PROVE Keeps(d, e, {l})
  OBVIOUS
<1>1. d.leases \in [Leases -> Lease] /\ d \in Document
  BY DEF Inv, Document
<1>2. /\ e.leases = [d.leases EXCEPT ![l] = NoLease] /\ e.items = d.items
      /\ e.safe = d.safe /\ e.epoch = d.epoch
  BY <1>1 DEF DropLease, Document
<1>3. \A k \in Leases : k # l => e.leases[k] = d.leases[k]
  BY <1>1, <1>2
<1> QED
  BY <1>2, <1>3 DEF Keeps, KeepsLeases, KeepsClaims, KeepsFence, AliveIn

\* acquire_activity, adopt_prefence_activity: the new lease is alive if it was granted.
LEMMA AcquireKeeps ==
  ASSUME NEW d, Inv(d), \A l \in Leases : d.leases[l].live => AliveIn(d, l),
         NEW l \in Leases, ~d.leases[l].live,
         (\E x : AcquireActivity(d, x, l)) \/ (\E prefence : AdoptPrefence(d, l, prefence))
  PROVE  /\ Keeps(d, doc', {}) /\ (doc'.leases[l].live => AliveIn(doc', l))
         /\ doc'.items = d.items
<1>1. doc' = d \/ \E n : doc' = NewLease(d, l, n)
  BY DEF AcquireActivity, AdoptPrefence
<1> QED
  BY <1>1, PollKeeps, NewLeaseKeeps

\* heartbeat
LEMMA HeartbeatKeeps ==
  ASSUME NEW d, Inv(d), \A l \in Leases : d.leases[l].live => AliveIn(d, l),
         NEW l \in Leases, Heartbeat(d, l)
  PROVE  Keeps(d, doc', {})
<1>1. CASE doc' = d
  BY <1>1, PollKeeps
<1>2. CASE doc' = Renew(d, {l})
  <2>1. /\ d.leases \in [Leases -> Lease] /\ d.items \in [QueueIds -> Item] /\ d \in Document
    BY DEF Inv, Document
  <2>2. /\ doc'.safe = d.safe /\ doc'.epoch = d.epoch
        /\ \A k \in Leases : doc'.leases[k] = IF k \in {l} /\ d.leases[k].live
                               THEN [d.leases[k] EXCEPT !.ttl = LeaseTTL] ELSE d.leases[k]
        /\ \A q \in QueueIds : doc'.items[q] = IF d.items[q].lease \in {l}
                    THEN [d.items[q] EXCEPT !.claim = ClaimTTL] ELSE d.items[q]
    BY <1>2, <2>1 DEF Renew, Document
  <2>3. ASSUME NEW k \in Leases, d.leases[k].live PROVE AliveIn(doc', k)
    <3>1. d.leases[k] \in Lease /\ AliveIn(d, k)
      BY <2>1, <2>3
    <3>2. doc'.leases[k] \in {d.leases[k], [d.leases[k] EXCEPT !.ttl = LeaseTTL]}
      BY <2>2
    <3> QED
      BY <3>1, <3>2, BoundsAssumption DEF AliveIn, Lease
  <2>4. ASSUME NEW q \in QueueIds PROVE doc'.items[q].lease = d.items[q].lease
    <3>1. d.items[q] \in Item
      BY <2>1
    <3>2. doc'.items[q] \in {d.items[q], [d.items[q] EXCEPT !.claim = ClaimTTL]}
      BY <2>2
    <3> QED
      BY <3>1, <3>2 DEF Item
  <2> QED
    BY <2>2, <2>3, <2>4 DEF Keeps, KeepsLeases, KeepsClaims, KeepsFence
<1> QED
  BY <1>1, <1>2, HeartbeatIsRenewal

\* request_drain, cancel_drain
LEMMA UpdateKeeps ==
  ASSUME NEW d, Inv(d), \A l \in Leases : d.leases[l].live => AliveIn(d, l),
         \/ \E m, secs : RequestDrain(d, m, secs)
         \/ \E m : CancelDrain(d, m)
  PROVE  Keeps(d, doc', {})
<1>1. /\ doc'.leases = d.leases /\ doc'.items = d.items
      /\ doc'.safe => d.safe /\ doc'.epoch = d.epoch
  BY DEF RequestDrain, CancelDrain, Inv, Document
<1> QED
  BY <1>1 DEF Keeps, KeepsLeases, KeepsClaims, KeepsFence, AliveIn

\* _claim_root_item
LEMMA ClaimKeeps ==
  ASSUME NEW d, Inv(d), \A l \in Leases : d.leases[l].live => AliveIn(d, l),
         NEW f, f \in Document, f.leases = d.leases, f.safe => d.safe, f.epoch = d.epoch,
         \A q \in QueueIds, l \in Leases : f.items[q].lease = l => d.items[q].lease = l,
         NEW K \in SUBSET QueueIds, NEW g \in Grants(d, K)
  PROVE  Gives(d, ClaimItems(f, K, g))
<1> SUFFICES ASSUME NEW e, e = ClaimItems(f, K, g) PROVE Gives(d, e)
  OBVIOUS
<1>1. f.leases \in [Leases -> Lease] /\ f.items \in [QueueIds -> Item]
  BY DEF Document
<1>2. /\ e.safe = (f.safe /\ K = {}) /\ e.epoch = f.epoch
      /\ \A l \in Leases : e.leases[l] =
            IF \E q \in K : g[q] = l
            THEN [live |-> TRUE, ttl |-> LeaseTTL,
                  epoch |-> AdmittedEpoch(f, CHOOSE q \in K : g[q] = l)]
            ELSE f.leases[l]
      /\ \A q \in QueueIds : e.items[q] =
            IF q \in K THEN [f.items[q] EXCEPT !.status = "claimed", !.lease = g[q],
                                               !.claim = ClaimTTL]
            ELSE f.items[q]
  BY <1>1 DEF ClaimItems, Document
<1>3. \A q \in K : g[q] \in FreshLeases(d)
  BY DEF Grants
<1>4. ASSUME NEW l \in Leases
      PROVE  /\ (\E q \in K : g[q] = l) => AliveIn(e, l)
             /\ ~(\E q \in K : g[q] = l) => e.leases[l] = d.leases[l]
  <2> DEFINE n == AdmittedEpoch(f, CHOOSE q \in K : g[q] = l)
  <2>1. e.leases[l] = IF \E q \in K : g[q] = l
                      THEN [live |-> TRUE, ttl |-> LeaseTTL, epoch |-> n] ELSE f.leases[l]
    BY <1>2
  <2> HIDE DEF n
  <2> QED
    BY <2>1, BoundsAssumption DEF AliveIn
<1>5. ASSUME NEW q \in QueueIds
      PROVE  e.items[q].lease = IF q \in K THEN g[q] ELSE f.items[q].lease
  <2>1. f.items[q] \in Item
    BY <1>1
  <2> DEFINE i == [f.items[q] EXCEPT !.status = "claimed", !.lease = g[q], !.claim = ClaimTTL]
  <2>2. i.lease = g[q]
    BY <2>1 DEF Item
  <2>3. e.items[q] = IF q \in K THEN i ELSE f.items[q]
    BY <1>2
  <2> HIDE DEF i
  <2> QED
    BY <2>2, <2>3
<1>6. ASSUME NEW l \in Leases, d.leases[l].live PROVE AliveIn(e, l)
  <2>1. CASE \E q \in K : g[q] = l
    BY <1>4, <2>1
  <2>2. CASE ~\E q \in K : g[q] = l
    BY <1>4, <1>6, <2>2 DEF AliveIn
  <2> QED
    BY <2>1, <2>2
<1>7. ASSUME NEW q \in QueueIds, NEW l \in Leases, e.items[q].lease = l
      PROVE  d.items[q].lease = l \/ (~d.leases[l].live /\ e.leases[l].live)
  <2>1. CASE q \in K
    <3>1. l = g[q] /\ ~d.leases[l].live
      BY <1>3, <1>5, <1>7, <2>1 DEF FreshLeases
    <3>2. AliveIn(e, l)
      BY <1>4, <2>1, <3>1
    <3> QED
      BY <3>1, <3>2 DEF AliveIn
  <2>2. CASE q \notin K
    BY <1>5, <1>7, <2>2
  <2> QED
    BY <2>1, <2>2
<1>8. e.safe => d.safe /\ e.epoch = d.epoch
  BY <1>2
<1> QED
  BY <1>6, <1>7, <1>8 DEF Gives, KeepsLeases, GivesClaims, KeepsFence

\* enqueue_root of contexts, claimed at once or left in the queue
LEMMA EnqueueKeeps ==
  ASSUME NEW d, Inv(d), \A l \in Leases : d.leases[l].live => AliveIn(d, l),
         NEW q \in RootIds, NEW c \in Contacts, NEW b \in Bodies, NEW admit,
         EnqueueRoot(d, q, c, b, admit)
  PROVE  Gives(d, doc')
<1> DEFINE f == Append2Queue(d, q, c, b, FALSE, d.epoch)
<1>1. d \in Document /\ d.epoch \in Nat /\ q \in QueueIds /\ FALSE \in BOOLEAN
  BY DEF Inv, Document, QueueIds
<1>8. Appended(d, f, q, c, b, FALSE, d.epoch)
  BY <1>1, AppendType
<1>2. /\ f \in Document /\ f.leases = d.leases /\ f.safe = d.safe /\ f.epoch = d.epoch
      /\ f.items[q].lease = None /\ \A k \in QueueIds : k # q => f.items[k] = d.items[k]
  BY <1>8 DEF Appended
<1> HIDE DEF f
<1>3. \A k \in QueueIds, l \in Leases : f.items[k].lease = l => d.items[k].lease = l
  BY <1>2, IdsAssumption
<1>4. ASSUME NEW e, e.leases = f.leases, e.items = f.items, e.safe = f.safe, e.epoch = f.epoch
      PROVE  Gives(d, e)
  BY <1>2, <1>3, <1>4 DEF Gives, KeepsLeases, GivesClaims, KeepsFence, AliveIn
<1>5. /\ EnsureNotice(f, c).leases = f.leases /\ EnsureNotice(f, c).items = f.items
      /\ EnsureNotice(f, c).safe = f.safe /\ EnsureNotice(f, c).epoch = f.epoch
  BY <1>2 DEF EnsureNotice, Document
<1>6. ASSUME NEW g \in Grants(d, {q}) PROVE Gives(d, ClaimItems(f, {q}, g))
  BY <1>1, <1>2, <1>3, ClaimKeeps
<1>7. doc' \in {f, EnsureNotice(f, c)} \/ \E g \in Grants(d, {q}) : doc' = ClaimItems(f, {q}, g)
  BY DEF EnqueueRoot, f
<1> QED
  BY <1>4, <1>5, <1>6, <1>7

\* claim_pending_roots
LEMMA ClaimPendingKeeps ==
  ASSUME NEW d, Inv(d), \A l \in Leases : d.leases[l].live => AliveIn(d, l),
         NEW excluded, NEW limit, ClaimPendingRoots(d, excluded, limit)
  PROVE  Gives(d, doc')
<1> DEFINE K == ToClaim(d, excluded, limit)
<1>1. K \in SUBSET QueueIds /\ d \in Document
  BY DEF ToClaim, Claimable, Inv
<1>2. PICK g \in Grants(d, K) : doc' = ClaimItems(d, K, g)
  BY DEF ClaimPendingRoots
<1> HIDE DEF K
<1> QED
  BY <1>1, <1>2, ClaimKeeps

\* enqueue_continuation under a lease that lives
LEMMA ContinuationKeeps ==
  ASSUME NEW d, Inv(d), \A l \in Leases : d.leases[l].live => AliveIn(d, l),
         NEW q \in ContIds, NEW c \in Contacts, NEW b \in Bodies, NEW l \in Leases,
         EnqueueContinuation(d, q, c, b, l)
  PROVE  Keeps(d, doc', {l})
<1> DEFINE n == d.leases[l].epoch
           f == Append2Queue(d, q, c, b, TRUE, n)
           r == Receipted(f, q, c, b)
           e == [r EXCEPT !.safe = FALSE]
<1>1. /\ d \in Document /\ q \in QueueIds /\ n \in Nat /\ q \in IngressIds \cup ContIds
      /\ TRUE \in BOOLEAN
  BY DEF Inv, Document, QueueIds, Lease
<1>11. Appended(d, f, q, c, b, TRUE, n)
  BY <1>1, AppendType
<1>2. /\ f \in Document /\ f.leases = d.leases
      /\ f.items[q].lease = None /\ \A k \in QueueIds : k # q => f.items[k] = d.items[k]
  BY <1>11 DEF Appended
<1>12. WithReceipt(f, r, q, c, b)
  BY <1>1, <1>2, ReceiptType
<1>3. r.leases = f.leases /\ r.items = f.items /\ r \in Document
  BY <1>12 DEF WithReceipt
<1>4. e.leases = r.leases /\ e.items = r.items /\ e.safe = FALSE
  BY <1>3 DEF Document
<1>5. /\ Receipted(d, q, c, b).leases = d.leases /\ Receipted(d, q, c, b).items = d.items
      /\ Receipted(d, q, c, b).safe = d.safe /\ Receipted(d, q, c, b).epoch = d.epoch
  BY <1>1 DEF Receipted, Document
<1>6. doc' \in {d, Receipted(d, q, c, b), DropLease(e, l)}
  BY DEF EnqueueContinuation
<1>7. /\ DropLease(e, l).items = e.items /\ DropLease(e, l).safe = FALSE
      /\ DropLease(e, l).leases = [e.leases EXCEPT ![l] = NoLease]
  BY <1>3, <1>4 DEF DropLease, Document
<1>8. d.leases \in [Leases -> Lease]
  BY <1>1 DEF Document
<1> HIDE DEF n, f, r, e
<1>9. CASE doc' = DropLease(e, l)
  <2>1. \A k \in Leases : k # l => doc'.leases[k] = d.leases[k]
    BY <1>2, <1>3, <1>4, <1>7, <1>8, <1>9
  <2>2. \A k \in QueueIds, m \in Leases : doc'.items[k].lease = m => d.items[k].lease = m
    BY <1>2, <1>3, <1>4, <1>7, <1>9, IdsAssumption
  <2> QED
    BY <1>7, <1>9, <2>1, <2>2 DEF Keeps, KeepsLeases, KeepsClaims, KeepsFence, AliveIn
<1>10. CASE doc' \in {d, Receipted(d, q, c, b)}
  BY <1>5, <1>10 DEF Keeps, KeepsLeases, KeepsClaims, KeepsFence, AliveIn
<1> QED
  BY <1>6, <1>9, <1>10

\* complete_roots
LEMMA CompleteKeeps ==
  ASSUME NEW d, Inv(d), \A l \in Leases : d.leases[l].live => AliveIn(d, l),
         NEW A, CompleteRoots(d, A)
  PROVE  Keeps(d, doc', {l \in Leases : \E q \in QueueIds : d.items[q].lease = l})
<1>1. d \in Document /\ d.items \in [QueueIds -> Item]
  BY DEF Inv, Document
<1>2. /\ doc'.safe = d.safe /\ doc'.epoch = d.epoch /\ doc'.leases = DropHeldLeases(d, A)
      /\ \A q \in QueueIds : doc'.items[q] = IF q \in Held(d, A) THEN NoItem
              ELSE [d.items[q] EXCEPT !.ahead = d.items[q].ahead \ Held(d, A)]
  BY <1>1 DEF CompleteRoots, Document
<1>3. ASSUME NEW l \in Leases, \A q \in QueueIds : d.items[q].lease # l
      PROVE  doc'.leases[l] = d.leases[l]
  <2>1. ~\E q \in Held(d, A) : d.items[q].lease = l
    BY <1>3 DEF Held, Claimed
  <2> QED
    BY <1>2, <2>1 DEF DropHeldLeases
<1>4. ASSUME NEW q \in QueueIds, NEW l \in Leases, doc'.items[q].lease = l
      PROVE  d.items[q].lease = l
  <2>1. d.items[q] \in Item /\ NoItem.lease = None
    BY <1>1 DEF NoItem
  <2>2. \A x : [d.items[q] EXCEPT !.ahead = x].lease = d.items[q].lease
    BY <2>1 DEF Item
  <2> QED
    BY <1>2, <1>4, <2>1, <2>2, IdsAssumption
<1> QED
  BY <1>2, <1>3, <1>4 DEF Keeps, KeepsLeases, KeepsClaims, KeepsFence, AliveIn

\* acknowledge_runtime_quiescent
LEMMA AcknowledgeKeeps ==
  ASSUME NEW d, Inv(d), \A l \in Leases : d.leases[l].live => AliveIn(d, l),
         NEW n, NEW secured, Acknowledge(d, n, secured)
  PROVE  /\ KeepsLeases(d, doc', {}) /\ KeepsClaims(d, doc') /\ doc'.epoch = d.epoch
         /\ doc'.safe => \A l \in Leases : ~d.leases[l].live
<1>1. /\ doc'.leases = d.leases /\ doc'.items = d.items /\ doc'.epoch = d.epoch
      /\ doc'.safe => Quiescent(d)
  BY DEF Acknowledge, Inv, Document
<1> QED
  BY <1>1 DEF KeepsLeases, KeepsClaims, AliveIn, Quiescent, LiveLeases

\* Time takes from a lease what its heartbeat gives back.
LEMMA AgeKeeps ==
  ASSUME NEW d, d \in Document, NEW e, e = Age(d)
  PROVE  /\ KeepsClaims(d, e) /\ KeepsFence(d, e)
         /\ \A l \in Leases : e.leases[l].live = d.leases[l].live
<1> DEFINE nl(l) == [d.leases[l] EXCEPT !.ttl = Less(d.leases[l].ttl)]
           ni(q) == [d.items[q] EXCEPT !.claim = Less(d.items[q].claim),
                                       !.wait = Less(d.items[q].wait),
                                       !.dated = Less(d.items[q].dated)]
<1>1. d.leases \in [Leases -> Lease] /\ d.items \in [QueueIds -> Item]
  BY DEF Document
<1>2. \A l \in Leases : nl(l).live = d.leases[l].live
  BY <1>1 DEF Lease
<1>3. \A q \in QueueIds : ni(q).lease = d.items[q].lease
  BY <1>1 DEF Item
<1>4. /\ e.safe = d.safe /\ e.epoch = d.epoch
      /\ e.leases = [l \in Leases |-> nl(l)] /\ e.items = [q \in QueueIds |-> ni(q)]
  BY DEF Age, Document
<1> HIDE DEF nl, ni
<1> QED
  BY <1>2, <1>3, <1>4 DEF KeepsClaims, KeepsFence

LEMMA RenewKeeps ==
  ASSUME NEW d, d \in Document, NEW S, NEW e, e = Renew(d, S)
  PROVE  /\ KeepsClaims(d, e) /\ KeepsFence(d, e)
         /\ \A l \in Leases : l \in S /\ d.leases[l].live => AliveIn(e, l)
<1> DEFINE nl(l) == [d.leases[l] EXCEPT !.ttl = LeaseTTL]
           ni(q) == [d.items[q] EXCEPT !.claim = ClaimTTL]
<1>1. d.leases \in [Leases -> Lease] /\ d.items \in [QueueIds -> Item]
  BY DEF Document
<1>2. \A l \in Leases : nl(l).live = d.leases[l].live /\ nl(l).ttl > 0
  BY <1>1, BoundsAssumption DEF Lease
<1>3. \A q \in QueueIds : ni(q).lease = d.items[q].lease
  BY <1>1 DEF Item
<1>4. /\ e.safe = d.safe /\ e.epoch = d.epoch
      /\ e.leases = [l \in Leases |->
            IF l \in S /\ d.leases[l].live THEN nl(l) ELSE d.leases[l]]
      /\ e.items = [q \in QueueIds |-> IF d.items[q].lease \in S THEN ni(q) ELSE d.items[q]]
  BY DEF Renew, Document
<1> HIDE DEF nl, ni
<1> QED
  BY <1>2, <1>3, <1>4 DEF KeepsClaims, KeepsFence, AliveIn

LEMMA TimeKeeps ==
  ASSUME NEW d, Inv(d), NEW S, NEW e, e = Renew(Age(d), S)
  PROVE  /\ KeepsClaims(d, e) /\ KeepsFence(d, e)
         /\ \A l \in Leases : l \in S /\ d.leases[l].live => AliveIn(e, l)
<1>1. PICK f : f = Age(d) /\ f \in Document /\ d \in Document
  BY AgeInv DEF Inv
<1>2. /\ KeepsClaims(d, f) /\ KeepsFence(d, f)
      /\ \A l \in Leases : f.leases[l].live = d.leases[l].live
  BY <1>1, AgeKeeps
<1>3. /\ KeepsClaims(f, e) /\ KeepsFence(f, e)
      /\ \A l \in Leases : l \in S /\ f.leases[l].live => AliveIn(e, l)
  BY <1>1, RenewKeeps
<1> QED
  BY <1>2, <1>3 DEF KeepsClaims, KeepsFence

-----------------------------------------------------------------------------
(* The document through a step of the handler *)

\* Who may take a lease from the work under it
LostTo(d, l) ==
    \/ \E a \in Actors : act[a].lease = l /\ ReleaseLease(d, a)
    \/ main.rec.lease = l /\ Transfer(d) /\ main'.at = "remove"
    \/ main.rec.lease = l /\ SweepDrops(d)
    \/ \E q \in QueueIds : doc.items[q].lease = l
    \/ TimePasses(d) \/ Crash

\* What every step does to the leases, the claims and the permission to stop
LeasesStay(d) == \A l \in Leases : Alive(l) => Alive(l)' \/ LostTo(d, l)
ClaimsApart == \A q \in QueueIds, l \in Leases :
    doc'.items[q].lease = l => doc.items[q].lease = l \/ l \notin Mentioned
SafeWhen(d) ==
    doc'.safe => \/ doc.safe /\ doc'.epoch = doc.epoch
                 \/ /\ TickAttests(d) /\ doc'.epoch = doc.epoch
                    /\ \A l \in Leases : ~Alive(l)
DocumentStays(d) == LeasesStay(d) /\ ClaimsApart /\ SafeWhen(d)

LEMMA KeepsStays ==
  ASSUME Inv(doc), NEW d, d = Prune(doc), NEW D, Keeps(d, doc', D),
         \A l \in Leases : l \in D => LostTo(d, l)
  PROVE  DocumentStays(d)
<1>1. /\ d.epoch = doc.epoch /\ (d.safe => doc.safe)
      /\ \A l \in Leases : d.leases[l].live <=> AliveIn(doc, l)
      /\ \A q \in QueueIds, l \in Leases : d.items[q].lease = l => doc.items[q].lease = l
  BY PrunedLeases
<1>2. LeasesStay(d)
  BY <1>1 DEF LeasesStay, Keeps, KeepsLeases, Alive
<1>3. ClaimsApart
  BY <1>1 DEF ClaimsApart, Keeps, KeepsClaims
<1>4. SafeWhen(d)
  BY <1>1 DEF SafeWhen, Keeps, KeepsFence
<1> QED
  BY <1>2, <1>3, <1>4 DEF DocumentStays

LEMMA GivesStays ==
  ASSUME Inv(doc), NEW d, d = Prune(doc), Gives(d, doc'), OnlyNewLeases(d)
  PROVE  DocumentStays(d)
<1>1. /\ d.epoch = doc.epoch /\ (d.safe => doc.safe)
      /\ \A l \in Leases : d.leases[l].live <=> AliveIn(doc, l)
      /\ \A q \in QueueIds, l \in Leases : d.items[q].lease = l => doc.items[q].lease = l
  BY PrunedLeases
<1>2. LeasesStay(d)
  BY <1>1 DEF LeasesStay, Gives, KeepsLeases, Alive
<1>3. ClaimsApart
  <2> SUFFICES ASSUME NEW q \in QueueIds, NEW l \in Leases, doc'.items[q].lease = l,
                      doc.items[q].lease # l
               PROVE  l \notin Mentioned
    BY DEF ClaimsApart
  <2>1. ~d.leases[l].live /\ doc'.leases[l].live
    BY <1>1 DEF Gives, GivesClaims
  <2> QED
    BY <2>1 DEF OnlyNewLeases, NewLeases
<1>4. SafeWhen(d)
  BY <1>1 DEF SafeWhen, Gives, KeepsFence
<1> QED
  BY <1>2, <1>3, <1>4 DEF DocumentStays

LEMMA SameStays ==
  ASSUME doc' = doc, NEW d
  PROVE  DocumentStays(d)
BY DEF DocumentStays, LeasesStay, ClaimsApart, SafeWhen, Alive, AliveIn

\* A step that finds the document d
Step(d) ==
    \/ UNCHANGED vars
    \/ \E p \in Callers : Call(d, p)
    \/ \E a \in Actors : Launch(d, a)
    \/ Reconcile(d) \/ Sweep(d)
    \/ BeginTurn(d) \/ (\E q \in Claimed(d) : EndTurn(d, q))
    \/ (\E r \in Runs : ProcessEnds(r))
    \/ TimePasses(d) \/ Crash \/ Update(d)

\* The steps that go through the document one after the other
LEMMA DocumentStep ==
  ASSUME WTypeOK, Inv(doc), NEW d, d = Prune(doc), Step(d)
  PROVE  DocumentStays(d)
<1>1. /\ Inv(d) /\ d.epoch = doc.epoch /\ (d.safe => doc.safe)
      /\ \A l \in Leases : d.leases[l].live => AliveIn(d, l)
      /\ \A l \in Leases : d.leases[l].live <=> AliveIn(doc, l)
      /\ \A q \in QueueIds, l \in Leases : d.items[q].lease = l => doc.items[q].lease = l
  BY PrunedLeases
<1>2. ASSUME Keeps(d, doc', {}) PROVE DocumentStays(d)
  BY <1>2, KeepsStays
<1>3. ASSUME Poll(d) PROVE DocumentStays(d)
  BY <1>1, <1>2, <1>3, PollKeeps DEF Poll
<1>4. ASSUME NEW l \in Leases, Keeps(d, doc', {l}), LostTo(d, l)
      PROVE  DocumentStays(d)
  BY <1>4, KeepsStays
<1>5. ASSUME NEW p \in Callers, Call(d, p) PROVE DocumentStays(d)
  <2>1. ASSUME NEW next, Admit(d, p, next) PROVE DocumentStays(d)
    <3>1. PICK l \in NewLeases(d), x \in {d.items[q].lease : q \in Claimed(d)} \cup {None} :
               AcquireActivity(d, x, l)
      BY <2>1 DEF Admit
    <3>2. l \in Leases /\ ~d.leases[l].live
      BY DEF NewLeases, FreshLeases
    <3> QED
      BY <1>1, <1>2, <3>1, <3>2, AcquireKeeps
  <2>2. ASSUME NEW w, NEW c, StartWorker(d, p, w, c) \/ MessageWorker(d, p, w, c)
        PROVE  DocumentStays(d)
    BY <2>1, <2>2 DEF StartWorker, MessageWorker
  <2>3. ASSUME \/ \E w, c : StopQueued(p, w, c) \/ StopActive(p, w, c)
               \/ CreateRecord(p) \/ EnterStart(p) \/ Unregister(p) \/ StopRemoves(p)
        PROVE  doc' = doc
    BY <2>3 DEF StopQueued, StopActive, CreateRecord, EnterStart, Unregister, StopRemoves
  <2> QED
    BY <1>5, <2>2, <2>3, SameStays DEF Call
<1>6. ASSUME NEW a \in Actors, Launch(d, a) PROVE DocumentStays(d)
  <2>1. CASE ReleaseLease(d, a)
    <3>1. CASE act[a].lease = None
      BY <1>3, <2>1, <3>1 DEF ReleaseLease
    <3>2. CASE act[a].lease # None
      <4>1. act[a].lease \in Leases
        BY <3>2 DEF WTypeOK, ActsOK, CallRecord
      <4>2. Keeps(d, doc', {act[a].lease})
        BY <1>1, <2>1, <3>2, <4>1, DropLeaseKeeps DEF ReleaseLease, Release
      <4> QED
        BY <1>4, <2>1, <4>1, <4>2 DEF LostTo
    <3> QED
      BY <3>1, <3>2
  <2>2. CASE Dequeue(d, a)
    <3>1. bqueue # <<>> => Head(bqueue).lease \in Leases
      <4>1. bqueue # <<>> => Head(bqueue) \in Job
        BY HeadTailProperties DEF WTypeOK
      <4> QED
        BY <4>1 DEF Job
    <3>2. ASSUME bqueue # <<>>, Heartbeat(d, Head(bqueue).lease) PROVE DocumentStays(d)
      BY <1>1, <1>2, <3>1, <3>2, HeartbeatKeeps
    <3>3. ASSUME NEW l \in NewLeases(d), AcquireActivity(d, None, l) PROVE DocumentStays(d)
      <4>1. l \in Leases /\ ~d.leases[l].live
        BY DEF NewLeases, FreshLeases
      <4> QED
        BY <1>1, <1>2, <3>3, <4>1, AcquireKeeps
    <3> QED
      BY <1>3, <2>2, <3>2, <3>3, SameStays DEF Dequeue
  <2>3. LaunchStarts(a) \/ RecordActiveRun(a) \/ LaunchGivesUp(a) \/ LaunchRaises(a)
          \/ LaunchFails(a) => doc' = doc
    BY DEF LaunchStarts, RecordActiveRun, LaunchGivesUp, LaunchRaises, LaunchFails
  <2> QED
    BY <1>6, <2>1, <2>2, <2>3, SameStays DEF Launch
<1>7. CASE Reconcile(d)
  <2>1. PICK l, prefence : l \in NewLeases(d) /\ AdoptPrefence(d, l, prefence)
    BY <1>7 DEF Reconcile, ReconcileActive, ReconcileQueued
  <2>2. l \in Leases /\ ~d.leases[l].live
    BY <2>1 DEF NewLeases, FreshLeases
  <2> QED
    BY <1>1, <1>2, <2>1, <2>2, AcquireKeeps
<1>8. Claiming => main.rec.lease \in Leases /\ main.rec.contact \in Contacts /\ {main.rec.run} \in Bodies
  <2>1. Claiming => main.rec.run \in Runs /\ Whole(main.rec)
    BY DEF WTypeOK, SweepOK
  <2> QED
    BY <2>1, WorkersAssumption DEF Whole
<1>9. CASE Sweep(d)
  <2>1. CASE Transfer(d)
    <3>1. main.rec.lease \in Leases /\ main.rec.contact \in Contacts /\ {main.rec.run} \in Bodies
      BY <1>8, <2>1 DEF Transfer, Claiming
    <3>2. ASSUME NEW q \in ContIds, main'.at = "remove",
                 EnqueueContinuation(d, q, main.rec.contact, {main.rec.run}, main.rec.lease)
          PROVE  DocumentStays(d)
      <4>1. Keeps(d, doc', {main.rec.lease})
        BY <1>1, <3>1, <3>2, ContinuationKeeps
      <4> QED
        BY <1>4, <2>1, <3>1, <3>2, <4>1 DEF LostTo
    <3>3. main' = [main EXCEPT !.at = "remove"] => main'.at = "remove"
      BY DEF WTypeOK, SweepOK, SweepRecord
    <3> QED
      BY <1>3, <2>1, <3>2, <3>3, SameStays DEF Transfer
  <2>2. CASE SweepDrops(d)
    <3>1. main.rec.lease \in Leases
      BY <1>8, <2>2 DEF SweepDrops, Claiming
    <3>2. Keeps(d, doc', {main.rec.lease})
      BY <1>1, <2>2, <3>1, DropLeaseKeeps DEF SweepDrops, Release
    <3> QED
      BY <1>4, <2>2, <3>1, <3>2 DEF LostTo
  <2>3. CASE SubmitResults(d)
    <3>1. \A c \in Contacts : results[c] \in Bodies
      BY WorkersAssumption DEF WTypeOK, RestOK
    <3>2. ASSUME NEW c \in Contacts, NEW q \in RootIds, OnlyNewLeases(d),
                 EnqueueRoot(d, q, c, results[c], c \notin InTurn(d))
          PROVE  DocumentStays(d)
      BY <1>1, <3>1, <3>2, EnqueueKeeps, GivesStays
    <3> QED
      BY <2>3, <3>2, SameStays DEF SubmitResults
  <2>4. CASE TickAttests(d)
    <3>1. ASSUME Acknowledge(d, d.epoch, TRUE) PROVE DocumentStays(d)
      <4>1. /\ KeepsLeases(d, doc', {}) /\ KeepsClaims(d, doc') /\ doc'.epoch = d.epoch
            /\ doc'.safe => \A l \in Leases : ~d.leases[l].live
        BY <1>1, <3>1, AcknowledgeKeeps
      <4>2. LeasesStay(d) /\ ClaimsApart
        BY <1>1, <4>1 DEF LeasesStay, ClaimsApart, KeepsLeases, KeepsClaims, Alive
      <4>3. SafeWhen(d)
        BY <1>1, <2>4, <4>1 DEF SafeWhen, Alive
      <4> QED
        BY <4>2, <4>3 DEF DocumentStays
    <3> QED
      BY <1>3, <2>4, <3>1 DEF TickAttests
  <2>5. ASSUME \/ SweepStart(d) \/ (\E w \in Workers, r \in Runs : SweepNext(w, r))
               \/ SweepRemoves \/ SweepBrowses \/ TickReconciled(d)
        PROVE  doc' = doc
    BY <2>5 DEF SweepStart, SweepNext, SweepRemoves, SweepBrowses, TickReconciled
  <2> QED
    BY <1>9, <2>1, <2>2, <2>3, <2>4, <2>5, SameStays DEF Sweep
<1>10. CASE BeginTurn(d)
  BY <1>1, <1>10, ClaimPendingKeeps, GivesStays DEF BeginTurn
<1>11. ASSUME NEW q \in Claimed(d), EndTurn(d, q) PROVE DocumentStays(d)
  <2> DEFINE D == {l \in Leases : \E k \in QueueIds : d.items[k].lease = l}
  <2>1. Keeps(d, doc', D)
    BY <1>1, <1>11, CompleteKeeps DEF EndTurn
  <2>2. \A l \in Leases : l \in D => LostTo(d, l)
    BY <1>1 DEF LostTo
  <2> HIDE DEF D
  <2> QED
    BY <2>1, <2>2, KeepsStays
<1>12. ASSUME TimePasses(d) \/ Crash, KeepsClaims(d, doc') \/ KeepsClaims(doc, doc'),
              KeepsFence(d, doc') \/ KeepsFence(doc, doc')
       PROVE  DocumentStays(d)
  <2>1. LeasesStay(d)
    BY <1>12 DEF LeasesStay, LostTo
  <2>2. ClaimsApart
    BY <1>1, <1>12 DEF ClaimsApart, KeepsClaims
  <2>3. SafeWhen(d)
    BY <1>1, <1>12 DEF SafeWhen, KeepsFence
  <2> QED
    BY <2>1, <2>2, <2>3 DEF DocumentStays
<1>13. CASE TimePasses(d)
  <2>1. KeepsClaims(d, doc') /\ KeepsFence(d, doc')
    BY <1>1, <1>13, TimeKeeps DEF TimePasses
  <2> QED
    BY <1>12, <1>13, <2>1
<1>14. CASE Crash
  <2>1. CASE doc' = doc
    BY <2>1, SameStays
  <2>2. CASE doc' = Age(doc)
    <3>1. KeepsClaims(doc, doc') /\ KeepsFence(doc, doc')
      BY <2>2, AgeKeeps DEF Inv
    <3> QED
      BY <1>12, <1>14, <3>1
  <2> QED
    BY <1>14, <2>1, <2>2 DEF Crash
<1>15. CASE Update(d)
  BY <1>1, <1>2, <1>15, UpdateKeeps DEF Update
<1>16. CASE UNCHANGED vars \/ \E r \in Runs : ProcessEnds(r)
  BY <1>16, SameStays DEF vars, ProcessEnds
<1> QED
  BY <1>5, <1>6, <1>7, <1>9, <1>10, <1>11, <1>13, <1>14, <1>15, <1>16 DEF Step

-----------------------------------------------------------------------------
(* Who works under a lease: a run, a queued job or a call of the handler,    *)
(* and never two of them, nor one of them and a claimed root.                *)

RunTag(r) == <<"run", r>>
JobTag(w) == <<"job", w>>
CallTag(a) == <<"call", a>>

\* A call of stop_worker acts for the run it stops.
TagOf(a, rec) == IF rec.op = "stop" THEN RunTag(rec.run) ELSE CallTag(a)

RunUse(l, t) ==
    \E w \in Workers : Active(w) /\ active[w].lease = l /\ t = RunTag(active[w].run)
SweepUse(l, t) == Claiming /\ main.rec.lease = l /\ t = RunTag(main.rec.run)
JobUse(l, t) == \E i \in DOMAIN bqueue : bqueue[i].lease = l /\ t = JobTag(bqueue[i].w)
CallUse(l, t) == \E a \in Actors : act[a].lease = l /\ t = TagOf(a, act[a])
Uses(l, t) == RunUse(l, t) \/ SweepUse(l, t) \/ JobUse(l, t) \/ CallUse(l, t)

OneUse == \A l \in Leases : \A t, u : Uses(l, t) /\ Uses(l, u) => t = u
ItemsApart == \A q \in QueueIds, l \in Leases :
    doc.items[q].lease = l => \A t : ~Uses(l, t)
UseInv == OneUse /\ ItemsApart

LEMMA TagFacts ==
  ASSUME NEW x, NEW y
  PROVE  /\ RunTag(x) = RunTag(y) => x = y
         /\ JobTag(x) = JobTag(y) => x = y
         /\ CallTag(x) = CallTag(y) => x = y
         /\ RunTag(x) # JobTag(y) /\ RunTag(x) # CallTag(y) /\ JobTag(x) # CallTag(y)
         /\ \A rec : TagOf(x, rec) # JobTag(y) /\ (TagOf(x, rec) = CallTag(y) => x = y)
BY DEF RunTag, JobTag, CallTag, TagOf

\* A lease that nobody mentions is not in use.
LEMMA Unmentioned ==
  ASSUME NEW l \in Leases, l \notin Mentioned, NEW t
  PROVE  ~Uses(l, t)
BY DEF Mentioned, Uses, RunUse, SweepUse, JobUse, CallUse

\* What keeps its lease or gives it up
KeptRun(w) == active'[w].run # None =>
    /\ active'[w].run = active[w].run /\ active'[w].lease = active[w].lease
    /\ active'[w].since = active[w].since
KeptTable == \A w \in Workers : KeptRun(w)
KeptQueue == \A j \in DOMAIN bqueue' : \E i \in DOMAIN bqueue : bqueue'[j] = bqueue[i]
KeptSweep == Claiming' => Claiming /\ main'.rec = main.rec
KeptCalls == \A a \in Actors : act'[a].lease \in Leases =>
    act'[a].lease = act[a].lease /\ act'[a].op = act[a].op
    /\ (act[a].op = "stop" => act'[a].run = act[a].run)

LEMMA KeptUses ==
  ASSUME NEW l \in Leases, NEW t
  PROVE  /\ KeptTable /\ RunUse(l, t)' => RunUse(l, t)
         /\ KeptSweep /\ SweepUse(l, t)' => SweepUse(l, t)
         /\ KeptQueue /\ JobUse(l, t)' => JobUse(l, t)
         /\ KeptCalls /\ CallUse(l, t)' => CallUse(l, t)
<1>1. KeptTable /\ RunUse(l, t)' => RunUse(l, t)
  BY DEF KeptTable, KeptRun, RunUse, Active
<1>2. KeptSweep /\ SweepUse(l, t)' => SweepUse(l, t)
  BY DEF KeptSweep, SweepUse
<1>3. KeptQueue /\ JobUse(l, t)' => JobUse(l, t)
  BY DEF KeptQueue, JobUse
<1>4. KeptCalls /\ CallUse(l, t)' => CallUse(l, t)
  BY DEF KeptCalls, CallUse, TagOf
<1> QED
  BY <1>1, <1>2, <1>3, <1>4

\* The lease l0 goes over to t0; the other uses stay or end.
LEMMA UseMoves ==
  ASSUME UseInv, ClaimsApart, NEW l0, NEW t0,
         \A l \in Leases : \A t : Uses(l, t)' => (Uses(l, t) /\ l # l0) \/ (l = l0 /\ t = t0),
         \A q \in QueueIds : l0 \in Leases => doc'.items[q].lease # l0
  PROVE  UseInv'
<1>1. OneUse'
  BY DEF UseInv, OneUse
<1>2. ItemsApart'
  <2> SUFFICES ASSUME NEW q \in QueueIds, NEW l \in Leases, doc'.items[q].lease = l, NEW t
               PROVE  ~Uses(l, t)'
    BY DEF ItemsApart
  <2>1. l # l0 /\ ~Uses(l, t)
    BY Unmentioned DEF ClaimsApart, UseInv, ItemsApart
  <2> QED
    BY <2>1
<1> QED
  BY <1>1, <1>2 DEF UseInv

\* A step after which nobody works under another lease than before
LEMMA QuietUses ==
  ASSUME UseInv, ClaimsApart, KeptTable, KeptQueue, KeptSweep, KeptCalls
  PROVE  UseInv'
<1>1. \A l \in Leases : \A t : Uses(l, t)' => Uses(l, t) /\ l # None
  BY KeptUses, IdsAssumption DEF Uses
<1> QED
  BY <1>1, UseMoves, IdsAssumption

\* A lease in use that goes over from t1 to t0
LEMMA UseHandedOver ==
  ASSUME UseInv, ClaimsApart, NEW l0 \in Leases, NEW t1, Uses(l0, t1), NEW t0,
         \A l \in Leases : \A t : Uses(l, t)' =>
            (Uses(l, t) /\ ~(l = l0 /\ t = t1)) \/ (l = l0 /\ t = t0)
  PROVE  UseInv'
<1>1. \A t : Uses(l0, t) => t = t1
  BY DEF UseInv, OneUse
<1>2. \A q \in QueueIds : doc'.items[q].lease # l0
  BY Unmentioned DEF ClaimsApart, UseInv, ItemsApart
<1> QED
  BY <1>1, <1>2, UseMoves

\* A lease that is new
LEMMA UseIsNew ==
  ASSUME UseInv, ClaimsApart, NEW l0 \in Leases, l0 \notin Mentioned, NEW t0,
         \A l \in Leases : \A t : Uses(l, t)' => Uses(l, t) \/ (l = l0 /\ t = t0),
         \A q \in QueueIds : doc'.items[q].lease # l0
  PROVE  UseInv'
<1>1. \A t : ~Uses(l0, t)
  BY Unmentioned
<1> QED
  BY <1>1, UseMoves

\* The call of one actor moves on, the others stay.
OtherCall(a, l, t) == \E b \in Actors : b # a /\ act[b].lease = l /\ t = TagOf(b, act[b])

LEMMA CallMoves ==
  ASSUME act \in [Actors -> CallRecord], NEW a \in Actors, NEW rec,
         act' = [act EXCEPT ![a] = rec], NEW l, NEW t, CallUse(l, t)'
  PROVE  (rec.lease = l /\ t = TagOf(a, rec)) \/ OtherCall(a, l, t)
BY DEF CallUse, OtherCall

LEMMA OtherCallStays ==
  ASSUME NEW a, NEW l, NEW t, OtherCall(a, l, t)
  PROVE  CallUse(l, t) /\ t # CallTag(a) /\ \A w : t # JobTag(w)
BY TagFacts DEF OtherCall, CallUse

LEMMA CallEnds ==
  ASSUME act \in [Actors -> CallRecord], NEW a \in Actors, NEW rec, rec.lease = None,
         act' = [act EXCEPT ![a] = rec], NEW l \in Leases, NEW t, CallUse(l, t)'
  PROVE  CallUse(l, t) /\ t # CallTag(a)
<1>1. (rec.lease = l /\ t = TagOf(a, rec)) \/ OtherCall(a, l, t)
  BY CallMoves
<1> QED
  BY <1>1, OtherCallStays, IdsAssumption

LEMMA CallGoesOnKept ==
  ASSUME act \in [Actors -> CallRecord], NEW a \in Actors,
         \/ act' = act
         \/ \E at : act' = [act EXCEPT ![a].at = at]
         \/ \E rec : rec.lease = None /\ act' = [act EXCEPT ![a] = rec]
         \/ act[a].op # "stop" /\ \E run : act' = [act EXCEPT ![a].run = run]
  PROVE  KeptCalls
<1>1. CASE act' = act
  BY <1>1 DEF KeptCalls
<1>2. ASSUME NEW at, act' = [act EXCEPT ![a].at = at] PROVE KeptCalls
  BY <1>2 DEF KeptCalls, CallRecord
<1>3. ASSUME NEW rec, rec.lease = None, act' = [act EXCEPT ![a] = rec] PROVE KeptCalls
  BY <1>3, IdsAssumption DEF KeptCalls
<1>4. ASSUME NEW run, act[a].op # "stop", act' = [act EXCEPT ![a].run = run] PROVE KeptCalls
  BY <1>4 DEF KeptCalls, CallRecord
<1> QED
  BY <1>1, <1>2, <1>3, <1>4

\* A step after which nobody works under a lease he did not work under
LEMMA FewerUses ==
  ASSUME UseInv, ClaimsApart, \A l \in Leases : \A t : Uses(l, t)' => Uses(l, t)
  PROVE  UseInv'
BY UseMoves, IdsAssumption

\* stop_worker acts in two stages, for a run it has terminated.
Stops == \A a \in Actors : act[a].op = "stop" =>
    /\ a \in Callers /\ act[a].at \in {"remove", "release"} /\ act[a].run \in stopped
    /\ \A w \in Workers : active[w].run = act[a].run => act[a].at = "remove" /\ act[a].w = w

\* A lease that is granted to a call
LEMMA AdmitUses ==
  ASSUME WTypeOK, Inv(doc), UseInv, NEW d, d = Prune(doc), ClaimsApart, NEW p \in Callers,
         NEW next, next \in CallRecord, next.op # "stop", Admit(d, p, next),
         UNCHANGED <<active, bqueue, main>>
  PROVE  UseInv'
<1>1. PICK l, x : /\ l \in NewLeases(d) /\ AcquireActivity(d, x, l)
        /\ act' = IF doc'.leases[l].live THEN [act EXCEPT ![p] = [next EXCEPT !.lease = l]]
                  ELSE act
  BY DEF Admit
<1>2. p \in Actors /\ act \in [Actors -> CallRecord] /\ KeptTable /\ KeptQueue /\ KeptSweep
  BY DEF WTypeOK, ActsOK, Actors, KeptTable, KeptRun, KeptQueue, KeptSweep, Claiming
<1>3. CASE act' = act
  BY <1>2, <1>3, CallGoesOnKept, QuietUses
<1>4. CASE act' = [act EXCEPT ![p] = [next EXCEPT !.lease = l]]
  <2> DEFINE rec == [next EXCEPT !.lease = l]
  <2>1. rec.lease = l /\ TagOf(p, rec) = CallTag(p)
    BY DEF CallRecord, TagOf
  <2>2. act' = [act EXCEPT ![p] = rec]
    BY <1>4
  <2> HIDE DEF rec
  <2>3. l \in Leases /\ ~d.leases[l].live /\ l \notin Mentioned /\ \A q \in QueueIds : d.items[q].lease # l
    BY <1>1 DEF NewLeases, FreshLeases
  <2>4. doc'.items = d.items
    BY <1>1, <2>3, PrunedLeases, AcquireKeeps
  <2>5. ASSUME NEW k \in Leases, NEW t, Uses(k, t)' PROVE Uses(k, t) \/ (k = l /\ t = CallTag(p))
    <3>1. CallUse(k, t)' => CallUse(k, t) \/ (k = l /\ t = CallTag(p))
      BY <1>2, <2>1, <2>2, CallMoves, OtherCallStays
    <3> QED
      BY <1>2, <2>5, <3>1, KeptUses DEF Uses
  <2> QED
    BY <2>3, <2>4, <2>5, UseIsNew
<1> QED
  BY <1>1, <1>3, <1>4

\* A call whose worker is queued hands its lease to the job.
LEMMA EnterUses ==
  ASSUME WTypeOK, UseInv, Stops, ClaimsApart, NEW p \in Callers, EnterStart(p)
  PROVE  UseInv'
<1>1. /\ p \in Actors /\ act \in [Actors -> CallRecord] /\ KeptTable /\ KeptSweep
      /\ act[p].at = "enter" /\ act[p].lease \in Leases
  BY DEF WTypeOK, ActsOK, FitCall, Actors, EnterStart, KeptTable, KeptRun, KeptSweep, Claiming
<1> DEFINE l0 == act[p].lease  w == act[p].w
           job == [w |-> w, contact |-> act[p].contact, lease |-> l0, since |-> doc.epoch]
<1>2. CASE bqueue' = bqueue /\ \E at : act' = [act EXCEPT ![p].at = at]
  <2>1. KeptQueue /\ KeptCalls
    BY <1>1, <1>2, CallGoesOnKept DEF KeptQueue
  <2> QED
    BY <1>1, <2>1, QuietUses
<1>3. CASE bqueue' = Append(bqueue, job) /\ act' = [act EXCEPT ![p] = IdleAct]
  <2>1. Uses(l0, CallTag(p))
    BY <1>1 DEF Uses, CallUse, TagOf, Stops
  <2>2. ASSUME NEW l, NEW t, JobUse(l, t)' PROVE JobUse(l, t) \/ (l = l0 /\ t = JobTag(w))
    <3>1. DOMAIN bqueue' = 1..Len(bqueue) + 1 /\ DOMAIN bqueue = 1..Len(bqueue) /\ Len(bqueue) \in Nat
      BY <1>3, JobTyped, AppendProperties DEF WTypeOK
    <3>2. \A i \in 1..Len(bqueue) : bqueue'[i] = bqueue[i]
      BY <1>3, <3>1, AppendProperties DEF WTypeOK
    <3>3. bqueue'[Len(bqueue) + 1] = job
      BY <1>3, <3>1, AppendProperties DEF WTypeOK
    <3>4. \A i \in DOMAIN bqueue' : i \in 1..Len(bqueue) \/ i = Len(bqueue) + 1
      BY <3>1
    <3> HIDE DEF job
    <3>5. job.lease = l0 /\ job.w = w
      BY DEF job
    <3> QED
      BY <2>2, <3>1, <3>2, <3>3, <3>4, <3>5 DEF JobUse
  <2>3. ASSUME NEW l \in Leases, NEW t, CallUse(l, t)' PROVE CallUse(l, t) /\ t # CallTag(p)
    <3>1. IdleAct.lease = None
      BY DEF IdleAct
    <3> QED
      BY <1>1, <1>3, <2>3, <3>1, CallEnds
  <2>4. ASSUME NEW l \in Leases, NEW t, Uses(l, t)'
        PROVE  (Uses(l, t) /\ ~(l = l0 /\ t = CallTag(p))) \/ (l = l0 /\ t = JobTag(w))
    <3>1. CASE RunUse(l, t)' \/ SweepUse(l, t)'
      <4>1. RunUse(l, t) \/ SweepUse(l, t)
        BY <1>1, <3>1, KeptUses
      <4> QED
        BY <4>1, TagFacts DEF Uses, RunUse, SweepUse
    <3>2. CASE JobUse(l, t)'
      BY <2>2, <3>2, TagFacts DEF Uses, JobUse
    <3>3. CASE CallUse(l, t)'
      BY <2>3, <3>3 DEF Uses
    <3> QED
      BY <2>4, <3>1, <3>2, <3>3 DEF Uses
  <2> HIDE DEF l0, w
  <2>5. l0 \in Leases
    BY <1>1 DEF l0
  <2> QED
    BY <2>1, <2>4, <2>5, UseHandedOver
<1> QED
  BY <1>2, <1>3 DEF EnterStart

\* A launch hands its lease to the run.
LEMMA LaunchUses ==
  ASSUME WTypeOK, UseInv, Stops, ClaimsApart, NEW a \in Actors, RecordActiveRun(a)
  PROVE  UseInv'
<1>1. PICK r :
        active' = [active EXCEPT ![act[a].w] =
              [run |-> r, contact |-> act[a].contact, lease |-> act[a].lease,
               since |-> doc.epoch, claim |-> 0]]
  BY DEF RecordActiveRun
<1>2. /\ act \in [Actors -> CallRecord] /\ KeptQueue /\ KeptSweep
      /\ act[a].at = "launch" /\ act[a].lease \in Leases /\ act[a].w \in Workers
      /\ active \in [Workers -> RunRecord] /\ act' = [act EXCEPT ![a] = IdleAct]
  BY DEF WTypeOK, ActsOK, TableOK, FitCall, RecordActiveRun, Launching, KeptQueue, KeptSweep,
         Claiming
<1> DEFINE l0 == act[a].lease
<1>3. Uses(l0, CallTag(a))
  BY <1>2 DEF Uses, CallUse, TagOf, Stops
<1>4. ASSUME NEW l, NEW t, RunUse(l, t)' PROVE RunUse(l, t) \/ (l = l0 /\ t = RunTag(r))
  BY <1>1, <1>2, <1>4 DEF RunUse, Active
<1>5. ASSUME NEW l \in Leases, NEW t, CallUse(l, t)' PROVE CallUse(l, t) /\ t # CallTag(a)
  <2>1. IdleAct.lease = None
    BY DEF IdleAct
  <2> QED
    BY <1>2, <1>5, <2>1, CallEnds
<1>6. ASSUME NEW l \in Leases, NEW t, Uses(l, t)'
      PROVE  (Uses(l, t) /\ ~(l = l0 /\ t = CallTag(a))) \/ (l = l0 /\ t = RunTag(r))
  <2>1. CASE JobUse(l, t)' \/ SweepUse(l, t)'
    <3>1. JobUse(l, t) \/ SweepUse(l, t)
      BY <1>2, <2>1, KeptUses
    <3> QED
      BY <3>1, TagFacts DEF Uses, JobUse, SweepUse
  <2>2. CASE RunUse(l, t)'
    BY <1>4, <2>2, TagFacts DEF Uses, RunUse
  <2>3. CASE CallUse(l, t)'
    BY <1>5, <2>3 DEF Uses
  <2> QED
    BY <1>6, <2>1, <2>2, <2>3 DEF Uses
<1>7. l0 \in Leases
  BY <1>2
<1> HIDE DEF l0
<1> QED
  BY <1>3, <1>6, <1>7, UseHandedOver

\* The jobs that are left when one is taken out
LEMMA OtherJobs ==
  ASSUME bqueue \in Seq(Job), NEW i \in DOMAIN bqueue,
         \/ bqueue' = RemoveAt(bqueue, i)
         \/ i = 1 /\ bqueue # <<>> /\ bqueue' = Tail(bqueue)
  PROVE  \A j \in DOMAIN bqueue' : \E k \in DOMAIN bqueue : k # i /\ bqueue'[j] = bqueue[k]
<1>1. DOMAIN bqueue = 1..Len(bqueue) /\ Len(bqueue) \in Nat
  BY JobTyped
<1>2. CASE bqueue' = RemoveAt(bqueue, i)
  <2>1. /\ bqueue' \in Seq(Job) /\ Len(bqueue') = Len(bqueue) - 1
        /\ \A j \in 1..Len(bqueue) - 1 : bqueue'[j] = IF j < i THEN bqueue[j] ELSE bqueue[j + 1]
    BY <1>2, RemoveTyped
  <2>2. DOMAIN bqueue' = 1..Len(bqueue) - 1
    BY <2>1, JobTyped
  <2> TAKE j \in DOMAIN bqueue'
  <2>3. /\ j \in Int /\ i \in Int /\ j \in 1..Len(bqueue) /\ j + 1 \in 1..Len(bqueue)
        /\ bqueue'[j] = IF j < i THEN bqueue[j] ELSE bqueue[j + 1]
    BY <1>1, <2>1, <2>2
  <2>4. CASE j < i
    BY <1>1, <2>3, <2>4
  <2>5. CASE ~(j < i)
    <3>1. j + 1 # i /\ bqueue'[j] = bqueue[j + 1]
      BY <2>3, <2>5
    <3> QED
      BY <1>1, <2>3, <3>1
  <2> QED
    BY <2>4, <2>5
<1>3. CASE i = 1 /\ bqueue # <<>> /\ bqueue' = Tail(bqueue)
  <2>1. /\ bqueue' \in Seq(Job) /\ Len(bqueue') = Len(bqueue) - 1
        /\ \A j \in 1..Len(bqueue') : bqueue'[j] = bqueue[j + 1]
    BY <1>3, HeadTailProperties
  <2>2. DOMAIN bqueue' = 1..Len(bqueue) - 1
    BY <2>1, JobTyped
  <2> TAKE j \in DOMAIN bqueue'
  <2>3. j + 1 \in 1..Len(bqueue) /\ j + 1 # 1 /\ bqueue'[j] = bqueue[j + 1]
    BY <1>1, <2>1, <2>2
  <2> QED
    BY <1>1, <1>3, <2>3
<1> QED
  BY <1>2, <1>3

\* A job that is taken out of the queue hands its lease to the call.
LEMMA JobTaken ==
  ASSUME WTypeOK, OneJobEach, UseInv, ClaimsApart, NEW a \in Actors, NEW i \in DOMAIN bqueue,
         \/ bqueue' = RemoveAt(bqueue, i)
         \/ i = 1 /\ bqueue # <<>> /\ bqueue' = Tail(bqueue),
         NEW rec, act' = [act EXCEPT ![a] = rec], TagOf(a, rec) = CallTag(a),
         rec.lease = bqueue[i].lease, KeptTable, KeptSweep
  PROVE  UseInv'
<1> DEFINE l0 == bqueue[i].lease  w == bqueue[i].w
<1>1. /\ act \in [Actors -> CallRecord] /\ l0 \in Leases /\ Uses(l0, JobTag(w))
      /\ \A j \in DOMAIN bqueue' : \E k \in DOMAIN bqueue : k # i /\ bqueue'[j] = bqueue[k]
  BY JobTyped, OtherJobs DEF WTypeOK, ActsOK, Job, Uses, JobUse
<1>2. ASSUME NEW l, NEW t, JobUse(l, t)' PROVE JobUse(l, t) /\ t # JobTag(w)
  <2>1. PICK k \in DOMAIN bqueue : k # i /\ bqueue[k].lease = l /\ t = JobTag(bqueue[k].w)
    BY <1>1, <1>2 DEF JobUse
  <2>2. bqueue[k].w # w
    BY <2>1 DEF OneJobEach
  <2> QED
    BY <2>1, <2>2, TagFacts DEF JobUse
<1>3. ASSUME NEW l, NEW t, CallUse(l, t)'
      PROVE  (CallUse(l, t) /\ t # JobTag(w)) \/ (l = l0 /\ t = CallTag(a))
  <2>1. (rec.lease = l /\ t = TagOf(a, rec)) \/ OtherCall(a, l, t)
    BY <1>1, <1>3, CallMoves
  <2> QED
    BY <2>1, OtherCallStays, TagFacts
<1>4. ASSUME NEW l \in Leases, NEW t, Uses(l, t)'
      PROVE  (Uses(l, t) /\ ~(l = l0 /\ t = JobTag(w))) \/ (l = l0 /\ t = CallTag(a))
  <2>1. CASE RunUse(l, t)' \/ SweepUse(l, t)'
    <3>1. RunUse(l, t) \/ SweepUse(l, t)
      BY <2>1, KeptUses
    <3> QED
      BY <3>1, TagFacts DEF Uses, RunUse, SweepUse
  <2> QED
    BY <1>2, <1>3, <1>4, <2>1 DEF Uses
<1> HIDE DEF l0, w
<1> QED
  BY <1>1, <1>4, UseHandedOver

\* stop_worker of a queued worker
LEMMA StopQueuedUses ==
  ASSUME WTypeOK, OneJobEach, UseInv, ClaimsApart, NEW p \in Callers,
         NEW w, NEW c, StopQueued(p, w, c)
  PROVE  UseInv'
<1>1. PICK i \in DOMAIN bqueue :
        /\ act' = [act EXCEPT ![p] = [IdleAct EXCEPT !.at = "release", !.op = "resume",
                                                     !.lease = bqueue[i].lease]]
        /\ bqueue' = RemoveAt(bqueue, i)
  BY DEF StopQueued
<1> DEFINE rec == [IdleAct EXCEPT !.at = "release", !.op = "resume", !.lease = bqueue[i].lease]
<1>2. rec.lease = bqueue[i].lease /\ TagOf(p, rec) = CallTag(p)
  BY DEF IdleAct, TagOf
<1>3. p \in Actors /\ KeptTable /\ KeptSweep /\ act' = [act EXCEPT ![p] = rec]
  BY <1>1 DEF Actors, StopQueued, KeptTable, KeptRun, KeptSweep, Claiming
<1> HIDE DEF rec
<1> QED
  BY <1>1, <1>2, <1>3, JobTaken

\* stop_worker of an active worker acts for the run, whose lease it is.
LEMMA StopActiveUses ==
  ASSUME WTypeOK, UseInv, ClaimsApart, NEW p \in Callers, NEW w \in Workers, NEW c,
         StopActive(p, w, c)
  PROVE  UseInv'
<1> DEFINE rec == [IdleAct EXCEPT !.at = "remove", !.op = "stop", !.w = w,
                                  !.lease = active[w].lease, !.run = active[w].run]
<1>1. rec.lease = active[w].lease /\ TagOf(p, rec) = RunTag(active[w].run)
  BY DEF IdleAct, TagOf
<1>2. /\ p \in Actors /\ act \in [Actors -> CallRecord] /\ KeptTable /\ KeptQueue /\ KeptSweep
      /\ Active(w) /\ act' = [act EXCEPT ![p] = rec]
  BY DEF WTypeOK, ActsOK, Actors, StopActive, files, KeptTable, KeptRun, KeptQueue, KeptSweep,
         Claiming
<1> HIDE DEF rec
<1>3. ASSUME NEW l, NEW t, CallUse(l, t)' PROVE CallUse(l, t) \/ RunUse(l, t)
  <2>1. (rec.lease = l /\ t = TagOf(p, rec)) \/ OtherCall(p, l, t)
    BY <1>2, <1>3, CallMoves
  <2> QED
    BY <1>1, <1>2, <2>1, OtherCallStays DEF RunUse
<1>4. \A l \in Leases : \A t : Uses(l, t)' => Uses(l, t)
  BY <1>2, <1>3, KeptUses DEF Uses
<1> QED
  BY <1>4, FewerUses

\* _process_browser_queue launches a job under its lease or under a new one.
LEMMA DequeueUses ==
  ASSUME WTypeOK, Inv(doc), OneJobEach, UseInv, NEW d, d = Prune(doc), ClaimsApart,
         NEW a \in Actors, Dequeue(d, a)
  PROVE  UseInv'
<1>1. act \in [Actors -> CallRecord] /\ KeptTable /\ KeptSweep
  BY DEF WTypeOK, ActsOK, Dequeue, KeptTable, KeptRun, KeptSweep, Claiming
<1>2. CASE LeaveQueue(a)
  <2>1. IdleAct.lease = None /\ KeptQueue /\ act' = [act EXCEPT ![a] = IdleAct]
    BY <1>2 DEF IdleAct, LeaveQueue, KeptQueue
  <2> QED
    BY <1>1, <2>1, CallGoesOnKept, QuietUses
<1>3. ASSUME bqueue # <<>>
      PROVE  1 \in DOMAIN bqueue /\ Head(bqueue) = bqueue[1] /\ bqueue[1].lease \in Leases
  <2>1. Len(bqueue) \in Nat \ {0}
    BY <1>3, EmptySeq DEF WTypeOK
  <2>2. DOMAIN bqueue = 1..Len(bqueue) /\ \A i \in DOMAIN bqueue : bqueue[i] \in Job
    BY JobTyped DEF WTypeOK
  <2>3. Head(bqueue) = bqueue[1]
    OBVIOUS
  <2> QED
    BY <2>1, <2>2, <2>3 DEF Job
<1>4. ASSUME NEW l, TakeJob(a, l)
      PROVE  \E rec : /\ act' = [act EXCEPT ![a] = rec] /\ TagOf(a, rec) = CallTag(a)
                      /\ rec.lease = l /\ bqueue' = Tail(bqueue)
  <2> DEFINE rec == [IdleAct EXCEPT !.at = "launch", !.op = "queue",
                        !.w = Head(bqueue).w, !.contact = Head(bqueue).contact, !.lease = l]
  <2>1. rec.lease = l /\ TagOf(a, rec) = CallTag(a)
    BY DEF IdleAct, TagOf
  <2>2. act' = [act EXCEPT ![a] = rec] /\ bqueue' = Tail(bqueue)
    BY <1>4 DEF TakeJob
  <2> HIDE DEF rec
  <2> QED
    BY <2>1, <2>2
<1>5. ASSUME bqueue # <<>>, TakeJob(a, Head(bqueue).lease) PROVE UseInv'
  <2>1. PICK rec : /\ act' = [act EXCEPT ![a] = rec] /\ TagOf(a, rec) = CallTag(a)
                   /\ rec.lease = Head(bqueue).lease /\ bqueue' = Tail(bqueue)
    BY <1>4, <1>5
  <2> QED
    BY <1>1, <1>3, <1>5, <2>1, JobTaken
<1>6. ASSUME bqueue # <<>>, NEW l \in NewLeases(d), AcquireActivity(d, None, l), TakeJob(a, l)
      PROVE  UseInv'
  <2>1. PICK rec : /\ act' = [act EXCEPT ![a] = rec] /\ TagOf(a, rec) = CallTag(a)
                   /\ rec.lease = l /\ bqueue' = Tail(bqueue)
    BY <1>4, <1>6
  <2>2. l \in Leases /\ ~d.leases[l].live /\ l \notin Mentioned /\ \A q \in QueueIds : d.items[q].lease # l
    BY DEF NewLeases, FreshLeases
  <2>3. doc'.items = d.items
    BY <1>6, <2>2, PrunedLeases, AcquireKeeps
  <2>4. KeptQueue
    BY <1>3, <1>6, <2>1, OtherJobs DEF WTypeOK, KeptQueue
  <2>5. ASSUME NEW k \in Leases, NEW t, Uses(k, t)' PROVE Uses(k, t) \/ (k = l /\ t = CallTag(a))
    <3>1. CallUse(k, t)' => CallUse(k, t) \/ (k = l /\ t = CallTag(a))
      BY <1>1, <2>1, CallMoves, OtherCallStays
    <3> QED
      BY <1>1, <2>4, <2>5, <3>1, KeptUses DEF Uses
  <2> QED
    BY <2>2, <2>3, <2>5, UseIsNew
<1> QED
  BY <1>2, <1>5, <1>6 DEF Dequeue

\* adopt_prefence_activity gives a run or a job a new lease for one it lost.
LEMMA ReconcileUses ==
  ASSUME WTypeOK, Inv(doc), UseInv, NEW d, d = Prune(doc), ClaimsApart, Reconcile(d)
  PROVE  UseInv'
<1>1. /\ act' = act /\ KeptSweep /\ KeptCalls
  BY DEF Reconcile, ReconcileActive, ReconcileQueued, KeptSweep, KeptCalls, Claiming
<1>2. ASSUME NEW l \in NewLeases(d), NEW x, AdoptPrefence(d, l, x), NEW t0,
             \A k \in Leases : \A t : RunUse(k, t)' \/ JobUse(k, t)' =>
                RunUse(k, t) \/ JobUse(k, t) \/ (k = l /\ t = t0)
      PROVE  UseInv'
  <2>1. l \in Leases /\ ~d.leases[l].live /\ l \notin Mentioned /\ \A q \in QueueIds : d.items[q].lease # l
    BY DEF NewLeases, FreshLeases
  <2>2. doc'.items = d.items
    BY <1>2, <2>1, PrunedLeases, AcquireKeeps
  <2>3. \A k \in Leases : \A t : Uses(k, t)' => Uses(k, t) \/ (k = l /\ t = t0)
    BY <1>1, <1>2, KeptUses DEF Uses
  <2> QED
    BY <2>1, <2>2, <2>3, UseIsNew
<1>3. ASSUME NEW w \in Workers, ReconcileActive(d, w) PROVE UseInv'
  <2>1. PICK l \in NewLeases(d) : /\ AdoptPrefence(d, l, active[w].since < d.epoch)
                                  /\ active' = [active EXCEPT ![w].lease = l]
    BY <1>3 DEF ReconcileActive
  <2>2. active \in [Workers -> RunRecord] /\ KeptQueue
    BY <1>3 DEF WTypeOK, TableOK, ReconcileActive, KeptQueue
  <2>3. active'[w].run = active[w].run /\ active'[w].lease = l
        /\ \A v \in Workers : v # w => active'[v] = active[v]
    BY <2>1, <2>2 DEF RunRecord
  <2>4. ASSUME NEW k, NEW t, RunUse(k, t)'
        PROVE  RunUse(k, t) \/ (k = l /\ t = RunTag(active[w].run))
    BY <2>3, <2>4 DEF RunUse, Active
  <2> QED
    BY <1>2, <2>1, <2>2, <2>4, KeptUses
<1>4. ASSUME NEW i \in DOMAIN bqueue, ReconcileQueued(d, i) PROVE UseInv'
  <2>1. PICK l \in NewLeases(d) : /\ AdoptPrefence(d, l, bqueue[i].since < d.epoch)
                                  /\ bqueue' = [bqueue EXCEPT ![i].lease = l]
    BY <1>4 DEF ReconcileQueued
  <2>2. bqueue[i] \in Job /\ KeptTable
    BY <1>4, JobTyped DEF WTypeOK, ReconcileQueued, KeptTable, KeptRun
  <2>3. /\ DOMAIN bqueue' = DOMAIN bqueue /\ bqueue'[i].w = bqueue[i].w /\ bqueue'[i].lease = l
        /\ \A j \in DOMAIN bqueue : j # i => bqueue'[j] = bqueue[j]
    BY <2>1, <2>2 DEF Job
  <2>4. ASSUME NEW k, NEW t, JobUse(k, t)'
        PROVE  JobUse(k, t) \/ (k = l /\ t = JobTag(bqueue[i].w))
    BY <2>3, <2>4 DEF JobUse
  <2> QED
    BY <1>2, <2>1, <2>2, <2>4, KeptUses
<1> QED
  BY <1>3, <1>4 DEF Reconcile

\* The sweep works on a claimed record for the run of the record.
LEMMA ClaimUses ==
  ASSUME WTypeOK, UseInv, ClaimsApart, NEW w \in Workers, NEW run \in Runs, SweepNext(w, run)
  PROVE  UseInv'
<1>1. /\ active \in [Workers -> RunRecord] /\ main \in SweepRecord /\ main.at = "sweep"
      /\ KeptQueue /\ KeptCalls
  BY DEF WTypeOK, TableOK, SweepOK, SweepNext, KeptQueue, KeptCalls
<1>2. KeptTable
  BY <1>1 DEF SweepNext, KeptTable, KeptRun, RunRecord
<1>3. CASE ~(procs[run] = "ended" /\ Claimable60(w, run))
  <2>1. KeptSweep
    BY <1>1, <1>3 DEF SweepNext, KeptSweep, Claiming, SweepRecord
  <2> QED
    BY <1>1, <1>2, <2>1, QuietUses
<1>4. CASE procs[run] = "ended" /\ Claimable60(w, run)
  <2>1. main'.rec = active[w] /\ Active(w)
    BY <1>4, WorkersAssumption DEF SweepNext, Claimable60, Active
  <2>2. \A l, t : SweepUse(l, t)' => RunUse(l, t)
    BY <2>1 DEF SweepUse, RunUse
  <2>3. \A l \in Leases : \A t : Uses(l, t)' => Uses(l, t)
    BY <1>1, <1>2, <2>2, KeptUses DEF Uses
  <2> QED
    BY <2>3, FewerUses
<1> QED
  BY <1>3, <1>4

\* Which steps give a run, a job, the sweep or a call a lease it did not have
LEMMA TableStep ==
  ASSUME WTypeOK, NEW d, Step(d)
  PROVE  \/ KeptTable
         \/ \E a \in Actors : RecordActiveRun(a)
         \/ \E w \in Workers : ReconcileActive(d, w)
<1> SUFFICES ASSUME ~\E a \in Actors : RecordActiveRun(a), ~\E w \in Workers : ReconcileActive(d, w)
             PROVE  KeptTable
  OBVIOUS
<1>1. active \in [Workers -> RunRecord]
  BY DEF WTypeOK, TableOK
<1>2. CASE active' = active
  BY <1>2 DEF KeptTable, KeptRun
<1>3. ASSUME NEW w, NEW r, active' = WithoutRun(w, r) PROVE KeptTable
  BY <1>1, <1>3 DEF WithoutRun, NoRun, KeptTable, KeptRun
<1>4. ASSUME NEW w, NEW x, active' = [active EXCEPT ![w].claim = x] PROVE KeptTable
  BY <1>1, <1>4 DEF KeptTable, KeptRun, RunRecord
<1>5. ASSUME active' = [w \in Workers |-> [active[w] EXCEPT !.claim = Less(@)]]
      PROVE  KeptTable
  <2> DEFINE n(w) == [active[w] EXCEPT !.claim = Less(@)]
  <2>1. \A w \in Workers : /\ n(w).run = active[w].run /\ n(w).lease = active[w].lease
                           /\ n(w).since = active[w].since
    BY <1>1 DEF RunRecord
  <2>2. \A w \in Workers : active'[w] = n(w)
    BY <1>5
  <2> HIDE DEF n
  <2> QED
    BY <2>1, <2>2 DEF KeptTable, KeptRun
<1>6. ASSUME NEW p \in Callers, Call(d, p) PROVE active' = active \/ active' = WithoutRun(act[p].w, act[p].run)
  BY <1>6 DEF Call, StartWorker, MessageWorker, StopQueued, StopActive, CreateRecord, EnterStart,
              Unregister, StopRemoves, files
<1>7. ASSUME NEW a \in Actors, Launch(d, a) PROVE active' = active
  BY <1>7 DEF Launch, LaunchStarts, LaunchGivesUp, LaunchRaises, LaunchFails, ReleaseLease, Dequeue,
              files
<1>8. CASE Reconcile(d)
  BY <1>8, <1>2 DEF Reconcile, ReconcileQueued
<1>9. CASE Sweep(d)
  BY <1>2, <1>3, <1>4, <1>9
     DEF Sweep, SweepStart, SweepNext, Transfer, SweepRemoves, SweepDrops, SweepBrowses,
         SubmitResults, TickReconciled, TickAttests, files
<1>10. CASE TimePasses(d) \/ Crash
  BY <1>2, <1>5, <1>10 DEF TimePasses, Crash
<1>11. CASE \/ UNCHANGED vars \/ BeginTurn(d) \/ (\E q \in Claimed(d) : EndTurn(d, q))
            \/ (\E r \in Runs : ProcessEnds(r)) \/ Update(d)
  BY <1>2, <1>11 DEF vars, BeginTurn, EndTurn, ProcessEnds, Update, files
<1> QED
  BY <1>2, <1>3, <1>6, <1>7, <1>8, <1>9, <1>10, <1>11 DEF Step

LEMMA QueueStep ==
  ASSUME WTypeOK, NEW d, Step(d)
  PROVE  \/ KeptQueue
         \/ \E p \in Callers : EnterStart(p)
         \/ \E i \in DOMAIN bqueue : ReconcileQueued(d, i)
<1> SUFFICES ASSUME ~\E p \in Callers : EnterStart(p), ~\E i \in DOMAIN bqueue : ReconcileQueued(d, i)
             PROVE  KeptQueue
  OBVIOUS
<1>1. CASE bqueue' = bqueue
  BY <1>1 DEF KeptQueue
<1>2. ASSUME NEW i \in DOMAIN bqueue, bqueue' = RemoveAt(bqueue, i) PROVE KeptQueue
  BY <1>2, OtherJobs DEF WTypeOK, KeptQueue
<1>3. ASSUME bqueue # <<>>, bqueue' = Tail(bqueue) PROVE KeptQueue
  <2>1. Len(bqueue) \in Nat \ {0}
    BY <1>3, EmptySeq DEF WTypeOK
  <2>2. 1 \in DOMAIN bqueue
    BY <2>1, JobTyped DEF WTypeOK
  <2> QED
    BY <1>3, <2>2, OtherJobs DEF WTypeOK, KeptQueue
<1>4. ASSUME NEW p \in Callers, Call(d, p)
      PROVE  bqueue' = bqueue \/ \E i \in DOMAIN bqueue : bqueue' = RemoveAt(bqueue, i)
  BY <1>4 DEF Call, StartWorker, MessageWorker, StopQueued, StopActive, CreateRecord,
              Unregister, StopRemoves, files
<1>5. ASSUME NEW a \in Actors, Launch(d, a)
      PROVE  bqueue' = bqueue \/ (bqueue # <<>> /\ bqueue' = Tail(bqueue))
  BY <1>5 DEF Launch, LaunchStarts, RecordActiveRun, LaunchGivesUp, LaunchRaises, LaunchFails,
              ReleaseLease, Dequeue, TakeJob, LeaveQueue, files
<1>6. Reconcile(d) => bqueue' = bqueue
  BY DEF Reconcile, ReconcileActive
<1>7. Sweep(d) => bqueue' = bqueue
  BY DEF Sweep, SweepStart, SweepNext, Transfer, SweepRemoves, SweepDrops, SweepBrowses,
         SubmitResults, TickReconciled, TickAttests, files
<1>8. \/ UNCHANGED vars \/ BeginTurn(d) \/ (\E q \in Claimed(d) : EndTurn(d, q))
      \/ (\E r \in Runs : ProcessEnds(r)) \/ Update(d) \/ TimePasses(d) \/ Crash
      => bqueue' = bqueue
  BY DEF vars, BeginTurn, EndTurn, ProcessEnds, Update, TimePasses, Crash, files
<1> QED
  BY <1>1, <1>2, <1>3, <1>4, <1>5, <1>6, <1>7, <1>8 DEF Step

LEMMA SweepStep ==
  ASSUME WTypeOK, NEW d, Step(d)
  PROVE  KeptSweep \/ \E w \in Workers, r \in Runs : SweepNext(w, r)
<1>1. main \in SweepRecord
  BY DEF WTypeOK, SweepOK
<1>2. CASE main' = main
  BY <1>2 DEF KeptSweep, Claiming
<1>3. ASSUME \/ main' \in {IdleMain, [IdleMain EXCEPT !.at = "browse"]}
             \/ \E todo : main' = [IdleMain EXCEPT !.at = "sweep", !.todo = todo]
      PROVE  KeptSweep
  <2>1. /\ IdleMain.at = "idle" /\ [IdleMain EXCEPT !.at = "browse"].at = "browse"
        /\ \A todo : [IdleMain EXCEPT !.at = "sweep", !.todo = todo].at = "sweep"
    BY DEF IdleMain
  <2>2. main'.at \in {"idle", "browse", "sweep"}
    BY <1>3, <2>1
  <2> QED
    BY <2>2 DEF KeptSweep, Claiming
<1>4. ASSUME NEW at, main' = [main EXCEPT !.at = at], Claiming \/ at \in {"tick", "attest"}
      PROVE  KeptSweep
  BY <1>1, <1>4 DEF KeptSweep, Claiming, SweepRecord
<1>5. ASSUME NEW p \in Callers, Call(d, p) PROVE main' = main
  BY <1>5 DEF Call, StartWorker, MessageWorker, StopQueued, StopActive, CreateRecord, EnterStart,
              Unregister, StopRemoves
<1>6. ASSUME NEW a \in Actors, Launch(d, a) PROVE main' = main \/ main' = IdleMain
  BY <1>6 DEF Launch, LaunchStarts, RecordActiveRun, LaunchGivesUp, LaunchRaises, LaunchFails,
              ReleaseLease, Dequeue
<1>7. Reconcile(d) => main' = main
  BY DEF Reconcile, ReconcileActive, ReconcileQueued
<1>8. CASE Transfer(d) \/ SweepRemoves
  BY <1>3, <1>4, <1>8 DEF Transfer, SweepRemoves, Claiming
<1>9. CASE SweepStart(d) \/ SweepDrops(d) \/ SweepBrowses \/ TickAttests(d)
  BY <1>3, <1>9 DEF SweepStart, SweepDrops, SweepBrowses, TickAttests
<1>10. CASE SubmitResults(d) \/ TickReconciled(d)
  BY <1>2, <1>3, <1>4, <1>10 DEF SubmitResults, TickReconciled
<1>11. CASE \/ UNCHANGED vars \/ BeginTurn(d) \/ (\E q \in Claimed(d) : EndTurn(d, q))
            \/ (\E r \in Runs : ProcessEnds(r)) \/ Update(d) \/ TimePasses(d) \/ Crash
  BY <1>2, <1>3, <1>11 DEF vars, BeginTurn, EndTurn, ProcessEnds, Update, TimePasses, Crash
<1> QED
  BY <1>2, <1>3, <1>5, <1>6, <1>7, <1>8, <1>9, <1>10, <1>11 DEF Step, Sweep

LEMMA CallsStep ==
  ASSUME WTypeOK, Stops, NEW d, Step(d)
  PROVE  \/ KeptCalls
         \/ \E p \in Callers, w \in Workers, c \in Contacts :
              \/ StartWorker(d, p, w, c) \/ MessageWorker(d, p, w, c)
              \/ StopQueued(p, w, c) \/ StopActive(p, w, c)
         \/ \E a \in Actors : Dequeue(d, a)
<1> SUFFICES ASSUME ~\E p \in Callers, w \in Workers, c \in Contacts :
                        \/ StartWorker(d, p, w, c) \/ MessageWorker(d, p, w, c)
                        \/ StopQueued(p, w, c) \/ StopActive(p, w, c),
                    ~\E a \in Actors : Dequeue(d, a)
             PROVE  KeptCalls
  OBVIOUS
<1>1. act \in [Actors -> CallRecord] /\ Callers \subseteq Actors /\ Main \in Actors
  BY DEF WTypeOK, ActsOK, Actors
<1>2. act' = act => KeptCalls
  BY DEF KeptCalls
<1>3. ASSUME NEW a \in Actors,
             \/ \E at : act' = [act EXCEPT ![a].at = at]
             \/ \E rec : rec.lease = None /\ act' = [act EXCEPT ![a] = rec]
             \/ act[a].op # "stop" /\ \E run : act' = [act EXCEPT ![a].run = run]
      PROVE  KeptCalls
  BY <1>1, <1>3, CallGoesOnKept
<1>4. IdleAct.lease = None /\ [IdleAct EXCEPT !.at = "browse"].lease = None
  BY DEF IdleAct
<1>5. ASSUME NEW p \in Callers, Call(d, p) PROVE KeptCalls
  <2>1. CASE CreateRecord(p) \/ EnterStart(p) \/ Unregister(p) \/ StopRemoves(p)
    <3>1. (\E at : act' = [act EXCEPT ![p].at = at]) \/ act' = [act EXCEPT ![p] = IdleAct]
      BY <2>1 DEF CreateRecord, EnterStart, Unregister, StopRemoves
    <3> QED
      BY <1>1, <1>3, <1>4, <3>1
  <2> QED
    BY <1>5, <2>1 DEF Call
<1>6. ASSUME NEW a \in Actors, Launch(d, a) PROVE KeptCalls
  <2>1. \/ \E at : act' = [act EXCEPT ![a].at = at]
        \/ act' = [act EXCEPT ![a] = IdleAct]
        \/ act' = [act EXCEPT ![a] = [IdleAct EXCEPT !.at = "browse"]]
        \/ act[a].at = "launch" /\ \E run : act' = [act EXCEPT ![a].run = run]
    BY <1>6 DEF Launch, Launching, LaunchStarts, RecordActiveRun, LaunchGivesUp, LaunchRaises, LaunchFails,
                ReleaseLease
  <2>2. act[a].at = "launch" => act[a].op # "stop"
    BY DEF Stops
  <2> QED
    BY <1>3, <1>4, <2>1, <2>2
<1>7. Reconcile(d) => act' = act
  BY DEF Reconcile, ReconcileActive, ReconcileQueued
<1>8. Sweep(d) => act' = act \/ act' = [act EXCEPT ![Main].at = "browse"]
  BY DEF Sweep, SweepStart, SweepNext, Transfer, SweepRemoves, SweepDrops, SweepBrowses,
         SubmitResults, TickReconciled, TickAttests
<1>9. Crash => KeptCalls
  BY <1>4, IdsAssumption DEF Crash, KeptCalls
<1>10. \/ UNCHANGED vars \/ BeginTurn(d) \/ (\E q \in Claimed(d) : EndTurn(d, q))
       \/ (\E r \in Runs : ProcessEnds(r)) \/ Update(d) \/ TimePasses(d)
       => act' = act
  BY DEF vars, BeginTurn, EndTurn, ProcessEnds, Update, TimePasses
<1> QED
  BY <1>1, <1>2, <1>3, <1>5, <1>6, <1>7, <1>8, <1>9, <1>10 DEF Step

\* No step makes two of those who work under leases share one.
LEMMA UsesStep ==
  ASSUME WTypeOK, Inv(doc), OneJobEach, Stops, UseInv, NEW d, d = Prune(doc), Step(d)
  PROVE  UseInv'
<1>1. ClaimsApart
  BY DocumentStep DEF DocumentStays
<1>2. ASSUME NEW p \in Callers, NEW w \in Workers, NEW c \in Contacts,
             StartWorker(d, p, w, c) \/ MessageWorker(d, p, w, c)
      PROVE  UseInv'
  <2>1. PICK next \in {[IdleAct EXCEPT !.at = "create", !.op = "new", !.w = w, !.contact = c],
                       [IdleAct EXCEPT !.at = "enter", !.op = "resume", !.w = w, !.contact = c]} :
             Admit(d, p, next)
    BY <1>2 DEF StartWorker, MessageWorker
  <2>2. next \in CallRecord /\ next.op # "stop"
    BY DEF IdleAct, CallRecord
  <2>3. UNCHANGED <<active, bqueue, main>>
    BY <1>2 DEF StartWorker, MessageWorker, files
  <2> QED
    BY <1>1, <2>1, <2>2, <2>3, AdmitUses
<1>3. CASE \E p \in Callers, w \in Workers, c \in Contacts :
              \/ StartWorker(d, p, w, c) \/ MessageWorker(d, p, w, c)
              \/ StopQueued(p, w, c) \/ StopActive(p, w, c)
  BY <1>1, <1>2, <1>3, StopQueuedUses, StopActiveUses
<1>4. CASE \E a \in Actors : Dequeue(d, a)
  BY <1>1, <1>4, DequeueUses
<1>5. CASE \E w \in Workers, r \in Runs : SweepNext(w, r)
  BY <1>1, <1>5, ClaimUses
<1>6. CASE \E p \in Callers : EnterStart(p)
  BY <1>1, <1>6, EnterUses
<1>7. CASE \E a \in Actors : RecordActiveRun(a)
  BY <1>1, <1>7, LaunchUses
<1>8. CASE (\E w \in Workers : ReconcileActive(d, w)) \/ \E i \in DOMAIN bqueue : ReconcileQueued(d, i)
  <2>1. Reconcile(d)
    BY <1>8 DEF Reconcile
  <2> QED
    BY <1>1, <2>1, ReconcileUses
<1>9. CASE KeptTable /\ KeptQueue /\ KeptSweep /\ KeptCalls
  BY <1>1, <1>9, QuietUses
<1> QED
  BY <1>3, <1>4, <1>5, <1>6, <1>7, <1>8, <1>9, TableStep, QueueStep, SweepStep, CallsStep

-----------------------------------------------------------------------------
(* What has happened stays so. *)

LEMMA HistoryStep ==
  ASSUME WTypeOK, NEW d, Step(d)
  PROVE  /\ \A r \in Runs : procs[r] # "none" => procs'[r] # "none"
         /\ \A r \in Runs : delivered[r] > 0 => delivered'[r] > 0
         /\ stopped \subseteq stopped' /\ orphans \subseteq orphans'
         /\ faults' \in {faults, faults + 1}
<1>1. /\ procs \in [Runs -> {"none", "running", "ended"}] /\ delivered \in [Runs -> Nat]
      /\ faults \in Nat /\ \A w \in Workers : Active(w) => active[w].run \in Runs
      /\ Claiming => main.rec.run \in Runs
  BY DEF WTypeOK, RestOK, TableOK, RunRecord, Active, SweepOK
<1>2. \A r \in Runs : procs[r] # "none" => procs'[r] # "none"
  <2>1. ASSUME NEW p \in Callers, Call(d, p)
        PROVE  procs' = procs \/ \E r : procs' = [procs EXCEPT ![r] = "ended"]
    BY <2>1 DEF Call, StartWorker, MessageWorker, StopQueued, StopActive, CreateRecord, EnterStart,
                Unregister, StopRemoves
  <2>2. ASSUME NEW a \in Actors, Launch(d, a)
        PROVE  \/ procs' = procs
               \/ \E r : \/ procs' = [procs EXCEPT ![r] = "ended"]
                        \/ procs' = [procs EXCEPT ![r] = "running"]
    BY <2>2 DEF Launch, LaunchStarts, RecordActiveRun, LaunchGivesUp, LaunchRaises, LaunchFails,
                ReleaseLease, Dequeue
  <2>3. Sweep(d) \/ Reconcile(d) => procs' = procs
    BY DEF Sweep, SweepStart, SweepNext, Transfer, SweepRemoves, SweepDrops, SweepBrowses,
           SubmitResults, TickReconciled, TickAttests, Reconcile, ReconcileActive, ReconcileQueued
  <2>4. \/ UNCHANGED vars \/ BeginTurn(d) \/ (\E q \in Claimed(d) : EndTurn(d, q))
        \/ (\E r \in Runs : ProcessEnds(r)) \/ Update(d) \/ TimePasses(d) \/ Crash
        => procs' = procs \/ \E r : procs' = [procs EXCEPT ![r] = "ended"]
    BY DEF vars, BeginTurn, EndTurn, ProcessEnds, Update, TimePasses, Crash
  <2>5. \/ procs' = procs
        \/ \E r : procs' = [procs EXCEPT ![r] = "ended"] \/ procs' = [procs EXCEPT ![r] = "running"]
    BY <2>1, <2>2, <2>3, <2>4 DEF Step
  <2> QED
    BY <1>1, <2>5
<1>3. \/ UNCHANGED <<delivered, stopped, orphans, faults>>
      \/ \E p \in Callers, w \in Workers, c \in Contacts : StopActive(p, w, c)
      \/ \E a \in Actors : LaunchGivesUp(a) \/ LaunchRaises(a)
      \/ Sweep(d) \/ Crash
  <2>1. ASSUME NEW p \in Callers, Call(d, p)
        PROVE  \/ UNCHANGED <<delivered, stopped, orphans, faults>>
               \/ \E w \in Workers, c \in Contacts : StopActive(p, w, c)
    BY <2>1 DEF Call, StartWorker, MessageWorker, StopQueued, CreateRecord, EnterStart,
                Unregister, StopRemoves, history
  <2>2. ASSUME NEW a \in Actors, Launch(d, a)
        PROVE  \/ UNCHANGED <<delivered, stopped, orphans, faults>>
               \/ LaunchGivesUp(a) \/ LaunchRaises(a)
    BY <2>2 DEF Launch, LaunchStarts, RecordActiveRun, LaunchFails, ReleaseLease, Dequeue, history
  <2>3. \/ UNCHANGED vars \/ BeginTurn(d) \/ (\E q \in Claimed(d) : EndTurn(d, q)) \/ Reconcile(d)
        \/ (\E r \in Runs : ProcessEnds(r)) \/ Update(d) \/ TimePasses(d)
        => UNCHANGED <<delivered, stopped, orphans, faults>>
    BY DEF vars, BeginTurn, EndTurn, ProcessEnds, Update, TimePasses, Reconcile, ReconcileActive,
           ReconcileQueued, history
  <2> QED
    BY <2>1, <2>2, <2>3 DEF Step
<1>4. ASSUME NEW p, NEW w \in Workers, NEW c, StopActive(p, w, c)
      PROVE  UNCHANGED <<delivered, orphans, faults>> /\ stopped \subseteq stopped'
  BY <1>4 DEF StopActive
<1>5. Crash => UNCHANGED <<delivered, stopped>> /\ orphans \subseteq orphans' /\ faults' = faults + 1
  BY DEF Crash
<1>7. ASSUME NEW a \in Actors, LaunchGivesUp(a) \/ LaunchRaises(a)
      PROVE  /\ delivered' = delivered /\ stopped \subseteq stopped' /\ orphans \subseteq orphans'
             /\ faults' \in {faults, faults + 1}
  BY <1>7 DEF LaunchGivesUp, LaunchRaises
<1>6. CASE Sweep(d)
  <2>1. stopped' = stopped /\ orphans' = orphans
    BY <1>6 DEF Sweep, SweepStart, SweepNext, Transfer, SweepRemoves, SweepDrops, SweepBrowses,
                SubmitResults, TickReconciled, TickAttests, history
  <2>2. faults' \in {faults, faults + 1}
    BY <1>6 DEF Sweep, SweepStart, SweepNext, Transfer, SweepRemoves, SweepDrops, SweepBrowses,
                SubmitResults, TickReconciled, TickAttests, ReconcileEnds, history
  <2>3. \/ delivered' = delivered
        \/ \E r : delivered' = [delivered EXCEPT ![r] = @ + 1]
        \/ \E S : delivered' = [r \in Runs |-> delivered[r] + IF r \in S THEN 1 ELSE 0]
    BY <1>6 DEF Sweep, SweepStart, SweepNext, Transfer, SweepRemoves, SweepDrops, SweepBrowses,
                SubmitResults, TickReconciled, TickAttests, history
  <2>4. \A r \in Runs : delivered[r] > 0 => delivered'[r] > 0
    <3>1. CASE \E x : delivered' = [delivered EXCEPT ![x] = @ + 1]
      BY <1>1, <3>1
    <3>2. CASE \E S : delivered' = [r \in Runs |-> delivered[r] + IF r \in S THEN 1 ELSE 0]
      BY <1>1, <3>2
    <3> QED
      BY <2>3, <3>1, <3>2
  <2> QED
    BY <1>2, <2>1, <2>2, <2>4
<1> QED
  BY <1>2, <1>3, <1>4, <1>5, <1>6, <1>7

\* A process is started by LaunchStarts only, and from then on its run is
\* recorded or given up, once.
LEMMA LaunchStage ==
  ASSUME WTypeOK, NEW d, Step(d)
  PROVE  FewerStarts \/ \E a \in Actors : LaunchStarts(a)
<1>1. act \in [Actors -> CallRecord] /\ Callers \subseteq Actors /\ Main \in Actors
  BY DEF WTypeOK, ActsOK, Actors
<1>2. act' = act => FewerStarts
  BY DEF FewerStarts, Launching
<1>3. ASSUME NEW p \in Callers, Call(d, p) PROVE FewerStarts
  <2>1. ASSUME NEW next, Admit(d, p, next), \A l : [next EXCEPT !.lease = l].run = None
        PROVE  FewerStarts
    <3>1. act' = act \/ \E l : act' = [act EXCEPT ![p] = [next EXCEPT !.lease = l]]
      BY <2>1 DEF Admit
    <3> QED
      BY <1>1, <2>1, <3>1, NoProcess
  <2>2. CASE \E w, c : StartWorker(d, p, w, c) \/ MessageWorker(d, p, w, c)
    BY <2>1, <2>2 DEF StartWorker, MessageWorker, IdleAct
  <2>3. ASSUME NEW w, NEW c, StopQueued(p, w, c) PROVE FewerStarts
    BY <1>1, <2>3, NoProcess DEF StopQueued, IdleAct
  <2>4. ASSUME NEW w, NEW c, StopActive(p, w, c) PROVE FewerStarts
    BY <1>1, <2>4, NoProcess DEF StopActive, IdleAct
  <2>5. CASE EnterStart(p)
    <3>1. act[p].run = None
      BY <1>1, <2>5 DEF EnterStart, WTypeOK, ActsOK, FitCall
    <3> QED
      BY <1>1, <2>5, <3>1, NoProcess DEF EnterStart, IdleAct
  <2>6. CASE CreateRecord(p) \/ Unregister(p) \/ StopRemoves(p)
    BY <1>1, <2>6, NoProcess DEF CreateRecord, Unregister, StopRemoves
  <2> QED
    BY <1>3, <2>2, <2>3, <2>4, <2>5, <2>6 DEF Call
<1>4. ASSUME NEW a \in Actors, Launch(d, a), ~LaunchStarts(a) PROVE FewerStarts
  <2>1. Dequeue(d, a) => LeaveQueue(a) \/ \E l : TakeJob(a, l)
    BY DEF Dequeue
  <2>2. LeaveQueue(a) \/ (\E l : TakeJob(a, l)) => FewerStarts
    BY <1>1, NoProcess DEF LeaveQueue, TakeJob, IdleAct
  <2>3. RecordActiveRun(a) \/ LaunchGivesUp(a) \/ LaunchRaises(a) => FewerStarts
    BY <1>1, NoProcess DEF RecordActiveRun, LaunchGivesUp, LaunchRaises, IdleAct
  <2>4. LaunchFails(a) \/ ReleaseLease(d, a) => FewerStarts
    BY <1>1, NoProcess DEF LaunchFails, ReleaseLease, IdleAct
  <2> QED
    BY <1>4, <2>1, <2>2, <2>3, <2>4 DEF Launch
<1>5. Sweep(d) => act' = act \/ act' = [act EXCEPT ![Main].at = "browse"]
  BY DEF Sweep, SweepStart, SweepNext, Transfer, SweepRemoves, SweepDrops, SweepBrowses,
         SubmitResults, TickReconciled, TickAttests
<1>6. act' = [act EXCEPT ![Main].at = "browse"] => FewerStarts
  BY <1>1, NoProcess
<1>7. Crash => FewerStarts
  BY DEF Crash, FewerStarts, Launching, IdleAct
<1>8. \/ UNCHANGED vars \/ BeginTurn(d) \/ (\E q \in Claimed(d) : EndTurn(d, q)) \/ Reconcile(d)
      \/ (\E r \in Runs : ProcessEnds(r)) \/ Update(d) \/ TimePasses(d)
      => act' = act
  BY DEF vars, BeginTurn, EndTurn, ProcessEnds, Update, TimePasses, Reconcile,
         ReconcileActive, ReconcileQueued
<1> QED
  BY <1>2, <1>3, <1>4, <1>5, <1>6, <1>7, <1>8 DEF Step

\* What is not recorded after a step was not recorded before it.
LEMMA UnrecordedStep ==
  ASSUME WTypeOK, NEW d, Step(d), NEW r \in Runs, Unrecorded(r)'
  PROVE  Unrecorded(r)
<1>1. \A x \in Runs : procs[x] # "none" => procs'[x] # "none"
  BY HistoryStep
<1>2. CASE FewerStarts
  BY <1>1, <1>2 DEF FewerStarts, Unrecorded, Launched
<1>3. ASSUME NEW a \in Actors, LaunchStarts(a) PROVE Unrecorded(r)
  <2>1. PICK x \in Runs : procs[x] = "none" /\ act' = [act EXCEPT ![a].run = x]
    BY <1>3 DEF LaunchStarts
  <2>2. act'[a].run = x /\ \A b \in Actors : b # a => act'[b] = act[b]
    BY <2>1 DEF WTypeOK, ActsOK, CallRecord
  <2> QED
    BY <1>1, <2>1, <2>2 DEF Unrecorded, Launched, Launching
<1> QED
  BY <1>2, <1>3, LaunchStage

\* A run that enters the table was not recorded before.
LEMMA RunsStep ==
  ASSUME WTypeOK, NEW d, Step(d), NEW w \in Workers, active'[w].run # None
  PROVE  active'[w].run = active[w].run \/ Unrecorded(active'[w].run)
<1>1. active \in [Workers -> RunRecord]
  BY DEF WTypeOK, TableOK
<1>2. CASE KeptTable
  BY <1>2 DEF KeptTable, KeptRun
<1>3. ASSUME NEW a \in Actors, RecordActiveRun(a)
      PROVE  active'[w].run = active[w].run \/ Unrecorded(active'[w].run)
  BY <1>1, <1>3 DEF RecordActiveRun, Unrecorded, Launched
<1>4. CASE \E v \in Workers : ReconcileActive(d, v)
  BY <1>1, <1>4 DEF ReconcileActive, RunRecord
<1> QED
  BY <1>2, <1>3, <1>4, TableStep

\* What was stopped had been recorded, or was given up by its launch.
StoppedRan == \A r \in stopped : ~Unrecorded(r)

\* How a call comes to act for stop_worker
LEMMA StopStage ==
  ASSUME WTypeOK, Stops, NEW d, Step(d), NEW a \in Actors, act'[a].op = "stop"
  PROVE  \/ act'[a] = act[a]
         \/ a \in Callers /\ StopRemoves(a)
         \/ a \in Callers /\ \E w \in Workers, c \in Contacts : StopActive(a, w, c)
<1>1. /\ act \in [Actors -> CallRecord] /\ Callers \subseteq Actors /\ Main \notin Callers
  BY WorkersAssumption DEF WTypeOK, ActsOK, Actors
<1>2. ASSUME NEW b \in Actors, NEW rec, act' = [act EXCEPT ![b] = rec], rec.op # "stop"
      PROVE  act'[a] = act[a]
  BY <1>1, <1>2
<1>3. ASSUME NEW b \in Actors, NEW at, act' = [act EXCEPT ![b].at = at], act[b].op # "stop"
      PROVE  act'[a] = act[a]
  BY <1>1, <1>3 DEF CallRecord
<1>4. ASSUME NEW b \in Actors, act[b].at \in {"create", "enter", "launch", "unregister"} \/ b = Main
      PROVE  act[b].op # "stop"
  BY <1>1, <1>4 DEF Stops
<1>12. ASSUME NEW b \in Actors, NEW run, act' = [act EXCEPT ![b].run = run], act[b].op # "stop"
       PROVE  act'[a] = act[a]
  BY <1>1, <1>12 DEF CallRecord
<1>5. /\ IdleAct.op = "new" /\ [IdleAct EXCEPT !.at = "browse"].op = "new"
      /\ \A w, c, l : [IdleAct EXCEPT !.at = "launch", !.op = "queue", !.w = w, !.contact = c,
                                      !.lease = l].op = "queue"
      /\ \A l : [IdleAct EXCEPT !.at = "release", !.op = "resume", !.lease = l].op = "resume"
  BY DEF IdleAct
<1>6. ASSUME NEW p \in Callers, Call(d, p), ~(p = a /\ StopRemoves(p)),
             ~\E w \in Workers, c \in Contacts : p = a /\ StopActive(p, w, c)
      PROVE  act'[a] = act[a]
  <2>1. CASE CreateRecord(p) \/ EnterStart(p) \/ Unregister(p)
    <3>1. act[p].op # "stop"
      BY <1>1, <1>4, <2>1 DEF CreateRecord, EnterStart, Unregister
    <3>2. (\E at : act' = [act EXCEPT ![p].at = at]) \/ act' = [act EXCEPT ![p] = IdleAct]
      BY <2>1 DEF CreateRecord, EnterStart, Unregister
    <3> QED
      BY <1>1, <1>2, <1>3, <1>5, <3>1, <3>2
  <2>2. ASSUME NEW w \in Workers, NEW c \in Contacts,
               StartWorker(d, p, w, c) \/ MessageWorker(d, p, w, c)
        PROVE  act'[a] = act[a]
    <3>1. PICK next \in {[IdleAct EXCEPT !.at = "create", !.op = "new", !.w = w, !.contact = c],
                         [IdleAct EXCEPT !.at = "enter", !.op = "resume", !.w = w, !.contact = c]} :
               Admit(d, p, next)
      BY <2>2 DEF StartWorker, MessageWorker
    <3>2. \A l : [next EXCEPT !.lease = l].op # "stop"
      BY DEF IdleAct
    <3>3. act' = act \/ \E l : act' = [act EXCEPT ![p] = [next EXCEPT !.lease = l]]
      BY <3>1 DEF Admit
    <3> QED
      BY <1>1, <1>2, <3>2, <3>3
  <2>3. ASSUME NEW w, NEW c, StopQueued(p, w, c) PROVE act'[a] = act[a]
    BY <1>1, <1>2, <1>5, <2>3 DEF StopQueued
  <2>4. StopRemoves(p) \/ (\E w \in Workers, c \in Contacts : StopActive(p, w, c))
          => p = a \/ act'[a] = act[a]
    BY <1>1 DEF StopRemoves, StopActive
  <2> QED
    BY <1>6, <2>1, <2>2, <2>3, <2>4 DEF Call
<1>7. ASSUME NEW b \in Actors, Launch(d, b) PROVE act'[a] = act[a]
  <2>1. CASE LaunchFails(b)
    BY <1>2, <1>3, <1>4, <1>5, <2>1 DEF LaunchFails
  <2>2. RecordActiveRun(b) \/ LaunchRaises(b) => act' = [act EXCEPT ![b] = IdleAct]
    BY DEF RecordActiveRun, LaunchRaises
  <2>9. CASE LaunchStarts(b) \/ LaunchGivesUp(b)
    <3>1. act[b].at = "launch" /\ \E run : act' = [act EXCEPT ![b].run = run]
      BY <2>9 DEF LaunchStarts, LaunchGivesUp, Launching
    <3>2. act[b].op # "stop"
      BY <1>4, <3>1
    <3> QED
      BY <1>1, <1>12, <3>1, <3>2
  <2>3. ReleaseLease(d, b) => act' \in {[act EXCEPT ![b] = IdleAct],
                                       [act EXCEPT ![b] = [IdleAct EXCEPT !.at = "browse"]]}
    BY DEF ReleaseLease
  <2>4. Dequeue(d, b) => LeaveQueue(b) \/ \E l : TakeJob(b, l)
    BY DEF Dequeue
  <2>5. ASSUME act' = [act EXCEPT ![b] = IdleAct] PROVE act'[a] = act[a]
    BY <1>2, <1>5, <2>5
  <2>6. ASSUME act' = [act EXCEPT ![b] = [IdleAct EXCEPT !.at = "browse"]] PROVE act'[a] = act[a]
    BY <1>2, <1>5, <2>6
  <2>7. ASSUME NEW l, TakeJob(b, l) PROVE act'[a] = act[a]
    BY <1>2, <1>5, <2>7 DEF TakeJob
  <2>8. LeaveQueue(b) => act'[a] = act[a]
    BY <2>5 DEF LeaveQueue
  <2> QED
    BY <1>7, <2>1, <2>2, <2>3, <2>4, <2>5, <2>6, <2>7, <2>8, <2>9 DEF Launch
<1>8. Reconcile(d) => act' = act
  BY DEF Reconcile, ReconcileActive, ReconcileQueued
<1>9. CASE Sweep(d)
  <2>1. act' = act \/ act' = [act EXCEPT ![Main].at = "browse"]
    BY <1>9 DEF Sweep, SweepStart, SweepNext, Transfer, SweepRemoves, SweepDrops, SweepBrowses,
                SubmitResults, TickReconciled, TickAttests
  <2>2. Main \in Actors
    BY DEF Actors
  <2> QED
    BY <1>3, <1>4, <2>1, <2>2
<1>10. ~Crash
  BY <1>5 DEF Crash
<1>11. \/ UNCHANGED vars \/ BeginTurn(d) \/ (\E q \in Claimed(d) : EndTurn(d, q))
       \/ (\E r \in Runs : ProcessEnds(r)) \/ Update(d) \/ TimePasses(d)
       => act' = act
  BY DEF vars, BeginTurn, EndTurn, ProcessEnds, Update, TimePasses
<1> QED
  BY <1>6, <1>7, <1>8, <1>9, <1>10, <1>11 DEF Step

LEMMA StopsStep ==
  ASSUME WTypeOK, OnceInv, Stops, StoppedRan, NEW d, Step(d)
  PROVE  Stops' /\ StoppedRan'
<1>1. /\ active \in [Workers -> RunRecord] /\ act \in [Actors -> CallRecord] /\ stopped \subseteq Runs
      /\ procs \in [Runs -> {"none", "running", "ended"}]
      /\ \A r \in Runs : r # None /\ (procs[r] # "none" => procs'[r] # "none")
      /\ stopped \subseteq stopped'
  BY HistoryStep, WorkersAssumption DEF WTypeOK, TableOK, ActsOK, RestOK
<1>2. StoppedRan'
  <2>1. ASSUME NEW r \in stopped' \ stopped PROVE ~Unrecorded(r)'
    <3>1. CASE \E p \in Callers, w \in Workers, c \in Contacts : StopActive(p, w, c)
      <4>1. PICK w \in Workers : Active(w) /\ r = active[w].run
        BY <2>1, <3>1 DEF StopActive
      <4>2. r \in Runs /\ InTable(r)
        BY <1>1, <4>1 DEF Active, RunRecord, InTable
      <4> QED
        BY <4>2, UnrecordedStep DEF OnceInv, Unstarted, Nowhere
    <3>2. ASSUME NEW a \in Actors, LaunchGivesUp(a) PROVE ~Unrecorded(r)'
      <4>1. /\ Launching(a) /\ r = act[a].run /\ procs' = [procs EXCEPT ![r] = "ended"]
            /\ act' = [act EXCEPT ![a].run = None]
        BY <2>1, <3>2 DEF LaunchGivesUp
      <4>2. r \in Runs
        BY <2>1, <1>1, <4>1 DEF WTypeOK, ActsOK, CallRecord, Launching
      <4>3. procs'[r] # "none" /\ act'[a].run = None /\ \A b \in Actors : b # a => act'[b] = act[b]
        BY <1>1, <4>1, <4>2 DEF CallRecord
      <4>4. \A b \in Actors : b # a => ~(Launching(b) /\ act[b].run = r)
        BY <4>1 DEF OnceInv, OneLaunch
      <4> QED
        BY <4>2, <4>3, <4>4, <1>1 DEF Unrecorded, Launched, Launching
    <3>3. ASSUME NEW p \in Callers, Call(d, p), stopped' # stopped
          PROVE  \E w \in Workers, c \in Contacts : StopActive(p, w, c)
      BY <3>3 DEF Call, StartWorker, MessageWorker, StopQueued, CreateRecord, EnterStart,
                  Unregister, StopRemoves, history
    <3>4. ASSUME NEW a \in Actors, Launch(d, a), stopped' # stopped PROVE LaunchGivesUp(a)
      BY <3>4 DEF Launch, LaunchStarts, RecordActiveRun, LaunchRaises, LaunchFails, ReleaseLease,
                  Dequeue, history
    <3>5. \/ UNCHANGED vars \/ BeginTurn(d) \/ (\E q \in Claimed(d) : EndTurn(d, q)) \/ Reconcile(d)
          \/ (\E x \in Runs : ProcessEnds(x)) \/ Update(d) \/ TimePasses(d) \/ Crash
          => stopped' = stopped
      BY DEF vars, BeginTurn, EndTurn, ProcessEnds, Update, TimePasses, Crash, Reconcile,
             ReconcileActive, ReconcileQueued, history
    <3>6. Sweep(d) => stopped' = stopped
      BY DEF Sweep, SweepStart, SweepNext, Transfer, SweepRemoves, SweepDrops, SweepBrowses,
             SubmitResults, TickReconciled, TickAttests, history
    <3> QED
      BY <2>1, <3>1, <3>2, <3>3, <3>4, <3>5, <3>6 DEF Step
  <2>2. ASSUME NEW r \in stopped PROVE ~Unrecorded(r)'
    BY <1>1, <2>2, UnrecordedStep DEF StoppedRan
  <2> QED
    BY <2>1, <2>2 DEF StoppedRan
<1>3. ASSUME NEW a \in Actors, act'[a].op = "stop"
      PROVE  /\ a \in Callers /\ act'[a].at \in {"remove", "release"} /\ act'[a].run \in stopped'
             /\ \A w \in Workers : active'[w].run = act'[a].run => act'[a].at = "remove" /\ act'[a].w = w
  <2>1. CASE act'[a] = act[a]
    <3>1. /\ a \in Callers /\ act[a].at \in {"remove", "release"} /\ act[a].run \in stopped
          /\ \A w \in Workers : active[w].run = act[a].run => act[a].at = "remove" /\ act[a].w = w
      BY <1>3, <2>1 DEF Stops
    <3>2. ASSUME NEW w \in Workers, active'[w].run = act[a].run PROVE active[w].run = act[a].run
      BY <1>1, <3>1, <3>2, RunsStep DEF StoppedRan
    <3> QED
      BY <1>1, <2>1, <3>1, <3>2
  <2>2. CASE a \in Callers /\ StopRemoves(a)
    <3>1. /\ act[a].at = "remove" /\ act'[a].at = "release" /\ act'[a].run = act[a].run
          /\ act'[a].op = act[a].op /\ active' = WithoutRun(act[a].w, act[a].run)
      BY <1>1, <2>2 DEF StopRemoves, CallRecord
    <3>2. act[a].run \in stopped /\ act[a].run # None
          /\ \A w \in Workers : active[w].run = act[a].run => act[a].w = w
      BY <1>1, <1>3, <3>1 DEF Stops
    <3>3. ASSUME NEW w \in Workers PROVE active'[w].run # act[a].run
      BY <1>1, <3>1, <3>2 DEF WithoutRun, NoRun
    <3> QED
      BY <1>1, <2>2, <3>1, <3>2, <3>3
  <2>3. ASSUME NEW w \in Workers, NEW c \in Contacts, a \in Callers, StopActive(a, w, c)
        PROVE  /\ act'[a].at = "remove" /\ act'[a].run \in stopped'
               /\ \A v \in Workers : active'[v].run = act'[a].run => act'[a].w = v
    <3>1. /\ act'[a].at = "remove" /\ act'[a].run = active[w].run /\ act'[a].w = w
          /\ active' = active /\ active[w].run \in stopped' /\ active[w].run # None
      BY <1>1, <2>3 DEF StopActive, IdleAct, Active, files
    <3> QED
      BY <3>1 DEF OnceInv, OneRecord
  <2> QED
    BY <1>3, <2>1, <2>2, <2>3, StopStage
<1> QED
  BY <1>2, <1>3 DEF Stops

-----------------------------------------------------------------------------
(* Who takes a lease takes it from himself, so what is about to start is     *)
(* backed by a live lease until the table or the queue has it.               *)

LEMMA LostWhose ==
  ASSUME UseInv, NEW d, NEW L \in Leases, NEW t, Uses(L, t), LostTo(d, L)
  PROVE  \/ \E a \in Actors : act[a].lease = L /\ t = TagOf(a, act[a]) /\ ReleaseLease(d, a)
         \/ /\ main.rec.lease = L /\ t = RunTag(main.rec.run)
            /\ (Transfer(d) /\ main'.at = "remove") \/ SweepDrops(d)
         \/ TimePasses(d) \/ Crash
<1>1. CASE \E a \in Actors : act[a].lease = L /\ ReleaseLease(d, a)
  BY <1>1 DEF UseInv, OneUse, Uses, CallUse
<1>2. CASE main.rec.lease = L /\ ((Transfer(d) /\ main'.at = "remove") \/ SweepDrops(d))
  <2>1. Claiming
    BY <1>2 DEF Claiming, Transfer, SweepDrops
  <2> QED
    BY <1>2, <2>1 DEF UseInv, OneUse, Uses, SweepUse
<1>3. ~\E q \in QueueIds : doc.items[q].lease = L
  BY DEF UseInv, ItemsApart
<1> QED
  BY <1>1, <1>2, <1>3 DEF LostTo

Starting(a) == act[a].at \in {"create", "enter", "launch"}
StartsBacked == \A a \in Actors : Starting(a) => Alive(act[a].lease)

\* A call comes to start something with a lease that was just granted or beaten.
LEMMA StartStage ==
  ASSUME WTypeOK, Inv(doc), NEW d, d = Prune(doc), Step(d), NEW a \in Actors,
         Starting(a)'
  PROVE  (Starting(a) /\ act'[a].lease = act[a].lease) \/ Alive(act[a].lease)'
<1>1. /\ act \in [Actors -> CallRecord] /\ Callers \subseteq Actors /\ Inv(d)
      /\ \A l \in Leases : d.leases[l].live => AliveIn(d, l)
  BY PrunedLeases DEF WTypeOK, ActsOK, Actors
<1> DEFINE Goal == (Starting(a) /\ act'[a].lease = act[a].lease) \/ Alive(act[a].lease)'
<1> SUFFICES Goal
  OBVIOUS
<1>2. CASE act'[a] = act[a]
  BY <1>2 DEF Starting
<1>3. ASSUME NEW rec, act'[a] = rec, rec.at \notin {"create", "enter", "launch"}
      PROVE  Goal
  BY <1>3 DEF Starting
<1>4. ASSUME NEW l \in Leases, act'[a].lease = l, AliveIn(doc', l) PROVE Goal
  BY <1>4 DEF Alive
<1>5. ASSUME NEW b \in Actors, NEW at, act' = [act EXCEPT ![b].at = at],
             at \in {"create", "enter", "launch"} => Starting(b)
      PROVE  Goal
  BY <1>1, <1>5 DEF Starting, CallRecord
<1>6. ASSUME NEW b \in Actors, act' = [act EXCEPT ![b] = IdleAct] PROVE Goal
  BY <1>1, <1>2, <1>3, <1>6 DEF IdleAct
<1>13. ASSUME NEW b \in Actors, NEW run, act' = [act EXCEPT ![b].run = run] PROVE Goal
  BY <1>1, <1>13 DEF Starting, CallRecord
<1> HIDE DEF Goal
<1>7. ASSUME NEW p \in Callers, NEW next, next \in CallRecord, Admit(d, p, next) PROVE Goal
  <2>1. PICK l, x : /\ l \in NewLeases(d) /\ AcquireActivity(d, x, l)
          /\ act' = IF doc'.leases[l].live THEN [act EXCEPT ![p] = [next EXCEPT !.lease = l]]
                    ELSE act
    BY <1>7 DEF Admit
  <2>2. l \in Leases /\ ~d.leases[l].live
    BY <2>1 DEF NewLeases, FreshLeases
  <2>3. doc'.leases[l].live => AliveIn(doc', l)
    BY <1>1, <2>1, <2>2, AcquireKeeps
  <2>4. CASE p = a /\ doc'.leases[l].live
    <3>1. act'[a].lease = l
      BY <1>1, <1>7, <2>1, <2>4 DEF CallRecord
    <3> QED
      BY <1>4, <2>2, <2>3, <2>4, <3>1
  <2>5. CASE ~(p = a /\ doc'.leases[l].live)
    BY <1>1, <1>2, <2>1, <2>5
  <2> QED
    BY <2>4, <2>5
<1>8. ASSUME NEW p \in Callers, Call(d, p) PROVE Goal
  <2>1. ASSUME NEW w \in Workers, NEW c \in Contacts,
               StartWorker(d, p, w, c) \/ MessageWorker(d, p, w, c)
        PROVE  Goal
    <3>1. PICK next \in {[IdleAct EXCEPT !.at = "create", !.op = "new", !.w = w, !.contact = c],
                         [IdleAct EXCEPT !.at = "enter", !.op = "resume", !.w = w, !.contact = c]} :
               Admit(d, p, next)
      BY <2>1 DEF StartWorker, MessageWorker
    <3>2. next \in CallRecord
      BY DEF IdleAct, CallRecord
    <3> QED
      BY <1>7, <3>1, <3>2
  <2>2. ASSUME NEW w, NEW c, StopQueued(p, w, c) PROVE Goal
    <3>1. PICK l : act' = [act EXCEPT ![p] = [IdleAct EXCEPT !.at = "release", !.op = "resume", !.lease = l]]
      BY <2>2 DEF StopQueued
    <3>2. [IdleAct EXCEPT !.at = "release", !.op = "resume", !.lease = l].at = "release"
      BY DEF IdleAct
    <3> QED
      BY <1>1, <1>2, <1>3, <3>1, <3>2
  <2>3. ASSUME NEW w, NEW c, StopActive(p, w, c) PROVE Goal
    <3>1. PICK l, r : act' = [act EXCEPT ![p] = [IdleAct EXCEPT !.at = "remove", !.op = "stop", !.w = w,
                                                 !.lease = l, !.run = r]]
      BY <2>3 DEF StopActive
    <3>2. [IdleAct EXCEPT !.at = "remove", !.op = "stop", !.w = w, !.lease = l, !.run = r].at = "remove"
      BY DEF IdleAct
    <3> QED
      BY <1>1, <1>2, <1>3, <3>1, <3>2
  <2>4. CASE CreateRecord(p) \/ EnterStart(p) \/ Unregister(p) \/ StopRemoves(p)
    <3>1. CASE act' = [act EXCEPT ![p] = IdleAct]
      BY <1>1, <1>6, <3>1
    <3>2. ASSUME NEW at, act' = [act EXCEPT ![p].at = at],
                 at \in {"create", "enter", "launch"} => Starting(p)
          PROVE  Goal
      BY <1>1, <1>5, <3>2
    <3>3. CASE CreateRecord(p)
      BY <3>2, <3>3 DEF CreateRecord, Starting
    <3>4. CASE EnterStart(p)
      BY <3>1, <3>2, <3>4 DEF EnterStart, Starting
    <3>5. CASE Unregister(p) \/ StopRemoves(p)
      BY <3>2, <3>5 DEF Unregister, StopRemoves
    <3> QED
      BY <2>4, <3>3, <3>4, <3>5
  <2> QED
    BY <1>8, <2>1, <2>2, <2>3, <2>4 DEF Call
<1>9. ASSUME NEW b \in Actors, Launch(d, b) PROVE Goal
  <2>1. CASE LaunchStarts(b) \/ RecordActiveRun(b) \/ LaunchGivesUp(b) \/ LaunchRaises(b)
               \/ LaunchFails(b)
    <3>1. \/ act' = [act EXCEPT ![b] = IdleAct]
          \/ \E run : act' = [act EXCEPT ![b].run = run]
          \/ \E at : act' = [act EXCEPT ![b].at = at] /\ at \notin {"create", "enter", "launch"}
      BY <2>1 DEF LaunchStarts, RecordActiveRun, LaunchGivesUp, LaunchRaises, LaunchFails
    <3> QED
      BY <1>1, <1>5, <1>6, <1>13, <3>1
  <2>2. CASE ReleaseLease(d, b)
    <3>1. act' \in {[act EXCEPT ![b] = IdleAct], [act EXCEPT ![b] = [IdleAct EXCEPT !.at = "browse"]]}
      BY <2>2 DEF ReleaseLease
    <3>2. [IdleAct EXCEPT !.at = "browse"].at = "browse"
      BY DEF IdleAct
    <3> QED
      BY <1>1, <1>2, <1>3, <1>6, <3>1, <3>2
  <2>3. ASSUME NEW l \in Leases, TakeJob(b, l), AliveIn(doc', l) PROVE Goal
    <3>1. [IdleAct EXCEPT !.at = "launch", !.op = "queue", !.w = Head(bqueue).w,
                          !.contact = Head(bqueue).contact, !.lease = l].lease = l
      BY DEF IdleAct
    <3>2. a = b => act'[a].lease = l
      BY <1>1, <2>3, <3>1 DEF TakeJob
    <3>3. a # b => act'[a] = act[a]
      BY <1>1, <2>3 DEF TakeJob
    <3> QED
      BY <1>2, <1>4, <2>3, <3>2, <3>3
  <2>4. CASE Dequeue(d, b)
    <3>1. bqueue # <<>> => Head(bqueue).lease \in Leases
      <4>1. bqueue # <<>> => Head(bqueue) \in Job
        BY HeadTailProperties DEF WTypeOK
      <4> QED
        BY <4>1 DEF Job
    <3>2. ASSUME bqueue # <<>>, LiveIn(d, Head(bqueue).lease), Heartbeat(d, Head(bqueue).lease),
                 TakeJob(b, Head(bqueue).lease)
          PROVE  Goal
      <4>1. d.leases[Head(bqueue).lease].live
        BY <3>2 DEF LiveIn
      <4>2. Keeps(d, doc', {})
        BY <1>1, <3>1, <3>2, HeartbeatKeeps
      <4>3. AliveIn(doc', Head(bqueue).lease)
        BY <3>1, <3>2, <4>1, <4>2 DEF Keeps, KeepsLeases
      <4> QED
        BY <2>3, <3>1, <3>2, <4>3
    <3>3. ASSUME NEW l \in NewLeases(d), d.phase = "available", AcquireActivity(d, None, l), TakeJob(b, l)
          PROVE  Goal
      <4>1. l \in Leases
        BY DEF NewLeases, FreshLeases
      <4>2. doc' = NewLease(d, l, d.epoch)
        BY <3>3 DEF AcquireActivity
      <4>3. AliveIn(doc', l)
        BY <1>1, <4>1, <4>2, NewLeaseKeeps
      <4> QED
        BY <2>3, <3>3, <4>1, <4>3
    <3>4. LeaveQueue(b) => Goal
      BY <1>6 DEF LeaveQueue
    <3> QED
      BY <2>4, <3>2, <3>3, <3>4 DEF Dequeue
  <2> QED
    BY <1>9, <2>1, <2>2, <2>4 DEF Launch
<1>10. CASE Sweep(d)
  <2>1. act' = act \/ act' = [act EXCEPT ![Main].at = "browse"]
    BY <1>10 DEF Sweep, SweepStart, SweepNext, Transfer, SweepRemoves, SweepDrops, SweepBrowses,
                 SubmitResults, TickReconciled, TickAttests
  <2>2. Main \in Actors
    BY DEF Actors
  <2> QED
    BY <1>2, <1>5, <2>1, <2>2
<1>11. CASE Crash
  BY <1>3, <1>11 DEF Crash, IdleAct
<1>12. CASE \/ UNCHANGED vars \/ BeginTurn(d) \/ (\E q \in Claimed(d) : EndTurn(d, q)) \/ Reconcile(d)
            \/ (\E r \in Runs : ProcessEnds(r)) \/ Update(d) \/ TimePasses(d)
  BY <1>2, <1>12 DEF vars, BeginTurn, EndTurn, ProcessEnds, Update, TimePasses, Reconcile,
                     ReconcileActive, ReconcileQueued
<1> QED
  BY <1>8, <1>9, <1>10, <1>11, <1>12 DEF Step

LEMMA StartsStep ==
  ASSUME WTypeOK, Inv(doc), Stops, UseInv, StartsBacked, NEW d, d = Prune(doc), Step(d)
  PROVE  StartsBacked'
<1> SUFFICES ASSUME NEW a \in Actors, Starting(a)', Starting(a), act'[a].lease = act[a].lease
             PROVE  Alive(act[a].lease)'
  BY StartStage DEF StartsBacked, Starting
<1>1. PICK l \in Leases : l = act[a].lease
  BY DEF WTypeOK, ActsOK, FitCall, Starting
<1>2. Uses(l, CallTag(a)) /\ Alive(l)
  BY <1>1 DEF Uses, CallUse, TagOf, Stops, StartsBacked, Starting
<1>3. ~ReleaseLease(d, a) /\ ~TimePasses(d) /\ ~Crash
  BY DEF Starting, ReleaseLease, TimePasses, Crash, IdleAct
<1>4. \A b \in Actors : CallTag(a) = TagOf(b, act[b]) => a = b
  BY TagFacts
<1>5. CallTag(a) # RunTag(main.rec.run)
  BY TagFacts
<1>6. ~LostTo(d, l)
  BY <1>2, <1>3, <1>4, <1>5, LostWhose
<1>7. Alive(l)'
  BY <1>2, <1>6, DocumentStep DEF DocumentStays, LeasesStay
<1> QED
  BY <1>1, <1>7 DEF Alive

-----------------------------------------------------------------------------
(* Between its reconciliation and its attestation a tick vouches for the     *)
(* work of the epochs it covered: each has a live lease.                     *)

Backed(rec) == rec.since < covered => Alive(rec.lease)
TickVouches == main.at = "attest" =>
    /\ \A w \in Workers : Active(w) => Backed(active[w])
    /\ \A i \in DOMAIN bqueue : Backed(bqueue[i])

\* Only the tick changes what is covered, and nothing of the sweep comes
\* between its reconciliation and its attestation.
LEMMA CoveredStep ==
  ASSUME WTypeOK, NEW d, Step(d), ~TickReconciled(d)
  PROVE  /\ covered' = covered
         /\ main'.at = "attest" =>
              main.at = "attest" /\ ~Sweep(d) /\ ~Reconcile(d) /\ ~TimePasses(d) /\ ~Crash
<1>1. main \in SweepRecord
  BY DEF WTypeOK, SweepOK
<1>2. CASE Sweep(d)
  <2>1. covered' = covered
    BY <1>2 DEF Sweep, SweepStart, SweepNext, Transfer, SweepRemoves, SweepDrops, SweepBrowses,
                SubmitResults, TickAttests, history
  <2>2. /\ IdleMain.at = "idle" /\ [IdleMain EXCEPT !.at = "browse"].at = "browse"
        /\ \A todo : [IdleMain EXCEPT !.at = "sweep", !.todo = todo].at = "sweep"
    BY DEF IdleMain
  <2>3. ASSUME NEW at, main' = [main EXCEPT !.at = at] PROVE main'.at = at
    BY <1>1, <2>3 DEF SweepRecord
  <2>4. ASSUME NEW todo, main' = [main EXCEPT !.todo = todo] PROVE main'.at = main.at
    BY <1>1, <2>4 DEF SweepRecord
  <2>5. CASE SweepStart(d) \/ SweepDrops(d) \/ SweepBrowses \/ TickAttests(d)
    BY <2>1, <2>2, <2>5 DEF SweepStart, SweepDrops, SweepBrowses, TickAttests
  <2>6. CASE Transfer(d) \/ SweepRemoves
    BY <2>1, <2>2, <2>3, <2>6 DEF Transfer, SweepRemoves
  <2>7. CASE SubmitResults(d)
    BY <2>1, <2>2, <2>3, <2>7 DEF SubmitResults
  <2>8. ASSUME NEW w, NEW r, SweepNext(w, r) PROVE main'.at # "attest"
    BY <2>4, <2>8 DEF SweepNext
  <2> QED
    BY <1>2, <2>1, <2>5, <2>6, <2>7, <2>8 DEF Sweep
<1>3. ASSUME NEW p \in Callers, Call(d, p) PROVE UNCHANGED <<main, covered>>
  BY <1>3 DEF Call, StartWorker, MessageWorker, StopQueued, StopActive, CreateRecord, EnterStart,
              Unregister, StopRemoves, history
<1>4. ASSUME NEW a \in Actors, Launch(d, a)
      PROVE  covered' = covered /\ (main' = main \/ main'.at = "idle")
  BY <1>4 DEF Launch, LaunchStarts, RecordActiveRun, LaunchGivesUp, LaunchRaises, LaunchFails,
              ReleaseLease, Dequeue, history, IdleMain
<1>5. Reconcile(d) => UNCHANGED <<main, covered>> /\ main.at # "attest"
  BY DEF Reconcile, ReconcileActive, ReconcileQueued, history
<1>6. TimePasses(d) => UNCHANGED <<main, covered>> /\ main.at # "attest"
  BY DEF TimePasses, history
<1>7. Crash => covered' = covered /\ main'.at # "attest"
  BY DEF Crash, IdleMain
<1>8. \/ UNCHANGED vars \/ BeginTurn(d) \/ (\E q \in Claimed(d) : EndTurn(d, q))
      \/ (\E r \in Runs : ProcessEnds(r)) \/ Update(d)
      => UNCHANGED <<main, covered>>
  BY DEF vars, BeginTurn, EndTurn, ProcessEnds, Update, history
<1>9. CASE main.at # "attest" /\ UNCHANGED <<main, covered>>
  BY <1>9
<1>10. CASE ~Sweep(d) /\ ~Reconcile(d) /\ ~TimePasses(d) /\ ~Crash
  BY <1>3, <1>4, <1>8, <1>10 DEF Step
<1> QED
  BY <1>2, <1>5, <1>6, <1>7, <1>9, <1>10

\* A job that enters the queue brings the lease of its call.
LEMMA EnterJob ==
  ASSUME WTypeOK, NEW p \in Callers, EnterStart(p)
  PROVE  \A j \in DOMAIN bqueue' :
            (\E i \in DOMAIN bqueue : bqueue'[j] = bqueue[i]) \/ bqueue'[j].lease = act[p].lease
<1> DEFINE job == [w |-> act[p].w, contact |-> act[p].contact, lease |-> act[p].lease,
                   since |-> doc.epoch]
<1>1. CASE bqueue' = bqueue
  BY <1>1
<1>2. CASE bqueue' = Append(bqueue, job)
  <2>1. DOMAIN bqueue' = 1..Len(bqueue) + 1 /\ DOMAIN bqueue = 1..Len(bqueue) /\ Len(bqueue) \in Nat
    BY <1>2, JobTyped, AppendProperties DEF WTypeOK
  <2>2. \A i \in 1..Len(bqueue) : bqueue'[i] = bqueue[i]
    BY <1>2, <2>1, AppendProperties DEF WTypeOK
  <2>3. bqueue'[Len(bqueue) + 1] = job
    BY <1>2, <2>1, AppendProperties DEF WTypeOK
  <2>4. \A i \in DOMAIN bqueue' : i \in 1..Len(bqueue) \/ i = Len(bqueue) + 1
    BY <2>1
  <2>5. job.lease = act[p].lease
    OBVIOUS
  <2> HIDE DEF job
  <2> QED
    BY <2>1, <2>2, <2>3, <2>4, <2>5
<1> HIDE DEF job
<1> QED
  BY <1>1, <1>2 DEF EnterStart, job

\* The tick that reconciled everything
LEMMA ReconciledVouches ==
  ASSUME WTypeOK, Inv(doc), NEW d, d = Prune(doc), TickReconciled(d)
  PROVE  TickVouches'
<1>1. /\ d.epoch = doc.epoch /\ d.epoch \in Nat
      /\ \A l \in Leases : d.leases[l].live <=> AliveIn(doc, l)
  BY PrunedLeases DEF Inv, Document
<1>2. /\ UNCHANGED <<doc, active, bqueue>>
      /\ covered' = IF ~Reconciled(d) THEN 0
                    ELSE IF d.phase = "available" THEN d.epoch + 1 ELSE d.epoch
  BY DEF TickReconciled, files
<1>3. ASSUME NEW rec, rec.since \in Nat, Reconciled(d) => ~Adoptable(d, rec), rec.since < covered'
      PROVE  Alive(rec.lease)
  <2>1. Reconciled(d) /\ covered' = IF d.phase = "available" THEN d.epoch + 1 ELSE d.epoch
    BY <1>2, <1>3
  <2>2. LiveIn(d, rec.lease)
    BY <1>1, <1>3, <2>1 DEF Adoptable
  <2> QED
    BY <1>1, <2>2 DEF LiveIn, Alive
<1>4. ASSUME NEW w \in Workers, Active(w), active[w].since < covered' PROVE Alive(active[w].lease)
  <2>1. active[w].since \in Nat
    BY DEF WTypeOK, TableOK, RunRecord
  <2> QED
    BY <1>3, <1>4, <2>1 DEF Reconciled
<1>5. ASSUME NEW i \in DOMAIN bqueue, bqueue[i].since < covered' PROVE Alive(bqueue[i].lease)
  <2>1. bqueue[i].since \in Nat
    BY JobTyped DEF WTypeOK, Job
  <2> QED
    BY <1>3, <1>5, <2>1 DEF Reconciled
<1> QED
  BY <1>2, <1>4, <1>5 DEF TickVouches, Backed, Active, Alive

\* The work that has a lease keeps it while the tick goes on.
LEMMA VouchesStep ==
  ASSUME WTypeOK, Inv(doc), Stops, UseInv, StartsBacked, TickVouches, NEW d, d = Prune(doc), Step(d)
  PROVE  TickVouches'
<1>1. CASE TickReconciled(d)
  BY <1>1, ReconciledVouches
<1>2. CASE ~TickReconciled(d)
  <2> SUFFICES ASSUME main'.at = "attest" PROVE TickVouches'
    BY DEF TickVouches
  <2>1. /\ covered' = covered /\ main.at = "attest"
        /\ ~Sweep(d) /\ ~Reconcile(d) /\ ~TimePasses(d) /\ ~Crash
    BY <1>2, CoveredStep
  <2>2. /\ active \in [Workers -> RunRecord] /\ act \in [Actors -> CallRecord]
        /\ \A w \in Workers : Active(w) => active[w].lease \in Leases
        /\ \A i \in DOMAIN bqueue : bqueue[i].lease \in Leases
    BY JobTyped DEF WTypeOK, ActsOK, TableOK, Whole, Active, Job
  <2>3. ASSUME NEW l \in Leases, NEW t, Uses(l, t), Alive(l),
               \A a \in Actors : t = TagOf(a, act[a]) => act[a].at # "release"
        PROVE  Alive(l)'
    <3>1. ~\E a \in Actors : act[a].lease = l /\ t = TagOf(a, act[a]) /\ ReleaseLease(d, a)
      BY <2>3 DEF ReleaseLease
    <3>2. ~Transfer(d) /\ ~SweepDrops(d)
      BY <2>1 DEF Sweep
    <3>3. ~LostTo(d, l)
      BY <2>1, <2>3, <3>1, <3>2, LostWhose
    <3> QED
      BY <2>3, <3>3, DocumentStep DEF DocumentStays, LeasesStay
  <2>4. ASSUME NEW w \in Workers, active'[w].run # None, active'[w].since < covered
        PROVE  Alive(active[w].lease)'
    <3>1. CASE KeptRun(w)
      <4>1. /\ active'[w].run = active[w].run /\ active'[w].lease = active[w].lease
            /\ active'[w].since = active[w].since
        BY <2>4, <3>1 DEF KeptRun
      <4>2. PICK l \in Leases : l = active[w].lease
        BY <2>2, <2>4, <4>1 DEF Active
      <4>3. Uses(l, RunTag(active[w].run)) /\ Alive(l)
        BY <2>1, <2>4, <4>1, <4>2 DEF Uses, RunUse, Active, TickVouches, Backed
      <4>4. \A a \in Actors : RunTag(active[w].run) = TagOf(a, act[a]) => act[a].at # "release"
        BY TagFacts DEF TagOf, Stops
      <4>5. Alive(l)'
        BY <2>3, <4>3, <4>4
      <4> QED
        BY <4>1, <4>2, <4>5 DEF Alive
    <3>2. ASSUME NEW a \in Actors, RecordActiveRun(a) PROVE KeptRun(w) \/ Alive(active[w].lease)'
      <4>1. PICK r : active' = [active EXCEPT ![act[a].w] =
              [run |-> r, contact |-> act[a].contact, lease |-> act[a].lease,
               since |-> doc.epoch, claim |-> 0]]
        BY <3>2 DEF RecordActiveRun
      <4>2. doc' = doc /\ Alive(act[a].lease)
        BY <3>2 DEF RecordActiveRun, Launching, StartsBacked, Starting
      <4>3. CASE w = act[a].w
        <5>1. active'[w].lease = act[a].lease
          BY <2>2, <4>1, <4>3
        <5> QED
          BY <4>2, <5>1 DEF Alive
      <4>4. CASE w # act[a].w
        BY <2>2, <4>1, <4>4 DEF KeptRun
      <4> QED
        BY <4>3, <4>4
    <3>3. ~\E v \in Workers : ReconcileActive(d, v)
      BY <2>1 DEF Reconcile
    <3> QED
      BY <3>1, <3>2, <3>3, TableStep DEF KeptTable
  <2>5. ASSUME NEW j \in DOMAIN bqueue', bqueue'[j].since < covered
        PROVE  \E m \in Leases : m = bqueue'[j].lease /\ AliveIn(doc', m)
    <3>1. ASSUME NEW i \in DOMAIN bqueue, bqueue'[j] = bqueue[i]
          PROVE  \E m \in Leases : m = bqueue'[j].lease /\ AliveIn(doc', m)
      <4>1. PICK l \in Leases : l = bqueue[i].lease
        BY <2>2
      <4>2. Uses(l, JobTag(bqueue[i].w)) /\ Alive(l)
        BY <2>1, <2>5, <3>1, <4>1 DEF Uses, JobUse, TickVouches, Backed
      <4>3. \A a \in Actors : JobTag(bqueue[i].w) # TagOf(a, act[a])
        BY TagFacts
      <4>4. Alive(l)'
        BY <2>3, <4>2, <4>3
      <4> QED
        BY <3>1, <4>1, <4>4 DEF Alive
    <3>2. ASSUME NEW p \in Callers, EnterStart(p), bqueue'[j].lease = act[p].lease
          PROVE  \E m \in Leases : m = bqueue'[j].lease /\ AliveIn(doc', m)
      <4>1. doc' = doc /\ p \in Actors /\ Alive(act[p].lease)
        BY <3>2 DEF EnterStart, StartsBacked, Starting, Actors
      <4> QED
        BY <3>2, <4>1 DEF Alive
    <3>3. ~\E i \in DOMAIN bqueue : ReconcileQueued(d, i)
      BY <2>1 DEF Reconcile
    <3> QED
      BY <3>1, <3>2, <3>3, QueueStep, EnterJob DEF KeptQueue
  <2> QED
    BY <2>1, <2>4, <2>5 DEF TickVouches, Backed, Active, Alive
<1> QED
  BY <1>1, <1>2

\* A run or a job that is there was there before, as old as it is, or has just
\* been started by a call that is backed.
LEMMA SinceStep ==
  ASSUME WTypeOK, NEW d, Step(d), \A a \in Actors : ~Starting(a)
  PROVE  /\ \A w \in Workers : active'[w].run # None =>
                Active(w) /\ active'[w].since = active[w].since
         /\ \A j \in DOMAIN bqueue' : \E i \in DOMAIN bqueue : bqueue'[j].since = bqueue[i].since
<1>1. active \in [Workers -> RunRecord]
  BY DEF WTypeOK, TableOK
<1>2. ASSUME NEW w \in Workers, active'[w].run # None
      PROVE  Active(w) /\ active'[w].since = active[w].since
  <2>1. CASE KeptTable
    BY <1>2, <2>1 DEF KeptTable, KeptRun, Active
  <2>2. CASE \E a \in Actors : RecordActiveRun(a)
    BY <2>2 DEF RecordActiveRun, Launching, Starting
  <2>3. CASE \E v \in Workers : ReconcileActive(d, v)
    BY <1>1, <1>2, <2>3 DEF ReconcileActive, RunRecord, Active
  <2> QED
    BY <2>1, <2>2, <2>3, TableStep
<1>3. ASSUME NEW j \in DOMAIN bqueue'
      PROVE  \E i \in DOMAIN bqueue : bqueue'[j].since = bqueue[i].since
  <2>1. CASE KeptQueue
    BY <1>3, <2>1 DEF KeptQueue
  <2>2. CASE \E p \in Callers : EnterStart(p)
    BY <2>2 DEF EnterStart, Starting, Actors
  <2>3. ASSUME NEW i \in DOMAIN bqueue, ReconcileQueued(d, i)
        PROVE  \E k \in DOMAIN bqueue : bqueue'[j].since = bqueue[k].since
    <3>1. bqueue[i] \in Job
      BY JobTyped DEF WTypeOK
    <3>2. PICK l : bqueue' = [bqueue EXCEPT ![i].lease = l]
      BY <2>3 DEF ReconcileQueued
    <3>3. DOMAIN bqueue' = DOMAIN bqueue /\ \A k \in DOMAIN bqueue : bqueue'[k].since = bqueue[k].since
      BY <3>1, <3>2 DEF Job
    <3> QED
      BY <1>3, <3>3
  <2> QED
    BY <2>1, <2>2, <2>3, QueueStep
<1> QED
  BY <1>2, <1>3

LEMMA PrefenceStep ==
  ASSUME WTypeOK, Inv(doc), StartsBacked, TickVouches, PrefenceBlocks, NEW d, d = Prune(doc), Step(d)
  PROVE  PrefenceBlocks'
<1> SUFFICES ASSUME doc'.safe PROVE PrefenceBlocks'
  BY DEF PrefenceBlocks
<1>1. doc'.epoch = doc.epoch /\ (doc.safe \/ (TickAttests(d) /\ \A l \in Leases : ~Alive(l)))
  BY DocumentStep DEF DocumentStays, SafeWhen
<1>2. CASE doc.safe
  <2>1. \A l : ~Alive(l)
    BY <1>2 DEF Inv, QuiescentIn, Alive, AliveIn
  <2>2. \A a \in Actors : ~Starting(a)
    BY <2>1 DEF StartsBacked
  <2>3. CASE covered' = covered
    BY <1>1, <1>2, <2>2, <2>3, SinceStep DEF PrefenceBlocks, Active
  <2>4. CASE TickReconciled(d)
    <3>1. TickVouches' /\ main'.at = "attest" /\ doc' = doc
      <4>1. main \in SweepRecord
        BY DEF WTypeOK, SweepOK
      <4> QED
        BY <2>4, <4>1, ReconciledVouches DEF TickReconciled, SweepRecord
    <3>2. \A l : ~Alive(l)'
      BY <2>1, <3>1 DEF Alive
    <3> QED
      BY <3>1, <3>2 DEF TickVouches, Backed, PrefenceBlocks
  <2> QED
    BY <2>3, <2>4, CoveredStep
<1>3. CASE TickAttests(d) /\ \A l \in Leases : ~Alive(l)
  <2>1. \A l : ~Alive(l)
    BY <1>3 DEF Alive
  <2>2. main.at = "attest" /\ UNCHANGED <<active, bqueue, covered>>
    BY <1>3 DEF TickAttests, files, history
  <2>3. /\ \A w \in Workers : Active(w) => ~(active[w].since < covered)
        /\ \A i \in DOMAIN bqueue : ~(bqueue[i].since < covered)
    BY <2>1, <2>2 DEF TickVouches, Backed
  <2> QED
    BY <2>2, <2>3 DEF PrefenceBlocks, Active
<1> QED
  BY <1>1, <1>2, <1>3

-----------------------------------------------------------------------------
(* The result of a run, from its start to root_queue: while nothing has      *)
(* failed the sweep finds the lease of whatever was not stopped, so that it  *)
(* never keeps a result in memory, where a later fault would lose it.        *)

\* Only stop_worker takes runs from the table for a manager.
Removes == \A a \in Actors : act[a].at = "remove" => act[a].op = "stop"

LEMMA RemovesStep ==
  ASSUME WTypeOK, Removes, NEW d, Step(d)
  PROVE  Removes'
<1> SUFFICES ASSUME NEW a \in Actors, act'[a].at = "remove" PROVE act'[a].op = "stop"
  BY DEF Removes
<1> DEFINE Goal == act'[a].op = "stop"
<1> SUFFICES Goal
  OBVIOUS
<1>1. act \in [Actors -> CallRecord] /\ Callers \subseteq Actors /\ Main \in Actors
  BY DEF WTypeOK, ActsOK, Actors
<1>2. act'[a] = act[a] => Goal
  BY DEF Removes
<1>3. ASSUME NEW b \in Actors, NEW rec, act' = [act EXCEPT ![b] = rec], rec.at # "remove" \/ rec.op = "stop"
      PROVE  Goal
  BY <1>1, <1>2, <1>3
<1>4. ASSUME NEW b \in Actors, NEW at, act' = [act EXCEPT ![b].at = at], at # "remove" PROVE Goal
  BY <1>1, <1>2, <1>4 DEF CallRecord
<1>5. ASSUME NEW b \in Actors, act' = [act EXCEPT ![b] = IdleAct] PROVE Goal
  BY <1>3, <1>5 DEF IdleAct
<1>11. ASSUME NEW b \in Actors, NEW run, act' = [act EXCEPT ![b].run = run] PROVE Goal
  BY <1>1, <1>11 DEF CallRecord, Removes
<1> HIDE DEF Goal
<1>6. ASSUME NEW p \in Callers, Call(d, p) PROVE Goal
  <2>1. ASSUME NEW w \in Workers, NEW c \in Contacts,
               StartWorker(d, p, w, c) \/ MessageWorker(d, p, w, c)
        PROVE  Goal
    <3>1. PICK next \in {[IdleAct EXCEPT !.at = "create", !.op = "new", !.w = w, !.contact = c],
                         [IdleAct EXCEPT !.at = "enter", !.op = "resume", !.w = w, !.contact = c]} :
               Admit(d, p, next)
      BY <2>1 DEF StartWorker, MessageWorker
    <3>2. \A l : [next EXCEPT !.lease = l].at # "remove"
      BY DEF IdleAct
    <3>3. act' = act \/ \E l : act' = [act EXCEPT ![p] = [next EXCEPT !.lease = l]]
      BY <3>1 DEF Admit
    <3> QED
      BY <1>1, <1>2, <1>3, <3>2, <3>3
  <2>2. ASSUME NEW w, NEW c, StopQueued(p, w, c) PROVE Goal
    <3>1. PICK l : act' = [act EXCEPT ![p] = [IdleAct EXCEPT !.at = "release", !.op = "resume", !.lease = l]]
      BY <2>2 DEF StopQueued
    <3>2. [IdleAct EXCEPT !.at = "release", !.op = "resume", !.lease = l].at = "release"
      BY DEF IdleAct
    <3> QED
      BY <1>1, <1>3, <3>1, <3>2
  <2>3. ASSUME NEW w, NEW c, StopActive(p, w, c) PROVE Goal
    <3>1. PICK l, r : act' = [act EXCEPT ![p] = [IdleAct EXCEPT !.at = "remove", !.op = "stop", !.w = w,
                                                 !.lease = l, !.run = r]]
      BY <2>3 DEF StopActive
    <3>2. [IdleAct EXCEPT !.at = "remove", !.op = "stop", !.w = w, !.lease = l, !.run = r].op = "stop"
      BY DEF IdleAct
    <3> QED
      BY <1>1, <1>3, <3>1, <3>2
  <2>4. CASE CreateRecord(p) \/ EnterStart(p)
    BY <1>1, <1>4, <1>5, <2>4 DEF CreateRecord, EnterStart
  <2>5. CASE Unregister(p) \/ StopRemoves(p)
    BY <1>1, <1>4, <2>5 DEF Unregister, StopRemoves
  <2> QED
    BY <1>6, <2>1, <2>2, <2>3, <2>4, <2>5 DEF Call
<1>7. ASSUME NEW b \in Actors, Launch(d, b) PROVE Goal
  <2>1. CASE LaunchStarts(b) \/ RecordActiveRun(b) \/ LaunchGivesUp(b) \/ LaunchRaises(b)
               \/ LaunchFails(b)
    <3>1. \/ act' = [act EXCEPT ![b] = IdleAct]
          \/ \E run : act' = [act EXCEPT ![b].run = run]
          \/ \E at : act' = [act EXCEPT ![b].at = at] /\ at # "remove"
      BY <2>1 DEF LaunchStarts, RecordActiveRun, LaunchGivesUp, LaunchRaises, LaunchFails
    <3> QED
      BY <1>4, <1>5, <1>11, <3>1
  <2>2. CASE ReleaseLease(d, b)
    <3>1. act' \in {[act EXCEPT ![b] = IdleAct], [act EXCEPT ![b] = [IdleAct EXCEPT !.at = "browse"]]}
      BY <2>2 DEF ReleaseLease
    <3>2. [IdleAct EXCEPT !.at = "browse"].at = "browse"
      BY DEF IdleAct
    <3> QED
      BY <1>3, <1>5, <3>1, <3>2
  <2>3. ASSUME NEW l, TakeJob(b, l) PROVE Goal
    <3>1. [IdleAct EXCEPT !.at = "launch", !.op = "queue", !.w = Head(bqueue).w,
                          !.contact = Head(bqueue).contact, !.lease = l].at = "launch"
      BY DEF IdleAct
    <3> QED
      BY <1>3, <2>3, <3>1 DEF TakeJob
  <2>4. Dequeue(d, b) => LeaveQueue(b) \/ \E l : TakeJob(b, l)
    BY DEF Dequeue
  <2>5. LeaveQueue(b) => Goal
    BY <1>5 DEF LeaveQueue
  <2> QED
    BY <1>7, <2>1, <2>2, <2>3, <2>4, <2>5 DEF Launch
<1>8. CASE Sweep(d)
  <2>1. act' = act \/ act' = [act EXCEPT ![Main].at = "browse"]
    BY <1>8 DEF Sweep, SweepStart, SweepNext, Transfer, SweepRemoves, SweepDrops, SweepBrowses,
                SubmitResults, TickReconciled, TickAttests
  <2> QED
    BY <1>1, <1>2, <1>4, <2>1
<1>9. ~Crash
  BY DEF Crash, IdleAct
<1>10. CASE \/ UNCHANGED vars \/ BeginTurn(d) \/ (\E q \in Claimed(d) : EndTurn(d, q)) \/ Reconcile(d)
            \/ (\E r \in Runs : ProcessEnds(r)) \/ Update(d) \/ TimePasses(d)
  BY <1>2, <1>10 DEF vars, BeginTurn, EndTurn, ProcessEnds, Update, TimePasses, Reconcile,
                     ReconcileActive, ReconcileQueued
<1> QED
  BY <1>6, <1>7, <1>8, <1>9, <1>10 DEF Step

\* A run leaves the table when it was stopped or the sweep is done with it.
LEMMA LeavesTable ==
  ASSUME WTypeOK, SerialInv, Stops, Removes, NEW d, Step(d), NEW r \in Runs,
         InTable(r), ~InTable(r)'
  PROVE  r \in stopped \/ (SweepRemoves /\ main.rec.run = r)
<1>1. active \in [Workers -> RunRecord] /\ r # None
  BY WorkersAssumption DEF WTypeOK, TableOK
<1>2. PICK w \in Workers : active[w].run = r /\ active'[w].run # r
  BY DEF InTable
<1>3. ASSUME NEW v, NEW run, active' = WithoutRun(v, run) PROVE run = r
  BY <1>1, <1>2, <1>3 DEF WithoutRun
<1>4. ASSUME NEW p \in Callers, StopRemoves(p) PROVE r \in stopped
  <2>1. p \in Actors /\ act[p].at = "remove" /\ active' = WithoutRun(act[p].w, act[p].run)
    BY <1>4 DEF StopRemoves, Actors
  <2> QED
    BY <1>3, <2>1 DEF Removes, Stops
<1>5. SweepRemoves => main.rec.run = r
  BY <1>3 DEF SweepRemoves
<1>6. ASSUME NEW a \in Actors PROVE ~RecordActiveRun(a)
  <2> SUFFICES ASSUME RecordActiveRun(a) PROVE FALSE
    OBVIOUS
  <2>1. act[a].w \in Workers /\ ~Active(act[a].w)
    BY DEF RecordActiveRun, Launching, SerialInv, LaunchAlone, AtLaunch, WTypeOK, ActsOK, FitCall
  <2>2. w # act[a].w
    BY <1>1, <1>2, <2>1 DEF Active
  <2> QED
    BY <1>1, <1>2, <2>2 DEF RecordActiveRun
<1>7. ~\E v \in Workers : ReconcileActive(d, v)
  BY <1>1, <1>2 DEF ReconcileActive, RunRecord
<1>8. active' # active
  BY <1>2
<1>9. ~\E v, x : active' = [active EXCEPT ![v].claim = x]
  BY <1>1, <1>2 DEF RunRecord
<1>10. ASSUME active' = [v \in Workers |-> [active[v] EXCEPT !.claim = Less(@)]] PROVE FALSE
  <2>1. active'[w].run = active[w].run
    BY <1>1, <1>10 DEF RunRecord
  <2> QED
    BY <1>2, <2>1
<1>11. ASSUME NEW p \in Callers, Call(d, p) PROVE StopRemoves(p)
  BY <1>8, <1>11 DEF Call, StartWorker, MessageWorker, StopQueued, StopActive, CreateRecord, EnterStart,
                     Unregister, files
<1>12. ~\E a \in Actors : Launch(d, a)
  BY <1>6, <1>8 DEF Launch, LaunchStarts, LaunchGivesUp, LaunchRaises, LaunchFails, ReleaseLease,
                    Dequeue, files
<1>13. ~Reconcile(d)
  BY <1>7, <1>8 DEF Reconcile, ReconcileQueued
<1>14. Sweep(d) => SweepRemoves
  BY <1>8, <1>9 DEF Sweep, SweepStart, SweepNext, Transfer, SweepDrops, SweepBrowses,
                    SubmitResults, TickReconciled, TickAttests, files
<1>15. ~TimePasses(d) /\ ~Crash
  BY <1>8, <1>10 DEF TimePasses, Crash
<1>16. ~(\/ UNCHANGED vars \/ BeginTurn(d) \/ (\E q \in Claimed(d) : EndTurn(d, q))
         \/ (\E x \in Runs : ProcessEnds(x)) \/ Update(d))
  BY <1>8 DEF vars, BeginTurn, EndTurn, ProcessEnds, Update, files
<1> QED
  BY <1>4, <1>5, <1>11, <1>12, <1>13, <1>14, <1>15, <1>16 DEF Step

\* The sweep with a finished run in its hands, step by step
LEMMA ClaimingStep ==
  ASSUME WTypeOK, NEW d, Step(d)
  PROVE  /\ Claiming => \/ main' = main
                        \/ Transfer(d) \/ SweepRemoves \/ SweepDrops(d) \/ Crash
                        \/ \E a \in Actors : LaunchRaises(a)
         /\ Claiming' => \/ main' = main
                         \/ \E w \in Workers, r \in Runs : SweepNext(w, r)
                         \/ Transfer(d) \/ (SweepRemoves /\ main.at = "refused")
<1>1. main \in SweepRecord
  BY DEF WTypeOK, SweepOK
<1>2. /\ IdleMain.at = "idle" /\ [IdleMain EXCEPT !.at = "browse"].at = "browse"
      /\ \A todo : [IdleMain EXCEPT !.at = "sweep", !.todo = todo].at = "sweep"
  BY DEF IdleMain
<1>3. ASSUME NEW at, main' = [main EXCEPT !.at = at] PROVE main'.at = at
  BY <1>1, <1>3 DEF SweepRecord
<1>4. CASE main' = main
  BY <1>4
<1>5. CASE Sweep(d)
  <2>1. CASE SweepStart(d) \/ SweepBrowses \/ TickAttests(d)
    BY <1>2, <2>1 DEF SweepStart, SweepBrowses, TickAttests, Claiming
  <2>2. CASE SubmitResults(d)
    BY <1>2, <1>3, <1>4, <2>2 DEF SubmitResults, Claiming
  <2>3. CASE TickReconciled(d)
    BY <1>3, <2>3 DEF TickReconciled, Claiming
  <2>4. CASE SweepRemoves
    BY <1>2, <2>4 DEF SweepRemoves, Claiming
  <2>5. CASE SweepDrops(d)
    BY <1>2, <2>5 DEF SweepDrops, Claiming
  <2>6. CASE \E w \in Workers, r \in Runs : SweepNext(w, r)
    BY <2>6 DEF SweepNext, Claiming
  <2>7. CASE Transfer(d)
    BY <2>7
  <2> QED
    BY <1>5, <2>1, <2>2, <2>3, <2>4, <2>5, <2>6, <2>7 DEF Sweep
<1>6. CASE Crash
  BY <1>2, <1>6 DEF Crash, Claiming
<1>7. ASSUME NEW p \in Callers, Call(d, p) PROVE main' = main
  BY <1>7 DEF Call, StartWorker, MessageWorker, StopQueued, StopActive, CreateRecord, EnterStart,
              Unregister, StopRemoves
<1>8. ASSUME NEW a \in Actors, Launch(d, a)
      PROVE  main' = main \/ (LaunchRaises(a) /\ main'.at = "idle")
  BY <1>2, <1>8 DEF Launch, LaunchStarts, RecordActiveRun, LaunchGivesUp, LaunchRaises, LaunchFails,
                    ReleaseLease, Dequeue
<1>9. \/ UNCHANGED vars \/ BeginTurn(d) \/ (\E q \in Claimed(d) : EndTurn(d, q)) \/ Reconcile(d)
      \/ (\E r \in Runs : ProcessEnds(r)) \/ Update(d) \/ TimePasses(d)
      => main' = main
  BY DEF vars, BeginTurn, EndTurn, ProcessEnds, Update, TimePasses, Reconcile,
         ReconcileActive, ReconcileQueued
<1> QED
  BY <1>4, <1>5, <1>6, <1>7, <1>8, <1>9 DEF Step, Claiming

\* What the steps of the sweep do to the record in its hands
LEMMA SweepHands ==
  ASSUME WTypeOK, NEW d
  PROVE  /\ \A w \in Workers, r \in Runs : SweepNext(w, r) /\ Claiming' =>
              /\ main'.at = "transfer" /\ main'.rec = active[w] /\ Active(w) /\ main.at = "sweep"
              /\ doc' = doc /\ active'[w].run = active[w].run /\ UNCHANGED history
         /\ Transfer(d) => /\ main.at = "transfer" /\ main'.at \in {"remove", "refused"}
                           /\ main'.rec = main.rec /\ active' = active
         /\ SweepRemoves /\ main.at = "refused" => main'.at = "drop" /\ main'.rec = main.rec
<1>1. /\ main \in SweepRecord /\ active \in [Workers -> RunRecord] /\ \A r \in Runs : r # None
  BY WorkersAssumption DEF WTypeOK, SweepOK, TableOK
<1>2. ASSUME NEW at, main' = [main EXCEPT !.at = at] PROVE main'.at = at /\ main'.rec = main.rec
  BY <1>1, <1>2 DEF SweepRecord
<1>3. Transfer(d) => /\ main.at = "transfer" /\ main'.at \in {"remove", "refused"}
                     /\ main'.rec = main.rec /\ active' = active
  BY <1>2 DEF Transfer, files
<1>4. SweepRemoves /\ main.at = "refused" => main'.at = "drop" /\ main'.rec = main.rec
  BY <1>2 DEF SweepRemoves
<1>5. ASSUME NEW w \in Workers, NEW r \in Runs, SweepNext(w, r), Claiming'
      PROVE  /\ main'.at = "transfer" /\ main'.rec = active[w] /\ Active(w) /\ main.at = "sweep"
             /\ doc' = doc /\ active'[w].run = active[w].run /\ UNCHANGED history
  <2>1. CASE procs[r] = "ended" /\ Claimable60(w, r)
    <3>1. active'[w].run = active[w].run
      BY <1>1, <1>5, <2>1 DEF SweepNext, RunRecord
    <3> QED
      BY <1>1, <1>5, <2>1, <3>1 DEF SweepNext, Claimable60, Active
  <2>2. CASE ~(procs[r] = "ended" /\ Claimable60(w, r))
    BY <1>1, <1>5, <2>2 DEF SweepNext, Claiming, SweepRecord
  <2> QED
    BY <2>1, <2>2
<1> QED
  BY <1>3, <1>4, <1>5

\* The run in the hands of the sweep is delivered, in the table or stopped.
Handled ==
    /\ main.at = "remove" => delivered[main.rec.run] > 0
    /\ main.at \in {"transfer", "refused"} => InTable(main.rec.run) \/ main.rec.run \in stopped

LEMMA HandledStep ==
  ASSUME WTypeOK, SerialInv, Stops, Removes, Handled, NEW d, Step(d)
  PROVE  Handled'
<1>1. /\ \A r \in Runs : delivered[r] > 0 => delivered'[r] > 0
      /\ stopped \subseteq stopped' /\ delivered \in [Runs -> Nat]
      /\ Claiming => main.rec.run \in Runs
  BY HistoryStep DEF WTypeOK, RestOK, SweepOK
<1>2. ASSUME main'.at = "remove" PROVE delivered'[main'.rec.run] > 0
  <2>1. Claiming'
    BY <1>2 DEF Claiming
  <2>2. CASE main' = main
    BY <1>1, <1>2, <2>2 DEF Handled, Claiming
  <2>3. CASE Transfer(d)
    <3>1. main'.rec = main.rec /\ main.rec.run \in Runs
      BY <1>1, <2>3, SweepHands DEF Claiming
    <3>2. main'.at # "refused"
      BY <1>2
    <3>3. delivered' = [delivered EXCEPT ![main.rec.run] = @ + 1]
      <4>1. main \in SweepRecord
        BY DEF WTypeOK, SweepOK
      <4>2. [main EXCEPT !.at = "refused"].at = "refused"
        BY <4>1 DEF SweepRecord
      <4> QED
        BY <2>3, <3>2, <4>2 DEF Transfer
    <3> QED
      BY <1>1, <3>1, <3>3
  <2> QED
    BY <1>2, <2>1, <2>2, <2>3, ClaimingStep, SweepHands
<1>3. ASSUME main'.at \in {"transfer", "refused"}
      PROVE  InTable(main.rec.run)' \/ main'.rec.run \in stopped'
  <2>1. Claiming'
    BY <1>3 DEF Claiming
  <2>2. CASE main' = main
    <3>1. main.rec.run \in Runs /\ (InTable(main.rec.run) \/ main.rec.run \in stopped)
      BY <1>1, <1>3, <2>2 DEF Handled, Claiming
    <3>2. ~SweepRemoves
      <4>1. main \in SweepRecord
        BY DEF WTypeOK, SweepOK
      <4>2. [main EXCEPT !.at = "drop"].at = "drop" /\ [IdleMain EXCEPT !.at = "sweep", !.todo = main.todo].at = "sweep"
        BY <4>1 DEF SweepRecord, IdleMain
      <4> QED
        BY <1>3, <2>2, <4>2 DEF SweepRemoves
    <3>3. PICK r \in Runs : r = main.rec.run
      BY <3>1
    <3>4. InTable(r)' \/ r \in stopped
      BY <3>1, <3>2, <3>3, LeavesTable
    <3> QED
      BY <1>1, <2>2, <3>3, <3>4 DEF InTable
  <2>3. CASE Transfer(d)
    <3>1. main'.rec = main.rec /\ active' = active /\ main.at = "transfer"
      BY <2>3, SweepHands
    <3> QED
      BY <1>1, <3>1 DEF Handled, InTable
  <2>4. CASE \E w \in Workers, r \in Runs : SweepNext(w, r)
    BY <2>1, <2>4, SweepHands DEF InTable
  <2>5. ~(SweepRemoves /\ main.at = "refused")
    BY <1>3, SweepHands
  <2> QED
    BY <2>1, <2>2, <2>3, <2>4, <2>5, ClaimingStep
<1> QED
  BY <1>2, <1>3 DEF Handled

\* While nothing fails: a run in the table has a live lease until its result
\* is delivered, and what the sweep cannot deliver was stopped.
Lively ==
    /\ \A w \in Workers : Active(w) =>
          Alive(active[w].lease) \/ (main.at = "remove" /\ main.rec.run = active[w].run)
    /\ main.at = "transfer" => main.rec.run \in stopped \/ Alive(main.rec.lease)
    /\ main.at \in {"refused", "drop"} => main.rec.run \in stopped
    /\ \A r \in Runs : InMemory(r) => r \in stopped

\* The beats of a unit of time reach every run of the table.
LEMMA BeatenInTime ==
  ASSUME Inv(doc), NEW d, d = Prune(doc), TimePasses(d), NEW w \in Workers,
         NEW l \in Leases, l = active[w].lease, Alive(l)
  PROVE  Alive(l)'
<1> DEFINE S == {active[v].lease : v \in Workers} \cup {bqueue[i].lease : i \in DOMAIN bqueue}
                \cup {d.items[q].lease : q \in Claimed(d)}
<1>1. /\ Inv(d) /\ l \in S /\ d.leases[l].live
  BY PrunedLeases DEF Alive
<1>2. doc' = Renew(Age(d), S)
  BY DEF TimePasses
<1> HIDE DEF S
<1>3. AliveIn(doc', l)
  BY <1>1, <1>2, TimeKeeps
<1> QED
  BY <1>3 DEF Alive

\* The lease of a record that is adopted was granted.
LEMMA AdoptedAlive ==
  ASSUME Inv(doc), NEW d, d = Prune(doc), NEW rec, Adoptable(d, rec),
         NEW l \in NewLeases(d), AdoptPrefence(d, l, rec.since < d.epoch)
  PROVE  Alive(l)'
<1>1. l \in Leases /\ Inv(d) /\ \A m \in Leases : d.leases[m].live => AliveIn(d, m)
  BY PrunedLeases DEF NewLeases, FreshLeases
<1>2. \E n : doc' = NewLease(d, l, n)
  BY DEF AdoptPrefence, Adoptable
<1>3. AliveIn(doc', l)
  BY <1>1, <1>2, NewLeaseKeeps
<1> QED
  BY <1>1, <1>3 DEF Alive

\* A run of the table keeps its lease until its result is delivered.
LEMMA RunLeaseStays ==
  ASSUME WTypeOK, Inv(doc), OneRecord, UseInv, Stops, NEW d, d = Prune(doc), Step(d), ~Crash,
         NEW w \in Workers, Active(w), NEW l \in Leases, l = active[w].lease, Alive(l)
  PROVE  \/ Alive(l)'
         \/ main'.at = "remove" /\ main.rec.run = active[w].run /\ main'.rec = main.rec
<1>1. Uses(l, RunTag(active[w].run))
  BY DEF Uses, RunUse
<1>2. ~\E a \in Actors : RunTag(active[w].run) = TagOf(a, act[a]) /\ ReleaseLease(d, a)
  BY TagFacts DEF TagOf, Stops, ReleaseLease
<1>3. RunTag(active[w].run) = RunTag(main.rec.run) => active[w].run = main.rec.run
  BY TagFacts
<1>4. Transfer(d) => main'.rec = main.rec
  BY SweepHands
<1>5. SweepDrops(d) => active[w].run # main.rec.run
  BY DEF SweepDrops, OneRecord, Claiming
<1>6. CASE ~LostTo(d, l)
  BY <1>6, DocumentStep DEF DocumentStays, LeasesStay
<1>7. CASE TimePasses(d)
  BY <1>7, BeatenInTime
<1> QED
  BY <1>1, <1>2, <1>3, <1>4, <1>5, <1>6, <1>7, LostWhose

LEMMA TableLively ==
  ASSUME WTypeOK, Inv(doc), OneRecord, UseInv, Stops, StartsBacked, Lively,
         NEW d, d = Prune(doc), Step(d), ~Crash, \A a \in Actors : ~LaunchRaises(a),
         NEW w \in Workers, active'[w].run # None
  PROVE  Alive(active[w].lease)' \/ (main'.at = "remove" /\ main'.rec.run = active'[w].run)
<1>1. /\ active \in [Workers -> RunRecord] /\ main \in SweepRecord
      /\ \A v \in Workers : Active(v) => active[v].lease \in Leases /\ active[v].run \in Runs
      /\ \A r \in Runs : r # None
  BY WorkersAssumption DEF WTypeOK, TableOK, SweepOK, Whole, RunRecord, Active
<1>2. CASE KeptRun(w)
  <2>1. /\ active'[w].run = active[w].run /\ active'[w].lease = active[w].lease /\ Active(w)
    BY <1>2 DEF KeptRun, Active
  <2>2. PICK l \in Leases : l = active[w].lease
    BY <1>1, <2>1
  <2>3. CASE Alive(l)
    <3>1. \/ Alive(l)'
          \/ main'.at = "remove" /\ main.rec.run = active[w].run /\ main'.rec = main.rec
      BY <2>1, <2>2, <2>3, RunLeaseStays
    <3> QED
      BY <2>1, <2>2, <3>1 DEF Alive
  <2>4. CASE main.at = "remove" /\ main.rec.run = active[w].run
    <3>1. Claiming /\ w = main.w
      BY <2>1, <2>4 DEF OneRecord, Claiming
    <3>2. ~SweepRemoves
      BY <1>1, <2>1, <2>4, <3>1 DEF SweepRemoves, WithoutRun, NoRun
    <3>3. ~Transfer(d) /\ ~SweepDrops(d)
      BY <2>4 DEF Transfer, SweepDrops
    <3>4. main' = main
      BY <3>1, <3>2, <3>3, ClaimingStep
    <3> QED
      BY <2>1, <2>4, <3>4
  <2> QED
    BY <2>1, <2>2, <2>3, <2>4 DEF Lively
<1>3. ASSUME NEW a \in Actors, RecordActiveRun(a), ~KeptRun(w)
      PROVE  Alive(active[w].lease)'
  <2>1. PICK r : active' = [active EXCEPT ![act[a].w] =
              [run |-> r, contact |-> act[a].contact, lease |-> act[a].lease,
               since |-> doc.epoch, claim |-> 0]]
    BY <1>3 DEF RecordActiveRun
  <2>2. doc' = doc /\ Alive(act[a].lease)
    BY <1>3 DEF RecordActiveRun, Launching, StartsBacked, Starting
  <2>3. w = act[a].w
    BY <1>1, <1>3, <2>1 DEF KeptRun
  <2>4. active'[w].lease = act[a].lease
    BY <1>1, <2>1, <2>3
  <2> QED
    BY <2>2, <2>4 DEF Alive
<1>4. ASSUME NEW v \in Workers, ReconcileActive(d, v), ~KeptRun(w)
      PROVE  Alive(active[w].lease)'
  <2>1. PICK l \in NewLeases(d) : /\ AdoptPrefence(d, l, active[v].since < d.epoch)
                                  /\ active' = [active EXCEPT ![v].lease = l]
    BY <1>4 DEF ReconcileActive
  <2>2. Adoptable(d, active[v])
    BY <1>4 DEF ReconcileActive
  <2>3. Alive(l)'
    BY <2>1, <2>2, AdoptedAlive
  <2>4. w = v
    BY <1>1, <1>4, <2>1 DEF KeptRun
  <2>5. active'[w].lease = l
    BY <1>1, <2>1, <2>4 DEF RunRecord
  <2> QED
    BY <2>3, <2>5 DEF Alive
<1> QED
  BY <1>2, <1>3, <1>4, TableStep DEF KeptTable

\* The result that the main loop holds: the sweep puts it there.
LEMMA MemoryStep ==
  ASSUME NEW d, Step(d)
  PROVE  results' = results \/ SweepDrops(d) \/ SubmitResults(d) \/ Crash
         \/ \E a \in Actors : LaunchRaises(a)
<1>1. ASSUME NEW p \in Callers, Call(d, p) PROVE results' = results
  BY <1>1 DEF Call, StartWorker, MessageWorker, StopQueued, StopActive, CreateRecord, EnterStart,
              Unregister, StopRemoves
<1>2. ASSUME NEW a \in Actors, Launch(d, a) PROVE results' = results \/ LaunchRaises(a)
  BY <1>2 DEF Launch, LaunchStarts, RecordActiveRun, LaunchGivesUp, LaunchFails, ReleaseLease,
              Dequeue
<1>3. Sweep(d) => results' = results \/ SweepDrops(d) \/ SubmitResults(d)
  BY DEF Sweep, SweepStart, SweepNext, Transfer, SweepRemoves, SweepBrowses,
         TickReconciled, TickAttests
<1>4. \/ UNCHANGED vars \/ BeginTurn(d) \/ (\E q \in Claimed(d) : EndTurn(d, q)) \/ Reconcile(d)
      \/ (\E r \in Runs : ProcessEnds(r)) \/ Update(d) \/ TimePasses(d)
      => results' = results
  BY DEF vars, BeginTurn, EndTurn, ProcessEnds, Update, TimePasses, Reconcile,
         ReconcileActive, ReconcileQueued
<1> QED
  BY <1>1, <1>2, <1>3, <1>4 DEF Step

LEMMA LivelyStep ==
  ASSUME WTypeOK, Inv(doc), OneRecord, UseInv, Stops, StartsBacked, Lively,
         NEW d, d = Prune(doc), Step(d), faults' = faults
  PROVE  Lively'
<1>1. /\ main \in SweepRecord /\ faults \in Nat /\ stopped \subseteq stopped'
      /\ Claiming => main.rec.run \in Runs /\ main.rec.lease \in Leases
      /\ \A w \in Workers : Active(w) => active[w].lease \in Leases /\ active[w].run \in Runs
      /\ results \in [Contacts -> SUBSET Runs]
  BY HistoryStep, WorkersAssumption
     DEF WTypeOK, SweepOK, RestOK, TableOK, Whole, RunRecord, Active
<1>2. ~Crash /\ \A a \in Actors : ~LaunchRaises(a)
  BY <1>1 DEF Crash, LaunchRaises
<1>3. \A w \in Workers : Active(w)' =>
          Alive(active[w].lease)' \/ (main'.at = "remove" /\ main'.rec.run = active'[w].run)
  BY <1>2, TableLively DEF Active
<1>4. ASSUME main'.at = "transfer" PROVE main'.rec.run \in stopped' \/ Alive(main.rec.lease)'
  <2>1. Claiming'
    BY <1>4 DEF Claiming
  <2>2. CASE main' = main
    <3>1. main.rec.run \in stopped \/ Alive(main.rec.lease)
      BY <1>4, <2>2 DEF Lively
    <3>2. CASE Alive(main.rec.lease)
      <4>1. PICK l \in Leases : l = main.rec.lease
        BY <1>1, <1>4, <2>2 DEF Claiming
      <4>2. Uses(l, RunTag(main.rec.run)) /\ Alive(l)
        BY <1>4, <2>2, <3>2, <4>1 DEF Uses, SweepUse, Claiming
      <4>3. ~SweepDrops(d) /\ ~(Transfer(d) /\ main'.at = "remove") /\ ~TimePasses(d)
        BY <1>4, <2>2 DEF SweepDrops, TimePasses
      <4>4. ASSUME NEW a \in Actors, RunTag(main.rec.run) = TagOf(a, act[a])
            PROVE  main.rec.run \in stopped
        BY <4>4, TagFacts DEF TagOf, Stops
      <4>5. CASE ~LostTo(d, l)
        <5>1. Alive(l)'
          BY <4>2, <4>5, DocumentStep DEF DocumentStays, LeasesStay
        <5> QED
          BY <2>2, <4>1, <5>1 DEF Alive
      <4>6. CASE LostTo(d, l)
        BY <1>1, <1>2, <2>2, <4>2, <4>3, <4>4, <4>6, LostWhose
      <4> QED
        BY <4>5, <4>6
    <3> QED
      BY <1>1, <2>2, <3>1, <3>2
  <2>3. ASSUME NEW w \in Workers, NEW r \in Runs, SweepNext(w, r)
        PROVE  Alive(main.rec.lease)'
    <3>1. main'.rec = active[w] /\ Active(w) /\ main.at = "sweep" /\ doc' = doc
      BY <2>1, <2>3, SweepHands
    <3>2. Alive(active[w].lease)
      BY <3>1 DEF Lively
    <3> QED
      BY <3>1, <3>2 DEF Alive
  <2>4. ~Transfer(d) /\ ~(SweepRemoves /\ main.at = "refused")
    BY <1>4, SweepHands
  <2> QED
    BY <2>1, <2>2, <2>3, <2>4, ClaimingStep
<1>5. ASSUME main'.at \in {"refused", "drop"} PROVE main'.rec.run \in stopped'
  <2>1. Claiming'
    BY <1>5 DEF Claiming
  <2>2. CASE main' = main
    BY <1>1, <1>5, <2>2 DEF Lively
  <2>3. CASE Transfer(d)
    <3>1. main'.rec = main.rec /\ main.at = "transfer"
      BY <2>3, SweepHands
    <3>2. ~LiveIn(d, main.rec.lease)
      <4>1. [main EXCEPT !.at = "remove"].at = "remove"
        BY <1>1 DEF SweepRecord
      <4>2. \/ main' = [main EXCEPT !.at = "remove"] \/ ~LiveIn(d, main.rec.lease)
            \/ faults' = faults + 1
        BY <2>3 DEF Transfer
      <4>3. faults' # faults + 1
        BY <1>1
      <4> QED
        BY <1>5, <4>1, <4>2, <4>3
    <3>3. ~Alive(main.rec.lease)
      BY <3>2, PrunedLeases DEF LiveIn, Alive
    <3> QED
      BY <1>1, <3>1, <3>3 DEF Lively
  <2>4. CASE SweepRemoves /\ main.at = "refused"
    BY <1>1, <2>4, SweepHands DEF Lively
  <2>5. ~\E w \in Workers, r \in Runs : SweepNext(w, r)
    BY <1>5, <2>1, SweepHands
  <2> QED
    BY <2>1, <2>2, <2>3, <2>4, <2>5, ClaimingStep
<1>6. ASSUME NEW r \in Runs, InMemory(r)' PROVE r \in stopped'
  <2>1. CASE InMemory(r)
    BY <1>1, <2>1 DEF Lively
  <2>2. CASE results' = results
    BY <1>6, <2>1, <2>2 DEF InMemory
  <2>3. CASE SweepDrops(d)
    <3>1. /\ results' = [results EXCEPT ![main.rec.contact] = @ \cup {main.rec.run}]
          /\ main.rec.run \in stopped
      BY <2>3 DEF SweepDrops, Lively
    <3>2. InMemory(r) \/ r = main.rec.run
      BY <1>1, <1>6, <3>1 DEF InMemory
    <3> QED
      BY <1>1, <2>1, <3>1, <3>2
  <2>4. CASE SubmitResults(d)
    <3>1. \/ results' = results
          \/ \E c : results' = [results EXCEPT ![c] = {}]
          \/ results' = [c \in Contacts |-> {}]
      BY <2>4 DEF SubmitResults
    <3>2. InMemory(r)
      BY <1>1, <1>6, <3>1 DEF InMemory
    <3> QED
      BY <2>1, <3>2
  <2> QED
    BY <1>2, <2>2, <2>3, <2>4, MemoryStep
<1> QED
  BY <1>3, <1>4, <1>5, <1>6 DEF Lively

\* A run that starts is on its way into the table.
LEMMA StartedRun ==
  ASSUME WTypeOK, OnceInv, NEW d, Step(d), NEW r \in Runs, procs[r] = "none", procs'[r] # "none"
  PROVE  Launched(r)'
<1>1. /\ procs \in [Runs -> {"none", "running", "ended"}] /\ act \in [Actors -> CallRecord]
  BY DEF WTypeOK, RestOK, ActsOK
<1>2. procs' # procs
  OBVIOUS
<1>3. ASSUME NEW a \in Actors, LaunchStarts(a) PROVE Launched(r)'
  <2>1. PICK x \in Runs : procs' = [procs EXCEPT ![x] = "running"] /\ act' = [act EXCEPT ![a].run = x]
    BY <1>3 DEF LaunchStarts
  <2>2. x = r
    BY <1>1, <2>1
  <2>3. act'[a].at = "launch" /\ act'[a].run = r /\ r # None
    BY <1>1, <1>3, <2>1, <2>2, WorkersAssumption DEF LaunchStarts, CallRecord
  <2> QED
    BY <2>3 DEF Launched, Launching
<1>4. ASSUME NEW p, NEW w \in Workers, NEW c PROVE ~StopActive(p, w, c)
  <2> SUFFICES ASSUME StopActive(p, w, c) PROVE FALSE
    OBVIOUS
  <2>1. active[w].run = r
    BY <1>1 DEF StopActive
  <2> QED
    BY <2>1 DEF OnceInv, Unstarted, Unrecorded, Nowhere, InTable
<1>5. ASSUME NEW x \in Runs PROVE ~ProcessEnds(x)
  BY <1>1 DEF ProcessEnds
<1>6. ASSUME NEW p \in Callers PROVE ~Call(d, p)
  BY <1>2, <1>4 DEF Call, StartWorker, MessageWorker, StopQueued, CreateRecord, EnterStart,
                    Unregister, StopRemoves
<1>7. ASSUME NEW a \in Actors, Launch(d, a) PROVE LaunchStarts(a)
  <2>1. ~RecordActiveRun(a) /\ ~LaunchRaises(a) /\ ~LaunchFails(a) /\ ~ReleaseLease(d, a) /\ ~Dequeue(d, a)
    BY <1>2 DEF RecordActiveRun, LaunchRaises, LaunchFails, ReleaseLease, Dequeue
  <2>2. ~LaunchGivesUp(a)
    <3> SUFFICES ASSUME LaunchGivesUp(a) PROVE FALSE
      OBVIOUS
    <3>1. procs' = [procs EXCEPT ![act[a].run] = "ended"]
      BY <1>2 DEF LaunchGivesUp
    <3>2. act[a].run = r
      BY <1>1, <3>1
    <3> QED
      BY <3>2 DEF LaunchGivesUp, OnceInv, OneLaunch
  <2> QED
    BY <1>7, <2>1, <2>2 DEF Launch
<1>8. ~Sweep(d)
  BY <1>2 DEF Sweep, SweepStart, SweepNext, Transfer, SweepRemoves, SweepDrops, SweepBrowses,
              SubmitResults, TickReconciled, TickAttests
<1>9. ~(\/ UNCHANGED vars \/ BeginTurn(d) \/ (\E q \in Claimed(d) : EndTurn(d, q)) \/ Reconcile(d)
        \/ Update(d) \/ TimePasses(d) \/ Crash)
  BY <1>2 DEF vars, BeginTurn, EndTurn, Update, TimePasses, Crash, Reconcile,
              ReconcileActive, ReconcileQueued
<1> QED
  BY <1>3, <1>5, <1>6, <1>7, <1>8, <1>9 DEF Step

\* The main loop calls the handler at the end of its sweep only.
MainBusy == act[Main].at # "idle" => main.at = "browse"

LEMMA MainBusyStep ==
  ASSUME WTypeOK, MainBusy, NEW d, Step(d)
  PROVE  MainBusy'
<1>1. /\ act \in [Actors -> CallRecord] /\ Main \in Actors /\ Main \notin Callers
      /\ main \in SweepRecord /\ IdleAct.at = "idle"
  BY WorkersAssumption DEF WTypeOK, ActsOK, SweepOK, Actors, IdleAct
<1>2. CASE act'[Main] = act[Main] /\ main' = main
  BY <1>2 DEF MainBusy
<1>3. CASE act'[Main].at = "idle"
  BY <1>3 DEF MainBusy
<1>4. ASSUME NEW p \in Callers, Call(d, p) PROVE act'[Main] = act[Main] /\ main' = main
  BY <1>1, <1>4 DEF Call, StartWorker, MessageWorker, Admit, StopQueued, StopActive, CreateRecord,
                    EnterStart, Unregister, StopRemoves
<1>5. ASSUME NEW a \in Actors, Launch(d, a) PROVE MainBusy'
  <2>1. CASE LaunchRaises(a)
    <3>1. a # Main => act'[Main] = act[Main] /\ main' = main
      BY <1>1, <2>1 DEF LaunchRaises
    <3>2. a = Main => act'[Main] = IdleAct
      BY <1>1, <2>1 DEF LaunchRaises
    <3> QED
      BY <1>1, <1>2, <1>3, <3>1, <3>2
  <2>2. CASE ~LaunchRaises(a)
    <3>1. main' = main /\ act[a].at # "idle"
      BY <1>5, <2>2 DEF Launch, LaunchStarts, RecordActiveRun, LaunchGivesUp, LaunchFails,
                        ReleaseLease, Dequeue, Launching
    <3>2. \E rec : act' = [act EXCEPT ![a] = rec]
      BY <1>5, <2>2 DEF Launch, LaunchStarts, RecordActiveRun, LaunchGivesUp, LaunchFails,
                        ReleaseLease, Dequeue, TakeJob, LeaveQueue
    <3>3. a # Main => act'[Main] = act[Main]
      BY <1>1, <3>2
    <3> QED
      BY <1>2, <3>1, <3>3 DEF MainBusy
  <2> QED
    BY <2>1, <2>2
<1>6. CASE Sweep(d)
  <2>1. CASE SweepBrowses
    <3>1. [IdleMain EXCEPT !.at = "browse"].at = "browse"
      BY DEF IdleMain
    <3> QED
      BY <2>1, <3>1 DEF SweepBrowses, MainBusy
  <2>2. CASE ~SweepBrowses
    <3>1. act' = act
      BY <1>6, <2>2 DEF Sweep, SweepStart, SweepNext, Transfer, SweepRemoves, SweepDrops,
                        SubmitResults, TickReconciled, TickAttests
    <3>2. main.at # "browse" \/ act[Main].at = "idle"
      BY <1>6, <2>2 DEF Sweep, SweepStart, SweepNext, Transfer, SweepRemoves, SweepDrops,
                        SubmitResults, TickReconciled, TickAttests
    <3> QED
      BY <3>1, <3>2 DEF MainBusy
  <2> QED
    BY <2>1, <2>2
<1>7. Crash => act'[Main].at = "idle"
  BY <1>1 DEF Crash
<1>8. \/ UNCHANGED vars \/ BeginTurn(d) \/ (\E q \in Claimed(d) : EndTurn(d, q)) \/ Reconcile(d)
      \/ (\E r \in Runs : ProcessEnds(r)) \/ Update(d) \/ TimePasses(d)
      => UNCHANGED <<act, main>>
  BY DEF vars, BeginTurn, EndTurn, ProcessEnds, Update, TimePasses, Reconcile,
         ReconcileActive, ReconcileQueued
<1> QED
  BY <1>2, <1>3, <1>4, <1>5, <1>6, <1>7, <1>8 DEF Step

\* A run on its way arrives in the table, is stopped by its own launch, or is
\* cut off by a fault.
LEMMA LaunchedStep ==
  ASSUME WTypeOK, MainBusy, NEW d, Step(d), NEW r \in Runs, Launched(r)
  PROVE  Launched(r)' \/ InTable(r)' \/ r \in stopped' \/ r \in orphans'
<1>1. /\ act \in [Actors -> CallRecord] /\ active \in [Workers -> RunRecord]
      /\ Callers \subseteq Actors /\ Main \in Actors
  BY DEF WTypeOK, ActsOK, TableOK, Actors
<1>2. PICK a \in Actors : Launching(a) /\ act[a].run = r
  BY DEF Launched
<1>3. act'[a] = act[a] => Launched(r)'
  BY <1>2 DEF Launched, Launching
<1>4. ASSUME NEW p \in Callers, Call(d, p) PROVE act'[a] = act[a]
  <2>1. p # a
    BY <1>1, <1>2, <1>4 DEF Call, StartWorker, MessageWorker, StopQueued, StopActive, CreateRecord,
                            EnterStart, Unregister, StopRemoves, Launching
  <2> QED
    BY <1>1, <1>4, <2>1 DEF Call, StartWorker, MessageWorker, Admit, StopQueued, StopActive,
                            CreateRecord, EnterStart, Unregister, StopRemoves
<1>5. ASSUME NEW b \in Actors, Launch(d, b), b # a PROVE act'[a] = act[a]
  BY <1>1, <1>5 DEF Launch, LaunchStarts, RecordActiveRun, LaunchGivesUp, LaunchRaises, LaunchFails,
                    ReleaseLease, Dequeue, TakeJob, LeaveQueue
<1>6. CASE Launch(d, a)
  <2>1. RecordActiveRun(a) \/ LaunchGivesUp(a) \/ LaunchRaises(a)
    BY <1>2, <1>6 DEF Launch, Launching, LaunchStarts, LaunchFails, ReleaseLease, Dequeue
  <2>2. LaunchGivesUp(a) \/ LaunchRaises(a) => r \in stopped' \/ r \in orphans'
    BY <1>2 DEF LaunchGivesUp, LaunchRaises
  <2>3. CASE RecordActiveRun(a)
    <3>1. act[a].w \in Workers
      BY <1>2 DEF WTypeOK, ActsOK, FitCall, Launching
    <3>2. active'[act[a].w].run = r
      BY <1>1, <1>2, <2>3, <3>1 DEF RecordActiveRun
    <3> QED
      BY <3>1, <3>2 DEF InTable
  <2> QED
    BY <2>1, <2>2, <2>3
<1>7. CASE Sweep(d)
  <2>1. act' = act \/ (SweepBrowses /\ act' = [act EXCEPT ![Main].at = "browse"])
    BY <1>7 DEF Sweep, SweepStart, SweepNext, Transfer, SweepRemoves, SweepDrops, SweepBrowses,
                SubmitResults, TickReconciled, TickAttests
  <2>2. SweepBrowses => a # Main
    BY <1>2 DEF SweepBrowses, MainBusy, Launching
  <2> QED
    BY <1>1, <1>3, <2>1, <2>2
<1>8. Crash => r \in orphans'
  BY <1>2 DEF Crash
<1>9. \/ UNCHANGED vars \/ BeginTurn(d) \/ (\E q \in Claimed(d) : EndTurn(d, q)) \/ Reconcile(d)
      \/ (\E x \in Runs : ProcessEnds(x)) \/ Update(d) \/ TimePasses(d)
      => act' = act
  BY DEF vars, BeginTurn, EndTurn, ProcessEnds, Update, TimePasses, Reconcile,
         ReconcileActive, ReconcileQueued
<1> QED
  BY <1>3, <1>4, <1>5, <1>6, <1>7, <1>8, <1>9 DEF Step

\* Whoever has a result keeps it or hands it on.
LEMMA ResultStep ==
  ASSUME WTypeOK, SerialInv, OnceInv, Stops, Removes, Handled, faults = 0 => Lively,
         MainBusy, ResultKept, NEW d, Step(d)
  PROVE  ResultKept'
<1> SUFFICES ASSUME NEW r \in Runs, faults' <= 1, procs'[r] # "none", r \notin orphans'
             PROVE  Accounted(r)'
  BY DEF ResultKept
<1>1. /\ faults \in Nat /\ faults' \in {faults, faults + 1}
      /\ stopped \subseteq stopped' /\ orphans \subseteq orphans'
      /\ delivered \in [Runs -> Nat] /\ results \in [Contacts -> SUBSET Runs]
      /\ r # None /\ main \in SweepRecord
      /\ Claiming => main.rec.run \in Runs
      /\ main.rec.run # None => main.rec.contact \in Contacts
      /\ delivered[r] > 0 => delivered'[r] > 0
  BY HistoryStep, WorkersAssumption DEF WTypeOK, RestOK, SweepOK, Whole
<1>2. CASE procs[r] = "none"
  <2>1. Launched(r)'
    BY <1>2, StartedRun
  <2> QED
    BY <2>1 DEF Accounted, Launched
<1>3. CASE delivered[r] > 0 \/ r \in stopped
  BY <1>1, <1>3 DEF Accounted
<1>4. ASSUME Crash \/ (\E a \in Actors : LaunchRaises(a)) \/ faults' = faults + 1 PROVE faults = 0
  BY <1>1, <1>4 DEF Crash, LaunchRaises
<1>9. CASE Launched(r)
  BY <1>9, LaunchedStep DEF Accounted, InTable, Launched
<1>5. CASE InTable(r)
  <2>1. CASE InTable(r)'
    BY <2>1 DEF Accounted, InTable
  <2>2. CASE SweepRemoves /\ main.rec.run = r
    <3>1. CASE main.at = "refused"
      <4>1. main'.rec = main.rec
        BY <2>2, <3>1, SweepHands
      <4> QED
        BY <2>2, <4>1 DEF Accounted
    <3>2. CASE main.at = "remove"
      BY <1>3, <2>2, <3>2 DEF Handled
    <3> QED
      BY <2>2, <3>1, <3>2 DEF SweepRemoves
  <2> QED
    BY <1>3, <1>5, <2>1, <2>2, LeavesTable
<1>6. CASE main.rec.run = r
  <2>1. Claiming
    BY <1>1, <1>6 DEF OnceInv, OneRecord
  <2>2. CASE main'.rec = main.rec
    BY <1>6, <2>2 DEF Accounted
  <2>3. CASE SweepRemoves
    <3>1. main.at = "remove" => delivered[r] > 0
      BY <1>6 DEF Handled
    <3>2. main.at = "refused" => main'.rec = main.rec
      BY <2>3, SweepHands
    <3> QED
      BY <1>3, <2>2, <2>3, <3>1, <3>2 DEF SweepRemoves
  <2>4. CASE SweepDrops(d)
    <3>1. main.rec.contact \in Contacts
      BY <1>1, <1>6
    <3>2. results' = [results EXCEPT ![main.rec.contact] = @ \cup {r}]
      BY <1>6, <2>4 DEF SweepDrops
    <3>3. r \in results'[main.rec.contact]
      BY <1>1, <3>1, <3>2
    <3> QED
      BY <3>1, <3>3 DEF Accounted
  <2>5. CASE Crash \/ \E a \in Actors : LaunchRaises(a)
    <3>1. main.at \in {"transfer", "refused"} => InTable(r) \/ r \in stopped
      BY <1>6 DEF Handled
    <3>2. main.at = "remove" => delivered[r] > 0
      BY <1>6 DEF Handled
    <3>3. main.at = "drop" => r \in stopped
      BY <1>4, <1>6, <2>5 DEF Lively
    <3> QED
      BY <1>3, <1>5, <2>1, <3>1, <3>2, <3>3 DEF Claiming
  <2>6. Transfer(d) => main'.rec = main.rec
    BY SweepHands
  <2> QED
    BY <2>1, <2>2, <2>3, <2>4, <2>5, <2>6, ClaimingStep
<1>7. CASE InMemory(r)
  <2>1. PICK c \in Contacts : r \in results[c]
    BY <1>7 DEF InMemory
  <2>2. CASE results' = results
    BY <2>1, <2>2 DEF Accounted
  <2>3. CASE SweepDrops(d)
    <3>1. r \in results'[c]
      BY <1>1, <2>1, <2>3 DEF SweepDrops
    <3> QED
      BY <3>1 DEF Accounted
  <2>4. CASE Crash \/ (\E a \in Actors : LaunchRaises(a)) \/ faults' = faults + 1
    <3>1. r \in stopped
      BY <1>4, <1>7, <2>4 DEF Lively
    <3> QED
      BY <1>3, <3>1
  <2>5. CASE SubmitResults(d) /\ faults' # faults + 1
    <3>1. \/ results' = results
          \/ \E b \in Contacts :
                /\ delivered' = [x \in Runs |-> delivered[x] + IF x \in results[b] THEN 1 ELSE 0]
                /\ results' = [results EXCEPT ![b] = {}]
      BY <2>5 DEF SubmitResults
    <3>2. ASSUME NEW b \in Contacts,
                 delivered' = [x \in Runs |-> delivered[x] + IF x \in results[b] THEN 1 ELSE 0],
                 results' = [results EXCEPT ![b] = {}]
          PROVE  Accounted(r)'
      <4>1. CASE b = c
        <5>1. delivered'[r] = delivered[r] + 1
          BY <2>1, <3>2, <4>1
        <5>2. delivered'[r] > 0
          BY <1>1, <5>1
        <5> QED
          BY <5>2 DEF Accounted
      <4>2. CASE b # c
        <5>1. r \in results'[c]
          BY <1>1, <2>1, <3>2, <4>2
        <5> QED
          BY <5>1 DEF Accounted
      <4> QED
        BY <4>1, <4>2
    <3> QED
      BY <2>2, <3>1, <3>2
  <2> QED
    BY <2>2, <2>3, <2>4, <2>5, MemoryStep
<1>8. procs[r] # "none" => Accounted(r)
  BY <1>1 DEF ResultKept
<1> QED
  BY <1>2, <1>3, <1>5, <1>6, <1>7, <1>8, <1>9 DEF Accounted, InTable, InMemory, Launched

-----------------------------------------------------------------------------
(* The theorems *)

WInv == WTypeOK /\ Inv(doc) /\ SerialInv /\ OnceInv

\* What is invariant holds at first: nothing is started.
LEMMA WInitInv ==
  ASSUME WInit
  PROVE  WInv
<1>1. \A w \in Workers : ~Active(w)
  BY DEF WInit, Active, NoRun
<1>2. SerialInv
  BY <1>1, WorkersAssumption
     DEF WInit, SerialInv, TableSerial, OneJobEach, LaunchAlone, LaunchLocks, AtLaunch,
         IdleAct, InQueue, Actors
<1>3. OnceInv
  <2>1. Unstarted /\ OneLaunch
    BY WorkersAssumption
       DEF WInit, Unstarted, OneLaunch, Nowhere, Launching, InTable, InMemory, IdleMain, IdleAct,
           NoRun
  <2>2. OneRecord /\ OneHand
    BY WorkersAssumption
       DEF WInit, OneRecord, OneHand, InTable, InMemory, Claiming, IdleMain, NoRun
  <2> QED
    BY <2>1, <2>2 DEF OnceInv
<1> QED
  BY <1>2, <1>3, WInitTyped DEF WInv

\* The invariant of the handler: the files, the calls and the sweep have their
\* types, the document under them keeps what the coordinator promises, starts
\* exclude each other, and a result is in one place.
THEOREM WInvariance == WSpec => []WInv
<1>1. WInit => WInv
  BY WInitInv
<1>2. WInv /\ [WNext]_vars => WInv'
  BY WTypeInv, WDocumentInv, SerialStep, OnceStep DEF WInv
<1> QED
  BY <1>1, <1>2, PTL DEF WSpec

\* The browser profile is never shared by two browsers that are in the table or
\* on their way into it: whatever the managers start, resume and stop, and
\* whatever the sweep finds (_is_profiled_browser_active under the launch lock,
\* and the browser queue).
THEOREM ProfileIsSerial == WSpec => []ProfileSerial
<1>1. WInv => ProfileSerial
  BY SerialGives DEF WInv
<1> QED
  BY <1>1, WInvariance, PTL

\* While nothing fails no result enters root_queue twice, by the transfer of
\* the sweep or by the submission of what it kept (_claim_completed_worker).
THEOREM ResultsEnterOnce == WSpec => []DeliveredOnce
<1>1. WInv => DeliveredOnce
  BY DEF WInv, OnceInv, OneHand, DeliveredOnce
<1> QED
  BY <1>1, WInvariance, PTL

\* The invariant of the leases: no two share one, what is about to start and
\* what a tick vouches for has one, and so has, while nothing fails, every run
\* until its result is delivered.
LeaseInv ==
    /\ UseInv /\ Stops /\ StoppedRan /\ Removes /\ StartsBacked
    /\ TickVouches /\ PrefenceBlocks
    /\ Handled /\ (faults = 0 => Lively) /\ MainBusy /\ ResultKept

LEMMA LeaseInit ==
  ASSUME WInit
  PROVE  LeaseInv
<1>1. /\ \A w \in Workers : active[w] = NoRun /\ NoRun.run = None
      /\ \A a \in Actors : act[a] = IdleAct /\ IdleAct.lease = None /\ IdleAct.at = "idle"
                           /\ IdleAct.op = "new"
      /\ bqueue = <<>> /\ main = IdleMain /\ IdleMain.at = "idle" /\ stopped = {}
      /\ \A r \in Runs : procs[r] = "none"
      /\ \A c \in Contacts : results[c] = {}
  BY DEF WInit, NoRun, IdleAct, IdleMain
<1>2. ASSUME NEW l \in Leases, NEW t PROVE ~Uses(l, t)
  BY <1>1, IdsAssumption DEF Uses, RunUse, SweepUse, JobUse, CallUse, Active, Claiming
<1>3. UseInv /\ Stops /\ StoppedRan /\ Removes /\ StartsBacked
  BY <1>1, <1>2 DEF UseInv, OneUse, ItemsApart, Stops, StoppedRan, Removes, StartsBacked, Starting
<1>4. TickVouches /\ PrefenceBlocks
  BY <1>1 DEF TickVouches, PrefenceBlocks, Active
<1>5. Handled /\ Lively /\ MainBusy /\ ResultKept
  BY <1>1 DEF Handled, Lively, MainBusy, ResultKept, Active, InMemory, Actors
<1> QED
  BY <1>3, <1>4, <1>5 DEF LeaseInv

\* The leases keep their invariant, given that of the files, the calls and the
\* sweep: a lease goes from call to queue to run to sweep without being in two
\* places (acquire_descendant_activity, _record_active_run, release_activity).
THEOREM LeaseInvariance == WSpec => []LeaseInv
<1>1. WInit => LeaseInv
  BY LeaseInit
<1>2. WInv /\ LeaseInv /\ [WNext]_vars => LeaseInv'
  <2> SUFFICES ASSUME WInv, LeaseInv, [WNext]_vars PROVE LeaseInv'
    OBVIOUS
  <2>1. PICK d : d = Prune(doc)
    OBVIOUS
  <2>2. Step(d)
    BY <2>1 DEF WNext, Step
  <2>3. /\ WTypeOK /\ Inv(doc) /\ SerialInv /\ OneJobEach /\ OnceInv /\ OneRecord
        /\ UseInv /\ Stops /\ StoppedRan /\ Removes /\ StartsBacked
        /\ TickVouches /\ PrefenceBlocks
        /\ Handled /\ (faults = 0 => Lively) /\ MainBusy /\ ResultKept
    BY DEF WInv, SerialInv, OnceInv, LeaseInv
  <2>4. UseInv' /\ Stops' /\ StoppedRan' /\ Removes'
    BY <2>1, <2>2, <2>3, UsesStep, StopsStep, RemovesStep
  <2>5. StartsBacked' /\ TickVouches'
    BY <2>1, <2>2, <2>3, StartsStep, VouchesStep
  <2>6. PrefenceBlocks'
    BY <2>1, <2>2, <2>3, PrefenceStep
  <2>7. Handled'
    BY <2>2, <2>3, HandledStep
  <2>8. faults' = 0 => Lively'
    <3>1. faults \in Nat /\ faults' \in {faults, faults + 1}
      BY <2>2, <2>3, HistoryStep DEF WTypeOK, RestOK
    <3> QED
      BY <2>1, <2>2, <2>3, <3>1, LivelyStep
  <2>9. MainBusy' /\ ResultKept'
    BY <2>2, <2>3, MainBusyStep, ResultStep
  <2> QED
    BY <2>4, <2>5, <2>6, <2>7, <2>8, <2>9 DEF LeaseInv
<1> QED
  BY <1>1, <1>2, WInvariance, PTL DEF WSpec

\* Work that predates the fence blocks the stop (adopt_prefence_activity): when
\* safe_to_stop is true, no run and no job is there that started before the
\* fence and that the tick saw when it reconciled.
THEOREM PrefenceWorkBlocks == WSpec => []PrefenceBlocks
<1>1. LeaseInv => PrefenceBlocks
  BY DEF LeaseInv
<1> QED
  BY <1>1, LeaseInvariance, PTL

\* One fault does not lose the result of a run that was recorded: neither a
\* crash between the claim of the sweep and its transfer, nor a step of the loop
\* that raises (enqueue_continuation, dispatcher.submit).  A run that the fault
\* cuts off between Popen and _record_active_run is an orphan, and excepted.
THEOREM ResultsAreKept == WSpec => []ResultKept
<1>1. LeaseInv => ResultKept
  BY DEF LeaseInv
<1> QED
  BY <1>1, LeaseInvariance, PTL
=============================================================================
