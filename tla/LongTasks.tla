------------------------------ MODULE LongTasks ------------------------------
(* The durable lifecycle of one contact's task (core/long_task_updates.py): the
   journal entry, its object in memory with the two threads that work on it
   (the manager's turn "m" and the watcher "w"), the card in Glass, the final
   reply that waits for the card, the worker intents, the queue of roots
   that wait behind an unfinished lifecycle, and a crash at any point.
   An action is one critical section of _lock together with the network call
   that precedes it; calls that other threads can overtake (an update, a worker
   intent, the settlement, the final reply) are split.  The watcher's due times are
   nondeterminism: any duty may be due.  Times are the stamps of `tick`. *)
EXTENDS Naturals, Sequences, FiniteSets

CONSTANTS LRoots,      \* run ids of the roots of this contact
          LWorkers,    \* worker ids
          MaxStamp,    \* facts recorded in one behaviour
          MaxLost,     \* network calls that fail
          MaxDown      \* crashes

LAssumption ==
  /\ IsFiniteSet(LRoots) /\ LRoots # {}
  /\ MaxStamp \in Nat /\ MaxLost \in Nat /\ MaxDown \in Nat

VARIABLES
  mem,      \* the LongTaskLifecycle object of this process
  jr,       \* the contact's entry in long_task_updates.json
  card,     \* Glass: the task card of each run
  told,     \* Glass: the stamps of worker facts it accepted
  corr,     \* work_updates.json: correlation of a worker with its card
  alive,    \* workers the handler runs
  queue,    \* queued_roots of the contact
  claimed,  \* this process holds the lease of the queue's head
  todo,     \* roots the dispatcher owns
  cur,      \* the root of the running turn
  pc,       \* where each thread is
  snd,      \* what each thread has in flight
  tick, lost, downs,
  up,       \* "boot" until recovery has run
  done,     \* roots whose turn has ended
  rep, need   \* history: what became of a reply, had it a task
lvars == <<mem, jr, card, told, corr, alive, queue, claimed, todo, cur, pc, snd,
           tick, lost, downs, up, done, rep, need>>

NoRoot == "none"
Nothing == [w |-> NoRoot]
Threads == {"m", "w"}
Home(t) == IF t = "m" THEN "run" ELSE "idle"
IOHeld == {"deliver", "fdeliver", "complete", "fcomplete"}
ReplyHeld == {"flush", "fdeliver", "fsettle", "fcomplete", "send"}
IOFree(t) == \A u \in Threads \ {t} : pc[u] \notin IOHeld
ReplyFree(t) == \A u \in Threads \ {t} : pc[u] \notin ReplyHeld

-----------------------------------------------------------------------------
(* The entry.  work: the phase of an intent, fact: its fact_updated_at,
   mark: worker_delivery_watermarks. *)
Fresh(r) == [open |-> TRUE, run |-> r, task |-> FALSE, conf |-> FALSE,
             create |-> FALSE, making |-> FALSE, reply |-> FALSE,
             settle |-> FALSE, deferred |-> "no", resolving |-> FALSE,
             terminal |-> FALSE, mgr |-> TRUE,
             work |-> [w \in LWorkers |-> "none"],
             fact |-> [w \in LWorkers |-> 0], mark |-> [w \in LWorkers |-> 0]]
Closed == [Fresh(NoRoot) EXCEPT !.open = FALSE, !.mgr = FALSE]
HasWorkers(e) == \E w \in LWorkers : e.work[w] # "none"
HasDelivery(e) == e.reply \/ HasWorkers(e) \/ e.create \/ e.settle
Fenced(e, r) == e.run # r /\ (e.reply \/ e.settle \/ e.terminal)

(* A fact a writer left in the journal is taken over when it is newer than the
   local intent, or than the watermark when there is no intent any more. *)
Newer(e, w) == /\ jr.open /\ jr.work[w] # "none"
               /\ jr.fact[w] > (IF e.work[w] = "none" THEN e.mark[w] ELSE e.fact[w])
MergeFacts(e) ==
  [e EXCEPT !.work = [w \in LWorkers |->
                        IF ~Newer(e, w) THEN e.work[w]
                        ELSE IF e.work[w] \in {"none", "published"}
                             THEN "published" ELSE jr.work[w]],
            !.fact = [w \in LWorkers |-> IF Newer(e, w) THEN jr.fact[w] ELSE e.fact[w]]]

(* Assigning the object and writing it: a closed object writes nothing; the file
   keeps newer facts of other writers, which the object sees when it merges. *)
Persist(e) == /\ mem' = e
              /\ jr' = IF e.open THEN MergeFacts(e) ELSE jr
Unsaved == UNCHANGED <<mem, jr>>
(* _close_locked and _unregister; what the other thread still has in flight
   belongs to a closed object and records nothing. *)
Close == /\ mem' = Closed
         /\ jr' = Closed
Goto(t, l) == pc' = [pc EXCEPT ![t] = l]
GotoClosed(t, l) == pc' = [pc EXCEPT !["w"] = "idle", ![t] = IF t = "w" THEN "idle" ELSE l]
Discarded(e) ==       \* _discard_terminal_worker_updates_locked
  [e EXCEPT !.work = [w \in LWorkers |-> IF @[w] = "prepared" THEN @[w] ELSE "none"],
            !.mark = [w \in LWorkers |->
                        IF e.work[w] \in {"launched", "published"} THEN tick ELSE @[w]]]
Closable == mem.open /\ mem.terminal /\ ~HasDelivery(Discarded(mem))

Fails(out) == /\ out \in {"ok", "lost", "fail"}
              /\ out = "ok" \/ lost < MaxLost
              /\ lost' = IF out = "ok" THEN lost ELSE lost + 1
Stamp == tick < MaxStamp /\ tick' = tick + 1

-----------------------------------------------------------------------------
(* Roots: arrival, the durable queue and the fence. *)
Arrive(r) == /\ r \notin todo /\ rep[r] = "new"
             /\ todo' = todo \cup {r}
             /\ rep' = [rep EXCEPT ![r] = "none"]
             /\ UNCHANGED <<mem, jr, card, told, corr, alive, queue, claimed, cur, pc,
                            snd, tick, lost, downs, up, need, done>>

Entry == IF mem.open THEN mem ELSE jr
(* Fault: all of the contact's queue is acknowledged. *)
AckedAll(r) == <<>>
Backlog(r) == queue # <<>> /\ ~(claimed /\ Head(queue) = r)
(* queue_long_task_root_if_blocked, called before every round of a turn; a
   terminal lifecycle that owes nothing is closed on the way. *)
Admit(r) ==
  /\ up = "up" /\ pc["m"] = "idle" /\ cur = NoRoot /\ r \in todo
  /\ IF Closable THEN Close /\ pc' = [pc EXCEPT !["w"] = "idle"] ELSE Unsaved /\ UNCHANGED pc
  /\ LET e == IF Closable THEN Closed ELSE Entry IN
     IF (e.open /\ Fenced(e, r)) \/ Backlog(r)
       THEN /\ todo' = todo \ {r}
            /\ queue' = IF \E i \in DOMAIN queue : queue[i] = r THEN queue
                        ELSE Append(queue, r)
            /\ UNCHANGED cur
       ELSE cur' = r /\ UNCHANGED <<todo, queue>>
  /\ UNCHANGED <<card, told, corr, alive, claimed, snd, tick, lost, downs, up, rep, need, done>>

Acked(r) ==           \* acknowledge_queued_long_task_root
  LET rest[n \in 0 .. Len(queue)] == IF n = 0 THEN <<>>
                                     ELSE IF queue[n] = r THEN rest[n - 1]
                                     ELSE Append(rest[n - 1], queue[n])
  IN rest[Len(queue)]
(* begin_long_task_run: attach to the open lifecycle, or adopt the journal's
   entry, or start one; then the queued root is acknowledged. *)
Attached(e) == IF e.deferred = "blocker" THEN [e EXCEPT !.mgr = TRUE]
               ELSE [e EXCEPT !.mgr = TRUE, !.deferred = "no"]
Begin ==
  /\ cur # NoRoot /\ pc["m"] = "idle"
  /\ Persist(Attached(IF mem.open THEN mem
                      ELSE IF jr.open THEN [jr EXCEPT !.making = FALSE]
                      ELSE Fresh(cur)))
  /\ queue' = Acked(cur)
  /\ claimed' = IF queue # <<>> /\ Head(queue) = cur THEN FALSE ELSE claimed
  /\ Goto("m", "run")
  /\ UNCHANGED <<card, told, corr, alive, todo, cur, snd, tick, lost, downs, up, rep, need, done>>

(* claim_ready_long_task_roots: the head of an idle contact. *)
ClaimHead ==
  /\ up = "up" /\ queue # <<>> /\ ~claimed /\ ~jr.open
  /\ claimed' = TRUE
  /\ todo' = todo \cup {Head(queue)}
  /\ UNCHANGED <<mem, jr, card, told, corr, alive, queue, cur, pc, snd, tick, lost, downs,
                 up, rep, need, done>>
ClaimLapses ==
  /\ claimed /\ claimed' = FALSE
  /\ UNCHANGED <<mem, jr, card, told, corr, alive, queue, todo, cur, pc, snd, tick, lost, downs,
                 up, rep, need, done>>

-----------------------------------------------------------------------------
(* Tools of the manager's turn.  prepare_work_update journals a create before it
   is sent; every other update is only sent. *)
Turn == up = "up" /\ pc["m"] = "run"
Prepare ==
  /\ Turn /\ mem.open /\ ~mem.conf
  /\ Persist([mem EXCEPT !.task = TRUE, !.create = TRUE, !.making = TRUE])
  /\ snd' = [snd EXCEPT !["m"] = [w |-> NoRoot, kind |-> "create", run |-> mem.run, ok |-> FALSE]]
  /\ Goto("m", "update")
  /\ UNCHANGED <<card, told, corr, alive, queue, claimed, todo, cur, tick, lost, downs, up, rep, need, done>>
Intend(kind) ==
  /\ Turn /\ mem.open /\ mem.conf /\ kind \in {"block", "resolve", "end"}
  /\ snd' = [snd EXCEPT !["m"] = [w |-> NoRoot, kind |-> kind, run |-> mem.run, ok |-> FALSE]]
  /\ Goto("m", "update")
  /\ UNCHANGED <<mem, jr, card, told, corr, alive, queue, claimed, todo, cur, tick, lost, downs,
                 up, rep, need, done>>

(* Glass: what an accepted update makes of a card. *)
Moved(c, kind) ==
  CASE kind = "create"  -> IF c = "none" THEN "open" ELSE c
    [] kind = "block"   -> IF c = "open" THEN "blocked" ELSE c
    [] kind = "resolve" -> IF c = "blocked" THEN "open" ELSE c
    [] kind = "end"     -> "terminal"
SendUpdate(out) ==
  /\ up = "up" /\ pc["m"] = "update" /\ Fails(out)
  /\ LET s == snd["m"] IN
     /\ card' = IF out = "fail" THEN card
                ELSE [card EXCEPT ![s.run] = Moved(@, s.kind)]
     /\ snd' = [snd EXCEPT !["m"] = [s EXCEPT !.ok = out = "ok"]]
  /\ Goto("m", "record")
  /\ UNCHANGED <<mem, jr, told, corr, alive, queue, claimed, todo, cur, tick, downs, up, rep, need, done>>
(* record_work_update *)
Recorded(e, kind) ==
  CASE kind = "create"  -> [e EXCEPT !.conf = TRUE, !.create = FALSE]
    [] kind = "block"   -> [e EXCEPT !.deferred = "blocker"]
    [] kind = "resolve" -> [e EXCEPT !.resolving = TRUE]
    [] kind = "end"     -> [e EXCEPT !.terminal = TRUE, !.settle = FALSE]
RecordUpdate ==
  /\ up = "up" /\ pc["m"] = "record"
  /\ LET s == snd["m"]
         e == [mem EXCEPT !.making = FALSE] IN
     IF mem.open /\ mem.run = s.run
       THEN Persist(IF s.ok THEN Recorded(e, s.kind) ELSE e)
       ELSE Unsaved
  /\ snd' = [snd EXCEPT !["m"] = Nothing]
  /\ Goto("m", "run")
  /\ UNCHANGED <<card, told, corr, alive, queue, claimed, todo, cur, tick, lost, downs, up, rep, need, done>>

(* ensure: replay of the journalled create, by a later round or the watcher. *)
Ensure(t, out) ==
  /\ up = "up" /\ pc[t] = Home(t) /\ IOFree(t) /\ mem.open /\ ~mem.terminal
  /\ mem.create /\ ~mem.conf /\ ~mem.making /\ Fails(out)
  /\ card' = IF out = "fail" THEN card ELSE [card EXCEPT ![mem.run] = Moved(@, "create")]
  /\ \E proved \in BOOLEAN :
        /\ proved => out # "fail"        \* refresh_task_snapshot shows the card
        /\ Persist(IF out = "ok" \/ proved
                   THEN [mem EXCEPT !.conf = TRUE, !.create = FALSE] ELSE mem)
  /\ UNCHANGED <<told, corr, alive, queue, claimed, todo, cur, pc, snd, tick, downs, up, rep, need, done>>

(* A worker: intent journalled, launched or not, its facts. *)
JournalWorker(w) ==
  /\ Turn /\ mem.open /\ mem.task /\ w \notin alive /\ mem.work[w] = "none"
  /\ Stamp
  /\ Persist([mem EXCEPT !.work[w] = "prepared", !.fact[w] = tick', !.mark[w] = 0])
  /\ snd' = [snd EXCEPT !["m"] = [w |-> w, kind |-> "launch"]]
  /\ Goto("m", "launch")
  /\ UNCHANGED <<card, told, corr, alive, queue, claimed, todo, cur, lost, downs, up, rep, need, done>>
LaunchWorker ==
  /\ up = "up" /\ pc["m"] = "launch"
  /\ \/ alive' = alive \cup {snd["m"].w} /\ Goto("m", "launched")
     \/ alive' = alive /\ Goto("m", "unlaunched")
  /\ UNCHANGED <<mem, jr, card, told, corr, queue, claimed, todo, cur, snd, tick, lost, downs,
                 up, rep, need, done>>
Fact(e, w) == [e EXCEPT !.work[w] = "launched", !.fact[w] = tick']
MarkStarted ==
  /\ up = "up" /\ pc["m"] = "launched" /\ Stamp
  /\ LET w == snd["m"].w IN
     IF mem.open /\ mem.work[w] # "none"
       THEN Persist(Fact(mem, w))
       ELSE Unsaved
  /\ snd' = [snd EXCEPT !["m"] = Nothing]
  /\ Goto("m", "run")
  /\ UNCHANGED <<card, told, corr, alive, queue, claimed, todo, cur, lost, downs, up, rep, need, done>>
DiscardIntent(e, w) == [e EXCEPT !.work[w] = "none", !.mark[w] = tick]
DiscardWorker ==
  /\ up = "up" /\ pc["m"] = "unlaunched"
  /\ IF mem.open /\ mem.work[snd["m"].w] # "none"
       THEN Persist(DiscardIntent(mem, snd["m"].w)) ELSE Unsaved
  /\ snd' = [snd EXCEPT !["m"] = Nothing]
  /\ Goto("m", "run")
  /\ UNCHANGED <<card, told, corr, alive, queue, claimed, todo, cur, tick, lost, downs, up, rep, need, done>>

(* record_pending_worker_state: through the object, or in the file when no object
   is open. *)
RecordPending(w) ==
  IF mem.open /\ mem.work[w] # "none" THEN Persist(Fact(mem, w))
  ELSE IF ~mem.open /\ jr.open /\ jr.work[w] # "none" THEN jr' = Fact(jr, w) /\ UNCHANGED mem
  ELSE Unsaved
(* record_worker_state by the handler: to the card when the worker is correlated
   and the call succeeds, else into the journal when an intent is there. *)
WorkerFact(w, last, out) ==
  /\ w \in alive /\ Stamp /\ Fails(out)
  /\ alive' = IF last THEN alive \ {w} ELSE alive
  /\ IF corr[w] /\ out # "fail"
       THEN told' = [told EXCEPT ![w] = @ \cup {tick'}] ELSE UNCHANGED told
  /\ IF corr[w] /\ out = "ok"
       THEN /\ corr' = [corr EXCEPT ![w] = ~last]
            /\ Unsaved
       ELSE /\ UNCHANGED corr
            /\ RecordPending(w)
  /\ UNCHANGED <<card, queue, claimed, todo, cur, pc, snd, downs, up, rep, need, done>>

(* _reconcile_worker_intents: an intent whose launch nobody confirmed. *)
ReconcileWorker(w) ==
  /\ up = "up" /\ pc["w"] = "idle" /\ mem.open /\ mem.work[w] = "prepared"
  /\ \/ (w \in alive \/ snd["m"].w # w) /\ Stamp /\ Persist(Fact(mem, w))
     \/ /\ w \notin alive       \* "not found"
        /\ Persist(DiscardIntent(mem, w)) /\ UNCHANGED tick
  /\ UNCHANGED <<card, told, corr, alive, queue, claimed, todo, cur, pc, snd, lost, downs, up, rep, need, done>>


(* _deliver_pending_workers, one intent: what is sent is a copy; when the call
   returns, an intent that has become newer is kept for another delivery. *)
DeliverStart(t, w) ==
  /\ up = "up" /\ pc[t] \in {Home(t), "flush"} /\ IOFree(t)
  /\ mem.open /\ mem.conf /\ ~mem.terminal
  /\ mem' = MergeFacts(mem)
  /\ mem'.work[w] \in {"launched", "published"}
  /\ snd' = [snd EXCEPT ![t] = [w |-> w, fact |-> mem'.fact[w], phase |-> mem'.work[w],
                                run |-> mem.run]]
  /\ Goto(t, IF pc[t] = "flush" THEN "fdeliver" ELSE "deliver")
  /\ UNCHANGED <<jr, card, told, corr, alive, queue, claimed, todo, cur, tick, lost, downs,
                 up, rep, need, done>>
DeliverBack(t) == IF pc[t] = "fdeliver" THEN "flush" ELSE Home(t)
(* Fault: an accepted call clears the intent whatever came in meanwhile. *)
AcceptedClears(e, w, sent) == DiscardIntent(e, w)
AfterAccepted(e, w, sent) == IF e.fact[w] > sent THEN [e EXCEPT !.work[w] = "published"]
                             ELSE DiscardIntent(e, w)
(* record_worker_started, or record_worker_state for a published intent: without
   a correlation, or when the call fails, the latter journals the fact again and
   reports success. *)
Delivered(t, out) ==
  /\ up = "up" /\ pc[t] \in {"deliver", "fdeliver"} /\ Fails(out)
  /\ LET s == snd[t]
         w == s.w
         again == s.phase = "published" /\ (~corr[w] \/ out # "ok")
         e == IF again THEN [mem EXCEPT !.work[w] = "launched", !.fact[w] = tick + 1]
              ELSE MergeFacts(mem)
         reached == out # "fail" /\ (s.phase = "launched" \/ corr[w])
     IN
     /\ told' = IF reached THEN [told EXCEPT ![w] = @ \cup {s.fact}] ELSE told
     /\ corr' = IF s.phase = "launched" /\ out = "ok" THEN [corr EXCEPT ![w] = TRUE]
                ELSE corr
     /\ IF ~mem.open \/ mem.work[w] = "none"
          THEN Unsaved /\ UNCHANGED tick
          ELSE IF again
          THEN /\ Stamp
               /\ Persist([e EXCEPT !.work[w] = "published"])
          ELSE /\ UNCHANGED tick
               /\ Persist(IF out # "ok" THEN e
                          ELSE AfterAccepted(e, w, s.fact))
  /\ snd' = [snd EXCEPT ![t] = Nothing]
  /\ Goto(t, DeliverBack(t))
  /\ UNCHANGED <<card, alive, queue, claimed, todo, cur, downs, up, rep, need, done>>

-----------------------------------------------------------------------------
(* The final reply.  The tool takes the lifecycle while it is open, counts the
   workers and only then queues: the watcher may close the object in between. *)
FinalReply ==
  /\ Turn /\ mem.open
  /\ snd' = [snd EXCEPT !["m"] = [w |-> NoRoot, run |-> mem.run, task |-> mem.task]]
  /\ Goto("m", "reply")
  /\ UNCHANGED <<mem, jr, card, told, corr, alive, queue, claimed, todo, cur, tick, lost, downs,
                 up, rep, need, done>>
(* queue_final_reply does not ask whether the object is closed, and a closed one
   writes nothing: its reply is nowhere but in this call ("stray"). *)
QueueReply ==
  /\ up = "up" /\ pc["m"] = "reply"
  /\ \/ mem.open /\ mem.reply /\ Unsaved /\ Goto("m", "queued") /\ UNCHANGED <<rep, need>>
     \/ /\ mem.open /\ ~mem.reply
        /\ Persist([mem EXCEPT !.reply = TRUE, !.settle = mem.task])
        /\ rep' = [rep EXCEPT ![mem.run] = "queued"]
        /\ need' = [need EXCEPT ![mem.run] = mem.task]
        /\ Goto("m", "queued")
     \/ /\ ~mem.open /\ Unsaved
        /\ rep' = [rep EXCEPT ![snd["m"].run] = "stray"]
        /\ need' = [need EXCEPT ![snd["m"].run] = snd["m"].task]
        /\ Goto("m", "stray")
  /\ UNCHANGED <<card, told, corr, alive, queue, claimed, todo, cur, snd, tick, lost, downs, up, done>>
(* _flush_final_reply by the turn and, until the reply is sent or given up, by
   the watcher; who comes second finds it sent. *)
EnterFlush ==
  /\ up = "up" /\ pc["m"] = "queued" /\ ReplyFree("m")
  /\ Goto("m", IF mem.open /\ mem.reply THEN "flush" ELSE "run")
  /\ snd' = [snd EXCEPT !["m"] = Nothing]
  /\ UNCHANGED <<mem, jr, card, told, corr, alive, queue, claimed, todo, cur, tick, lost, downs,
                 up, rep, need, done>>
(* The same flush of a closed object.  What that object still holds (intents, a
   pause, an unconfirmed card) is any value: with a task the reply may wait, for
   nobody, or the card is settled first, or is over already. *)
Astray(l) == /\ Goto("m", l)
             /\ snd' = IF l = "run" THEN [snd EXCEPT !["m"] = Nothing] ELSE snd
StrayDecide ==
  /\ up = "up" /\ pc["m"] = "stray"
  /\ LET s == snd["m"] IN
     \/ s.task /\ Astray("run")
     \/ (s.task => card[s.run] = "terminal") /\ Astray("straysend")
  /\ UNCHANGED <<mem, jr, card, told, corr, alive, queue, claimed, todo, cur, tick, lost, downs,
                 up, rep, need, done>>
StraySettle(out) ==
  /\ up = "up" /\ pc["m"] = "stray" /\ Fails(out)
  /\ LET s == snd["m"] IN
     /\ s.task /\ card[s.run] \in {"open", "blocked"}
     /\ card' = IF out = "fail" THEN card ELSE [card EXCEPT ![s.run] = "terminal"]
     /\ \E proved \in BOOLEAN :
          /\ proved => out # "fail"
          /\ Astray(IF out = "ok" \/ proved THEN "straysend" ELSE "run")
  /\ UNCHANGED <<mem, jr, told, corr, alive, queue, claimed, todo, cur, tick, downs, up, rep,
                 need, done>>
StraySend(out) ==
  /\ up = "up" /\ pc["m"] = "straysend" /\ Fails(out)
  /\ rep' = [rep EXCEPT ![snd["m"].run] = IF out = "fail" THEN @ ELSE "sent"]
  /\ Astray("run")
  /\ UNCHANGED <<mem, jr, card, told, corr, alive, queue, claimed, todo, cur, tick, downs, up,
                 need, done>>
FlushDue ==
  /\ up = "up" /\ pc["w"] = "idle" /\ ReplyFree("w") /\ mem.open /\ mem.reply
  /\ Goto("w", "flush")
  /\ UNCHANGED <<mem, jr, card, told, corr, alive, queue, claimed, todo, cur, snd, tick, lost,
                 downs, up, rep, need, done>>
Required(e) == e.task \/ e.create
CannotSettle(e) == alive # {} \/ HasWorkers(e) \/ e.deferred # "no" \/ ~e.conf
(* Fault: a reply without workers is sent at once. *)
DecidedSend(e) == "send"
AfterDecide(e) == IF Required(e) /\ ~e.terminal THEN "fsettle" ELSE "send"
(* The workers were counted earlier and an error counts as some: a reply with a
   task may always be held. *)
Decide(t) ==
  /\ up = "up" /\ pc[t] = "flush"
  /\ \/ Required(mem) /\ Persist([mem EXCEPT !.settle = TRUE]) /\ Goto(t, Home(t))
     \/ ~(Required(mem) /\ CannotSettle(mem)) /\ Unsaved /\ Goto(t, AfterDecide(mem))
  /\ UNCHANGED <<card, told, corr, alive, queue, claimed, todo, cur, snd, tick, lost, downs, up,
                 rep, need, done>>

(* _settle_task: read the card, then complete it. *)
SettleDue ==
  /\ up = "up" /\ pc["w"] = "idle" /\ mem.open /\ mem.settle /\ mem.conf /\ ~mem.reply
  /\ Goto("w", "settle")
  /\ UNCHANGED <<mem, jr, card, told, corr, alive, queue, claimed, todo, cur, snd, tick, lost,
                 downs, up, rep, need, done>>
Settled(e) == [e EXCEPT !.terminal = TRUE, !.settle = FALSE]
SettleGoes(t, ok) == IF pc[t] \in {"fsettle", "fcomplete"} /\ ok THEN "send" ELSE Home(t)
SettleRead(t, seen) ==
  /\ up = "up" /\ pc[t] \in {"settle", "fsettle"} /\ IOFree(t)
  /\ IF seen THEN UNCHANGED lost ELSE lost < MaxLost /\ lost' = lost + 1
  /\ IF seen /\ card[mem.run] = "terminal"
       THEN Persist(Settled(mem)) /\ Goto(t, SettleGoes(t, TRUE))
     ELSE IF seen /\ card[mem.run] = "blocked"
       THEN /\ Persist([mem EXCEPT !.deferred = "blocker", !.settle = TRUE])
            /\ Goto(t, Home(t))
     ELSE Unsaved /\ Goto(t, IF pc[t] = "settle" THEN "complete" ELSE "fcomplete")
  /\ UNCHANGED <<card, told, corr, alive, queue, claimed, todo, cur, snd, tick, downs, up, rep,
                 need, done>>
SettleWrite(t, out) ==
  /\ up = "up" /\ pc[t] \in {"complete", "fcomplete"} /\ Fails(out)
  /\ card' = IF out = "fail" THEN card ELSE [card EXCEPT ![mem.run] = "terminal"]
  /\ \E proved \in BOOLEAN :
        /\ proved => card'[mem.run] = "terminal"
        /\ LET ok == out = "ok" \/ proved IN
           /\ Persist(IF ok THEN Settled(mem) ELSE [mem EXCEPT !.settle = TRUE])
           /\ Goto(t, SettleGoes(t, ok))
  /\ UNCHANGED <<told, corr, alive, queue, claimed, todo, cur, snd, tick, downs, up, rep, need, done>>

(* The send with its stable client id; `gone` is a status that no retry can
   change, or the last attempt. *)
SendReply(t, out, gone) ==
  /\ up = "up" /\ pc[t] = "send" /\ Fails(out)
  /\ gone => out # "ok"
  /\ IF ~mem.reply THEN Unsaved /\ Goto(t, Home(t)) /\ UNCHANGED rep
     ELSE /\ rep' = [rep EXCEPT ![mem.run] = IF out # "fail" THEN "sent"
                                             ELSE IF gone THEN "abandoned" ELSE @]
          /\ IF out = "ok" \/ gone THEN Close /\ GotoClosed(t, "run")
                                   ELSE Unsaved /\ Goto(t, Home(t))
  /\ UNCHANGED <<card, told, corr, alive, queue, claimed, todo, cur, snd, tick, downs, up, need, done>>


-----------------------------------------------------------------------------
(* _reconcile_timer reads the card; an unreadable one is "". *)
TimerRead(e, seen) ==
  IF seen = "terminal" THEN [e EXCEPT !.terminal = TRUE]
  ELSE LET f == IF e.resolving
                  THEN [e EXCEPT !.resolving = FALSE,
                                 !.deferred = IF seen = "blocked" THEN "blocker" ELSE "no"]
                  ELSE e
       IN IF f.deferred = "no" /\ seen = "blocked" THEN [f EXCEPT !.deferred = "blocker"] ELSE f
ReconcileTimer(reads) ==
  /\ up = "up" /\ pc["w"] = "idle" /\ IOFree("w")
  /\ mem.open /\ mem.task /\ mem.conf /\ ~mem.terminal
  /\ IF reads THEN UNCHANGED lost ELSE lost < MaxLost /\ lost' = lost + 1
  /\ Persist(TimerRead(mem, IF reads THEN card[mem.run] ELSE ""))
  /\ UNCHANGED <<card, told, corr, alive, queue, claimed, todo, cur, pc, snd, tick, downs, up,
                 rep, need, done>>

Heartbeat ==
  /\ up = "up" /\ pc["w"] = "idle" /\ IOFree("w")
  /\ mem.open /\ mem.task /\ mem.conf /\ ~mem.terminal /\ ~mem.reply
  /\ Persist(IF card[mem.run] = "terminal" THEN [mem EXCEPT !.terminal = TRUE] ELSE mem)
  /\ UNCHANGED <<card, told, corr, alive, queue, claimed, todo, cur, pc, snd, tick, lost, downs, up,
                 rep, need, done>>

CloseIfTerminal ==
  /\ up = "up" /\ pc["w"] = "idle" /\ mem.open /\ mem.terminal
  /\ IF Closable THEN Close /\ UNCHANGED pc
     ELSE Persist(Discarded(mem)) /\ UNCHANGED pc
  /\ UNCHANGED <<card, told, corr, alive, queue, claimed, todo, cur, snd, tick, lost, downs, up,
                 rep, need, done>>

(* A turn that cannot go on pauses its work. *)
Defer == /\ Turn /\ mem.open
         /\ Persist([mem EXCEPT !.deferred = "infra"])
         /\ UNCHANGED <<card, told, corr, alive, queue, claimed, todo, cur, pc, snd, tick, lost,
                        downs, up, rep, need, done>>

(* finish: the turn is over and its root is completed. *)
(* Fault: a lifecycle without a task is empty although its reply waits. *)
EmptyTask(e) == ~e.task /\ ~HasWorkers(e) /\ ~e.create
Empty(e) == ~e.task /\ ~e.reply /\ ~HasWorkers(e) /\ ~e.create
Finish ==
  /\ Turn
  /\ IF ~mem.open THEN Unsaved /\ Goto("m", "idle")
     ELSE IF (mem.terminal /\ ~HasDelivery(mem)) \/ Empty(mem)
       THEN Close /\ GotoClosed("m", "idle")
       ELSE Persist([mem EXCEPT !.mgr = FALSE]) /\ Goto("m", "idle")
  /\ todo' = todo \ {cur}
  /\ cur' = NoRoot /\ done' = done \cup {cur}
  /\ UNCHANGED <<card, told, corr, alive, queue, claimed, snd, tick, lost, downs, up, rep, need>>

(* Somebody ends or blocks the card in Glass. *)
GlassEnds(r) == /\ card[r] \in {"open", "blocked"} /\ lost < MaxLost /\ lost' = lost + 1
                /\ card' = [card EXCEPT ![r] = "terminal"]
                /\ UNCHANGED <<mem, jr, told, corr, alive, queue, claimed, todo, cur, pc, snd, tick,
                               downs, up, rep, need, done>>

Crash == /\ up = "up" /\ downs < MaxDown /\ downs' = downs + 1
         /\ mem' = Closed /\ claimed' = FALSE /\ cur' = NoRoot /\ up' = "boot"
         /\ pc' = [t \in Threads |-> "idle"] /\ snd' = [t \in Threads |-> Nothing]
         /\ UNCHANGED <<jr, card, told, corr, alive, queue, todo, tick, lost, rep, need, done>>
(* recover_long_task_lifecycles: an entry that owes nothing is closed, a turn
   that was cut off is deferred. *)
Recovered(e) == [e EXCEPT !.mgr = FALSE, !.making = FALSE,
                          !.deferred = IF e.mgr /\ ~e.reply /\ ~e.terminal /\ @ = "no"
                                       THEN "infra" ELSE @]
Recover == /\ up = "boot" /\ up' = "up"
           /\ IF ~jr.open THEN Unsaved
              ELSE IF ~jr.task /\ ~jr.mgr /\ ~HasDelivery(jr) THEN Close
              ELSE Persist(Recovered(jr))
           /\ UNCHANGED <<card, told, corr, alive, queue, claimed, todo, cur, pc, snd, tick, lost,
                          downs, rep, need, done>>

LInit == /\ mem = Closed /\ jr = Closed
         /\ card = [r \in LRoots |-> "none"]
         /\ told = [w \in LWorkers |-> {}] /\ corr = [w \in LWorkers |-> FALSE]
         /\ alive = {} /\ queue = <<>> /\ claimed = FALSE /\ todo = {} /\ cur = NoRoot
         /\ pc = [t \in Threads |-> "idle"] /\ snd = [t \in Threads |-> Nothing]
         /\ tick = 0 /\ lost = 0 /\ downs = 0 /\ up = "up"
         /\ rep = [r \in LRoots |-> "new"] /\ need = [r \in LRoots |-> FALSE]
         /\ done = {}

Outs == {"ok", "lost", "fail"}
LNext ==
  \/ \E r \in LRoots : Arrive(r) \/ Admit(r) \/ GlassEnds(r)
  \/ Begin \/ ClaimHead \/ ClaimLapses
  \/ Prepare \/ \E k \in {"block", "resolve", "end"} : Intend(k)
  \/ \E out \in Outs : SendUpdate(out)
  \/ RecordUpdate
  \/ \E t \in Threads, out \in Outs : \/ Ensure(t, out) \/ Delivered(t, out)
                                     \/ SettleWrite(t, out)
  \/ \E w \in LWorkers : JournalWorker(w) \/ ReconcileWorker(w)
  \/ LaunchWorker \/ MarkStarted \/ DiscardWorker
  \/ \E w \in LWorkers, last \in BOOLEAN, out \in Outs : WorkerFact(w, last, out)
  \/ \E t \in Threads, w \in LWorkers : DeliverStart(t, w)
  \/ FinalReply \/ QueueReply \/ EnterFlush \/ StrayDecide \/ FlushDue \/ SettleDue
  \/ \E out \in Outs : StraySettle(out) \/ StraySend(out)
  \/ \E t \in Threads : Decide(t)
  \/ \E t \in Threads, seen \in BOOLEAN : SettleRead(t, seen)
  \/ \E t \in Threads, out \in Outs, gone \in BOOLEAN : SendReply(t, out, gone)
  \/ \E reads \in BOOLEAN : ReconcileTimer(reads)
  \/ Heartbeat \/ CloseIfTerminal \/ Defer \/ Finish \/ Crash \/ Recover
LSpec == LInit /\ [][LNext]_lvars

-----------------------------------------------------------------------------
(* "will not publish a final prose reply until the corresponding terminal card
   is accepted by Glass": a reply that was queued with a task is out only when
   the task's card is terminal. *)
ReplyAfterCard == \A r \in LRoots : rep[r] = "sent" /\ need[r] => card[r] = "terminal"
(* A reply queued on an open lifecycle that is neither sent nor given up is in the
   journal, whatever attach, close, another root or a crash did meanwhile.  The
   code also takes a reply for a lifecycle the watcher has just closed ("stray"):
   that one is in no journal. *)
ReplyKept == \A r \in LRoots : rep[r] = "queued" => jr.open /\ jr.run = r /\ jr.reply
(* A root that was taken in is with the dispatcher or in the durable queue until
   its turn has run: behind the fence, over a lapsed claim and through a crash. *)
RootKept == \A r \in LRoots :
   rep[r] # "new" => r \in todo \/ (\E i \in DOMAIN queue : queue[i] = r) \/ r \in done
(* What makes them inductive: the object and the journal agree on the root, the
   task, the reply and the end; a task that is over is shown so in Glass, and who
   is about to send a reply has seen it, with the object of a stray one too; a
   closed object owes nothing. *)
Phases == {"none", "prepared", "launched", "published"}
Entries == [open : BOOLEAN, run : LRoots \cup {NoRoot}, task : BOOLEAN, conf : BOOLEAN,
            create : BOOLEAN, making : BOOLEAN, reply : BOOLEAN, settle : BOOLEAN,
            deferred : {"no", "blocker", "infra"}, resolving : BOOLEAN,
            terminal : BOOLEAN, mgr : BOOLEAN, work : [LWorkers -> Phases],
            fact : [LWorkers -> Nat], mark : [LWorkers -> Nat]]
Sendings == [w : {NoRoot}, kind : {"create", "block", "resolve", "end"}, run : LRoots,
             ok : BOOLEAN]
Replying == {"reply", "queued", "stray", "straysend"}
Replies == [w : {NoRoot}, run : LRoots, task : BOOLEAN]
LTypeOK ==
  /\ mem \in Entries /\ jr \in Entries /\ tick \in Nat
  /\ DOMAIN card = LRoots /\ DOMAIN rep = LRoots /\ DOMAIN need = LRoots
  /\ todo \subseteq LRoots /\ queue \in Seq(LRoots) /\ cur \in LRoots \cup {NoRoot}
  /\ DOMAIN pc = Threads /\ DOMAIN snd = Threads
  /\ pc["m"] \in {"update", "record"} => snd["m"] \in Sendings
  /\ pc["m"] \in Replying => snd["m"] \in Replies
SameEntry == mem.open =>
  /\ jr.open /\ jr.run = mem.run /\ jr.reply = mem.reply
  /\ jr.task = mem.task /\ jr.terminal = mem.terminal
ClosedIsQuiet ==
  /\ ~mem.open => ~mem.reply /\ pc["w"] = "idle"
  /\ up = "boot" => ~mem.open /\ cur = NoRoot /\ pc["m"] = "idle"
RootsTaken ==
  /\ jr.open => jr.run \in LRoots /\ rep[jr.run] # "new"
  /\ cur # NoRoot => cur \in todo
  /\ \A r \in LRoots : r \in todo \/ (\E i \in DOMAIN queue : queue[i] = r) => rep[r] # "new"
ReplyNeedsTask == jr.open /\ jr.reply /\ need[jr.run] => jr.task
TerminalIsShown ==
  /\ jr.open /\ jr.terminal => card[jr.run] = "terminal"
  /\ pc["m"] = "record" /\ snd["m"].ok /\ snd["m"].kind = "end" =>
       card[snd["m"].run] = "terminal"
SendAllowed == \A t \in Threads :
  pc[t] = "send" /\ mem.open /\ mem.reply /\ need[mem.run] => card[mem.run] = "terminal"
ReplyInHand ==
  /\ pc["w"] \in ReplyHeld => mem.reply
  /\ pc["m"] \in Replying => rep[snd["m"].run] # "new" /\ (jr.open => mem.open)
  /\ pc["m"] \in {"stray", "straysend"} /\ need[snd["m"].run] => snd["m"].task
  /\ pc["m"] = "straysend" /\ need[snd["m"].run] => card[snd["m"].run] = "terminal"
LInv == /\ LTypeOK /\ SameEntry /\ ClosedIsQuiet /\ RootsTaken /\ ReplyNeedsTask
        /\ TerminalIsShown /\ SendAllowed /\ ReplyInHand /\ ReplyAfterCard /\ ReplyKept /\ RootKept
(* An intent that was launched leaves the journal of an unfinished task only when
   Glass has accepted the very fact the journal held. *)
FactKept == \A w \in LWorkers :
   /\ jr.open /\ jr'.open /\ ~jr'.terminal /\ pc["m"] # "unlaunched"
   /\ jr.work[w] \in {"launched", "published"} /\ jr'.work[w] = "none"
   => jr.fact[w] \in told'[w]
FactDelivered == [][FactKept]_lvars
(* What makes it hold in every step: the object and the journal have the same
   intents, no fact is ahead of the clock, and while the object that a fact was
   taken from is open, its intent is no older than the fact in flight. *)
FactsAgree == mem.open =>
  \A w \in LWorkers : mem.work[w] = jr.work[w] /\ mem.fact[w] = jr.fact[w]
FactsStamped == DOMAIN told = LWorkers /\ \A w \in LWorkers : jr.fact[w] <= tick
FactsInFlight == mem.open => \A t \in Threads : pc[t] \in {"deliver", "fdeliver"} =>
  /\ snd[t].w \in LWorkers /\ snd[t].phase \in {"launched", "published"}
  /\ snd[t].fact \in Nat /\ snd[t].fact <= mem.fact[snd[t].w]
FactsInv == LInv /\ FactsAgree /\ FactsStamped /\ FactsInFlight
=============================================================================
