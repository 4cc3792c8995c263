---------------------------- MODULE ManagerQueue ----------------------------
(* Handoffs from one manager to another (core/messages.py): the bounded queue on
   disk, the lineage path that turns a handoff into a continuation at once, and
   the durable drain.  The coordinator is taken by its contract (see
   Maintenance): a continuation and an ingress root are accepted once per
   identity, a continuation only while the sender's lease lives.  Every handoff
   here carries a work call; one without skips the prepared record. *)
EXTENDS Naturals, Sequences, FiniteSets, SequencesExt

CONSTANTS
  Handoffs,    \* queue_id
  Recipients,
  MaxItems,    \* MANAGER_QUEUE_MAX_ITEMS
  MaxTrouble   \* crashes, lapsed leases, failing calls
QAssumption == MaxItems \in Nat \ {0} /\ MaxTrouble \in Nat

VARIABLES
  queue,     \* items [id, prepared]; a recipient's list is the part that is its own
  to, said,  \* per handoff: its recipient; what the sender was told
  leased,    \* handoffs whose activity lease lives
  receipts,  \* continuation_receipts
  ingress,   \* ingress_receipts
  calls,     \* handoffs whose cards work_updates has accepted
  spc,       \* where each sender is
  drain,     \* the drain: what is left of its snapshot, and what it delivered
  trouble
qvars == <<queue, to, said, leased, receipts, ingress, calls, spc, drain, trouble>>

Spend == trouble < MaxTrouble /\ trouble' = trouble + 1
AtRest == [on |-> FALSE, left |-> << >>, at |-> "take", gone |-> {}]
Held == {i.id : i \in ToSet(queue)}
Becomes(h, p) == spc' = [spc EXCEPT ![h] = p]

(* _remove_manager_queue_ids *)
Without(q, ids) ==
  LET rest[n \in 0..Len(q)] == IF n = 0 THEN << >>
                              ELSE IF q[n].id \in ids THEN rest[n - 1]
                              ELSE Append(rest[n - 1], q[n])
  IN rest[Len(q)]
(* _append_manager_queue_item *)
Room == Len(queue) < MaxItems
Appended(h, prepared) == Append(queue, [id |-> h, prepared |-> prepared])

(* _queue_lineage_handoff: acquire, prepare, transfer, journal the calls, remove.
   No lineage, no lease or no room for the record: the plain queue. *)
Send(h) ==
  /\ spc[h] = "new"
  /\ \/ Becomes(h, "plain") /\ UNCHANGED leased
     \/ Becomes(h, "prepare") /\ leased' = leased \cup {h}
  /\ UNCHANGED <<queue, to, said, receipts, ingress, calls, drain, trouble>>
Prepare(h) ==
  /\ spc[h] = "prepare"
  /\ IF Room THEN queue' = Appended(h, TRUE) /\ Becomes(h, "transfer") /\ UNCHANGED leased
     ELSE UNCHANGED queue /\ leased' = leased \ {h} /\ Becomes(h, "plain")
  /\ UNCHANGED <<to, said, receipts, ingress, calls, drain, trouble>>
(* COORDINATOR.enqueue_continuation *)
Accepts(h) == h \in receipts \/ h \in leased
Transferred(h) == receipts' = receipts \cup {h} /\ leased' = leased \ {h}
Transfer(h) ==
  /\ spc[h] = "transfer"
  /\ IF Accepts(h) THEN Transferred(h) /\ Becomes(h, "journal")
     ELSE Becomes(h, "withdraw") /\ UNCHANGED <<receipts, leased>>
  /\ UNCHANGED <<queue, to, said, ingress, calls, drain, trouble>>
(* Fault: an ambiguous transfer withdraws the record and falls back. *)
AfterAmbiguousPlain(h) == Becomes(h, "withdraw") /\ UNCHANGED said
(* It raises, with or without effect: acceptance is ambiguous, the prepared
   record stays and the handoff counts as accepted. *)
AfterAmbiguous(h) == Becomes(h, "done") /\ said' = [said EXCEPT ![h] = "accepted"]
TransferRaises(h) ==
  /\ spc[h] = "transfer" /\ Spend
  /\ \/ Accepts(h) /\ Transferred(h)
     \/ UNCHANGED <<receipts, leased>>
  /\ AfterAmbiguous(h)
  /\ UNCHANGED <<queue, to, ingress, calls, drain>>
Withdraw(h) ==
  /\ spc[h] = "withdraw" /\ queue' = Without(queue, {h}) /\ Becomes(h, "plain")
  /\ leased' = leased \ {h}
  /\ UNCHANGED <<to, said, receipts, ingress, calls, drain, trouble>>
(* Both cards, idempotent; on failure the record stays for the next drain. *)
Journal(h) ==
  /\ spc[h] \in {"journal", "card"}
  /\ \/ calls' = calls \cup {h} /\ UNCHANGED trouble
        /\ IF spc[h] = "journal" THEN Becomes(h, "remove") /\ UNCHANGED said
           ELSE Becomes(h, "done") /\ said' = [said EXCEPT ![h] = "accepted"]
     \/ Spend /\ UNCHANGED calls /\ Becomes(h, "done")
        /\ said' = [said EXCEPT ![h] = "accepted"]
  /\ UNCHANGED <<queue, to, leased, receipts, ingress, drain>>
Unlist(h) ==
  /\ spc[h] = "remove" /\ queue' = Without(queue, {h}) /\ Becomes(h, "done")
  /\ said' = [said EXCEPT ![h] = "accepted"]
  /\ UNCHANGED <<to, leased, receipts, ingress, calls, drain, trouble>>
(* send_manager_message without a lineage *)
Plain(h) ==
  /\ spc[h] = "plain"
  /\ IF Room THEN queue' = Appended(h, FALSE) /\ Becomes(h, "card") /\ UNCHANGED said
     ELSE UNCHANGED queue /\ Becomes(h, "done") /\ said' = [said EXCEPT ![h] = "refused"]
  /\ UNCHANGED <<to, leased, receipts, ingress, calls, drain, trouble>>

LeaseLapses(h) ==
  /\ h \in leased /\ Spend /\ leased' = leased \ {h}
  /\ UNCHANGED <<queue, to, said, receipts, ingress, calls, spc, drain>>
SenderDies(h) ==
  /\ spc[h] \notin {"new", "done"} /\ Spend /\ Becomes(h, "done")
  /\ UNCHANGED <<queue, to, said, leased, receipts, ingress, calls, drain>>

(* check_manager_messages_durable: one drain at a time, under the delivery lock. *)
DrainStarts ==
  /\ ~drain.on /\ queue # << >>
  /\ drain' = [AtRest EXCEPT !.on = TRUE, !.left = queue]
  /\ UNCHANGED <<queue, to, said, leased, receipts, ingress, calls, spc, trouble>>
(* The first item of what is left, at step p of its delivery *)
Handling(h, p) == drain.on /\ drain.left # << >> /\ drain.at = p /\ Head(drain.left).id = h
Proceed(p) == drain' = [drain EXCEPT !.at = p]
Delivered(h) ==
  drain' = [drain EXCEPT !.left = Tail(@), !.at = "take", !.gone = @ \cup {h}]
(* Kept, with all behind it for the same recipient *)
KeptFrom(h) ==
  drain' = [drain EXCEPT !.left = Without(@, {i \in Handoffs : to[i] = to[h]}), !.at = "take"]
(* _resume_prepared_lineage; a record whose lease lapsed before the transfer is
   delivered like a plain item. *)
Resume(h) ==
  /\ Handling(h, "take")
  /\ \/ ~Head(drain.left).prepared /\ Proceed("cards") /\ UNCHANGED <<receipts, leased, trouble>>
     \/ Head(drain.left).prepared /\ UNCHANGED trouble
        /\ IF Accepts(h) THEN Transferred(h) /\ Proceed("cards_only")
           ELSE Proceed("cards") /\ UNCHANGED <<receipts, leased>>
     \/ Head(drain.left).prepared /\ Spend /\ KeptFrom(h)
        /\ \/ Accepts(h) /\ Transferred(h)
           \/ UNCHANGED <<receipts, leased>>
  /\ UNCHANGED <<queue, to, said, ingress, calls, spc>>
Cards(h) ==
  /\ Handling(h, "cards") \/ Handling(h, "cards_only")
  /\ \/ calls' = calls \cup {h} /\ UNCHANGED trouble
        /\ IF drain.at = "cards" THEN Proceed("ingress") ELSE Delivered(h)
     \/ Spend /\ UNCHANGED calls /\ KeptFrom(h)
  /\ UNCHANGED <<queue, to, said, leased, receipts, ingress, spc>>
(* enqueue_ingress_root under the item's identity *)
Deliver(h) ==
  /\ Handling(h, "ingress")
  /\ \/ ingress' = ingress \cup {h} /\ Delivered(h) /\ UNCHANGED trouble
     \/ Spend /\ KeptFrom(h) /\ ingress' \in {ingress, ingress \cup {h}}
  /\ UNCHANGED <<queue, to, said, leased, receipts, calls, spc>>
(* Fault: the drain removes whatever is queued by now. *)
FinishedAll == Held
Finished == drain.gone
DrainEnds ==
  /\ drain.on /\ drain.left = << >> /\ queue' = Without(queue, Finished) /\ drain' = AtRest
  /\ UNCHANGED <<to, said, leased, receipts, ingress, calls, spc, trouble>>
DrainDies ==
  /\ drain.on /\ Spend /\ drain' = AtRest
  /\ UNCHANGED <<queue, to, said, leased, receipts, ingress, calls, spc>>

QInit ==
  /\ queue = << >> /\ receipts = {} /\ ingress = {} /\ calls = {} /\ leased = {}
  /\ to \in [Handoffs -> Recipients] /\ said = [h \in Handoffs |-> "nothing"]
  /\ spc = [h \in Handoffs |-> "new"] /\ drain = AtRest /\ trouble = 0
Sender(h) ==
  \/ Send(h) \/ Prepare(h) \/ Transfer(h) \/ TransferRaises(h) \/ Withdraw(h) \/ Journal(h)
  \/ Unlist(h) \/ Plain(h) \/ LeaseLapses(h) \/ SenderDies(h)
QNext ==
  \/ DrainStarts \/ DrainEnds \/ DrainDies
  \/ \E h \in Handoffs : Sender(h) \/ Resume(h) \/ Cards(h) \/ Deliver(h)
QSpec == QInit /\ [][QNext]_qvars

-----------------------------------------------------------------------------
(* A handoff makes one manager turn: it is never both a continuation and a root,
   however the sender's fallback, a lapsed lease and the drain fall together. *)
OneTurn == receipts \cap ingress = {}

(* What the sender was told is accepted is still queued, or its turn is made and
   both of its cards are filed. *)
AcceptedKept ==
  \A h \in Handoffs : said[h] = "accepted" =>
    h \in Held \/ (h \in receipts \cup ingress /\ h \in calls)

(* What makes them inductive.  A handoff is past becoming a continuation once its
   sender has begun and it has neither a receipt nor a lease: so it is when the
   sender falls back, for a plain item, and when the drain turns to its cards. *)
QItems == [id : Handoffs, prepared : BOOLEAN]
QTypeOK ==
  /\ queue \in Seq(QItems) /\ drain.left \in Seq(QItems)
  /\ drain = [on |-> drain.on, left |-> drain.left, at |-> drain.at, gone |-> drain.gone]
  /\ drain.on \in BOOLEAN /\ drain.gone \subseteq Handoffs
  /\ drain.at \in {"take", "cards", "cards_only", "ingress"}
  /\ leased \subseteq Handoffs /\ receipts \subseteq Handoffs
  /\ ingress \subseteq Handoffs /\ calls \subseteq Handoffs /\ trouble \in Nat
  /\ said \in [Handoffs -> {"nothing", "accepted", "refused"}]
  /\ spc \in [Handoffs -> {"new", "prepare", "transfer", "withdraw", "journal", "remove",
                           "plain", "card", "done"}]
Past(h) == spc[h] # "new" /\ h \notin leased \cup receipts
RootsArePast ==
  /\ \A h \in ingress : Past(h)
  /\ \A h \in Handoffs : /\ spc[h] \in {"withdraw", "plain", "card"} => Past(h)
                         /\ spc[h] = "new" => h \notin leased
                         /\ spc[h] \in {"new", "prepare"} => h \notin receipts
  /\ \A i \in ToSet(queue) \cup ToSet(drain.left) :
       spc[i.id] \notin {"new", "prepare"} /\ (~i.prepared => Past(i.id))
  /\ \A h \in Handoffs : /\ Handling(h, "cards") \/ Handling(h, "ingress") => Past(h)
                         /\ Handling(h, "cards_only") => h \in receipts
(* A handoff that counts as accepted is queued, or made and filed. *)
Filed(h) == h \in receipts \cup ingress /\ h \in calls
AcceptedIsSafe ==
  /\ AcceptedKept
  /\ \A h \in Handoffs :
       /\ spc[h] \in {"transfer", "journal", "card"} => h \in Held \/ Filed(h)
       /\ spc[h] = "journal" => h \in receipts
       /\ spc[h] = "remove" => Filed(h)
       /\ spc[h] # "done" => said[h] = "nothing"
       /\ Handling(h, "ingress") => h \in calls
  /\ \A h \in drain.gone : Filed(h)
QInv == QTypeOK /\ OneTurn /\ RootsArePast /\ AcceptedIsSafe
=============================================================================
