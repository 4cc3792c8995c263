-------------------------------- MODULE Calls --------------------------------
(* Call cards between a contact and one peer (core/work_updates.py): messages
   sent and received open a call or are appended to the live one, ten idle
   seconds complete it, and every mutation of a card goes through a journal that
   several threads and processes deliver under leases.  An action is one
   transaction of _state_guard or one network call.  The mirrored card that a
   call between two local managers has on the other side is left out. *)
EXTENDS Naturals, Sequences, FiniteSets

CONSTANTS OutMsgs, InMsgs,  \* messages sent to and received from the peer
          Deliverers,       \* threads that deliver the journal
          MaxCalls,         \* calls opened
          Capacity,         \* CALL_RETRY_MAX_ENTRIES
          MaxTrouble        \* failures, crashes, lapsed leases, redeliveries

CAssumption ==
  /\ MaxCalls \in Nat \ {0} /\ Capacity \in Nat \ {0} /\ MaxTrouble \in Nat
  /\ OutMsgs \cap InMsgs = {} /\ "-" \notin OutMsgs \cup InMsgs
  /\ IsFiniteSet(Deliverers)

VARIABLES
  corr,     \* pending_calls: the live call and terminal_requested
  rec,      \* call_retry_dedupe
  jour,     \* call_retry_journal, in the order of `sequence`
  at,       \* Glass: the position of the mutation a card applied last
  step,     \* where the handling of each message is
  held,     \* the call it has read or allocated
  calls,    \* calls allocated
  role,     \* our side of a call
  del,      \* what each deliverer has in hand
  trouble,
  acc, gone \* history: accepted; given up
cvars == <<corr, rec, jour, at, step, held, calls, role, del, trouble, acc, gone>>

Msgs == OutMsgs \cup InMsgs
Cards == 1..MaxCalls
NoCall == [call |-> 0, asked |-> FALSE]
NoReceipt == [kind |-> "none", call |-> 0]
Idle == [call |-> 0, i |-> 0, tok |-> 0, res |-> "none"]
NoMsg == "-"
Items == [kind : {"create", "append", "last", "idle"}, msg : Msgs \cup {NoMsg}]
Item(kind, m) == [kind |-> kind, msg |-> m]
Hurt == trouble < MaxTrouble /\ trouble' = trouble + 1
Goes(m, s) == step' = [step EXCEPT ![m] = s]

-----------------------------------------------------------------------------
(* The journal. *)
Positions(P(_)) == {j \in DOMAIN jour : P(jour[j])}
IsDead(e) == e.st = "dead"
Blocks(e) == e.st = "pending" \/ e.create
Lane(k) == {j \in DOMAIN jour : jour[j].call = k /\ Blocks(jour[j])}
Without(j) == [n \in 1..(Len(jour) - 1) |-> IF n < j THEN jour[n] ELSE jour[n + 1]]
Oldest(S) == CHOOSE j \in S : \A n \in S : j <= n
(* _call_retry_capacity_victim: a dead letter, else the oldest mutation that has
   failed and is not leased. *)
Victims == IF Positions(IsDead) # {} THEN Positions(IsDead)
           ELSE Positions(LAMBDA e : e.failed /\ e.tok = 0)
Entry(k, kind) == [call |-> k, i |-> Len(acc[k]) + 1, create |-> kind = "create",
                   st |-> "pending", tok |-> 0, failed |-> FALSE]
(* _insert_call_retry_entries_in_state *)
Room == Len(jour) < Capacity
Insertable == Room \/ Victims # {}
Inserted(k, kind, m) ==
  LET v == Oldest(Victims)
      kept == IF Room THEN jour ELSE Without(v)
  IN /\ Insertable
     /\ jour' = Append(kept, Entry(k, kind))
     /\ gone' = IF ~Room /\ Blocks(jour[v]) THEN gone \cup {<<jour[v].call, jour[v].i>>} ELSE gone
     /\ acc' = [acc EXCEPT ![k] = Append(@, Item(kind, m))]

(* Pending mutations keep a correlation; without any a terminal one goes. *)
Swept(c, j) == IF c.asked /\ ~\E n \in DOMAIN j : j[n].call = c.call /\ Blocks(j[n])
                 THEN NoCall ELSE c
Live == corr.call # 0 /\ ~corr.asked

-----------------------------------------------------------------------------
(* A message: record_contact_call_message, and when there is no live call
   enqueue_outbound_call or enqueue_inbound_call. *)
Start(m) ==
  /\ step[m] = "new"
  /\ IF rec[m].kind = "append" THEN Goes(m, "done") /\ UNCHANGED held
     ELSE IF Live THEN Goes(m, "touch") /\ held' = [held EXCEPT ![m] = corr.call]
     ELSE Goes(m, "miss") /\ UNCHANGED held
  /\ UNCHANGED <<corr, rec, jour, at, calls, role, del, trouble, acc, gone>>
Allocate(m) == /\ calls < MaxCalls /\ calls' = calls + 1
               /\ held' = [held EXCEPT ![m] = calls + 1]
               /\ role' = [role EXCEPT ![calls + 1] = IF m \in OutMsgs THEN "out" ELSE "in"]
(* prepare_outbound_call continues a call that is live by now. *)
Miss(m) ==
  /\ step[m] = "miss"
  /\ IF m \in OutMsgs /\ Live
       THEN /\ Goes(m, "touch") /\ held' = [held EXCEPT ![m] = corr.call]
            /\ UNCHANGED <<calls, role>>
       ELSE Allocate(m) /\ Goes(m, "create")
  /\ UNCHANGED <<corr, rec, jour, at, del, trouble, acc, gone>>
Touchable(k) == corr.call = k /\ ~corr.asked
Touch(m) ==
  /\ step[m] = "touch"
  /\ Goes(m, IF Touchable(held[m]) THEN "insert" ELSE "miss")
  /\ UNCHANGED <<corr, rec, jour, at, held, calls, role, del, trouble, acc, gone>>
Response(m) == role[held[m]] = IF m \in OutMsgs THEN "in" ELSE "out"
(* Fault: the receipt is not looked at. *)
KnownNever(m) == FALSE
Known(m) == rec[m].kind # "none"
(* _append_correlated_call: an initial message that comes again re-drives its
   create; the last word of a response completes the call. *)
AppendCall(m, last) ==
  /\ step[m] = "insert" /\ (last => Response(m))
  /\ IF Known(m) THEN Goes(m, "done") /\ UNCHANGED <<rec, jour, acc, gone>>
     ELSE /\ Inserted(held[m], IF last THEN "last" ELSE "append", m)
          /\ rec' = [rec EXCEPT ![m] = [kind |-> "append", call |-> held[m]]]
          /\ Goes(m, IF last THEN "mark" ELSE "done")
  /\ UNCHANGED <<corr, at, held, calls, role, del, trouble>>
Mark(m) ==
  /\ step[m] = "mark" /\ Goes(m, "done")
  /\ corr' = IF corr.call = held[m] THEN [corr EXCEPT !.asked = TRUE] ELSE corr
  /\ UNCHANGED <<rec, jour, at, held, calls, role, del, trouble, acc, gone>>
(* _journal_call_create: a receipt leads back to the call it was given for. *)
CreateCall(m) ==
  /\ step[m] = "create" /\ Goes(m, "remember")
  /\ IF Known(m)
       THEN /\ held' = [held EXCEPT ![m] = rec[m].call]
            /\ UNCHANGED <<rec, jour, acc, gone>>
       ELSE /\ Inserted(held[m], "create", m)
            /\ rec' = [rec EXCEPT ![m] = [kind |-> "create", call |-> held[m]]]
            /\ UNCHANGED held
  /\ UNCHANGED <<corr, at, calls, role, del, trouble>>
Remember(m) ==
  /\ step[m] = "remember" /\ Goes(m, "done")
  /\ corr' = [call |-> held[m], asked |-> FALSE]
  /\ UNCHANGED <<rec, jour, at, held, calls, role, del, trouble, acc, gone>>
(* A full journal refuses the message, which stays with the inbox and comes
   again, as does one whose processing was not committed. *)
Refused(m) ==
  /\ \/ step[m] \in {"insert", "create"} /\ ~Known(m) /\ ~Insertable
     \/ step[m] = "done"
  /\ Hurt /\ Goes(m, "new")
  /\ UNCHANGED <<corr, rec, jour, at, held, calls, role, del, acc, gone>>

(* complete_inactive_calls, in one transaction.  Ten seconds without activity:
   a message that has just touched the call is appended long before. *)
Touched == \E m \in Msgs : step[m] \in {"insert", "mark"} /\ held[m] = corr.call
IdleQueued(k) == \E j \in DOMAIN jour : jour[j].call = k /\ acc[k][jour[j].i].kind = "idle"
IdleComplete ==
  /\ Live /\ ~Touched
  /\ IF IdleQueued(corr.call) THEN UNCHANGED <<jour, acc, gone>>
                              ELSE Inserted(corr.call, "idle", NoMsg)
  /\ corr' = [corr EXCEPT !.asked = TRUE]
  /\ UNCHANGED <<rec, at, step, held, calls, role, del, trouble>>
(* A card Glass still shows in progress whose correlation was overwritten. *)
IdleOrphan(k) ==
  /\ at[k] > 0 /\ corr.call # k /\ acc[k][at[k]].kind \in {"create", "append"}
  /\ ~\E i \in DOMAIN acc[k] : acc[k][i].kind = "idle"
  /\ ~\E m \in Msgs : step[m] = "remember" /\ held[m] = k      \* not yet idle
  /\ Inserted(k, "idle", NoMsg)
  /\ UNCHANGED <<corr, rec, at, step, held, calls, role, del, trouble>>
(* _prune_state *)
Prune == /\ corr' = Swept(corr, jour) /\ corr' # corr
         /\ UNCHANGED <<rec, jour, at, step, held, calls, role, del, trouble, acc, gone>>
ArchiveDead ==
  /\ \E j \in Positions(IsDead) :
        /\ jour' = Without(j)
        /\ gone' = gone \cup {<<jour[j].call, jour[j].i>>}
  /\ UNCHANGED <<corr, rec, at, step, held, calls, role, del, trouble, acc>>

-----------------------------------------------------------------------------
(* Delivery. *)
(* Fault: any entry of a lane may be claimed. *)
FirstAny(j) == TRUE
First(j) == j = Oldest(Lane(jour[j].call))
Token == Oldest({t \in 1..(Cardinality(Deliverers) + Capacity + 1) :   \* a fresh one
                   /\ \A d \in Deliverers : del[d].tok # t
                   /\ \A j \in DOMAIN jour : jour[j].tok # t})
Claim(d) ==
  /\ del[d] = Idle
  /\ \E j \in Positions(LAMBDA e : e.st = "pending" /\ e.tok = 0) :
        /\ First(j)
        /\ jour' = [jour EXCEPT ![j].tok = Token]
        /\ del' = [del EXCEPT ![d] = [call |-> jour[j].call, i |-> jour[j].i,
                                      tok |-> Token, res |-> "none"]]
  /\ UNCHANGED <<corr, rec, at, step, held, calls, role, trouble, acc, gone>>
Mine(d) == {j \in DOMAIN jour : /\ jour[j].call = del[d].call /\ jour[j].i = del[d].i
                                /\ jour[j].tok = del[d].tok}
(* The request, which lands within its lease if it lands: a patch is applied at
   the card's current revision, so it overwrites what is there. *)
Send(d, res) ==
  /\ del[d].call # 0 /\ del[d].res = "none"
  /\ del' = [del EXCEPT ![d].res = res]
  /\ res \in {"ok", "lost"} => del[d].i = 1 \/ at[del[d].call] > 0
  /\ IF res = "ok" THEN UNCHANGED trouble ELSE Hurt
  /\ at' = IF res \in {"ok", "lost"} THEN [at EXCEPT ![del[d].call] = del[d].i] ELSE at
  /\ UNCHANGED <<corr, rec, jour, step, held, calls, role, acc, gone>>
Completed(j) == /\ jour' = Without(j)
                /\ corr' = IF corr.call = jour[j].call THEN Swept(corr, jour') ELSE corr
                /\ UNCHANGED gone
Failed(j, dead) ==
  /\ jour' = [jour EXCEPT ![j].st = IF dead THEN "dead" ELSE "pending",
                          ![j].tok = 0, ![j].failed = TRUE]
  /\ gone' = IF dead /\ ~jour[j].create THEN gone \cup {<<jour[j].call, jour[j].i>>} ELSE gone
  /\ UNCHANGED corr
(* The answer counts for the holder of the lease only; `dead` is an error no
   retry can change, or the last attempt. *)
Finish(d, dead) ==
  /\ del[d].res # "none" /\ del' = [del EXCEPT ![d] = Idle]
  /\ IF dead THEN del[d].res # "ok" ELSE del[d].res # "bad"
  /\ IF Mine(d) = {} THEN UNCHANGED <<jour, corr, gone>>
     ELSE LET j == CHOOSE n \in Mine(d) : TRUE IN
          IF del[d].res = "ok" THEN Completed(j) ELSE Failed(j, dead)
  /\ UNCHANGED <<rec, at, step, held, calls, role, trouble, acc>>
(* The lease of a stalled or dead deliverer; a request that has not landed by
   then has timed out. *)
Lapse == /\ \E j \in Positions(LAMBDA e : e.tok # 0) :
              LET late == {d \in Deliverers : del[d].tok = jour[j].tok} IN
               /\ IF late # {} THEN Hurt ELSE UNCHANGED trouble
               /\ jour' = [jour EXCEPT ![j].tok = 0]
               /\ del' = [d \in Deliverers |->
                            IF d \in late /\ del[d].res = "none"
                              THEN [del[d] EXCEPT !.res = "fail"] ELSE del[d]]
         /\ UNCHANGED <<corr, rec, at, step, held, calls, role, acc, gone>>
CCrash == /\ Hurt /\ del' = [d \in Deliverers |-> Idle]
          /\ step' = [m \in Msgs |-> IF step[m] = "done" THEN "done" ELSE "new"]
          /\ UNCHANGED <<corr, rec, jour, at, held, calls, role, acc, gone>>

CInit == /\ corr = NoCall /\ rec = [m \in Msgs |-> NoReceipt] /\ jour = <<>>
         /\ at = [k \in Cards |-> 0] /\ step = [m \in Msgs |-> "new"]
         /\ held = [m \in Msgs |-> 0] /\ calls = 0 /\ role = [k \in Cards |-> "none"]
         /\ del = [d \in Deliverers |-> Idle] /\ trouble = 0
         /\ acc = [k \in Cards |-> <<>>] /\ gone = {}
CNext == \/ \E m \in Msgs : \/ Start(m) \/ Miss(m) \/ Touch(m) \/ Mark(m) \/ CreateCall(m)
                            \/ Remember(m) \/ Refused(m)
                            \/ \E last \in BOOLEAN : AppendCall(m, last)
         \/ IdleComplete \/ (\E k \in Cards : IdleOrphan(k)) \/ Prune \/ ArchiveDead
         \/ \E d \in Deliverers : \/ Claim(d)
                                  \/ \E res \in {"ok", "lost", "fail", "bad"} : Send(d, res)
                                  \/ \E dead \in BOOLEAN : Finish(d, dead)
         \/ Lapse \/ CCrash
CSpec == CInit /\ [][CNext]_cvars

-----------------------------------------------------------------------------
(* The journal delivers the mutations of every card as CallOrder promises, under
   lapsed leases, lost answers, dead letters, a full journal and crashes. *)
Settled == [k \in Cards |-> Len(acc[k]) - Cardinality(Lane(k))]
Order == INSTANCE CallOrder WITH pos <- Settled
OrderStarts == Order!OInit
OrderStep == [Order!ONext]_<<acc, Settled, at, gone>>
OrderKept == Order!OSpec
(* A message changes a call once, however often it is redelivered. *)
MessageOnce ==
  \A m \in Msgs, k \in Cards, l \in Cards : \A i \in DOMAIN acc[k], j \in DOMAIN acc[l] :
    acc[k][i].msg = m /\ acc[l][j].msg = m => k = l /\ i = j

(* What makes them inductive.  The lane of a card is what is not settled, in order;
   only its first entry has been tried; a lease has one holder, and while the
   request of the holder is out or accepted the entry is the first of its lane. *)
Entries == [call : Cards, i : Nat \ {0}, create : BOOLEAN, st : {"pending", "dead"},
            tok : Nat, failed : BOOLEAN]
CTypeOK ==
  /\ jour \in Seq(Entries) /\ Len(jour) <= Capacity
  /\ acc \in [Cards -> Seq(Items)] /\ at \in [Cards -> Nat]
  /\ del \in [Deliverers -> [call : 0..MaxCalls, i : Nat, tok : Nat,
                             res : {"none", "ok", "lost", "fail", "bad"}]]
  /\ corr \in [call : 0..MaxCalls, asked : BOOLEAN] /\ calls \in 0..MaxCalls
  /\ rec \in [Msgs -> [kind : {"none", "append", "create"}, call : 0..MaxCalls]]
  /\ held \in [Msgs -> 0..MaxCalls]
  /\ DOMAIN step = Msgs
CardsNamed == \A m \in Msgs :
  /\ step[m] \in {"touch", "insert", "mark", "create", "remember"} => held[m] # 0
  /\ rec[m].kind # "none" => rec[m].call # 0
LanesInOrder == \A k \in Cards :
  /\ Settled[k] \in 0..Len(acc[k])
  /\ \A j \in Lane(k) : jour[j].i \in (Settled[k] + 1)..Len(acc[k])
  /\ \A j, n \in Lane(k) : j < n => jour[j].i < jour[n].i
  /\ \A x \in (Settled[k] + 1)..Len(acc[k]) : \E j \in Lane(k) : jour[j].i = x
TriedIsFirst == \A j \in DOMAIN jour :
  Blocks(jour[j]) /\ (jour[j].failed \/ jour[j].tok # 0) =>
    jour[j].i = Settled[jour[j].call] + 1
DeadAreGone == \A j \in DOMAIN jour : IsDead(jour[j]) =>
  /\ jour[j].failed /\ jour[j].tok = 0
  /\ jour[j].create \/ <<jour[j].call, jour[j].i>> \in gone
LeasesHeld ==
  /\ \A d \in Deliverers : del[d].call # 0 =>
       /\ del[d].tok # 0
       /\ del[d].res = "none" => Mine(d) # {}
       /\ del[d].res = "ok" /\ Mine(d) # {} => at[del[d].call] = del[d].i
  /\ \A d, e \in Deliverers : d # e /\ del[d].tok # 0 => del[d].tok # del[e].tok
Unheard == \A m \in Msgs, k \in Cards : rec[m].kind = "none" =>
  \A i \in DOMAIN acc[k] : acc[k][i].msg # m
CInv == /\ CTypeOK /\ CardsNamed /\ LanesInOrder /\ TriedIsFirst /\ DeadAreGone
        /\ LeasesHeld /\ Unheard /\ MessageOnce
=============================================================================
