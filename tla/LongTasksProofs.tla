--------------------------- MODULE LongTasksProofs ---------------------------
(***************************************************************************)
(* The task lifecycle of MCRecords, for any roots, workers, facts, lost    *)
(* calls and crashes: a reply with a task is out only behind its terminal  *)
(* card, a reply queued on an open lifecycle is in the journal, a root     *)
(* that was taken in is held until its turn has run, and a fact leaves the *)
(* journal only when Glass has taken it.                                   *)
(*                                                                         *)
(* The invariant is LInv of LongTasks, for facts FactsInv.  Most actions   *)
(* only change the object and its journal entry, and keep the root, the    *)
(* reply and the task of both: the lemma Steady is about them.             *)
(***************************************************************************)
EXTENDS RecordsProofs

\* The variables by the names LongTasks gives them.
mem == v1
jr == v2
card == v3
queue == v7
claimed == v8
todo == v9
cur == v10
pc == v11
snd == v12
tick == v13
up == v16
done == v17
rep == v18
need == v19
USE DEF mem, jr, card, queue, claimed, todo, cur, pc, snd, tick, up, done, rep, need

-----------------------------------------------------------------------------
(* The parts of the invariant: the entry with its reply, the roots, the     *)
(* threads.                                                                 *)

CardShown == jr.open /\ jr.terminal => card[jr.run] = "terminal"
EntryPart ==
    /\ mem \in Long!Entries /\ jr \in Long!Entries /\ tick \in Nat
    /\ DOMAIN card = LRoots /\ DOMAIN rep = LRoots /\ DOMAIN need = LRoots
    /\ Long!SameEntry /\ (~mem.open => ~mem.reply)
    /\ Long!ReplyNeedsTask /\ CardShown /\ Long!ReplyAfterCard /\ Long!ReplyKept
RootPart ==
    /\ todo \subseteq LRoots /\ queue \in Seq(LRoots) /\ cur \in LRoots \cup {Long!NoRoot}
    /\ Long!RootsTaken /\ Long!RootKept
HandPart ==
    /\ pc["m"] \in Long!Replying => snd["m"] \in Long!Replies
    /\ Long!ReplyInHand
ThreadPart ==
    /\ DOMAIN pc = Long!Threads /\ DOMAIN snd = Long!Threads
    /\ pc["m"] \in {"update", "record"} => snd["m"] \in Long!Sendings
    /\ ~mem.open => pc["w"] = "idle"
    /\ up = "boot" => ~mem.open /\ cur = Long!NoRoot /\ pc["m"] = "idle"
    /\ pc["m"] = "record" /\ snd["m"].ok /\ snd["m"].kind = "end" =>
         card[snd["m"].run] = "terminal"
    /\ Long!SendAllowed /\ HandPart

LEMMA InvParts == Long!LInv <=> EntryPart /\ RootPart /\ ThreadPart
BY DEF Long!LInv, Long!LTypeOK, Long!ClosedIsQuiet, Long!TerminalIsShown, EntryPart, RootPart,
   ThreadPart, HandPart, CardShown

LEMMA InvPartsNext ==
  ASSUME EntryPart', RootPart', ThreadPart' PROVE Long!LInv'
BY DEF Long!LInv, Long!LTypeOK, Long!ClosedIsQuiet, Long!TerminalIsShown, EntryPart, RootPart,
   ThreadPart, HandPart, CardShown

-----------------------------------------------------------------------------
(* Entries                                                                  *)

Alike(e, f) ==
    /\ e.open = f.open /\ e.run = f.run /\ e.reply = f.reply
    /\ e.task = f.task /\ e.terminal = f.terminal

\* The facts of other writers change the intents only.
LEMMA MergeTyped ==
  ASSUME NEW e \in Long!Entries, jr \in Long!Entries
  PROVE  Long!MergeFacts(e) \in Long!Entries /\ Alike(Long!MergeFacts(e), e)
<1> DEFINE wk == [w \in LWorkers |->
                        IF ~Long!Newer(e, w) THEN e.work[w]
                        ELSE IF e.work[w] \in {"none", "published"}
                             THEN "published" ELSE jr.work[w]]
           ft == [w \in LWorkers |-> IF Long!Newer(e, w) THEN jr.fact[w] ELSE e.fact[w]]
<1>1. /\ e.work \in [LWorkers -> Long!Phases] /\ e.fact \in [LWorkers -> Nat]
      /\ jr.work \in [LWorkers -> Long!Phases] /\ jr.fact \in [LWorkers -> Nat]
  BY DEF Long!Entries
<1>2. wk \in [LWorkers -> Long!Phases]
  BY <1>1 DEF Long!Phases
<1>3. ft \in [LWorkers -> Nat]
  BY <1>1
<1> HIDE DEF wk, ft
<1>4. [e EXCEPT !.work = wk, !.fact = ft] \in Long!Entries
  BY <1>2, <1>3 DEF Long!Entries
<1>5. Alike([e EXCEPT !.work = wk, !.fact = ft], e)
  BY DEF Long!Entries, Alike
<1>6. Long!MergeFacts(e) = [e EXCEPT !.work = wk, !.fact = ft]
  BY DEF Long!MergeFacts, wk, ft
<1> QED
  BY <1>4, <1>5, <1>6

LEMMA FreshTyped ==
  ASSUME NEW r \in LRoots \cup {Long!NoRoot}
  PROVE  /\ Long!Fresh(r) \in Long!Entries
         /\ Long!Fresh(r).run = r /\ Long!Fresh(r).open /\ ~Long!Fresh(r).reply
         /\ ~Long!Fresh(r).terminal
<1>1. [w \in LWorkers |-> "none"] \in [LWorkers -> Long!Phases]
  BY DEF Long!Phases
<1>2. [w \in LWorkers |-> 0] \in [LWorkers -> Nat]
  OBVIOUS
<1> QED
  BY <1>1, <1>2 DEF Long!Fresh, Long!Entries

LEMMA ClosedTyped ==
  Long!Closed \in Long!Entries /\ ~Long!Closed.open /\ ~Long!Closed.reply
<1>1. Long!Fresh(Long!NoRoot) \in Long!Entries /\ ~Long!Fresh(Long!NoRoot).reply
  BY FreshTyped
<1> QED
  BY <1>1 DEF Long!Closed, Long!Entries

CardsKeep == /\ DOMAIN card' = LRoots
             /\ \A r \in LRoots : card[r] = "terminal" => card'[r] = "terminal"
\* What may be written: the same root and reply, a task if there was one, and the
\* end only when the card shows it.
Carries(e) ==
    /\ e \in Long!Entries
    /\ e.open = mem.open /\ e.run = mem.run /\ e.reply = mem.reply
    /\ mem.task => e.task
    /\ mem.open /\ e.terminal => mem.terminal \/ card'[mem.run] = "terminal"
EntryStep ==
    \/ mem' \in Long!Entries /\ Alike(mem', mem) /\ jr' = jr
    \/ \E e : Carries(e) /\ Long!Persist(e)
    \/ ~mem.open /\ mem' = mem /\ jr' \in Long!Entries /\ Alike(jr', jr)

\* The object and the journal agree after such a step, on what they agreed before.
LEMMA EntryCarried ==
  ASSUME EntryPart, EntryStep, CardsKeep, \A r : jr.open /\ jr.run = r => r \in LRoots
  PROVE  /\ mem' \in Long!Entries /\ jr' \in Long!Entries
         /\ mem'.open = mem.open /\ mem'.reply = mem.reply /\ mem'.run = mem.run
         /\ jr'.open = jr.open /\ jr'.run = jr.run /\ jr'.reply = jr.reply
         /\ jr.open /\ jr.task => jr'.task
         /\ Long!SameEntry' /\ CardShown'
<1>1. CASE mem' \in Long!Entries /\ Alike(mem', mem) /\ jr' = jr
  BY <1>1 DEF EntryPart, Alike, Long!SameEntry, CardShown, CardsKeep
<1>2. ASSUME NEW e, Carries(e), Long!Persist(e)
      PROVE  /\ mem' \in Long!Entries /\ jr' \in Long!Entries
             /\ mem'.open = mem.open /\ mem'.reply = mem.reply /\ mem'.run = mem.run
             /\ jr'.open = jr.open /\ jr'.run = jr.run /\ jr'.reply = jr.reply
             /\ jr.open /\ jr.task => jr'.task
             /\ Long!SameEntry' /\ CardShown'
  <2>1. e \in Long!Entries /\ mem' = e
    BY <1>2 DEF Carries, Long!Persist
  <2>2. Long!MergeFacts(e) \in Long!Entries /\ Alike(Long!MergeFacts(e), e)
    BY <2>1, MergeTyped DEF EntryPart
  <2>3. CASE ~mem.open
    <3>1. jr' = jr
      BY <1>2, <2>3 DEF Carries, Long!Persist
    <3> QED
      BY <1>2, <2>1, <2>3, <3>1 DEF EntryPart, Carries, Long!SameEntry, CardShown, CardsKeep
  <2>4. CASE mem.open
    <3>1. jr' = Long!MergeFacts(e)
      BY <1>2, <2>4 DEF Carries, Long!Persist
    <3>2. /\ jr.open /\ jr.run = mem.run /\ jr.reply = mem.reply
          /\ jr.task = mem.task /\ jr.terminal = mem.terminal /\ mem.run \in LRoots
      BY <2>4 DEF EntryPart, Long!SameEntry
    <3>3. e.terminal => card'[mem.run] = "terminal"
      BY <1>2, <2>4, <3>2 DEF EntryPart, CardShown, Carries, CardsKeep
    <3> HIDE DEF mem, jr
    <3>4. /\ jr'.open = e.open /\ jr'.run = e.run /\ jr'.reply = e.reply
          /\ jr'.task = e.task /\ jr'.terminal = e.terminal /\ jr' \in Long!Entries
      BY <2>2, <3>1 DEF Alike
    <3>5. e.open = mem.open /\ e.run = mem.run /\ e.reply = mem.reply /\ (mem.task => e.task)
      BY <1>2 DEF Carries
    <3> USE DEF mem, jr
    <3>6. Long!SameEntry'
      BY <2>1, <3>4 DEF Long!SameEntry
    <3>7. CardShown'
      BY <3>3, <3>4, <3>5 DEF CardShown
    <3> QED
      BY <2>1, <2>4, <3>2, <3>4, <3>5, <3>6, <3>7
  <2> QED
    BY <2>3, <2>4
<1>3. CASE ~mem.open /\ mem' = mem /\ jr' \in Long!Entries /\ Alike(jr', jr)
  BY <1>3 DEF EntryPart, Alike, Long!SameEntry, CardShown, CardsKeep
<1> QED
  BY <1>1, <1>2, <1>3 DEF EntryStep

\* The roots and what is known of their replies stay.
LEMMA RootsSteady ==
  ASSUME RootPart, UNCHANGED <<todo, queue, cur, done>>,
         jr'.open => jr.open /\ jr'.run = jr.run,
         DOMAIN rep' = LRoots, \A r \in LRoots : rep'[r] = "new" <=> rep[r] = "new"
  PROVE  RootPart'
BY DEF RootPart, Long!RootsTaken, Long!RootKept

\* A step that only changes entries, with nothing known of a thread.
LEMMA EntrySteady ==
  ASSUME EntryPart, RootPart, EntryStep, CardsKeep, tick' \in Nat, UNCHANGED <<rep, need>>
  PROVE  EntryPart'
<1>1. \A r : jr.open /\ jr.run = r => r \in LRoots
  BY DEF RootPart, Long!RootsTaken
<1>2. /\ mem' \in Long!Entries /\ jr' \in Long!Entries
      /\ mem'.open = mem.open /\ mem'.reply = mem.reply /\ mem'.run = mem.run
      /\ jr'.open = jr.open /\ jr'.run = jr.run /\ jr'.reply = jr.reply
      /\ jr.open /\ jr.task => jr'.task
      /\ Long!SameEntry' /\ CardShown'
  BY <1>1, EntryCarried
<1>3. ~mem'.open => ~mem'.reply
  BY <1>2 DEF EntryPart
<1>4. Long!ReplyNeedsTask'
  BY <1>2 DEF EntryPart, Long!ReplyNeedsTask
<1>5. Long!ReplyAfterCard' /\ Long!ReplyKept'
  BY <1>2 DEF EntryPart, Long!ReplyAfterCard, Long!ReplyKept, CardsKeep
<1> QED
  BY <1>2, <1>3, <1>4, <1>5 DEF EntryPart, CardsKeep

\* A reply that is about to be queued, or to be sent although it is in no journal.
InHand ==
    /\ snd'["m"] \in Long!Replies /\ rep[snd'["m"].run] # "new" /\ (jr.open => mem.open)
    /\ pc'["m"] \in {"stray", "straysend"} /\ need[snd'["m"].run] => snd'["m"].task
    /\ pc'["m"] = "straysend" /\ need[snd'["m"].run] => card'[snd'["m"].run] = "terminal"
ThreadsKeep ==
    /\ DOMAIN pc' = Long!Threads /\ DOMAIN snd' = Long!Threads
    /\ ~mem.open => pc'["w"] = "idle"
    /\ pc'["m"] \in {"update", "record"} => snd'["m"] \in Long!Sendings
    /\ pc'["m"] = "record" /\ snd'["m"].ok /\ snd'["m"].kind = "end" =>
         card'[snd'["m"].run] = "terminal"
    /\ \A t \in Long!Threads : pc'[t] = "send" =>
         \/ pc[t] = "send"
         \/ mem.open /\ mem.reply /\ need[mem.run] => card'[mem.run] = "terminal"
    /\ pc'["w"] \in Long!ReplyHeld => pc["w"] \in Long!ReplyHeld \/ mem.reply
    /\ pc'["m"] \in Long!Replying =>
         \/ pc'["m"] = pc["m"] /\ snd'["m"] = snd["m"]
         \/ InHand

\* Most actions: the object keeps its root and its reply, and the roots stay.
LEMMA Steady ==
  ASSUME Long!LInv, EntryStep, CardsKeep, tick' \in Nat,
         UNCHANGED <<queue, todo, cur, done, rep, need, up>>, up = "up" \/ pc' = pc,
         ThreadsKeep
  PROVE  Long!LInv'
<1>1. EntryPart /\ RootPart /\ ThreadPart
  BY InvParts
<1>2. EntryPart'
  BY <1>1, EntrySteady
<1>3. \A r : jr.open /\ jr.run = r => r \in LRoots
  BY <1>1 DEF RootPart, Long!RootsTaken
<1>4. /\ mem'.open = mem.open /\ mem'.reply = mem.reply /\ mem'.run = mem.run
      /\ jr'.open = jr.open /\ jr'.run = jr.run
  BY <1>1, <1>3, EntryCarried
<1>5. RootPart'
  <2>1. DOMAIN rep' = LRoots /\ rep' = rep
    BY <1>1 DEF EntryPart
  <2> QED
    BY <1>1, <1>4, <2>1, RootsSteady
<1>6. mem.open => mem.run \in LRoots
  BY <1>1, <1>3 DEF EntryPart, Long!SameEntry
<1>7. Long!SendAllowed'
  BY <1>1, <1>4, <1>6 DEF ThreadsKeep, ThreadPart, Long!SendAllowed, CardsKeep
<1>8. HandPart'
  <2>1. pc'["w"] \in Long!ReplyHeld => mem'.reply
    BY <1>1, <1>4 DEF ThreadsKeep, ThreadPart, HandPart, Long!ReplyInHand
  <2>2. CASE pc'["m"] = pc["m"] /\ snd'["m"] = snd["m"]
    <3>1. pc["m"] \in Long!Replying => snd["m"].run \in LRoots
      BY <1>1 DEF ThreadPart, HandPart, Long!Replies
    <3> QED
      BY <1>1, <1>4, <2>1, <2>2, <3>1 DEF ThreadPart, HandPart, Long!ReplyInHand, CardsKeep,
         Long!Replying
  <2>3. CASE InHand
    BY <1>4, <2>1, <2>3 DEF InHand, HandPart, Long!ReplyInHand
  <2>4. CASE pc'["m"] \notin Long!Replying
    BY <2>1, <2>4 DEF HandPart, Long!ReplyInHand, Long!Replying
  <2> QED
    BY <2>2, <2>3, <2>4 DEF ThreadsKeep
<1>9. ThreadPart'
  BY <1>1, <1>4, <1>7, <1>8 DEF ThreadPart, ThreadsKeep
<1> QED
  BY <1>2, <1>5, <1>9, InvPartsNext

\* What is in hand of a reply: nothing, or what it was.
LEMMA NoneInHand ==
  ASSUME pc'["m"] \in {"idle", "run"}, pc'["w"] \in Long!ReplyHeld => mem'.reply
  PROVE  HandPart'
BY DEF HandPart, Long!ReplyInHand, Long!Replying

LEMMA HandKept ==
  ASSUME ThreadPart, pc'["m"] = pc["m"], snd'["m"] = snd["m"],
         pc'["w"] \in Long!ReplyHeld => mem'.reply, need' = need,
         \A r \in LRoots : card[r] = "terminal" => card'[r] = "terminal",
         \A r \in LRoots : rep[r] # "new" => rep'[r] # "new",
         jr'.open => mem'.open \/ (jr.open /\ mem'.open = mem.open)
  PROVE  HandPart'
<1>1. pc["m"] \in Long!Replying => snd["m"].run \in LRoots
  BY DEF ThreadPart, HandPart, Long!Replies
<1> QED
  BY <1>1 DEF ThreadPart, HandPart, Long!ReplyInHand, Long!Replying

\* Where the threads are: nobody moves, or one moves on.
LEMMA StandStill ==
  ASSUME Long!LInv, CardsKeep, UNCHANGED <<pc, snd>>
  PROVE  ThreadsKeep
<1>1. ThreadPart
  BY InvParts
<1> QED
  BY <1>1 DEF ThreadPart, ThreadsKeep, CardsKeep, Long!Sendings

LEMMA MoveOn ==
  ASSUME Long!LInv, CardsKeep, NEW t \in Long!Threads, NEW l,
         l \notin {"send", "update", "record", "reply", "queued", "stray", "straysend"},
         t = "w" /\ l \in {"flush", "fdeliver", "fsettle", "fcomplete"} =>
           mem.reply \/ pc[t] \in Long!ReplyHeld,
         pc' = [pc EXCEPT ![t] = l],
         DOMAIN snd' = Long!Threads, t = "w" => mem.open /\ snd'["m"] = snd["m"]
  PROVE  ThreadsKeep
<1>1. ThreadPart
  BY InvParts
<1>2. /\ DOMAIN pc' = Long!Threads /\ pc'[t] = l
      /\ \A u \in Long!Threads : u # t => pc'[u] = pc[u]
  BY <1>1 DEF ThreadPart
<1>3. CASE t = "m"
  BY <1>1, <1>2, <1>3 DEF ThreadPart, ThreadsKeep, Long!Threads, Long!Replying
<1>4. CASE t = "w"
  <2>1. pc'["w"] \in Long!ReplyHeld => pc["w"] \in Long!ReplyHeld \/ mem.reply
    BY <1>2, <1>4 DEF Long!ReplyHeld
  <2> QED
    BY <1>1, <1>2, <1>4, <2>1 DEF ThreadPart, ThreadsKeep, Long!Threads, CardsKeep, Long!Sendings
<1> QED
  BY <1>3, <1>4 DEF Long!Threads

-----------------------------------------------------------------------------
(* What the actions write                                                   *)

LEMMA AlikeCarries ==
  ASSUME NEW e \in Long!Entries, Alike(e, mem) PROVE Carries(e)
BY DEF Alike, Carries

LEMMA SameCards == ASSUME Long!LInv, card' = card PROVE CardsKeep
BY InvParts DEF EntryPart, CardsKeep

\* The intents of the workers
LEMMA FactTyped ==
  ASSUME NEW e \in Long!Entries, NEW w, tick' \in Nat
  PROVE  Long!Fact(e, w) \in Long!Entries /\ Alike(Long!Fact(e, w), e)
<1> DEFINE wk == [e.work EXCEPT ![w] = "launched"]
           ft == [e.fact EXCEPT ![w] = tick']
<1>1. wk \in [LWorkers -> Long!Phases] /\ ft \in [LWorkers -> Nat]
  BY DEF Long!Entries, Long!Phases
<1>2. Long!Fact(e, w) = [e EXCEPT !.work = wk, !.fact = ft]
  BY DEF Long!Fact, Long!Entries
<1> HIDE DEF wk, ft
<1> QED
  BY <1>1, <1>2 DEF Long!Entries, Alike

LEMMA DiscardTyped ==
  ASSUME NEW e \in Long!Entries, NEW w, tick \in Nat
  PROVE  Long!DiscardIntent(e, w) \in Long!Entries /\ Alike(Long!DiscardIntent(e, w), e)
<1> DEFINE wk == [e.work EXCEPT ![w] = "none"]
           mk == [e.mark EXCEPT ![w] = tick]
<1>1. wk \in [LWorkers -> Long!Phases] /\ mk \in [LWorkers -> Nat]
  BY DEF Long!Entries, Long!Phases
<1>2. Long!DiscardIntent(e, w) = [e EXCEPT !.work = wk, !.mark = mk]
  BY DEF Long!DiscardIntent, Long!Entries
<1> HIDE DEF wk, mk
<1> QED
  BY <1>1, <1>2 DEF Long!Entries, Alike

LEMMA PhaseTyped ==
  ASSUME NEW e \in Long!Entries, NEW w, NEW p \in Long!Phases
  PROVE  /\ [e EXCEPT !.work[w] = p] \in Long!Entries
         /\ Alike([e EXCEPT !.work[w] = p], e)
<1> DEFINE wk == [e.work EXCEPT ![w] = p]
<1>1. wk \in [LWorkers -> Long!Phases]
  BY DEF Long!Entries
<1>2. [e EXCEPT !.work[w] = p] = [e EXCEPT !.work = wk]
  BY DEF Long!Entries
<1> HIDE DEF wk
<1> QED
  BY <1>1, <1>2 DEF Long!Entries, Alike

LEMMA DiscardedTyped ==
  ASSUME NEW e \in Long!Entries, tick \in Nat
  PROVE  Long!Discarded(e) \in Long!Entries /\ Alike(Long!Discarded(e), e)
<1> DEFINE wk == [w \in LWorkers |-> IF e.work[w] = "prepared" THEN e.work[w] ELSE "none"]
           mk == [w \in LWorkers |-> IF e.work[w] \in {"launched", "published"} THEN tick
                                     ELSE e.mark[w]]
<1>1. wk \in [LWorkers -> Long!Phases] /\ mk \in [LWorkers -> Nat]
  BY DEF Long!Entries, Long!Phases
<1>2. Long!Discarded(e) = [e EXCEPT !.work = wk, !.mark = mk]
  BY DEF Long!Discarded, Long!Entries
<1> HIDE DEF wk, mk
<1> QED
  BY <1>1, <1>2 DEF Long!Entries, Alike

-----------------------------------------------------------------------------
(* The manager's turn                                                       *)

LEMMA PrepareStep == ASSUME Long!LInv, Long!Prepare PROVE Long!LInv'
<1> DEFINE e == [mem EXCEPT !.task = TRUE, !.create = TRUE, !.making = TRUE]
           s == [w |-> Long!NoRoot, kind |-> "create", run |-> mem.run, ok |-> FALSE]
<1>1. EntryPart /\ RootPart /\ ThreadPart
  BY InvParts
<1>2. CardsKeep /\ tick' \in Nat
  BY <1>1, SameCards DEF Long!Prepare, EntryPart
<1>3. Carries(e)
  BY <1>1 DEF Carries, EntryPart, Long!Entries
<1>4. EntryStep
  BY <1>3 DEF EntryStep, Long!Prepare
<1>5. s \in Long!Sendings
  <2>1. mem.run \in LRoots
    BY <1>1 DEF EntryPart, RootPart, Long!Prepare, Long!SameEntry, Long!RootsTaken
  <2> QED
    BY <2>1 DEF Long!Sendings
<1>6. snd' = [snd EXCEPT !["m"] = s] /\ pc' = [pc EXCEPT !["m"] = "update"]
  BY DEF Long!Prepare, Long!Goto
<1> HIDE DEF s
<1>7. ThreadsKeep
  BY <1>1, <1>5, <1>6 DEF ThreadPart, ThreadsKeep, Long!Threads, Long!Replying
<1> QED
  BY <1>2, <1>4, <1>7, Steady DEF Long!Prepare, Long!Turn

LEMMA IntendStep ==
  ASSUME Long!LInv, NEW k \in {"block", "resolve", "end"}, Long!Intend(k) PROVE Long!LInv'
<1> DEFINE s == [w |-> Long!NoRoot, kind |-> k, run |-> mem.run, ok |-> FALSE]
<1>1. EntryPart /\ RootPart /\ ThreadPart
  BY InvParts
<1>2. CardsKeep /\ tick' \in Nat
  BY <1>1, SameCards DEF Long!Intend, EntryPart
<1>4. EntryStep
  BY <1>1 DEF EntryStep, Long!Intend, EntryPart, Alike
<1>5. s \in Long!Sendings
  <2>1. mem.run \in LRoots
    BY <1>1 DEF EntryPart, RootPart, Long!Intend, Long!SameEntry, Long!RootsTaken
  <2> QED
    BY <2>1 DEF Long!Sendings
<1>6. snd' = [snd EXCEPT !["m"] = s] /\ pc' = [pc EXCEPT !["m"] = "update"]
  BY DEF Long!Intend, Long!Goto
<1> HIDE DEF s
<1>7. ThreadsKeep
  BY <1>1, <1>5, <1>6 DEF ThreadPart, ThreadsKeep, Long!Threads, Long!Replying
<1> QED
  BY <1>2, <1>4, <1>7, Steady DEF Long!Intend, Long!Turn

\* Glass: a terminal card stays terminal, and an accepted end makes it so.
LEMMA CardMoved ==
  ASSUME Long!LInv, NEW r, NEW k \in {"create", "block", "resolve", "end"},
         card' = [card EXCEPT ![r] = Long!Moved(@, k)]
  PROVE  CardsKeep /\ (r \in LRoots /\ k = "end" => card'[r] = "terminal")
<1>1. DOMAIN card = LRoots
  BY InvParts DEF EntryPart
<1>2. Long!Moved("terminal", k) = "terminal" /\ (k = "end" => \A c : Long!Moved(c, k) = "terminal")
  BY DEF Long!Moved
<1> QED
  BY <1>1, <1>2 DEF CardsKeep

LEMMA SendUpdateStep ==
  ASSUME Long!LInv, NEW out \in Long!Outs, Long!SendUpdate(out) PROVE Long!LInv'
<1> DEFINE s == snd["m"]
           s2 == [s EXCEPT !.ok = out = "ok"]
<1>1. EntryPart /\ RootPart /\ ThreadPart
  BY InvParts
<1>2. s \in Long!Sendings
  BY <1>1 DEF ThreadPart, Long!SendUpdate
<1>3. /\ card' = card \/ card' = [card EXCEPT ![s.run] = Long!Moved(@, s.kind)]
      /\ out = "ok" => card' = [card EXCEPT ![s.run] = Long!Moved(@, s.kind)]
  BY DEF Long!SendUpdate
<1>4. CardsKeep /\ (out = "ok" /\ s.kind = "end" => card'[s.run] = "terminal")
  BY <1>2, <1>3, SameCards, CardMoved DEF Long!Sendings
<1>5. EntryStep /\ tick' \in Nat
  BY <1>1 DEF EntryStep, Long!SendUpdate, EntryPart, Alike
<1>6. snd' = [snd EXCEPT !["m"] = s2] /\ pc' = [pc EXCEPT !["m"] = "record"]
  BY DEF Long!SendUpdate, Long!Goto
<1>7. s2 \in Long!Sendings /\ s2.run = s.run /\ s2.kind = s.kind /\ (s2.ok => out = "ok")
  BY <1>2 DEF Long!Sendings
<1> HIDE DEF s2
<1>8. ThreadsKeep
  BY <1>1, <1>4, <1>6, <1>7 DEF ThreadPart, ThreadsKeep, Long!Threads, Long!Replying
<1> QED
  BY <1>4, <1>5, <1>8, Steady DEF Long!SendUpdate

LEMMA RecordUpdateStep == ASSUME Long!LInv, Long!RecordUpdate PROVE Long!LInv'
<1> DEFINE s == snd["m"]
           e == [mem EXCEPT !.making = FALSE]
<1>1. EntryPart /\ RootPart /\ ThreadPart
  BY InvParts
<1>2. CardsKeep /\ tick' \in Nat
  BY <1>1, SameCards DEF Long!RecordUpdate, EntryPart
<1>3. s \in Long!Sendings /\ (s.ok /\ s.kind = "end" => card[s.run] = "terminal")
  BY <1>1 DEF ThreadPart, Long!RecordUpdate
<1>4. e \in Long!Entries /\ Alike(e, mem)
  BY <1>1 DEF EntryPart, Long!Entries, Alike
<1>5. ASSUME mem.open, mem.run = s.run PROVE EntryStep
  <2>1. Carries(e)
    BY <1>4, AlikeCarries
  <2>2. ASSUME s.ok PROVE Carries(Long!Recorded(e, s.kind))
    <3> HIDE DEF e
    <3>1. s.kind = "end" => card'[mem.run] = "terminal"
      BY <1>3, <1>5, <2>2 DEF Long!RecordUpdate
    <3> HIDE DEF s
    <3>2. s.kind \in {"create", "block", "resolve", "end"}
      BY <1>3 DEF Long!Sendings
    <3>3. CASE s.kind = "create"
      BY <1>4, <3>3 DEF Carries, Alike, Long!Recorded, Long!Entries
    <3>4. CASE s.kind = "block"
      BY <1>4, <3>4 DEF Carries, Alike, Long!Recorded, Long!Entries
    <3>5. CASE s.kind = "resolve"
      BY <1>4, <3>5 DEF Carries, Alike, Long!Recorded, Long!Entries
    <3>6. CASE s.kind = "end"
      BY <1>4, <3>1, <3>6 DEF Carries, Alike, Long!Recorded, Long!Entries
    <3> QED
      BY <3>2, <3>3, <3>4, <3>5, <3>6
  <2> QED
    BY <1>5, <2>1, <2>2 DEF Long!RecordUpdate, EntryStep
<1>6. EntryStep
  <2>1. CASE ~(mem.open /\ mem.run = s.run)
    BY <1>1, <2>1 DEF Long!RecordUpdate, EntryStep, Long!Unsaved, EntryPart, Alike
  <2> QED
    BY <1>5, <2>1
<1>7. ThreadsKeep
  <2>1. /\ pc' = [pc EXCEPT !["m"] = "run"] /\ DOMAIN snd' = Long!Threads
    BY <1>1 DEF Long!RecordUpdate, Long!Goto, ThreadPart
  <2> QED
    BY <1>2, <2>1, MoveOn DEF Long!Threads
<1> QED
  BY <1>2, <1>6, <1>7, Steady DEF Long!RecordUpdate

LEMMA EnsureStep ==
  ASSUME Long!LInv, NEW t \in Long!Threads, NEW out, Long!Ensure(t, out) PROVE Long!LInv'
<1> DEFINE e == [mem EXCEPT !.conf = TRUE, !.create = FALSE]
<1>1. EntryPart
  BY InvParts
<1>2. CardsKeep
  BY SameCards, CardMoved DEF Long!Ensure
<1>3. Carries(e) /\ Carries(mem)
  BY <1>1 DEF Carries, EntryPart, Long!Entries
<1>4. Long!Persist(e) \/ Long!Persist(mem)
  BY DEF Long!Ensure
<1>5. EntryStep
  BY <1>3, <1>4 DEF EntryStep
<1>6. ThreadsKeep
  BY <1>2, StandStill DEF Long!Ensure
<1> QED
  BY <1>1, <1>2, <1>5, <1>6, Steady DEF Long!Ensure, EntryPart

LEMMA DeferStep == ASSUME Long!LInv, Long!Defer PROVE Long!LInv'
<1>1. EntryPart /\ CardsKeep
  BY InvParts, SameCards DEF Long!Defer
<1>2. Carries([mem EXCEPT !.deferred = "infra"])
  BY <1>1 DEF Carries, EntryPart, Long!Entries
<1>3. EntryStep
  BY <1>2 DEF EntryStep, Long!Defer
<1>4. ThreadsKeep
  BY <1>1, StandStill DEF Long!Defer
<1> QED
  BY <1>1, <1>3, <1>4, Steady DEF Long!Defer, Long!Turn, EntryPart

-----------------------------------------------------------------------------
(* Workers and their facts                                                  *)

LEMMA JournalWorkerStep ==
  ASSUME Long!LInv, NEW w \in LWorkers, Long!JournalWorker(w) PROVE Long!LInv'
<1> DEFINE e == [mem EXCEPT !.work[w] = "prepared", !.fact[w] = tick', !.mark[w] = 0]
           wk == [mem.work EXCEPT ![w] = "prepared"]
           ft == [mem.fact EXCEPT ![w] = tick']
           mk == [mem.mark EXCEPT ![w] = 0]
<1>1. EntryPart /\ ThreadPart /\ CardsKeep /\ tick' \in Nat
  BY InvParts, SameCards DEF Long!JournalWorker, Long!Stamp, EntryPart
<1>2. /\ wk \in [LWorkers -> Long!Phases] /\ ft \in [LWorkers -> Nat]
      /\ mk \in [LWorkers -> Nat]
  BY <1>1 DEF EntryPart, Long!Entries, Long!Phases
<1>3. e = [mem EXCEPT !.work = wk, !.fact = ft, !.mark = mk]
  BY <1>1 DEF EntryPart, Long!Entries
<1> HIDE DEF wk, ft, mk
<1>4. e \in Long!Entries /\ Alike(e, mem)
  BY <1>1, <1>2, <1>3 DEF EntryPart, Long!Entries, Alike
<1>5. Long!Persist(e)
  BY DEF Long!JournalWorker
<1> HIDE DEF e
<1>6. EntryStep
  BY <1>4, <1>5, AlikeCarries DEF EntryStep
<1>7. ThreadsKeep
  <2>1. pc' = [pc EXCEPT !["m"] = "launch"] /\ DOMAIN snd' = Long!Threads
    BY <1>1 DEF Long!JournalWorker, Long!Goto, ThreadPart
  <2> QED
    BY <1>1, <2>1, MoveOn DEF Long!Threads
<1> QED
  BY <1>1, <1>6, <1>7, Steady DEF Long!JournalWorker, Long!Turn

LEMMA LaunchWorkerStep == ASSUME Long!LInv, Long!LaunchWorker PROVE Long!LInv'
<1>1. EntryPart /\ ThreadPart /\ CardsKeep
  BY InvParts, SameCards DEF Long!LaunchWorker
<1>2. EntryStep /\ tick' \in Nat
  BY <1>1 DEF EntryStep, Long!LaunchWorker, EntryPart, Alike
<1>3. \E l \in {"launched", "unlaunched"} : pc' = [pc EXCEPT !["m"] = l]
  BY DEF Long!LaunchWorker, Long!Goto
<1>4. DOMAIN snd' = Long!Threads
  BY <1>1 DEF Long!LaunchWorker, ThreadPart
<1>5. ThreadsKeep
  BY <1>1, <1>3, <1>4, MoveOn DEF Long!Threads
<1> QED
  BY <1>1, <1>2, <1>5, Steady DEF Long!LaunchWorker

\* The turn is back from a launch: the intent is marked or discarded.
LEMMA Returns ==
  ASSUME Long!LInv, pc' = [pc EXCEPT !["m"] = "run"],
         snd' = [snd EXCEPT !["m"] = Long!Nothing], card' = card
  PROVE  CardsKeep /\ ThreadsKeep
<1>1. DOMAIN snd' = Long!Threads /\ CardsKeep
  BY InvParts, SameCards DEF ThreadPart
<1> QED
  BY <1>1, MoveOn DEF Long!Threads

LEMMA UnsavedSteps ==
  ASSUME Long!LInv, Long!Unsaved PROVE EntryStep
BY InvParts DEF Long!Unsaved, EntryStep, EntryPart, Alike

LEMMA PersistSteps ==
  ASSUME NEW e \in Long!Entries, Alike(e, mem), Long!Persist(e) PROVE EntryStep
BY AlikeCarries DEF EntryStep

LEMMA MarkStartedStep == ASSUME Long!LInv, Long!MarkStarted PROVE Long!LInv'
<1> DEFINE e == Long!Fact(mem, snd["m"].w)
<1>1. EntryPart /\ tick' \in Nat
  BY InvParts DEF Long!MarkStarted, Long!Stamp, EntryPart
<1>2. Long!Persist(e) \/ Long!Unsaved
  BY DEF Long!MarkStarted
<1>3. e \in Long!Entries /\ Alike(e, mem)
  BY <1>1, FactTyped DEF EntryPart
<1> HIDE DEF e
<1>4. EntryStep
  BY <1>2, <1>3, UnsavedSteps, PersistSteps
<1>5. CardsKeep /\ ThreadsKeep
  BY Returns DEF Long!MarkStarted, Long!Goto
<1> QED
  BY <1>1, <1>4, <1>5, Steady DEF Long!MarkStarted

LEMMA DiscardWorkerStep == ASSUME Long!LInv, Long!DiscardWorker PROVE Long!LInv'
<1> DEFINE e == Long!DiscardIntent(mem, snd["m"].w)
<1>1. EntryPart /\ tick' \in Nat
  BY InvParts DEF Long!DiscardWorker, EntryPart
<1>2. Long!Persist(e) \/ Long!Unsaved
  BY DEF Long!DiscardWorker
<1>3. e \in Long!Entries /\ Alike(e, mem)
  BY <1>1, DiscardTyped DEF EntryPart
<1> HIDE DEF e
<1>4. EntryStep
  BY <1>2, <1>3, UnsavedSteps, PersistSteps
<1>5. CardsKeep /\ ThreadsKeep
  BY Returns DEF Long!DiscardWorker, Long!Goto
<1> QED
  BY <1>1, <1>4, <1>5, Steady DEF Long!DiscardWorker

\* In the file, when no object is open.
LEMMA RecordPendingSteps ==
  ASSUME Long!LInv, tick' \in Nat, NEW w, Long!RecordPending(w) PROVE EntryStep
<1>1. EntryPart
  BY InvParts
<1>2. /\ Long!Fact(mem, w) \in Long!Entries /\ Alike(Long!Fact(mem, w), mem)
      /\ Long!Fact(jr, w) \in Long!Entries /\ Alike(Long!Fact(jr, w), jr)
  BY <1>1, FactTyped DEF EntryPart
<1>3. CASE Long!Persist(Long!Fact(mem, w))
  BY <1>2, <1>3, PersistSteps
<1>4. CASE ~mem.open /\ jr' = Long!Fact(jr, w) /\ UNCHANGED mem
  BY <1>2, <1>4 DEF EntryStep
<1>5. CASE Long!Unsaved
  BY <1>5, UnsavedSteps
<1> QED
  BY <1>3, <1>4, <1>5 DEF Long!RecordPending

\* A worker's fact comes at any time, even before recovery.
LEMMA WorkerFactStep ==
  ASSUME Long!LInv, NEW w \in LWorkers, NEW last, NEW out, Long!WorkerFact(w, last, out)
  PROVE  Long!LInv'
<1>1. EntryPart /\ CardsKeep /\ tick' \in Nat
  BY InvParts, SameCards DEF Long!WorkerFact, Long!Stamp, EntryPart
<1>2. EntryStep
  BY <1>1, UnsavedSteps, RecordPendingSteps DEF Long!WorkerFact
<1>3. ThreadsKeep
  BY <1>1, StandStill DEF Long!WorkerFact
<1> QED
  BY <1>1, <1>2, <1>3, Steady DEF Long!WorkerFact

LEMMA ReconcileWorkerStep ==
  ASSUME Long!LInv, NEW w \in LWorkers, Long!ReconcileWorker(w) PROVE Long!LInv'
<1>1. EntryPart /\ CardsKeep /\ tick' \in Nat
  BY InvParts, SameCards DEF Long!ReconcileWorker, Long!Stamp, EntryPart
<1>2. /\ Long!Fact(mem, w) \in Long!Entries /\ Alike(Long!Fact(mem, w), mem)
      /\ Long!DiscardIntent(mem, w) \in Long!Entries /\ Alike(Long!DiscardIntent(mem, w), mem)
  BY <1>1, FactTyped, DiscardTyped DEF EntryPart
<1>3. EntryStep
  BY <1>2, PersistSteps DEF Long!ReconcileWorker
<1>4. ThreadsKeep
  BY <1>1, StandStill DEF Long!ReconcileWorker
<1> QED
  BY <1>1, <1>3, <1>4, Steady DEF Long!ReconcileWorker

LEMMA DeliverStartStep ==
  ASSUME Long!LInv, NEW t \in Long!Threads, NEW w \in LWorkers, Long!DeliverStart(t, w)
  PROVE  Long!LInv'
<1>1. EntryPart /\ ThreadPart /\ CardsKeep /\ tick' \in Nat
  BY InvParts, SameCards DEF Long!DeliverStart, EntryPart
<1>2. EntryStep
  BY <1>1, MergeTyped DEF Long!DeliverStart, EntryStep, EntryPart
<1>3. /\ \E l \in {"fdeliver", "deliver"} :
           pc' = [pc EXCEPT ![t] = l] /\ (l = "fdeliver" => pc[t] \in Long!ReplyHeld)
      /\ DOMAIN snd' = Long!Threads /\ (t = "w" => mem.open /\ snd'["m"] = snd["m"])
  <2>1. \E s : snd' = [snd EXCEPT ![t] = s]
    BY DEF Long!DeliverStart
  <2>2. mem.open /\ \E l \in {"fdeliver", "deliver"} :
          pc' = [pc EXCEPT ![t] = l] /\ (l = "fdeliver" => pc[t] \in Long!ReplyHeld)
    BY DEF Long!DeliverStart, Long!Goto, Long!ReplyHeld
  <2> QED
    BY <1>1, <2>1, <2>2 DEF ThreadPart, Long!Threads
<1>4. ThreadsKeep
  BY <1>1, <1>3, MoveOn
<1> QED
  BY <1>1, <1>2, <1>4, Steady DEF Long!DeliverStart

LEMMA DeliveredStep ==
  ASSUME Long!LInv, NEW t \in Long!Threads, NEW out, Long!Delivered(t, out) PROVE Long!LInv'
<1> DEFINE s == snd[t]
           w == s.w
           f == [mem EXCEPT !.work[w] = "launched", !.fact[w] = tick + 1]
           g == [f EXCEPT !.work[w] = "published"]
           e == Long!MergeFacts(mem)
<1>1. EntryPart /\ ThreadPart /\ CardsKeep /\ tick' \in Nat
  BY InvParts, SameCards DEF Long!Delivered, Long!Stamp, EntryPart
<1>2. \/ Long!Unsaved
      \/ tick' = tick + 1 /\ Long!Persist(g)
      \/ Long!Persist(e)
      \/ Long!Persist([e EXCEPT !.work[w] = "published"])
      \/ Long!Persist(Long!DiscardIntent(e, w))
  BY DEF Long!Delivered, Long!AfterAccepted, Long!Stamp
<1> HIDE DEF e, f, g, w
<1>3. e \in Long!Entries /\ Alike(e, mem)
  BY <1>1, MergeTyped DEF e, EntryPart
<1>4. [e EXCEPT !.work[w] = "published"] \in Long!Entries
      /\ Alike([e EXCEPT !.work[w] = "published"], mem)
  BY <1>3, PhaseTyped DEF Alike, Long!Phases
<1>5. Long!DiscardIntent(e, w) \in Long!Entries /\ Alike(Long!DiscardIntent(e, w), mem)
  BY <1>1, <1>3, DiscardTyped DEF Alike, EntryPart
<1>6. ASSUME tick' = tick + 1 PROVE g \in Long!Entries /\ Alike(g, mem)
  <2>1. f = Long!Fact(mem, w)
    BY <1>6 DEF f, Long!Fact
  <2>2. f \in Long!Entries /\ Alike(f, mem)
    BY <1>1, <2>1, FactTyped DEF EntryPart
  <2> QED
    BY <2>2, PhaseTyped DEF g, Alike, Long!Phases
<1>7. EntryStep
  BY <1>2, <1>3, <1>4, <1>5, <1>6, UnsavedSteps, PersistSteps
<1>8. /\ \E l \in {"flush", "run", "idle"} :
           pc' = [pc EXCEPT ![t] = l] /\ (l = "flush" => pc[t] \in Long!ReplyHeld)
      /\ DOMAIN snd' = Long!Threads /\ (t = "w" => mem.open /\ snd'["m"] = snd["m"])
  <2>1. \E x : snd' = [snd EXCEPT ![t] = x]
    BY DEF Long!Delivered
  <2>2. \E l \in {"flush", "run", "idle"} :
          pc' = [pc EXCEPT ![t] = l] /\ (l = "flush" => pc[t] \in Long!ReplyHeld)
    BY DEF Long!Delivered, Long!Goto, Long!DeliverBack, Long!Home, Long!ReplyHeld
  <2>3. t = "w" => pc["w"] # "idle"
    BY DEF Long!Delivered
  <2> QED
    BY <1>1, <2>1, <2>2, <2>3 DEF ThreadPart, Long!Threads
<1>9. ThreadsKeep
  BY <1>1, <1>8, MoveOn
<1> QED
  BY <1>1, <1>7, <1>9, Steady DEF Long!Delivered

-----------------------------------------------------------------------------
(* The watcher, the settlement and the card                                 *)

LEMMA DueStep ==
  ASSUME Long!LInv, Long!FlushDue \/ Long!SettleDue PROVE Long!LInv'
<1>1. EntryPart /\ ThreadPart /\ CardsKeep /\ tick' \in Nat
  BY InvParts, SameCards DEF Long!FlushDue, Long!SettleDue, EntryPart
<1>2. EntryStep
  BY <1>1 DEF Long!FlushDue, Long!SettleDue, EntryStep, EntryPart, Alike
<1>3. /\ \E l \in {"flush", "settle"} :
           pc' = [pc EXCEPT !["w"] = l] /\ (l = "flush" => mem.reply)
      /\ mem.open /\ snd' = snd
  BY DEF Long!FlushDue, Long!SettleDue, Long!Goto
<1>4. ThreadsKeep
  BY <1>1, <1>3, MoveOn DEF Long!Threads, ThreadPart
<1> QED
  BY <1>1, <1>2, <1>4, Steady DEF Long!FlushDue, Long!SettleDue

\* A thread with work in hand goes on; a watcher has it only while the object is open.
LEMMA GoOn ==
  ASSUME Long!LInv, CardsKeep, NEW t \in Long!Threads, NEW l,
         l \notin {"send", "update", "record", "reply", "queued", "stray", "straysend"},
         t = "w" /\ l \in {"flush", "fdeliver", "fsettle", "fcomplete"} =>
           mem.reply \/ pc[t] \in Long!ReplyHeld,
         pc' = [pc EXCEPT ![t] = l], snd' = snd, pc[t] # "idle"
  PROVE  ThreadsKeep
<1>1. ThreadPart
  BY InvParts
<1> QED
  BY <1>1, MoveOn DEF ThreadPart

\* A thread may go on to send.
LEMMA GoSend ==
  ASSUME Long!LInv, CardsKeep, NEW t \in Long!Threads, pc' = [pc EXCEPT ![t] = "send"],
         snd' = snd, pc[t] # "idle", pc[t] \in Long!ReplyHeld,
         mem.open /\ mem.reply /\ need[mem.run] => card'[mem.run] = "terminal"
  PROVE  ThreadsKeep
<1>1. ThreadPart
  BY InvParts
<1>2. /\ DOMAIN pc' = Long!Threads /\ pc'[t] = "send"
      /\ \A u \in Long!Threads : u # t => pc'[u] = pc[u]
  BY <1>1 DEF ThreadPart
<1> QED
  BY <1>1, <1>2 DEF ThreadPart, ThreadsKeep, Long!Threads, CardsKeep, Long!Sendings, Long!Replying

\* A reply that was queued with a task is behind it.
LEMMA TaskShown ==
  ASSUME Long!LInv, mem.open, mem.reply, need[mem.run]
  PROVE  mem.task /\ mem.run \in LRoots /\ (mem.terminal => card[mem.run] = "terminal")
BY InvParts DEF EntryPart, RootPart, Long!SameEntry, Long!ReplyNeedsTask, Long!RootsTaken, CardShown

LEMMA DecideStep ==
  ASSUME Long!LInv, NEW t \in Long!Threads, Long!Decide(t) PROVE Long!LInv'
<1> DEFINE e == [mem EXCEPT !.settle = TRUE]
<1>1. EntryPart /\ ThreadPart /\ CardsKeep /\ tick' \in Nat
  BY InvParts, SameCards DEF Long!Decide, EntryPart
<1>2. e \in Long!Entries /\ Alike(e, mem)
  BY <1>1 DEF EntryPart, Long!Entries, Alike
<1>3. Long!Persist(e) \/ Long!Unsaved
  BY DEF Long!Decide
<1> HIDE DEF e
<1>4. EntryStep
  BY <1>2, <1>3, UnsavedSteps, PersistSteps
<1>5. snd' = snd /\ card' = card /\ need' = need /\ pc[t] # "idle" /\ pc[t] \in Long!ReplyHeld
  BY DEF Long!Decide, Long!ReplyHeld
<1>6. CASE \E l \in {"run", "idle", "fsettle"} : pc' = [pc EXCEPT ![t] = l]
  <2>1. ThreadsKeep
    BY <1>1, <1>5, <1>6, GoOn
  <2> QED
    BY <1>1, <1>4, <2>1, Steady DEF Long!Decide
<1>7. CASE /\ pc' = [pc EXCEPT ![t] = "send"]
           /\ ~Long!Required(mem) \/ mem.terminal
  <2>1. ~Long!Required(mem) => ~mem.task
    BY <1>1 DEF Long!Required, EntryPart, Long!Entries
  <2>2. mem.open /\ mem.reply /\ need[mem.run] => card'[mem.run] = "terminal"
    BY <1>5, <1>7, <2>1, TaskShown
  <2>3. ThreadsKeep
    BY <1>1, <1>5, <1>7, <2>2, GoSend
  <2> QED
    BY <1>1, <1>4, <2>3, Steady DEF Long!Decide
<1> QED
  BY <1>6, <1>7 DEF Long!Decide, Long!Goto, Long!Home, Long!AfterDecide

LEMMA SettledTyped ==
  ASSUME Long!LInv, mem.open => card'[mem.run] = "terminal"
  PROVE  Carries(Long!Settled(mem))
<1>1. mem \in Long!Entries
  BY InvParts DEF EntryPart
<1> QED
  BY <1>1 DEF Carries, Long!Settled, Long!Entries

LEMMA SettleReadStep ==
  ASSUME Long!LInv, NEW t \in Long!Threads, NEW seen \in BOOLEAN, Long!SettleRead(t, seen)
  PROVE  Long!LInv'
<1> DEFINE e == [mem EXCEPT !.deferred = "blocker", !.settle = TRUE]
<1>1. EntryPart /\ ThreadPart /\ CardsKeep /\ tick' \in Nat
  BY InvParts, SameCards DEF Long!SettleRead, EntryPart
<1>2. e \in Long!Entries /\ Alike(e, mem)
  BY <1>1 DEF EntryPart, Long!Entries, Alike
<1>3. \/ Long!Persist(e) \/ Long!Unsaved
      \/ card[mem.run] = "terminal" /\ Long!Persist(Long!Settled(mem))
  BY DEF Long!SettleRead
<1> HIDE DEF e
<1>4. snd' = snd /\ card' = card /\ need' = need /\ pc[t] # "idle"
  BY DEF Long!SettleRead
<1>5. EntryStep
  <2>1. card[mem.run] = "terminal" => Carries(Long!Settled(mem))
    BY <1>4, SettledTyped
  <2> QED
    BY <1>2, <1>3, <2>1, UnsavedSteps, PersistSteps DEF EntryStep
<1>6. CASE \E l \in {"run", "idle", "complete", "fcomplete"} :
        pc' = [pc EXCEPT ![t] = l] /\ (l = "fcomplete" => pc[t] \in Long!ReplyHeld)
  <2>1. ThreadsKeep
    BY <1>1, <1>4, <1>6, GoOn
  <2> QED
    BY <1>1, <1>5, <2>1, Steady DEF Long!SettleRead
<1>7. CASE pc' = [pc EXCEPT ![t] = "send"] /\ card[mem.run] = "terminal" /\ pc[t] \in Long!ReplyHeld
  <2>1. ThreadsKeep
    BY <1>1, <1>4, <1>7, GoSend
  <2> QED
    BY <1>1, <1>5, <2>1, Steady DEF Long!SettleRead
<1> QED
  BY <1>6, <1>7 DEF Long!SettleRead, Long!Goto, Long!Home, Long!SettleGoes, Long!ReplyHeld

LEMMA SettleWriteStep ==
  ASSUME Long!LInv, NEW t \in Long!Threads, NEW out \in Long!Outs, Long!SettleWrite(t, out)
  PROVE  Long!LInv'
<1> DEFINE e == [mem EXCEPT !.settle = TRUE]
<1>1. EntryPart /\ RootPart /\ ThreadPart /\ tick' \in Nat
  BY InvParts DEF Long!SettleWrite, EntryPart
<1>2. card' = card \/ card' = [card EXCEPT ![mem.run] = "terminal"]
  BY DEF Long!SettleWrite
<1>3. CardsKeep
  BY <1>1, <1>2 DEF CardsKeep, EntryPart
<1>4. mem.open => mem.run \in LRoots
  BY <1>1 DEF EntryPart, RootPart, Long!SameEntry, Long!RootsTaken
<1>5. e \in Long!Entries /\ Alike(e, mem)
  BY <1>1 DEF EntryPart, Long!Entries, Alike
<1>6. snd' = snd /\ need' = need /\ pc[t] # "idle"
  BY DEF Long!SettleWrite
<1>7. PICK ok \in BOOLEAN :
        /\ ok => (out = "ok" \/ card'[mem.run] = "terminal")
        /\ Long!Persist(IF ok THEN Long!Settled(mem) ELSE e)
        /\ Long!Goto(t, Long!SettleGoes(t, ok))
  BY DEF Long!SettleWrite
<1> HIDE DEF e
<1>8. mem.open /\ ok => card'[mem.run] = "terminal"
  <2>1. out = "ok" => card' = [card EXCEPT ![mem.run] = "terminal"]
    BY DEF Long!SettleWrite
  <2> QED
    BY <1>1, <1>4, <1>7, <2>1 DEF EntryPart
<1>9. EntryStep
  BY <1>5, <1>7, <1>8, SettledTyped, PersistSteps DEF EntryStep
<1>10. CASE \E l \in {"run", "idle"} : pc' = [pc EXCEPT ![t] = l]
  <2>1. ThreadsKeep
    BY <1>3, <1>6, <1>10, GoOn
  <2> QED
    BY <1>1, <1>3, <1>9, <2>1, Steady DEF Long!SettleWrite
<1>11. CASE pc' = [pc EXCEPT ![t] = "send"] /\ ok /\ pc[t] \in Long!ReplyHeld
  <2>1. ThreadsKeep
    BY <1>3, <1>6, <1>8, <1>11, GoSend
  <2> QED
    BY <1>1, <1>3, <1>9, <2>1, Steady DEF Long!SettleWrite
<1> QED
  BY <1>7, <1>10, <1>11 DEF Long!Goto, Long!Home, Long!SettleGoes, Long!ReplyHeld

LEMMA TimerStep ==
  ASSUME Long!LInv, NEW reads, Long!ReconcileTimer(reads) PROVE Long!LInv'
<1> DEFINE seen == IF reads THEN card[mem.run] ELSE ""
           e == Long!TimerRead(mem, seen)
<1>1. EntryPart /\ CardsKeep /\ tick' \in Nat
  BY InvParts, SameCards DEF Long!ReconcileTimer, EntryPart
<1>2. seen = "terminal" => card'[mem.run] = "terminal"
  BY DEF Long!ReconcileTimer
<1>3. Long!Persist(e)
  BY DEF Long!ReconcileTimer
<1> HIDE DEF seen
<1>4. Carries(e)
  <2> DEFINE d == IF seen = "blocked" THEN "blocker" ELSE "no"
             f == IF mem.resolving THEN [mem EXCEPT !.resolving = FALSE, !.deferred = d]
                  ELSE mem
  <2>1. d \in {"no", "blocker"} /\ mem \in Long!Entries
    BY <1>1 DEF EntryPart
  <2>2. \/ e = f \/ e = [f EXCEPT !.deferred = "blocker"]
        \/ seen = "terminal" /\ e = [mem EXCEPT !.terminal = TRUE]
    BY DEF Long!TimerRead
  <2> HIDE DEF d, e
  <2>3. f \in Long!Entries /\ Alike(f, mem)
    <3>1. CASE mem.resolving
      <4> DEFINE g == [mem EXCEPT !.resolving = FALSE, !.deferred = d]
      <4>1. g \in Long!Entries
        BY <2>1 DEF Long!Entries
      <4>2. Alike(g, mem)
        BY <2>1 DEF Long!Entries, Alike
      <4> QED
        BY <3>1, <4>1, <4>2
    <3>2. CASE ~mem.resolving
      BY <2>1, <3>2 DEF Alike
    <3> QED
      BY <3>1, <3>2
  <2> HIDE DEF f
  <2>4. [f EXCEPT !.deferred = "blocker"] \in Long!Entries
        /\ Alike([f EXCEPT !.deferred = "blocker"], mem)
    BY <2>3 DEF Long!Entries, Alike
  <2>5. seen = "terminal" => Carries([mem EXCEPT !.terminal = TRUE])
    BY <1>2, <2>1 DEF Carries, Long!Entries
  <2> QED
    BY <2>2, <2>3, <2>4, <2>5, AlikeCarries
<1> HIDE DEF e
<1>5. EntryStep
  BY <1>3, <1>4 DEF EntryStep
<1>6. ThreadsKeep
  BY <1>1, StandStill DEF Long!ReconcileTimer
<1> QED
  BY <1>1, <1>5, <1>6, Steady DEF Long!ReconcileTimer

LEMMA HeartbeatStep == ASSUME Long!LInv, Long!Heartbeat PROVE Long!LInv'
<1> DEFINE e == [mem EXCEPT !.terminal = TRUE]
<1>1. EntryPart /\ CardsKeep /\ tick' \in Nat
  BY InvParts, SameCards DEF Long!Heartbeat, EntryPart
<1>2. Carries(mem) /\ (card[mem.run] = "terminal" => Carries(e))
  <2>1. card' = card
    BY DEF Long!Heartbeat
  <2> QED
    BY <1>1, <2>1 DEF Carries, EntryPart, Long!Entries
<1>3. EntryStep
  BY <1>2 DEF EntryStep, Long!Heartbeat
<1>4. ThreadsKeep
  BY <1>1, StandStill DEF Long!Heartbeat
<1> QED
  BY <1>1, <1>3, <1>4, Steady DEF Long!Heartbeat

LEMMA GlassEndsStep == ASSUME Long!LInv, NEW r, Long!GlassEnds(r) PROVE Long!LInv'
<1>1. EntryPart /\ tick' \in Nat
  BY InvParts DEF Long!GlassEnds, EntryPart
<1>2. CardsKeep
  BY <1>1 DEF Long!GlassEnds, CardsKeep, EntryPart
<1>3. EntryStep
  BY <1>1 DEF Long!GlassEnds, EntryStep, EntryPart, Alike
<1>4. ThreadsKeep
  BY <1>2, StandStill DEF Long!GlassEnds
<1> QED
  BY <1>1, <1>2, <1>3, <1>4, Steady DEF Long!GlassEnds

LEMMA ClaimLapsesStep == ASSUME Long!LInv, Long!ClaimLapses PROVE Long!LInv'
<1>1. EntryPart /\ CardsKeep /\ tick' \in Nat
  BY InvParts, SameCards DEF Long!ClaimLapses, EntryPart
<1>2. EntryStep
  BY <1>1 DEF Long!ClaimLapses, EntryStep, EntryPart, Alike
<1>3. ThreadsKeep
  BY <1>1, StandStill DEF Long!ClaimLapses
<1> QED
  BY <1>1, <1>2, <1>3, Steady DEF Long!ClaimLapses

-----------------------------------------------------------------------------
(* The end of a lifecycle                                                   *)

\* An entry that owes no reply is closed; the history of replies may move on.
LEMMA ClosedEntry ==
  ASSUME EntryPart, mem' = Long!Closed, jr' = Long!Closed, UNCHANGED <<card, need, tick>>,
         DOMAIN rep' = LRoots, \A r \in LRoots : rep'[r] # "queued",
         Long!ReplyAfterCard'
  PROVE  EntryPart'
<1>1. mem'.open = FALSE /\ jr'.open = FALSE /\ mem'.reply = FALSE
  BY ClosedTyped DEF Long!Entries
<1> QED
  BY <1>1, ClosedTyped DEF EntryPart, Long!SameEntry, Long!ReplyNeedsTask, CardShown,
     Long!ReplyKept

\* Nobody waits for a reply when the journal owes none.
LEMMA NoReply ==
  ASSUME EntryPart, ~(jr.open /\ jr.reply) PROVE \A r \in LRoots : rep[r] # "queued"
BY DEF EntryPart, Long!ReplyKept

LEMMA NoDelivery ==
  ASSUME NEW e \in Long!Entries, ~Long!HasDelivery(e) PROVE ~e.reply
BY DEF Long!HasDelivery

LEMMA CloseEntry ==
  ASSUME EntryPart, Long!Close, (mem.open /\ ~mem.reply) \/ ~jr.reply,
         UNCHANGED <<card, need, tick, rep>>
  PROVE  EntryPart'
<1>1. ~(jr.open /\ jr.reply)
  BY DEF EntryPart, Long!SameEntry
<1>2. Long!ReplyAfterCard' /\ DOMAIN rep' = LRoots
  BY DEF EntryPart, Long!ReplyAfterCard
<1> QED
  BY <1>1, <1>2, NoReply, ClosedEntry DEF Long!Close

LEMMA ClosableOwesNothing ==
  ASSUME EntryPart, Long!Closable PROVE mem.open /\ ~mem.reply
BY DiscardedTyped, NoDelivery DEF EntryPart, Long!Closable, Alike

LEMMA CloseIfTerminalStep == ASSUME Long!LInv, Long!CloseIfTerminal PROVE Long!LInv'
<1>1. EntryPart /\ RootPart /\ ThreadPart /\ CardsKeep /\ tick' \in Nat
  BY InvParts, SameCards DEF Long!CloseIfTerminal, EntryPart
<1>2. CASE Long!Closable /\ Long!Close
  <2>1. EntryPart'
    BY <1>1, <1>2, ClosableOwesNothing, CloseEntry DEF Long!CloseIfTerminal
  <2>2. mem'.open = FALSE /\ jr'.open = FALSE /\ mem'.reply = FALSE
    BY <1>2, ClosedTyped DEF Long!Close, Long!Entries
  <2>3. RootPart'
    BY <1>1, <2>1, <2>2, RootsSteady DEF Long!CloseIfTerminal, EntryPart
  <2>4. HandPart'
    BY <1>1, <2>2, HandKept DEF Long!CloseIfTerminal, CardsKeep, Long!ReplyHeld
  <2>5. ThreadPart'
    BY <1>1, <2>2, <2>4 DEF Long!CloseIfTerminal, ThreadPart, Long!SendAllowed, Long!Sendings
  <2> QED
    BY <2>1, <2>3, <2>5, InvPartsNext
<1>3. CASE Long!Persist(Long!Discarded(mem))
  <2>1. EntryStep
    BY <1>1, <1>3, DiscardedTyped, PersistSteps DEF EntryPart
  <2>2. ThreadsKeep
    BY <1>1, StandStill DEF Long!CloseIfTerminal
  <2> QED
    BY <1>1, <2>1, <2>2, Steady DEF Long!CloseIfTerminal
<1> QED
  BY <1>2, <1>3 DEF Long!CloseIfTerminal

-----------------------------------------------------------------------------
(* The queue of roots                                                       *)

Holds(q, x) == \E i \in DOMAIN q : q[i] = x

LEMMA AppendHolds ==
  ASSUME NEW q \in Seq(LRoots), NEW r \in LRoots
  PROVE  Append(q, r) \in Seq(LRoots) /\ \A x : Holds(Append(q, r), x) <=> Holds(q, x) \/ x = r
<1>1. /\ DOMAIN Append(q, r) = 1..(Len(q) + 1) /\ Append(q, r)[Len(q) + 1] = r
      /\ \A i \in 1..Len(q) : Append(q, r)[i] = q[i]
      /\ DOMAIN q = 1..Len(q) /\ Len(q) \in Nat
  OBVIOUS
<1> QED
  BY <1>1 DEF Holds

\* acknowledge_queued_long_task_root: the other roots stay.
LEMMA AckedHolds ==
  ASSUME queue \in Seq(LRoots), NEW r
  PROVE  /\ Long!Acked(r) \in Seq(LRoots)
         /\ \A x : Holds(Long!Acked(r), x) <=> Holds(queue, x) /\ x # r
<1> DEFINE One(s, n) == IF queue[n] = r THEN s ELSE Append(s, queue[n])
           Step(u, n) == IF n = 0 THEN << >> ELSE One(u[n - 1], n)
           IsRest(u, m) == u = [n \in 0..m |-> Step(u, n)]
           HasRest == {m \in Nat : \E u : IsRest(u, m)}
           rest == CHOOSE u : u = [n \in 0..Len(queue) |-> Step(u, n)]
<1>1. Nat \subseteq HasRest
  <2> HIDE DEF One
  <2>1. IsRest([n \in 0..0 |-> << >>], 0)
    OBVIOUS
  <2>2. ASSUME NEW m \in Nat, m \in HasRest PROVE m + 1 \in HasRest
    <3>1. PICK u : IsRest(u, m)
      BY <2>2
    <3> DEFINE t == [n \in 0..(m + 1) |-> Step(u, n)]
    <3>2. \A n \in 0..m : u[n] = Step(u, n)
      BY <3>1
    <3>3. \A n \in 0..(m + 1) : t[n] = Step(u, n)
      OBVIOUS
    <3>4. \A n \in 1..(m + 1) : n - 1 \in 0..m /\ t[n - 1] = u[n - 1]
      BY <3>2, <3>3
    <3>5. \A n \in 0..(m + 1) : t[n] = Step(t, n)
      <4> SUFFICES ASSUME NEW n \in 0..(m + 1) PROVE t[n] = Step(t, n)
        OBVIOUS
      <4> HIDE DEF t
      <4>1. CASE n = 0
        BY <3>3, <4>1
      <4>2. CASE n # 0
        <5>1. t[n - 1] = u[n - 1]
          BY <3>4, <4>2
        <5>2. t[n] = One(u[n - 1], n)
          BY <3>3, <4>2
        <5> QED
          BY <4>2, <5>1, <5>2
      <4> QED
        BY <4>1, <4>2
    <3> HIDE DEF Step
    <3>6. t = [n \in 0..(m + 1) |-> Step(t, n)]
      BY <3>5
    <3>7. IsRest(t, m + 1)
      BY <3>6
    <3> HIDE DEF t, IsRest
    <3> QED
      BY <3>7
  <2>3. 0 \in HasRest
    BY <2>1
  <2> HIDE DEF HasRest
  <2> QED
    BY <2>2, <2>3, SetInduction
<1>2. IsRest(rest, Len(queue))
  <2> HIDE DEF One
  <2>1. \E u : IsRest(u, Len(queue))
    BY <1>1
  <2> QED
    BY <2>1
<1>3. Long!Acked(r) = rest[Len(queue)]
  BY DEF Long!Acked
<1> HIDE DEF rest
<1> DEFINE Left(n) == {queue[i] : i \in 1..n} \ {r}
           Good == {n \in Nat : n <= Len(queue) =>
                      /\ rest[n] \in Seq(LRoots)
                      /\ \A x : Holds(rest[n], x) <=> x \in Left(n)}
<1>4. 0 \in Good
  BY <1>2 DEF Holds
<1>5. ASSUME NEW n \in Nat, n \in Good PROVE n + 1 \in Good
  <2> SUFFICES ASSUME n + 1 <= Len(queue)
               PROVE  /\ rest[n + 1] \in Seq(LRoots)
                      /\ \A x : Holds(rest[n + 1], x) <=> x \in Left(n + 1)
    OBVIOUS
  <2>1. /\ n + 1 \in 1..Len(queue) /\ queue[n + 1] \in LRoots
        /\ rest[n] \in Seq(LRoots)
        /\ \A x : Holds(rest[n], x) <=> x \in Left(n)
    BY <1>5
  <2>2. rest[n + 1] = IF queue[n + 1] = r THEN rest[n] ELSE Append(rest[n], queue[n + 1])
    <3> HIDE DEF One
    <3>1. \A k \in 0..Len(queue) : rest[k] = Step(rest, k)
      BY <1>2
    <3>2. rest[n + 1] = Step(rest, n + 1)
      BY <2>1, <3>1
    <3>3. rest[n + 1] = One(rest[n], n + 1)
      BY <2>1, <3>2
    <3> QED
      BY <3>3 DEF One
  <2> HIDE DEF IsRest, Good
  <2>3. \A x : x \in Left(n + 1) <=> x \in Left(n) \/ (x = queue[n + 1] /\ x # r)
    OBVIOUS
  <2> HIDE DEF Left
  <2>4. CASE queue[n + 1] = r
    BY <2>1, <2>2, <2>3, <2>4
  <2>5. CASE queue[n + 1] # r
    <3>1. rest[n + 1] = Append(rest[n], queue[n + 1])
      BY <2>2, <2>5
    <3>2. /\ rest[n + 1] \in Seq(LRoots)
          /\ \A x : Holds(rest[n + 1], x) <=> Holds(rest[n], x) \/ x = queue[n + 1]
      BY <2>1, <3>1, AppendHolds
    <3> QED
      BY <2>1, <2>3, <2>5, <3>2
  <2> QED
    BY <2>4, <2>5
<1>6. Len(queue) \in Good
  <2> HIDE DEF Good
  <2> QED
    BY <1>4, <1>5, SetInduction
<1>7. \A x : x \in Left(Len(queue)) <=> Holds(queue, x) /\ x # r
  <2>1. DOMAIN queue = 1..Len(queue)
    OBVIOUS
  <2> QED
    BY <2>1 DEF Holds
<1> HIDE DEF Left
<1>8. Len(queue) <= Len(queue)
  OBVIOUS
<1>9. /\ rest[Len(queue)] \in Seq(LRoots)
      /\ \A x : Holds(rest[Len(queue)], x) <=> x \in Left(Len(queue))
  BY <1>6, <1>8
<1> QED
  BY <1>3, <1>7, <1>9

RootHeld(x) == x \in todo \/ Holds(queue, x)

LEMMA RootPartHeld ==
  RootPart <=> /\ todo \subseteq LRoots /\ queue \in Seq(LRoots)
               /\ cur \in LRoots \cup {Long!NoRoot}
               /\ jr.open => jr.run \in LRoots /\ rep[jr.run] # "new"
               /\ cur # Long!NoRoot => cur \in todo
               /\ \A r \in LRoots : RootHeld(r) => rep[r] # "new"
               /\ \A r \in LRoots : rep[r] # "new" => RootHeld(r) \/ r \in done
BY DEF RootPart, Long!RootsTaken, Long!RootKept, RootHeld, Holds

LEMMA RootPartNext ==
  ASSUME todo' \subseteq LRoots, queue' \in Seq(LRoots), cur' \in LRoots \cup {Long!NoRoot},
         jr'.open => jr'.run \in LRoots /\ rep'[jr'.run] # "new",
         cur' # Long!NoRoot => cur' \in todo',
         \A r \in LRoots : RootHeld(r)' => rep'[r] # "new",
         \A r \in LRoots : rep'[r] # "new" => RootHeld(r)' \/ r \in done'
  PROVE  RootPart'
BY DEF RootPart, Long!RootsTaken, Long!RootKept, RootHeld, Holds

\* The entry and the threads stay.
LEMMA EntryStays ==
  ASSUME EntryPart, UNCHANGED <<mem, jr, card, tick, need>>, DOMAIN rep' = LRoots,
         \A r \in LRoots : rep'[r] = rep[r] \/ rep'[r] = "none"
  PROVE  EntryPart'
<1>1. Long!SameEntry' /\ (~mem'.open => ~mem'.reply) /\ Long!ReplyNeedsTask' /\ CardShown'
  BY DEF EntryPart, Long!SameEntry, Long!ReplyNeedsTask, CardShown
<1>2. Long!ReplyAfterCard' /\ Long!ReplyKept'
  BY DEF EntryPart, Long!ReplyAfterCard, Long!ReplyKept
<1> QED
  BY <1>1, <1>2 DEF EntryPart

LEMMA ThreadsStay ==
  ASSUME ThreadPart, UNCHANGED <<mem, jr, pc, snd, card, need, up>>,
         up = "boot" => cur' = Long!NoRoot, \A r \in LRoots : rep[r] # "new" => rep'[r] # "new"
  PROVE  ThreadPart'
<1>1. HandPart'
  BY HandKept DEF ThreadPart, HandPart, Long!ReplyInHand
<1> QED
  BY <1>1 DEF ThreadPart, Long!SendAllowed, Long!Sendings

LEMMA ArriveStep == ASSUME Long!LInv, NEW r \in LRoots, Long!Arrive(r) PROVE Long!LInv'
<1>1. EntryPart /\ RootPart /\ ThreadPart
  BY InvParts
<1>2. /\ todo' = todo \cup {r} /\ rep' = [rep EXCEPT ![r] = "none"]
      /\ UNCHANGED <<mem, jr, card, queue, cur, pc, snd, tick, up, need, done>>
  BY DEF Long!Arrive
<1>3. EntryPart'
  BY <1>1, <1>2, EntryStays DEF EntryPart
<1>4. ThreadPart'
  BY <1>1, <1>2, ThreadsStay DEF ThreadPart
<1>5. RootPart'
  <2>1. \A x : RootHeld(x)' <=> RootHeld(x) \/ x = r
    BY <1>2 DEF RootHeld, Holds
  <2>2. \A x \in LRoots : rep'[x] = IF x = r THEN "none" ELSE rep[x]
    BY <1>1, <1>2 DEF EntryPart
  <2> QED
    BY <1>1, <1>2, <2>1, <2>2, RootPartHeld, RootPartNext
<1> QED
  BY <1>3, <1>4, <1>5, InvPartsNext

LEMMA ClaimHeadStep == ASSUME Long!LInv, Long!ClaimHead PROVE Long!LInv'
<1>1. EntryPart /\ RootPart /\ ThreadPart
  BY InvParts
<1>2. /\ todo' = todo \cup {Head(queue)} /\ queue # <<>>
      /\ UNCHANGED <<mem, jr, card, queue, cur, pc, snd, tick, up, rep, need, done>>
  BY DEF Long!ClaimHead
<1>3. EntryPart'
  BY <1>1, <1>2, EntryStays DEF EntryPart
<1>4. ThreadPart'
  BY <1>1, <1>2, ThreadsStay DEF ThreadPart
<1>5. Head(queue) \in LRoots /\ Holds(queue, Head(queue))
  BY <1>1, <1>2 DEF RootPart, Holds
<1>6. RootPart'
  <2>1. \A x : RootHeld(x)' <=> RootHeld(x)
    BY <1>2, <1>5 DEF RootHeld, Holds
  <2> QED
    BY <1>1, <1>2, <1>5, <2>1, RootPartHeld, RootPartNext
<1> QED
  BY <1>3, <1>4, <1>6, InvPartsNext

LEMMA AdmitStep == ASSUME Long!LInv, NEW r \in LRoots, Long!Admit(r) PROVE Long!LInv'
<1>1. EntryPart /\ RootPart /\ ThreadPart
  BY InvParts
<1>2. /\ up = "up" /\ pc["m"] = "idle" /\ cur = Long!NoRoot /\ r \in todo
      /\ UNCHANGED <<card, snd, tick, up, rep, need, done>>
  BY DEF Long!Admit
<1>3. \/ Long!Closable /\ Long!Close /\ pc' = [pc EXCEPT !["w"] = "idle"]
      \/ UNCHANGED <<mem, jr, pc>>
  BY DEF Long!Admit, Long!Unsaved
<1>4. \/ /\ todo' = todo \ {r} /\ cur' = cur
         /\ queue' = IF \E i \in DOMAIN queue : queue[i] = r THEN queue ELSE Append(queue, r)
      \/ cur' = r /\ UNCHANGED <<todo, queue>>
  BY DEF Long!Admit
<1>5. ASSUME Long!Closable, Long!Close, pc' = [pc EXCEPT !["w"] = "idle"]
      PROVE  EntryPart' /\ ThreadPart' /\ ~jr'.open
  <2>1. EntryPart'
    BY <1>1, <1>2, <1>5, ClosableOwesNothing, CloseEntry
  <2>2. mem'.open = FALSE /\ jr'.open = FALSE /\ mem'.reply = FALSE
    BY <1>5, ClosedTyped DEF Long!Close, Long!Entries
  <2>3. DOMAIN pc' = Long!Threads /\ pc'["m"] = "idle" /\ pc'["w"] = "idle"
    BY <1>1, <1>2, <1>5 DEF ThreadPart, Long!Threads
  <2>4. ThreadPart'
    BY <1>1, <1>2, <2>2, <2>3, NoneInHand DEF ThreadPart, Long!SendAllowed, Long!ReplyHeld
  <2> QED
    BY <2>1, <2>2, <2>4
<1>6. ASSUME UNCHANGED <<mem, jr, pc>> PROVE EntryPart' /\ ThreadPart'
  <2>1. EntryPart'
    BY <1>1, <1>2, <1>6, EntryStays DEF EntryPart
  <2>2. ThreadPart'
    BY <1>1, <1>2, <1>6, ThreadsStay
  <2> QED
    BY <2>1, <2>2
<1>7. EntryPart' /\ ThreadPart' /\ (jr'.open => jr' = jr)
  BY <1>3, <1>5, <1>6
<1>8. RootPart'
  <2>1. queue' \in Seq(LRoots) /\ \A x : RootHeld(x)' <=> RootHeld(x)
    <3>1. CASE Holds(queue, r) /\ queue' = queue
      BY <1>1, <1>2, <1>4, <3>1 DEF RootPart, RootHeld, Holds
    <3>2. CASE queue' = Append(queue, r)
      <4>1. queue' \in Seq(LRoots) /\ \A x : Holds(queue, x)' <=> Holds(queue, x) \/ x = r
        BY <1>1, <3>2, AppendHolds DEF RootPart, Holds
      <4>2. todo' = todo \/ todo' = todo \ {r}
        BY <1>4
      <4> QED
        BY <1>2, <4>1, <4>2 DEF RootHeld
    <3>3. CASE UNCHANGED <<todo, queue>>
      BY <1>1, <3>3 DEF RootPart, RootHeld, Holds
    <3> QED
      BY <1>4, <3>1, <3>2, <3>3 DEF Holds
  <2>2. /\ todo' \subseteq LRoots /\ cur' \in LRoots \cup {Long!NoRoot}
        /\ cur' # Long!NoRoot => cur' \in todo'
    BY <1>1, <1>2, <1>4 DEF RootPart
  <2>3. /\ jr.open => jr.run \in LRoots /\ rep[jr.run] # "new"
        /\ \A x \in LRoots : RootHeld(x) => rep[x] # "new"
        /\ \A x \in LRoots : rep[x] # "new" => RootHeld(x) \/ x \in done
    BY <1>1, RootPartHeld
  <2> QED
    BY <1>2, <1>7, <2>1, <2>2, <2>3, RootPartNext
<1> QED
  BY <1>7, <1>8, InvPartsNext

\* A turn or the recovery makes the object of an entry, or of a new lifecycle.
LEMMA NewObject ==
  ASSUME EntryPart, ~mem.open, NEW e \in Long!Entries, e.open, Long!Persist(e),
         \/ jr.open /\ Alike(e, jr)
         \/ ~jr.open /\ ~e.reply /\ ~e.terminal,
         UNCHANGED <<card, need, rep, tick>>
  PROVE  /\ EntryPart' /\ mem'.open /\ jr'.open /\ jr'.run = e.run
         /\ mem'.run = e.run /\ mem'.reply = e.reply
<1>1. mem' = e /\ jr' = Long!MergeFacts(e)
  BY DEF Long!Persist
<1>2. Long!MergeFacts(e) \in Long!Entries /\ Alike(Long!MergeFacts(e), e)
  BY MergeTyped DEF EntryPart
<1> HIDE DEF jr
<1>3. /\ jr' \in Long!Entries /\ jr'.open = e.open /\ jr'.run = e.run
      /\ jr'.reply = e.reply /\ jr'.task = e.task /\ jr'.terminal = e.terminal
  BY <1>1, <1>2 DEF Alike
<1> USE DEF jr
<1>4. Long!SameEntry' /\ (~mem'.open => ~mem'.reply)
  BY <1>1, <1>3 DEF Long!SameEntry
<1>5. Long!ReplyNeedsTask' /\ CardShown'
  BY <1>3 DEF EntryPart, Long!ReplyNeedsTask, CardShown, Alike
<1>6. Long!ReplyAfterCard' /\ Long!ReplyKept'
  BY <1>3 DEF EntryPart, Long!ReplyAfterCard, Long!ReplyKept, Alike
<1> QED
  BY <1>1, <1>3, <1>4, <1>5, <1>6 DEF EntryPart

LEMMA AttachedTyped ==
  ASSUME NEW e \in Long!Entries
  PROVE  Long!Attached(e) \in Long!Entries /\ Alike(Long!Attached(e), e)
BY DEF Long!Attached, Long!Entries, Alike

LEMMA BeginStep == ASSUME Long!LInv, Long!Begin PROVE Long!LInv'
<1> DEFINE f == IF mem.open THEN mem
                ELSE IF jr.open THEN [jr EXCEPT !.making = FALSE] ELSE Long!Fresh(cur)
           e == Long!Attached(f)
<1>1. EntryPart /\ RootPart /\ ThreadPart /\ CardsKeep
  BY InvParts, SameCards DEF Long!Begin
<1>2. /\ cur # Long!NoRoot /\ pc["m"] = "idle" /\ queue' = Long!Acked(cur)
      /\ Long!Persist(e) /\ pc' = [pc EXCEPT !["m"] = "run"]
      /\ UNCHANGED <<card, todo, cur, snd, tick, up, rep, need, done>>
  BY DEF Long!Begin, Long!Goto
<1>3. cur \in LRoots /\ cur \in todo /\ rep[cur] # "new"
  BY <1>1, <1>2, RootPartHeld DEF RootHeld
<1>4. f \in Long!Entries
  <2>1. mem \in Long!Entries /\ jr \in Long!Entries
    BY <1>1 DEF EntryPart
  <2>2. [jr EXCEPT !.making = FALSE] \in Long!Entries
    BY <2>1 DEF Long!Entries
  <2>3. Long!Fresh(cur) \in Long!Entries
    BY <1>3, FreshTyped
  <2> QED
    BY <2>1, <2>2, <2>3
<1>5. e \in Long!Entries /\ Alike(e, f)
  BY <1>4, AttachedTyped
<1> HIDE DEF e
<1>6. EntryPart' /\ (jr'.open => jr'.run \in LRoots /\ rep'[jr'.run] # "new")
      /\ mem'.open /\ (mem.open => mem'.reply = mem.reply /\ mem'.run = mem.run)
  <2>1. jr.open => jr.run \in LRoots /\ rep[jr.run] # "new"
    BY <1>1, RootPartHeld
  <2>2. ASSUME mem.open
        PROVE  /\ EntryPart' /\ jr'.open = jr.open /\ jr'.run = jr.run
               /\ mem'.open /\ mem'.reply = mem.reply /\ mem'.run = mem.run
    <3>1. EntryStep
      BY <1>2, <1>5, <2>2, PersistSteps
    <3>2. tick' \in Nat
      BY <1>1, <1>2 DEF EntryPart
    <3>3. EntryPart'
      BY <1>1, <1>2, <3>1, <3>2, EntrySteady
    <3> QED
      BY <1>1, <2>1, <2>2, <3>1, <3>3, EntryCarried
  <2>3. ASSUME ~mem.open
        PROVE  /\ EntryPart' /\ mem'.open /\ jr'.open /\ jr'.run = e.run
               /\ e.run = IF jr.open THEN jr.run ELSE cur
    <3>1. CASE jr.open
      <4>0. jr \in Long!Entries
        BY <1>1 DEF EntryPart
      <4>1. Alike(f, jr)
        BY <2>3, <3>1, <4>0 DEF Long!Entries, Alike
      <4>2. Alike(e, jr) /\ e.open
        BY <1>5, <3>1, <4>1 DEF Alike
      <4> QED
        BY <1>1, <1>2, <1>5, <2>3, <3>1, <4>2, NewObject DEF Alike
    <3>2. CASE ~jr.open
      <4>1. f.open /\ f.run = cur /\ ~f.reply /\ ~f.terminal
        BY <1>3, <2>3, <3>2, FreshTyped
      <4>2. e.open /\ e.run = cur /\ ~e.reply /\ ~e.terminal
        BY <1>5, <4>1 DEF Alike
      <4> QED
        BY <1>1, <1>2, <1>5, <2>3, <3>2, <4>2, NewObject
    <3> QED
      BY <3>1, <3>2
  <2> QED
    BY <1>2, <1>3, <2>1, <2>2, <2>3
<1>7. RootPart'
  <2>1. /\ queue' \in Seq(LRoots)
        /\ \A x : Holds(queue, x)' <=> Holds(queue, x) /\ x # cur
    <3>1. queue \in Seq(LRoots)
      BY <1>1 DEF RootPart
    <3>2. /\ Long!Acked(cur) \in Seq(LRoots)
          /\ \A x : Holds(Long!Acked(cur), x) <=> Holds(queue, x) /\ x # cur
      BY <3>1, AckedHolds
    <3> QED
      BY <1>2, <3>2 DEF Holds
  <2>2. \A x : RootHeld(x)' <=> RootHeld(x)
    BY <1>2, <1>3, <2>1 DEF RootHeld
  <2> QED
    BY <1>1, <1>2, <1>6, <2>1, <2>2, RootPartHeld, RootPartNext
<1>8. ThreadPart'
  <2>1. /\ DOMAIN pc' = Long!Threads /\ pc'["m"] = "run" /\ pc'["w"] = pc["w"]
    BY <1>1, <1>2 DEF ThreadPart, Long!Threads
  <2>2. up # "boot"
    BY <1>1, <1>2 DEF ThreadPart
  <2>3. Long!SendAllowed'
    BY <1>1, <1>2, <1>6, <2>1 DEF ThreadPart, Long!SendAllowed, Long!Threads
  <2>4. pc["w"] \in Long!ReplyHeld => mem.open /\ mem.reply
    BY <1>1 DEF ThreadPart, HandPart, Long!ReplyInHand, Long!ReplyHeld
  <2>5. HandPart'
    BY <1>6, <2>1, <2>4, NoneInHand
  <2> QED
    BY <1>1, <1>2, <1>6, <2>1, <2>2, <2>3, <2>5 DEF ThreadPart
<1> QED
  BY <1>6, <1>7, <1>8, InvPartsNext

-----------------------------------------------------------------------------
(* The reply                                                                *)

\* The tool takes the lifecycle.
LEMMA FinalReplyStep == ASSUME Long!LInv, Long!FinalReply PROVE Long!LInv'
<1> DEFINE s == [w |-> Long!NoRoot, run |-> mem.run, task |-> mem.task]
<1>1. EntryPart /\ RootPart /\ ThreadPart /\ CardsKeep /\ tick' \in Nat
  BY InvParts, SameCards DEF Long!FinalReply, EntryPart
<1>2. /\ up = "up" /\ mem.open /\ pc' = [pc EXCEPT !["m"] = "reply"]
      /\ snd' = [snd EXCEPT !["m"] = s]
      /\ UNCHANGED <<mem, jr, card, queue, todo, cur, tick, up, done, rep, need>>
  BY DEF Long!FinalReply, Long!Turn, Long!Goto
<1>3. EntryStep
  BY <1>1, <1>2, UnsavedSteps DEF Long!Unsaved
<1>4. /\ DOMAIN pc' = Long!Threads /\ pc'["m"] = "reply" /\ pc'["w"] = pc["w"]
      /\ DOMAIN snd' = Long!Threads /\ snd'["m"] = s
  BY <1>1, <1>2 DEF ThreadPart, Long!Threads
<1>5. InHand
  <2>1. mem.run \in LRoots /\ rep[mem.run] # "new" /\ mem.task \in BOOLEAN
    BY <1>1, <1>2, RootPartHeld DEF EntryPart, Long!SameEntry, Long!Entries
  <2>2. s \in Long!Replies /\ s.run = mem.run
    BY <2>1 DEF Long!Replies
  <2> HIDE DEF s
  <2> QED
    BY <1>2, <1>4, <2>1, <2>2 DEF InHand
<1>6. ThreadsKeep
  BY <1>1, <1>2, <1>4, <1>5 DEF ThreadPart, ThreadsKeep, Long!Threads
<1> QED
  BY <1>1, <1>2, <1>3, <1>6, Steady

\* queue_final_reply: in the journal before anything else is tried, unless the
\* object was closed; then its reply is only in hand.
LEMMA QueueReplyStep == ASSUME Long!LInv, Long!QueueReply PROVE Long!LInv'
<1> DEFINE e == [mem EXCEPT !.reply = TRUE, !.settle = mem.task]
<1>1. EntryPart /\ RootPart /\ ThreadPart /\ CardsKeep /\ tick' \in Nat
  BY InvParts, SameCards DEF Long!QueueReply, EntryPart
<1>2. /\ up = "up" /\ pc["m"] = "reply" /\ snd["m"] \in Long!Replies
      /\ rep[snd["m"].run] # "new"
      /\ UNCHANGED <<card, queue, todo, cur, snd, tick, up, done>>
  BY <1>1 DEF Long!QueueReply, ThreadPart, HandPart, Long!Replying, Long!ReplyInHand
<1>0. jr.open => mem.open
  BY <1>1, <1>2 DEF ThreadPart, HandPart, Long!Replying, Long!ReplyInHand
<1>3. /\ \A l : pc' = [pc EXCEPT !["m"] = l] =>
              DOMAIN pc' = Long!Threads /\ pc'["m"] = l /\ pc'["w"] = pc["w"]
  BY <1>1 DEF ThreadPart, Long!Threads
<1>4. CASE mem.reply /\ Long!Unsaved /\ pc' = [pc EXCEPT !["m"] = "queued"] /\ UNCHANGED <<rep, need>>
  <2>1. EntryStep
    BY <1>4, UnsavedSteps
  <2>2. /\ DOMAIN pc' = Long!Threads /\ pc'["m"] = "queued" /\ pc'["w"] = pc["w"]
        /\ snd' = snd
    BY <1>2, <1>3, <1>4
  <2>3. InHand
    BY <1>0, <1>2, <2>2 DEF InHand
  <2>4. ThreadsKeep
    BY <1>1, <2>2, <2>3 DEF ThreadPart, ThreadsKeep, Long!Threads
  <2> QED
    BY <1>1, <1>2, <1>4, <2>1, <2>4, Steady
<1>5. ASSUME mem.open, ~mem.reply, Long!Persist(e), rep' = [rep EXCEPT ![mem.run] = "queued"],
             need' = [need EXCEPT ![mem.run] = mem.task], pc' = [pc EXCEPT !["m"] = "queued"]
      PROVE  Long!LInv'
  <2>1. /\ jr.open /\ jr.run = mem.run /\ ~jr.reply /\ jr.terminal = mem.terminal
        /\ mem.run \in LRoots /\ rep[mem.run] # "new"
    BY <1>1, <1>2, <1>5, RootPartHeld DEF EntryPart, Long!SameEntry
  <2>2. /\ e \in Long!Entries /\ e.open /\ e.run = mem.run /\ e.reply
        /\ e.task = mem.task /\ e.terminal = mem.terminal
    BY <1>1, <1>5 DEF EntryPart, Long!Entries
  <2> HIDE DEF e
  <2>3. mem' = e /\ jr' = Long!MergeFacts(e)
    BY <1>5, <2>2 DEF Long!Persist
  <2>4. Long!MergeFacts(e) \in Long!Entries /\ Alike(Long!MergeFacts(e), e)
    BY <1>1, <2>2, MergeTyped DEF EntryPart
  <2>5. /\ jr' \in Long!Entries /\ jr'.open /\ jr'.run = mem.run /\ jr'.reply
        /\ jr'.task = mem.task /\ jr'.terminal = mem.terminal
        /\ mem' \in Long!Entries /\ mem'.open /\ mem'.run = mem.run /\ mem'.reply
        /\ mem'.task = mem.task /\ mem'.terminal = mem.terminal
    <3> HIDE DEF jr
    <3>1. /\ jr' \in Long!Entries /\ jr'.open = e.open /\ jr'.run = e.run /\ jr'.reply = e.reply
          /\ jr'.task = e.task /\ jr'.terminal = e.terminal
      BY <2>3, <2>4 DEF Alike
    <3>2. /\ mem' \in Long!Entries /\ mem'.open = e.open /\ mem'.run = e.run
          /\ mem'.reply = e.reply /\ mem'.task = e.task /\ mem'.terminal = e.terminal
      BY <2>2, <2>3
    <3> HIDE DEF mem
    <3> QED
      BY <2>2, <3>1, <3>2
  <2>6. /\ DOMAIN rep' = LRoots /\ DOMAIN need' = LRoots
        /\ \A r \in LRoots : /\ rep'[r] = IF r = mem.run THEN "queued" ELSE rep[r]
                             /\ need'[r] = IF r = mem.run THEN mem.task ELSE need[r]
    BY <1>1, <1>5 DEF EntryPart
  <2>7. EntryPart'
    <3>1. Long!SameEntry' /\ (~mem'.open => ~mem'.reply)
      BY <2>5 DEF Long!SameEntry
    <3>2. Long!ReplyNeedsTask'
      BY <2>1, <2>5, <2>6 DEF Long!ReplyNeedsTask
    <3>3. CardShown'
      BY <1>1, <1>2, <2>1, <2>5 DEF EntryPart, CardShown
    <3>4. Long!ReplyAfterCard' /\ Long!ReplyKept'
      BY <1>1, <1>2, <2>1, <2>5, <2>6 DEF EntryPart, Long!ReplyAfterCard, Long!ReplyKept
    <3> QED
      BY <1>1, <1>2, <2>5, <2>6, <3>1, <3>2, <3>3, <3>4 DEF EntryPart
  <2>8. RootPart'
    BY <1>1, <1>2, <2>1, <2>5, <2>6, RootsSteady
  <2>9. ThreadPart'
    <3>1. DOMAIN pc' = Long!Threads /\ pc'["m"] = "queued" /\ pc'["w"] = pc["w"]
      BY <1>3, <1>5
    <3>2. pc["w"] \notin Long!ReplyHeld
      BY <1>1, <1>5 DEF ThreadPart, HandPart, Long!ReplyInHand
    <3>3. Long!SendAllowed'
      BY <3>1, <3>2 DEF Long!SendAllowed, Long!Threads, Long!ReplyHeld
    <3>4. Long!ReplyInHand'
      BY <1>1, <1>2, <2>1, <2>5, <2>6, <3>1, <3>2 DEF Long!ReplyInHand, ThreadPart, Long!Replies
    <3> QED
      BY <1>1, <1>2, <2>5, <3>1, <3>3, <3>4 DEF ThreadPart, HandPart
  <2> QED
    BY <2>7, <2>8, <2>9, InvPartsNext
<1>6. ASSUME ~mem.open, Long!Unsaved, rep' = [rep EXCEPT ![snd["m"].run] = "stray"],
             need' = [need EXCEPT ![snd["m"].run] = snd["m"].task],
             pc' = [pc EXCEPT !["m"] = "stray"]
      PROVE  Long!LInv'
  <2> DEFINE q == snd["m"].run
  <2>1. q \in LRoots /\ rep[q] # "new" /\ snd["m"].task \in BOOLEAN /\ mem' = mem /\ jr' = jr
    BY <1>2, <1>6 DEF Long!Replies, Long!Unsaved
  <2>2. /\ DOMAIN rep' = LRoots /\ DOMAIN need' = LRoots
        /\ \A r \in LRoots : /\ rep'[r] = IF r = q THEN "stray" ELSE rep[r]
                             /\ need'[r] = IF r = q THEN snd["m"].task ELSE need[r]
    BY <1>1, <1>6 DEF EntryPart
  <2> HIDE DEF q
  <2>3. EntryPart'
    <3>1. Long!ReplyAfterCard' /\ Long!ReplyKept'
      BY <1>1, <1>2, <2>1, <2>2 DEF EntryPart, Long!ReplyAfterCard, Long!ReplyKept
    <3>2. Long!ReplyNeedsTask'
      BY <1>0, <1>6, <2>1 DEF Long!ReplyNeedsTask
    <3> QED
      BY <1>1, <1>2, <2>1, <2>2, <3>1, <3>2 DEF EntryPart, Long!SameEntry, CardShown
  <2>4. RootPart'
    BY <1>1, <1>2, <2>1, <2>2, RootsSteady
  <2>5. ThreadPart'
    <3>1. DOMAIN pc' = Long!Threads /\ pc'["m"] = "stray" /\ pc'["w"] = pc["w"]
      BY <1>3, <1>6
    <3>2. pc["w"] = "idle"
      BY <1>1, <1>6 DEF ThreadPart
    <3>3. Long!SendAllowed'
      BY <3>1, <3>2 DEF Long!SendAllowed, Long!Threads
    <3>4. Long!ReplyInHand'
      BY <1>0, <1>2, <2>1, <2>2, <3>1, <3>2 DEF Long!ReplyInHand, Long!ReplyHeld, q
    <3>5. snd' = snd /\ snd["m"] \in Long!Replies
      BY <1>2
    <3> QED
      BY <1>1, <1>2, <2>1, <3>1, <3>2, <3>3, <3>4, <3>5 DEF ThreadPart, HandPart
  <2> QED
    BY <2>3, <2>4, <2>5, InvPartsNext
<1> QED
  BY <1>4, <1>5, <1>6 DEF Long!QueueReply, Long!Goto

LEMMA EnterFlushStep == ASSUME Long!LInv, Long!EnterFlush PROVE Long!LInv'
<1>1. EntryPart /\ ThreadPart /\ CardsKeep /\ tick' \in Nat
  BY InvParts, SameCards DEF Long!EnterFlush, EntryPart
<1>2. /\ \E l \in {"flush", "run"} : pc' = [pc EXCEPT !["m"] = l]
      /\ \E x : snd' = [snd EXCEPT !["m"] = x]
      /\ Long!Unsaved /\ up = "up"
      /\ UNCHANGED <<queue, todo, cur, done, rep, need, up>>
  BY DEF Long!EnterFlush, Long!Goto, Long!Unsaved
<1>3. EntryStep
  BY <1>2, UnsavedSteps
<1>4. ThreadsKeep
  BY <1>1, <1>2, MoveOn DEF ThreadPart, Long!Threads
<1> QED
  BY <1>1, <1>2, <1>3, <1>4, Steady

\* A closed object's reply goes out when its card is terminal, or not at all.
LEMMA StrayStep ==
  ASSUME Long!LInv, Long!StrayDecide \/ \E out \in Long!Outs : Long!StraySettle(out)
  PROVE  Long!LInv'
<1>1. EntryPart /\ RootPart /\ ThreadPart
  BY InvParts
<1>2. /\ up = "up" /\ pc["m"] = "stray" /\ Long!Unsaved
      /\ UNCHANGED <<queue, todo, cur, done, rep, need, up, tick>>
      /\ \E l \in {"run", "straysend"} : Long!Astray(l)
  BY DEF Long!StrayDecide, Long!StraySettle, Long!Unsaved
<1>3. snd["m"] \in Long!Replies /\ rep[snd["m"].run] # "new" /\ (jr.open => mem.open)
      /\ (need[snd["m"].run] => snd["m"].task)
  BY <1>1, <1>2 DEF ThreadPart, HandPart, Long!ReplyInHand, Long!Replying
<1>4. CardsKeep /\ (card' = card \/ \E r : card' = [card EXCEPT ![r] = "terminal"])
  BY <1>1 DEF EntryPart, CardsKeep, Long!StrayDecide, Long!StraySettle
<1>5. Long!Astray("straysend") => (snd["m"].task => card'[snd["m"].run] = "terminal")
  <2>1. CASE Long!StrayDecide
    <3>1. \E l \in {"run", "straysend"} : Long!Astray(l) /\ card' = card
             /\ (l = "straysend" /\ snd["m"].task => card[snd["m"].run] = "terminal")
      BY <2>1 DEF Long!StrayDecide
    <3> QED
      BY <1>1, <3>1 DEF Long!Astray, Long!Goto, ThreadPart, Long!Threads
  <2>2. ASSUME NEW out \in Long!Outs, Long!StraySettle(out)
        PROVE  Long!Astray("straysend") => (snd["m"].task => card'[snd["m"].run] = "terminal")
    <3>1. PICK l : /\ Long!Astray(l) /\ (l = "run" \/ out # "fail")
      BY <2>2 DEF Long!StraySettle
    <3>2. out # "fail" => card'[snd["m"].run] = "terminal"
      BY <1>1, <1>3, <2>2 DEF Long!StraySettle, EntryPart, Long!Replies
    <3> QED
      BY <1>1, <3>1, <3>2 DEF Long!Astray, Long!Goto, ThreadPart, Long!Threads
  <2> QED
    BY <2>1, <2>2
<1>6. EntryStep
  BY <1>2, UnsavedSteps
<1>7. ThreadsKeep
  <2>1. CASE Long!Astray("run")
    <3>1. /\ DOMAIN pc' = Long!Threads /\ DOMAIN snd' = Long!Threads
          /\ pc' = [pc EXCEPT !["m"] = "run"]
      BY <1>1, <2>1 DEF Long!Astray, Long!Goto, ThreadPart
    <3> QED
      BY <1>4, <3>1, MoveOn DEF Long!Threads
  <2>2. CASE Long!Astray("straysend")
    <3>1. /\ DOMAIN pc' = Long!Threads /\ snd' = snd
          /\ pc'["m"] = "straysend" /\ pc'["w"] = pc["w"]
      BY <1>1, <2>2 DEF Long!Astray, Long!Goto, ThreadPart, Long!Threads
    <3>2. InHand
      BY <1>3, <1>5, <2>2, <3>1 DEF InHand
    <3> QED
      BY <1>1, <3>1, <3>2 DEF ThreadPart, ThreadsKeep, Long!Threads
  <2> QED
    BY <1>2, <2>1, <2>2
<1> QED
  BY <1>1, <1>2, <1>4, <1>6, <1>7, Steady DEF EntryPart

LEMMA StraySendStep ==
  ASSUME Long!LInv, NEW out \in Long!Outs, Long!StraySend(out) PROVE Long!LInv'
<1> DEFINE q == snd["m"].run
<1>1. EntryPart /\ RootPart /\ ThreadPart /\ CardsKeep /\ tick' \in Nat
  BY InvParts, SameCards DEF Long!StraySend, EntryPart
<1>2. /\ up = "up" /\ pc["m"] = "straysend" /\ snd["m"] \in Long!Replies
      /\ rep[q] # "new" /\ (need[q] => card[q] = "terminal")
      /\ UNCHANGED <<mem, jr, card, queue, todo, cur, need, tick, up, done>>
      /\ rep' = [rep EXCEPT ![q] = IF out = "fail" THEN @ ELSE "sent"]
      /\ pc' = [pc EXCEPT !["m"] = "run"] /\ snd' = [snd EXCEPT !["m"] = Long!Nothing]
  BY <1>1 DEF Long!StraySend, Long!Astray, Long!Goto, ThreadPart, HandPart, Long!ReplyInHand, Long!Replying
<1>3. q \in LRoots
  BY <1>2 DEF Long!Replies
<1> HIDE DEF q
<1>4. /\ DOMAIN rep' = LRoots
      /\ \A r \in LRoots : rep'[r] = IF r = q /\ out # "fail" THEN "sent" ELSE rep[r]
  BY <1>1, <1>2 DEF EntryPart
<1>5. EntryPart'
  <2>1. Long!ReplyAfterCard' /\ Long!ReplyKept'
    BY <1>1, <1>2, <1>4 DEF EntryPart, Long!ReplyAfterCard, Long!ReplyKept
  <2> QED
    BY <1>1, <1>2, <1>4, <2>1 DEF EntryPart, Long!SameEntry, Long!ReplyNeedsTask, CardShown
<1>6. RootPart'
  BY <1>1, <1>2, <1>4, RootsSteady
<1>7. ThreadPart'
  <2>1. /\ DOMAIN pc' = Long!Threads /\ DOMAIN snd' = Long!Threads
        /\ pc'["m"] = "run" /\ pc'["w"] = pc["w"]
    BY <1>1, <1>2 DEF ThreadPart, Long!Threads
  <2>2. Long!SendAllowed'
    BY <1>1, <1>2, <2>1 DEF ThreadPart, Long!SendAllowed, Long!Threads
  <2>3. HandPart'
    BY <1>1, <1>2, <2>1, NoneInHand DEF ThreadPart, HandPart, Long!ReplyInHand
  <2> QED
    BY <1>1, <1>2, <2>1, <2>2, <2>3 DEF ThreadPart
<1> QED
  BY <1>5, <1>6, <1>7, InvPartsNext

\* Whoever sends has seen the card, or the reply needs none.
LEMMA SendReplyStep ==
  ASSUME Long!LInv, NEW t \in Long!Threads, NEW out \in Long!Outs, NEW gone \in BOOLEAN,
         Long!SendReply(t, out, gone)
  PROVE  Long!LInv'
<1> DEFINE v == IF out # "fail" THEN "sent" ELSE IF gone THEN "abandoned" ELSE rep[mem.run]
<1>1. EntryPart /\ RootPart /\ ThreadPart /\ CardsKeep /\ tick' \in Nat
  BY InvParts, SameCards DEF Long!SendReply, EntryPart
<1>2. /\ up = "up" /\ pc[t] = "send"
      /\ UNCHANGED <<card, queue, todo, cur, snd, tick, up, done, need>>
  BY DEF Long!SendReply
<1>3. CASE ~mem.reply
  <2>1. Long!Unsaved /\ rep' = rep /\ \E l \in {"run", "idle"} : pc' = [pc EXCEPT ![t] = l]
    BY <1>3 DEF Long!SendReply, Long!Goto, Long!Home
  <2>2. EntryStep
    BY <2>1, UnsavedSteps
  <2>3. ThreadsKeep
    BY <1>1, <1>2, <2>1, GoOn
  <2> QED
    BY <1>1, <1>2, <2>1, <2>2, <2>3, Steady
<1>4. CASE mem.reply
  <2>1. /\ mem.open /\ jr.open /\ jr.run = mem.run /\ jr.reply
        /\ mem.run \in LRoots /\ rep[mem.run] # "new"
        /\ need[mem.run] => card[mem.run] = "terminal"
    BY <1>1, <1>2, <1>4, RootPartHeld DEF EntryPart, Long!SameEntry, ThreadPart, Long!SendAllowed
  <2>2. rep' = [rep EXCEPT ![mem.run] = v]
    BY <1>4 DEF Long!SendReply
  <2>3. /\ DOMAIN rep' = LRoots
        /\ \A r \in LRoots : rep'[r] = IF r = mem.run THEN v ELSE rep[r]
    BY <1>1, <2>2 DEF EntryPart
  <2>4. v # "new" /\ (v = "queued" => rep[mem.run] = "queued")
        /\ (out = "ok" \/ gone => v # "queued")
    BY <2>1
  <2> HIDE DEF v
  <2>5. \A r \in LRoots : rep'[r] = "new" <=> rep[r] = "new"
    BY <2>1, <2>3, <2>4
  <2>6. Long!ReplyAfterCard'
    BY <1>1, <1>2, <2>1, <2>3 DEF EntryPart, Long!ReplyAfterCard
  <2>7. CASE /\ out = "ok" \/ gone
             /\ Long!Close /\ Long!GotoClosed(t, "run")
    <3>1. \A r \in LRoots : rep'[r] # "queued"
      BY <1>1, <2>1, <2>3, <2>4, <2>7 DEF EntryPart, Long!ReplyKept
    <3>2. EntryPart'
      BY <1>1, <1>2, <2>3, <2>6, <2>7, <3>1, ClosedEntry DEF Long!Close
    <3>3. ~mem'.open /\ ~jr'.open /\ ~mem'.reply
      BY <2>7, ClosedTyped DEF Long!Close
    <3>4. RootPart'
      BY <1>1, <1>2, <2>3, <2>5, <3>3, RootsSteady
    <3>5. /\ DOMAIN pc' = Long!Threads /\ pc'["w"] = "idle"
          /\ pc'["m"] \in {"run", pc["m"]}
      BY <1>1, <2>7 DEF ThreadPart, Long!GotoClosed, Long!Threads
    <3>6. Long!SendAllowed'
      BY <3>3 DEF Long!SendAllowed
    <3> QED
      <4>1. ThreadPart'
        <5>1. HandPart'
          <6>1. CASE pc'["m"] = "run"
            BY <3>5, <6>1, NoneInHand DEF Long!ReplyHeld
          <6>2. CASE pc'["m"] = pc["m"]
            BY <1>1, <1>2, <2>3, <2>5, <3>3, <3>5, <6>2, HandKept DEF Long!ReplyHeld, CardsKeep
          <6> QED
            BY <3>5, <6>1, <6>2
        <5> QED
          BY <1>1, <1>2, <3>3, <3>5, <3>6, <5>1 DEF ThreadPart, Long!Sendings
      <4> QED
        BY <3>2, <3>4, <4>1, InvPartsNext
  <2>8. CASE Long!Unsaved /\ Long!Goto(t, Long!Home(t))
    <3>1. EntryPart'
      <4>1. /\ Long!SameEntry' /\ (~mem'.open => ~mem'.reply) /\ Long!ReplyNeedsTask'
            /\ CardShown'
        BY <1>1, <1>2, <2>8 DEF EntryPart, Long!Unsaved, Long!SameEntry, Long!ReplyNeedsTask,
           CardShown
      <4>2. Long!ReplyKept'
        BY <1>1, <2>3, <2>4, <2>8 DEF EntryPart, Long!Unsaved, Long!ReplyKept
      <4> QED
        BY <1>1, <1>2, <2>3, <2>6, <2>8, <4>1, <4>2 DEF EntryPart, Long!Unsaved
    <3>2. RootPart'
      BY <1>1, <1>2, <2>3, <2>5, <2>8, RootsSteady DEF Long!Unsaved
    <3>3. ThreadsKeep
      <4>1. \E l \in {"run", "idle"} : pc' = [pc EXCEPT ![t] = l]
        BY <2>8 DEF Long!Goto, Long!Home
      <4> QED
        BY <1>1, <1>2, <4>1, GoOn
    <3>4. Long!SendAllowed'
      BY <1>1, <1>2, <2>8, <3>3 DEF ThreadsKeep, ThreadPart, Long!SendAllowed, Long!Unsaved
    <3>5. ThreadPart'
      <4>1. HandPart'
        <5>1. mem' = mem /\ jr' = jr /\ mem.reply
          BY <1>4, <2>8 DEF Long!Unsaved
        <5>2. CASE t = "m"
          <6>1. pc'["m"] = "run"
            BY <1>1, <2>8, <5>2 DEF ThreadPart, Long!Goto, Long!Home
          <6> QED
            BY <5>1, <6>1, NoneInHand
        <5>3. CASE t = "w"
          <6>1. pc'["m"] = pc["m"]
            BY <1>1, <2>8, <5>3 DEF ThreadPart, Long!Goto
          <6> QED
            BY <1>1, <1>2, <2>5, <5>1, <6>1, HandKept DEF CardsKeep
        <5> QED
          BY <5>2, <5>3 DEF Long!Threads
      <4> QED
        BY <1>1, <1>2, <2>8, <3>3, <3>4, <4>1 DEF ThreadsKeep, ThreadPart, Long!Unsaved
    <3> QED
      BY <3>1, <3>2, <3>5, InvPartsNext
  <2> QED
    BY <1>4, <2>7, <2>8 DEF Long!SendReply
<1> QED
  BY <1>3, <1>4

-----------------------------------------------------------------------------
(* The end of a turn, crashes and recovery                                  *)

LEMMA FinishStep == ASSUME Long!LInv, Long!Finish PROVE Long!LInv'
<1> DEFINE e == [mem EXCEPT !.mgr = FALSE]
<1>1. EntryPart /\ RootPart /\ ThreadPart /\ CardsKeep /\ tick' \in Nat
  BY InvParts, SameCards DEF Long!Finish, EntryPart
<1>2. /\ up = "up" /\ pc["m"] = "run" /\ todo' = todo \ {cur} /\ cur' = Long!NoRoot
      /\ done' = done \cup {cur}
      /\ UNCHANGED <<card, queue, snd, tick, up, rep, need>>
  BY DEF Long!Finish, Long!Turn
<1>3. e \in Long!Entries /\ Alike(e, mem)
  BY <1>1 DEF EntryPart, Long!Entries, Alike
<1>4. \/ (Long!Unsaved \/ Long!Persist(e)) /\ pc' = [pc EXCEPT !["m"] = "idle"]
      \/ mem.open /\ ~mem.reply /\ Long!Close /\ Long!GotoClosed("m", "idle")
  <2>1. ~Long!HasDelivery(mem) \/ Long!Empty(mem) => ~mem.reply
    BY <1>1, NoDelivery DEF EntryPart, Long!Empty
  <2> QED
    BY <2>1 DEF Long!Finish, Long!Goto
<1> HIDE DEF e
<1>5. ASSUME Long!Unsaved \/ Long!Persist(e), pc' = [pc EXCEPT !["m"] = "idle"]
      PROVE  EntryPart' /\ ThreadPart' /\ jr'.open = jr.open /\ jr'.run = jr.run
  <2>1. EntryStep
    BY <1>3, <1>5, UnsavedSteps, PersistSteps
  <2>2. EntryPart'
    BY <1>1, <1>2, <2>1, EntrySteady
  <2>3. \A r : jr.open /\ jr.run = r => r \in LRoots
    BY <1>1, RootPartHeld
  <2>4. /\ mem'.open = mem.open /\ mem'.reply = mem.reply /\ mem'.run = mem.run
        /\ jr'.open = jr.open /\ jr'.run = jr.run
    BY <1>1, <2>1, <2>3, EntryCarried
  <2>5. DOMAIN pc' = Long!Threads /\ pc'["m"] = "idle" /\ pc'["w"] = pc["w"]
    BY <1>1, <1>5 DEF ThreadPart, Long!Threads
  <2>6. Long!SendAllowed'
    BY <1>1, <1>2, <2>4, <2>5 DEF ThreadPart, Long!SendAllowed, Long!Threads
  <2>7. HandPart'
    BY <1>1, <2>4, <2>5, NoneInHand DEF ThreadPart, HandPart, Long!ReplyInHand
  <2>8. ThreadPart'
    BY <1>1, <1>2, <2>4, <2>5, <2>6, <2>7 DEF ThreadPart
  <2> QED
    BY <2>2, <2>4, <2>8
<1>6. ASSUME mem.open, ~mem.reply, Long!Close, Long!GotoClosed("m", "idle")
      PROVE  EntryPart' /\ ThreadPart' /\ ~jr'.open
  <2>1. EntryPart'
    BY <1>1, <1>2, <1>6, CloseEntry
  <2>2. ~mem'.open /\ ~jr'.open /\ ~mem'.reply
    BY <1>6, ClosedTyped DEF Long!Close
  <2>3. DOMAIN pc' = Long!Threads /\ pc'["w"] = "idle" /\ pc'["m"] = "idle"
    BY <1>1, <1>6 DEF ThreadPart, Long!GotoClosed, Long!Threads
  <2>4. Long!SendAllowed'
    BY <2>2 DEF Long!SendAllowed
  <2>5. ThreadPart'
    BY <1>1, <1>2, <2>2, <2>3, <2>4, NoneInHand DEF ThreadPart, Long!ReplyHeld
  <2> QED
    BY <2>1, <2>2, <2>5
<1>7. EntryPart' /\ ThreadPart' /\ (jr'.open => jr.open /\ jr'.run = jr.run)
  BY <1>4, <1>5, <1>6
<1>8. RootPart'
  <2>1. \A x : RootHeld(x)' => RootHeld(x)
    BY <1>2 DEF RootHeld, Holds
  <2>2. \A x : RootHeld(x) => RootHeld(x)' \/ x \in done'
    BY <1>2 DEF RootHeld, Holds
  <2>3. done \subseteq done'
    BY <1>2
  <2> QED
    BY <1>1, <1>2, <1>7, <2>1, <2>2, <2>3, RootPartHeld, RootPartNext
<1> QED
  BY <1>7, <1>8, InvPartsNext

LEMMA CrashStep == ASSUME Long!LInv, Long!Crash PROVE Long!LInv'
<1>1. EntryPart /\ RootPart /\ ThreadPart
  BY InvParts
<1>2. /\ mem' = Long!Closed /\ cur' = Long!NoRoot /\ up' = "boot"
      /\ pc' = [t \in Long!Threads |-> "idle"] /\ snd' = [t \in Long!Threads |-> Long!Nothing]
      /\ UNCHANGED <<jr, card, queue, todo, tick, rep, need, done>>
  BY DEF Long!Crash
<1>3. mem' \in Long!Entries /\ ~mem'.open /\ ~mem'.reply
  BY <1>2, ClosedTyped
<1>4. EntryPart'
  BY <1>1, <1>2, <1>3 DEF EntryPart, Long!SameEntry, Long!ReplyNeedsTask, CardShown,
     Long!ReplyAfterCard, Long!ReplyKept
<1>5. RootPart'
  <2>1. \A x : RootHeld(x)' <=> RootHeld(x)
    BY <1>2 DEF RootHeld, Holds
  <2> QED
    BY <1>1, <1>2, <2>1, RootPartHeld, RootPartNext
<1>6. ThreadPart'
  <2>1. pc'["m"] = "idle" /\ pc'["w"] = "idle" /\ DOMAIN pc' = Long!Threads
    BY <1>2 DEF Long!Threads
  <2>2. Long!SendAllowed'
    BY <1>3 DEF Long!SendAllowed
  <2> QED
    BY <1>2, <1>3, <2>1, <2>2, NoneInHand DEF ThreadPart, Long!ReplyHeld
<1> QED
  BY <1>4, <1>5, <1>6, InvPartsNext

LEMMA RecoverStep == ASSUME Long!LInv, Long!Recover PROVE Long!LInv'
<1> DEFINE e == Long!Recovered(jr)
<1>1. EntryPart /\ RootPart /\ ThreadPart
  BY InvParts
<1>2. /\ up = "boot" /\ up' = "up"
      /\ UNCHANGED <<card, queue, todo, cur, pc, snd, tick, rep, need, done>>
  BY DEF Long!Recover
<1>3. ~mem.open /\ cur = Long!NoRoot /\ pc["m"] = "idle" /\ pc["w"] = "idle"
  BY <1>1, <1>2 DEF ThreadPart
<1>4. \/ Long!Unsaved
      \/ Long!Close /\ ~jr.reply
      \/ jr.open /\ Long!Persist(e)
  BY <1>1, NoDelivery DEF Long!Recover, EntryPart
<1>5. e \in Long!Entries /\ Alike(e, jr)
  <2> DEFINE d == IF jr.mgr /\ ~jr.reply /\ ~jr.terminal /\ jr.deferred = "no"
                  THEN "infra" ELSE jr.deferred
             g == [jr EXCEPT !.mgr = FALSE, !.making = FALSE, !.deferred = d]
  <2>1. jr \in Long!Entries
    BY <1>1 DEF EntryPart
  <2>2. d \in {"no", "blocker", "infra"}
    BY <2>1 DEF Long!Entries
  <2>3. e = g
    BY <2>1 DEF Long!Recovered, Long!Entries
  <2> HIDE DEF d, e
  <2>4. g \in Long!Entries
    BY <2>1, <2>2 DEF Long!Entries
  <2>5. Alike(g, jr)
    BY <2>1 DEF Long!Entries, Alike
  <2> QED
    BY <2>3, <2>4, <2>5
<1> HIDE DEF e
<1>6. EntryPart' /\ (jr'.open => jr.open /\ jr'.run = jr.run)
  <2>1. CASE Long!Unsaved
    BY <1>1, <1>2, <2>1, EntryStays DEF Long!Unsaved, EntryPart
  <2>2. CASE Long!Close /\ ~jr.reply
    <3>1. ~jr'.open
      BY <2>2, ClosedTyped DEF Long!Close
    <3> QED
      BY <1>1, <1>2, <2>2, <3>1, CloseEntry
  <2>3. CASE jr.open /\ Long!Persist(e)
    <3>1. e.open /\ e.run = jr.run
      BY <1>5, <2>3 DEF Alike
    <3> QED
      BY <1>1, <1>2, <1>3, <1>5, <2>3, <3>1, NewObject
  <2> QED
    BY <1>4, <2>1, <2>2, <2>3
<1>7. RootPart'
  <2>1. \A x : RootHeld(x)' <=> RootHeld(x)
    BY <1>2 DEF RootHeld, Holds
  <2> QED
    BY <1>1, <1>2, <1>6, <2>1, RootPartHeld, RootPartNext
<1>8. ThreadPart'
  <2>1. Long!SendAllowed'
    BY <1>2, <1>3 DEF Long!SendAllowed, Long!Threads
  <2> QED
    BY <1>1, <1>2, <1>3, <2>1, NoneInHand DEF ThreadPart, Long!ReplyHeld
<1> QED
  BY <1>6, <1>7, <1>8, InvPartsNext

-----------------------------------------------------------------------------
(* The invariant, for LongTasks by itself and in its parts of MCRecords     *)

LEMMA LStarts == Long!LInit => Long!LInv
<1> SUFFICES ASSUME Long!LInit PROVE Long!LInv
  OBVIOUS
<1>1. /\ mem \in Long!Entries /\ jr \in Long!Entries
      /\ ~mem.open /\ ~mem.reply /\ ~jr.open
  BY ClosedTyped DEF Long!LInit
<1>2. tick \in Nat /\ DOMAIN card = LRoots /\ DOMAIN rep = LRoots /\ DOMAIN need = LRoots
  BY DEF Long!LInit
<1>3. \A r \in LRoots : rep[r] = "new"
  BY DEF Long!LInit
<1>4. EntryPart
  BY <1>1, <1>2, <1>3 DEF EntryPart, Long!SameEntry, Long!ReplyNeedsTask, CardShown,
     Long!ReplyAfterCard, Long!ReplyKept
<1>5. todo = {} /\ queue = <<>> /\ cur = Long!NoRoot
  BY DEF Long!LInit
<1>6. RootPart
  BY <1>1, <1>3, <1>5 DEF RootPart, Long!RootsTaken, Long!RootKept
<1>7. /\ DOMAIN pc = Long!Threads /\ DOMAIN snd = Long!Threads
      /\ \A t \in Long!Threads : pc[t] = "idle"
      /\ up = "up"
  BY DEF Long!LInit
<1>8. HandPart
  BY <1>7 DEF HandPart, Long!ReplyInHand, Long!Threads, Long!Replying, Long!ReplyHeld
<1>9. ThreadPart
  BY <1>1, <1>7, <1>8 DEF ThreadPart, Long!SendAllowed, Long!Threads
<1> QED
  BY <1>4, <1>6, <1>9, InvParts

LEMMA LStepKeeps == Long!LInv /\ Long!LNext => Long!LInv'
<1> SUFFICES ASSUME Long!LInv, Long!LNext PROVE Long!LInv'
  OBVIOUS
<1>1. CASE \E r \in LRoots : Long!Arrive(r) \/ Long!Admit(r) \/ Long!GlassEnds(r)
  BY <1>1, ArriveStep, AdmitStep, GlassEndsStep
<1>2. CASE Long!Begin \/ Long!ClaimHead \/ Long!ClaimLapses
  BY <1>2, BeginStep, ClaimHeadStep, ClaimLapsesStep
<1>3. CASE Long!Prepare \/ \E k \in {"block", "resolve", "end"} : Long!Intend(k)
  BY <1>3, PrepareStep, IntendStep
<1>4. CASE (\E out \in Long!Outs : Long!SendUpdate(out)) \/ Long!RecordUpdate
  BY <1>4, SendUpdateStep, RecordUpdateStep
<1>5. CASE \E t \in Long!Threads, out \in Long!Outs :
               Long!Ensure(t, out) \/ Long!Delivered(t, out) \/ Long!SettleWrite(t, out)
  BY <1>5, EnsureStep, DeliveredStep, SettleWriteStep
<1>6. CASE \E w \in LWorkers : Long!JournalWorker(w) \/ Long!ReconcileWorker(w)
  BY <1>6, JournalWorkerStep, ReconcileWorkerStep
<1>7. CASE Long!LaunchWorker \/ Long!MarkStarted \/ Long!DiscardWorker
  BY <1>7, LaunchWorkerStep, MarkStartedStep, DiscardWorkerStep
<1>8. CASE \E w \in LWorkers, last \in BOOLEAN, out \in Long!Outs : Long!WorkerFact(w, last, out)
  BY <1>8, WorkerFactStep
<1>9. CASE \E t \in Long!Threads, w \in LWorkers : Long!DeliverStart(t, w)
  BY <1>9, DeliverStartStep
<1>10. CASE \/ Long!FinalReply \/ Long!QueueReply \/ Long!EnterFlush \/ Long!StrayDecide
            \/ Long!FlushDue \/ Long!SettleDue
  BY <1>10, FinalReplyStep, QueueReplyStep, EnterFlushStep, StrayStep, DueStep
<1>16. CASE \E out \in Long!Outs : Long!StraySettle(out) \/ Long!StraySend(out)
  BY <1>16, StrayStep, StraySendStep
<1>11. CASE \E t \in Long!Threads : Long!Decide(t) \/ \E seen \in BOOLEAN : Long!SettleRead(t, seen)
  BY <1>11, DecideStep, SettleReadStep
<1>12. CASE \E t \in Long!Threads, out \in Long!Outs, gone \in BOOLEAN : Long!SendReply(t, out, gone)
  BY <1>12, SendReplyStep
<1>13. CASE (\E reads \in BOOLEAN : Long!ReconcileTimer(reads)) \/ Long!Heartbeat
  BY <1>13, TimerStep, HeartbeatStep
<1>14. CASE Long!CloseIfTerminal \/ Long!Defer \/ Long!Finish
  BY <1>14, CloseIfTerminalStep, DeferStep, FinishStep
<1>15. CASE Long!Crash \/ Long!Recover
  BY <1>15, CrashStep, RecoverStep
<1> QED
  BY <1>1, <1>2, <1>3, <1>4, <1>5, <1>6, <1>7, <1>8, <1>9, <1>10, <1>11, <1>12, <1>13, <1>14, <1>15, <1>16 DEF Long!LNext

LEMMA LStutters ==
  ASSUME Long!LInv,
         UNCHANGED <<mem, jr, card, queue, todo, cur, pc, snd, tick, up, done, rep, need>>
  PROVE  Long!LInv'
BY DEF Long!LInv, Long!LTypeOK, Long!SameEntry, Long!ClosedIsQuiet, Long!RootsTaken,
   Long!ReplyNeedsTask, Long!TerminalIsShown, Long!SendAllowed, Long!ReplyInHand,
   Long!ReplyAfterCard, Long!ReplyKept, Long!RootKept

LEMMA LongSteps == Long!LInv /\ [Long!LNext]_(Long!lvars) => Long!LInv'
BY LStepKeeps, LStutters DEF Long!lvars

(* The invariant holds: the object of update_tool and the journal under the  *)
(* actor directory say the same of the root, its task, its reply and its     *)
(* end, whichever of the turn, the watcher and a restart writes.             *)
THEOREM LongTaskInvariance == Long!LSpec => []Long!LInv
BY LStarts, LongSteps, PTL DEF Long!LSpec

LEMMA LongPartInvariance == Spec => [](LongPart => Long!LInv)
<1> DEFINE I == LongPart => Long!LInv
<1>1. Init => I
  BY LStarts DEF Init, LongPart
<1>2. I /\ [Next]_vars => I'
  <2> SUFFICES ASSUME I, [Next]_vars, LongPart' PROVE Long!LInv'
    OBVIOUS
  <2>1. CASE Next
    <3>1. LongPart
      BY <2>1 DEF Next, LongPart
    <3>2. Long!LNext
      BY <2>1, <3>1 DEF Next, LongPart
    <3> QED
      BY <3>1, <3>2, LStepKeeps
  <2>2. CASE UNCHANGED vars
    <3>1. UNCHANGED <<part, v1, v2, v3, v7, v9, v10, v11, v12, v13, v16, v17, v18, v19>>
      BY <2>2 DEF vars, Rest7
    <3> QED
      BY <3>1, LStutters DEF LongPart
  <2> QED
    BY <2>1, <2>2
<1> QED
  BY <1>1, <1>2, PTL DEF Spec

(* "will not publish a final prose reply until the corresponding terminal    *)
(* card is accepted by Glass": final_reply, the watcher's flush and the      *)
(* flush after a restart send a reply that belongs to a task only when the   *)
(* card in Glass is terminal, for any losses and crashes in between.         *)
THEOREM RepliesAfterCard ==
  (Long!LSpec => []Long!ReplyAfterCard) /\ (Spec => []ReplyAfterCard)
<1>1. Long!LInv => Long!ReplyAfterCard
  BY DEF Long!LInv
<1>2. (LongPart => Long!LInv) => ReplyAfterCard
  BY <1>1 DEF ReplyAfterCard
<1> QED
  BY <1>1, <1>2, LongTaskInvariance, LongPartInvariance, PTL

(* A reply that was queued and is neither sent nor given up is in the        *)
(* journal of its root: begin, close, another root and a crash do not drop   *)
(* it.                                                                       *)
THEOREM RepliesKept ==
  (Long!LSpec => []Long!ReplyKept) /\ (Spec => []ReplyKept)
<1>1. Long!LInv => Long!ReplyKept
  BY DEF Long!LInv
<1>2. (LongPart => Long!LInv) => ReplyKept
  BY <1>1 DEF ReplyKept
<1> QED
  BY <1>1, <1>2, LongTaskInvariance, LongPartInvariance, PTL

(* A root that was taken in is with the dispatcher or in the durable queue   *)
(* until its turn has run: behind the fence of an earlier root, over a       *)
(* claim that lapsed, and through a crash of the manager.                    *)
THEOREM RootsKept ==
  (Long!LSpec => []Long!RootKept) /\ (Spec => []RootKept)
<1>1. Long!LInv => Long!RootKept
  BY DEF Long!LInv
<1>2. (LongPart => Long!LInv) => RootKept
  BY <1>1 DEF RootKept
<1> QED
  BY <1>1, <1>2, LongTaskInvariance, LongPartInvariance, PTL

-----------------------------------------------------------------------------
(* Facts.  The invariant is FactsInv: while an object is open it is the only *)
(* writer of the intents, so what it assigns is what the journal takes over. *)

told == v4
USE DEF told

\* The file takes over what is assigned when it has nothing newer.
LEMMA MergesNothing ==
  ASSUME NEW e \in Long!Entries, \A w \in LWorkers : ~Long!Newer(e, w)
  PROVE  /\ Long!MergeFacts(e).open = e.open /\ Long!MergeFacts(e).mark = e.mark
         /\ \A w \in LWorkers : /\ Long!MergeFacts(e).work[w] = e.work[w]
                                /\ Long!MergeFacts(e).fact[w] = e.fact[w]
<1> DEFINE wk == [w \in LWorkers |->
                        IF ~Long!Newer(e, w) THEN e.work[w]
                        ELSE IF e.work[w] \in {"none", "published"}
                             THEN "published" ELSE jr.work[w]]
           ft == [w \in LWorkers |-> IF Long!Newer(e, w) THEN jr.fact[w] ELSE e.fact[w]]
<1>1. \A w \in LWorkers : wk[w] = e.work[w] /\ ft[w] = e.fact[w]
  OBVIOUS
<1>2. Long!MergeFacts(e) = [e EXCEPT !.work = wk, !.fact = ft]
  BY DEF Long!MergeFacts
<1> HIDE DEF wk, ft
<1>3. /\ Long!MergeFacts(e).work = wk /\ Long!MergeFacts(e).fact = ft
      /\ Long!MergeFacts(e).open = e.open /\ Long!MergeFacts(e).mark = e.mark
  BY <1>2 DEF Long!Entries
<1> QED
  BY <1>1, <1>3

LEMMA PersistsAsIs ==
  ASSUME NEW e \in Long!Entries, e.open, Long!Persist(e),
         \A w \in LWorkers : ~Long!Newer(e, w)
  PROVE  mem' = e /\ \A w \in LWorkers : jr'.work[w] = e.work[w] /\ jr'.fact[w] = e.fact[w]
<1>1. mem' = e /\ jr' = Long!MergeFacts(e)
  BY DEF Long!Persist
<1> QED
  BY <1>1, MergesNothing

Delivers(l) == l \in {"deliver", "fdeliver"}
FlightsKeep == \A t \in Long!Threads :
    Delivers(pc'[t]) => Delivers(pc[t]) /\ snd'[t] = snd[t]
\* What a step may assign: no fact goes back, none is ahead of the clock.
FactsGrow(e) ==
    /\ e \in Long!Entries /\ e.open = mem.open
    /\ mem.open => \A w \in LWorkers :
         /\ mem.fact[w] <= e.fact[w] /\ e.fact[w] <= tick' /\ ~Long!Newer(e, w)
FactsOn == Long!FactsAgree' /\ Long!FactsStamped' /\ Long!FactsInFlight' /\ Long!FactKept

LEMMA FactsTyped ==
  ASSUME Long!FactsInv
  PROVE  /\ mem \in Long!Entries /\ jr \in Long!Entries /\ tick \in Nat
         /\ DOMAIN pc = Long!Threads /\ DOMAIN snd = Long!Threads
         /\ mem.open => jr.open
         /\ \A w \in LWorkers : /\ mem.fact[w] \in Nat /\ jr.fact[w] \in Nat
                                /\ mem.mark[w] \in Nat /\ jr.mark[w] \in Nat
BY DEF Long!FactsInv, Long!LInv, Long!LTypeOK, Long!SameEntry, Long!Entries

\* The entry grows, the flights stay.
LEMMA FactsCarried ==
  ASSUME Long!FactsInv, NEW e, FactsGrow(e), Long!Persist(e), FlightsKeep,
         tick' \in Nat, tick <= tick', DOMAIN told' = LWorkers
  PROVE  Long!FactsAgree' /\ Long!FactsStamped' /\ Long!FactsInFlight'
<1>1. e \in Long!Entries /\ e.open = mem.open
  BY DEF FactsGrow
<1>2. CASE mem.open
  <2>1. mem' = e /\ \A w \in LWorkers : jr'.work[w] = e.work[w] /\ jr'.fact[w] = e.fact[w]
    BY <1>1, <1>2, PersistsAsIs DEF FactsGrow
  <2>2. \A w \in LWorkers : /\ mem.fact[w] <= e.fact[w] /\ e.fact[w] <= tick'
                            /\ mem.fact[w] \in Nat /\ e.fact[w] \in Nat
    BY <1>1, <1>2, FactsTyped DEF FactsGrow, Long!Entries
  <2>3. Long!FactsAgree' /\ Long!FactsStamped'
    BY <2>1, <2>2 DEF Long!FactsAgree, Long!FactsStamped
  <2>4. Long!FactsInFlight'
    <3> SUFFICES ASSUME NEW t \in Long!Threads, Delivers(pc'[t])
                 PROVE  /\ snd'[t].w \in LWorkers
                        /\ snd'[t].phase \in {"launched", "published"}
                        /\ snd'[t].fact \in Nat /\ snd'[t].fact <= mem'.fact[snd'[t].w]
      BY DEF Long!FactsInFlight, Delivers
    <3>1. snd'[t] = snd[t] /\ Delivers(pc[t])
      BY DEF FlightsKeep
    <3>2. /\ snd[t].w \in LWorkers /\ snd[t].phase \in {"launched", "published"}
          /\ snd[t].fact \in Nat /\ snd[t].fact <= mem.fact[snd[t].w]
      BY <1>2, <3>1 DEF Long!FactsInv, Long!FactsInFlight, Delivers
    <3>3. mem'.fact[snd[t].w] = e.fact[snd[t].w]
      BY <2>1
    <3> QED
      BY <2>2, <3>1, <3>2, <3>3
  <2> QED
    BY <2>3, <2>4
<1>3. CASE ~mem.open
  <2>1. mem' = e /\ jr' = jr /\ ~mem'.open
    BY <1>1, <1>3 DEF Long!Persist
  <2>2. Long!FactsAgree' /\ Long!FactsInFlight'
    BY <2>1 DEF Long!FactsAgree, Long!FactsInFlight
  <2>3. Long!FactsStamped'
    BY <2>1, FactsTyped DEF Long!FactsInv, Long!FactsStamped
  <2> QED
    BY <2>2, <2>3
<1> QED
  BY <1>2, <1>3

\* Most actions leave the intents alone.
Same(e) == /\ e \in Long!Entries /\ e.open = mem.open
           /\ e.work = mem.work /\ e.fact = mem.fact /\ e.mark = mem.mark
FactsStay == Long!Unsaved \/ \E e : Same(e) /\ Long!Persist(e)

LEMMA NothingNewer ==
  ASSUME Long!FactsInv, mem.open PROVE \A w \in LWorkers : ~Long!Newer(mem, w)
<1> SUFFICES ASSUME NEW w \in LWorkers, Long!Newer(mem, w) PROVE FALSE
  OBVIOUS
<1>1. mem.work[w] = jr.work[w] /\ mem.fact[w] = jr.fact[w] /\ jr.fact[w] \in Nat
  BY FactsTyped DEF Long!FactsInv, Long!FactsAgree
<1> QED
  BY <1>1 DEF Long!Newer

LEMMA FactsUnsaved ==
  ASSUME Long!FactsInv, Long!Unsaved, FlightsKeep, tick' \in Nat, tick <= tick',
         DOMAIN told' = LWorkers
  PROVE  FactsOn
<1>1. mem' = mem /\ jr' = jr
  BY DEF Long!Unsaved
<1>2. Long!FactsAgree' /\ Long!FactKept
  BY <1>1 DEF Long!FactsInv, Long!FactsAgree, Long!FactKept
<1>3. Long!FactsStamped'
  BY <1>1, FactsTyped DEF Long!FactsInv, Long!FactsStamped
<1>4. Long!FactsInFlight'
  BY <1>1 DEF Long!FactsInv, Long!FactsInFlight, FlightsKeep, Delivers
<1> QED
  BY <1>2, <1>3, <1>4 DEF FactsOn

LEMMA FactsSteady ==
  ASSUME Long!FactsInv, FactsStay, FlightsKeep, UNCHANGED <<tick, told>> PROVE FactsOn
<1>1. tick' \in Nat /\ tick <= tick' /\ DOMAIN told' = LWorkers
  BY FactsTyped DEF Long!FactsInv, Long!FactsStamped
<1>2. ASSUME NEW e, Same(e), Long!Persist(e) PROVE FactsOn
  <2>1. FactsGrow(e) /\ (mem.open => \A w \in LWorkers : ~Long!Newer(e, w))
    <3>1. e.open = mem.open /\ e \in Long!Entries
      BY <1>2 DEF Same
    <3>2. ASSUME mem.open, NEW w \in LWorkers
          PROVE  mem.fact[w] <= e.fact[w] /\ e.fact[w] <= tick' /\ ~Long!Newer(e, w)
      <4>1. ~Long!Newer(mem, w)
        BY <3>2, NothingNewer
      <4>2. ~Long!Newer(e, w)
        BY <1>2, <4>1 DEF Same, Long!Newer
      <4>3. /\ mem.fact[w] = jr.fact[w] /\ jr.fact[w] <= tick /\ tick' = tick
            /\ mem.fact[w] \in Nat
        BY <3>2, FactsTyped DEF Long!FactsInv, Long!FactsAgree, Long!FactsStamped
      <4>4. e.fact[w] = mem.fact[w]
        BY <1>2 DEF Same
      <4> QED
        BY <4>2, <4>3, <4>4
    <3> QED
      BY <3>1, <3>2 DEF FactsGrow
  <2>2. Long!FactsAgree' /\ Long!FactsStamped' /\ Long!FactsInFlight'
    BY <1>1, <1>2, <2>1, FactsCarried
  <2>3. Long!FactKept
    <3>1. CASE mem.open
      <4>1. \A w \in LWorkers : jr'.work[w] = e.work[w]
        BY <1>2, <2>1, <3>1, PersistsAsIs DEF Same
      <4>2. \A w \in LWorkers : jr'.work[w] = jr.work[w]
        BY <1>2, <3>1, <4>1 DEF Same, Long!FactsInv, Long!FactsAgree
      <4> QED
        BY <4>2 DEF Long!FactKept
    <3>2. CASE ~mem.open
      <4>1. jr' = jr
        BY <1>2, <3>2 DEF Same, Long!Persist
      <4> QED
        BY <4>1 DEF Long!FactKept
    <3> QED
      BY <3>1, <3>2
  <2> QED
    BY <2>2, <2>3 DEF FactsOn
<1> QED
  BY <1>1, <1>2, FactsUnsaved DEF FactsStay

\* A closed object has no intents, and a closed journal none to lose.
LEMMA FactsClosed ==
  ASSUME Long!FactsInv, mem' = Long!Closed, jr' = jr \/ jr' = Long!Closed,
         UNCHANGED <<tick, told>>
  PROVE  FactsOn
<1>1. ~mem'.open /\ (jr' = jr \/ ~jr'.open)
  BY ClosedTyped
<1>2. Long!FactsAgree' /\ Long!FactsInFlight'
  BY <1>1 DEF Long!FactsAgree, Long!FactsInFlight
<1>3. \A w \in LWorkers : Long!Closed.fact[w] = 0
  BY DEF Long!Closed, Long!Fresh
<1>4. Long!FactsStamped'
  BY <1>3, FactsTyped DEF Long!FactsInv, Long!FactsStamped
<1>5. Long!FactKept
  BY <1>1 DEF Long!FactKept
<1> QED
  BY <1>2, <1>4, <1>5 DEF FactsOn

\* A thread goes on, anywhere but to a delivery.
LEMMA FlightMoves ==
  ASSUME Long!FactsInv, NEW t \in Long!Threads, NEW l, ~Delivers(l),
         pc' = [pc EXCEPT ![t] = l],
         snd' = snd \/ \E s : snd' = [snd EXCEPT ![t] = s]
  PROVE  FlightsKeep
<1>1. pc'[t] = l /\ \A u \in Long!Threads \ {t} : pc'[u] = pc[u] /\ snd'[u] = snd[u]
  BY FactsTyped
<1> QED
  BY <1>1 DEF FlightsKeep
LEMMA FlightsStay == ASSUME UNCHANGED <<pc, snd>> PROVE FlightsKeep
BY DEF FlightsKeep

-----------------------------------------------------------------------------
(* What the actions do to the facts                                         *)

LEMMA UnsavedStays == ASSUME Long!Unsaved PROVE FactsStay
BY DEF FactsStay

LEMMA PersistStays == ASSUME NEW e, Same(e), Long!Persist(e) PROVE FactsStay
BY DEF FactsStay

\* Arrivals, claims and what others do to the card
LEMMA QuietFacts ==
  ASSUME Long!FactsInv,
         (\E r \in LRoots : Long!Arrive(r) \/ Long!GlassEnds(r)) \/ Long!ClaimHead \/ Long!ClaimLapses
  PROVE  FactsOn
<1>1. UNCHANGED <<mem, jr, pc, snd, tick, told>>
  BY DEF Long!Arrive, Long!GlassEnds, Long!ClaimHead, Long!ClaimLapses
<1>2. FactsStay /\ FlightsKeep
  BY <1>1, FlightsStay DEF FactsStay, Long!Unsaved
<1> QED
  BY <1>1, <1>2, FactsSteady

LEMMA TurnFacts ==
  ASSUME Long!FactsInv,
         \/ Long!Prepare \/ Long!Defer \/ Long!LaunchWorker
         \/ \E k \in {"block", "resolve", "end"} : Long!Intend(k)
  PROVE  FactsOn
<1>1. UNCHANGED <<tick, told>>
  BY DEF Long!Prepare, Long!Defer, Long!LaunchWorker, Long!Intend
<1>2. mem \in Long!Entries
  BY FactsTyped
<1>3. FactsStay
  <2>1. CASE Long!Prepare
    <3> DEFINE e == [mem EXCEPT !.task = TRUE, !.create = TRUE, !.making = TRUE]
    <3>1. Same(e)
      BY <1>2 DEF Same, Long!Entries
    <3> QED
      BY <2>1, <3>1, PersistStays DEF Long!Prepare
  <2>2. CASE Long!Defer
    <3> DEFINE e == [mem EXCEPT !.deferred = "infra"]
    <3>1. Same(e)
      BY <1>2 DEF Same, Long!Entries
    <3> QED
      BY <2>2, <3>1, PersistStays DEF Long!Defer
  <2>3. CASE Long!LaunchWorker \/ \E k \in {"block", "resolve", "end"} : Long!Intend(k)
    BY <2>3, UnsavedStays DEF Long!LaunchWorker, Long!Intend, Long!Unsaved
  <2> QED
    BY <2>1, <2>2, <2>3
<1>4. FlightsKeep
  <2>1. CASE Long!Defer
    BY <2>1, FlightsStay DEF Long!Defer
  <2>2. CASE ~Long!Defer
    <3>1. \E l \in {"update", "launched", "unlaunched"} : pc' = [pc EXCEPT !["m"] = l]
      BY <2>2 DEF Long!Prepare, Long!LaunchWorker, Long!Intend, Long!Goto
    <3>2. snd' = snd \/ \E s : snd' = [snd EXCEPT !["m"] = s]
      BY <2>2 DEF Long!Prepare, Long!LaunchWorker, Long!Intend
    <3> QED
      BY <3>1, <3>2, FlightMoves DEF Delivers, Long!Threads
  <2> QED
    BY <2>1, <2>2
<1> QED
  BY <1>1, <1>3, <1>4, FactsSteady

\* The reply: queued, or sent without a journal
LEMMA ReplyFacts ==
  ASSUME Long!FactsInv,
         \/ Long!FinalReply \/ Long!QueueReply \/ Long!EnterFlush \/ Long!StrayDecide
         \/ \E out \in Long!Outs : Long!StraySettle(out) \/ Long!StraySend(out)
  PROVE  FactsOn
<1> DEFINE e == [mem EXCEPT !.reply = TRUE, !.settle = mem.task]
<1>1. UNCHANGED <<tick, told>>
  BY DEF Long!FinalReply, Long!QueueReply, Long!EnterFlush, Long!StrayDecide, Long!StraySettle,
     Long!StraySend
<1>2. Same(e)
  <2>1. mem \in Long!Entries
    BY FactsTyped
  <2> QED
    BY <2>1 DEF Same, Long!Entries
<1>3. Long!Unsaved \/ Long!Persist(e)
  BY DEF Long!FinalReply, Long!QueueReply, Long!EnterFlush, Long!StrayDecide, Long!StraySettle,
     Long!StraySend, Long!Unsaved
<1> HIDE DEF e
<1>4. FactsStay
  BY <1>2, <1>3, PersistStays, UnsavedStays
<1>5. /\ \E l \in {"reply", "queued", "flush", "run", "stray", "straysend"} :
           pc' = [pc EXCEPT !["m"] = l]
      /\ snd' = snd \/ \E x : snd' = [snd EXCEPT !["m"] = x]
  BY DEF Long!FinalReply, Long!QueueReply, Long!EnterFlush, Long!StrayDecide, Long!StraySettle,
     Long!StraySend, Long!Astray, Long!Goto
<1>6. FlightsKeep
  BY <1>5, FlightMoves DEF Delivers, Long!Threads
<1> QED
  BY <1>1, <1>4, <1>6, FactsSteady

LEMMA UpdateFacts ==
  ASSUME Long!FactsInv, (\E out \in Long!Outs : Long!SendUpdate(out)) \/ Long!RecordUpdate
  PROVE  FactsOn
<1> DEFINE e == [mem EXCEPT !.making = FALSE]
<1>1. UNCHANGED <<tick, told>>
  BY DEF Long!SendUpdate, Long!RecordUpdate
<1>2. FactsStay
  <2>1. CASE \E out \in Long!Outs : Long!SendUpdate(out)
    BY <2>1, UnsavedStays DEF Long!SendUpdate, Long!Unsaved
  <2>2. CASE Long!RecordUpdate
    <3>1. Same(e)
      BY FactsTyped DEF Same, Long!Entries
    <3>2. snd["m"] \in Long!Sendings
      BY <2>2 DEF Long!RecordUpdate, Long!FactsInv, Long!LInv, Long!LTypeOK
    <3>3. \A k \in {"create", "block", "resolve", "end"} : Same(Long!Recorded(e, k))
      <4> HIDE DEF e
      <4>1. Same(Long!Recorded(e, "create"))
        BY <3>1 DEF Same, Long!Recorded, Long!Entries
      <4>2. Same(Long!Recorded(e, "block"))
        BY <3>1 DEF Same, Long!Recorded, Long!Entries
      <4>3. Same(Long!Recorded(e, "resolve"))
        BY <3>1 DEF Same, Long!Recorded, Long!Entries
      <4>4. Same(Long!Recorded(e, "end"))
        BY <3>1 DEF Same, Long!Recorded, Long!Entries
      <4> QED
        BY <4>1, <4>2, <4>3, <4>4
    <3>4. snd["m"].kind \in {"create", "block", "resolve", "end"}
      BY <3>2 DEF Long!Sendings
    <3>5. \/ Long!Unsaved \/ Long!Persist(e) \/ Long!Persist(Long!Recorded(e, snd["m"].kind))
      BY <2>2 DEF Long!RecordUpdate
    <3> HIDE DEF e
    <3> QED
      BY <3>1, <3>3, <3>4, <3>5, PersistStays, UnsavedStays
  <2> QED
    BY <2>1, <2>2
<1>3. FlightsKeep
  <2>1. \E l \in {"record", "run"} : pc' = [pc EXCEPT !["m"] = l]
    BY DEF Long!SendUpdate, Long!RecordUpdate, Long!Goto
  <2>2. \E s : snd' = [snd EXCEPT !["m"] = s]
    BY DEF Long!SendUpdate, Long!RecordUpdate
  <2> QED
    BY <2>1, <2>2, FlightMoves DEF Delivers, Long!Threads
<1> QED
  BY <1>1, <1>2, <1>3, FactsSteady

\* The replay of the create and the watcher's look at the card
LEMMA CardFacts ==
  ASSUME Long!FactsInv,
         \/ \E t \in Long!Threads, out \in Long!Outs : Long!Ensure(t, out)
         \/ (\E reads \in BOOLEAN : Long!ReconcileTimer(reads)) \/ Long!Heartbeat
  PROVE  FactsOn
<1>1. UNCHANGED <<tick, told, pc, snd>>
  BY DEF Long!Ensure, Long!ReconcileTimer, Long!Heartbeat
<1>2. mem \in Long!Entries /\ Same(mem)
  BY FactsTyped DEF Same
<1>3. FactsStay
  <2>1. CASE \E t \in Long!Threads, out \in Long!Outs : Long!Ensure(t, out)
    <3> DEFINE e == [mem EXCEPT !.conf = TRUE, !.create = FALSE]
    <3>1. Same(e)
      BY <1>2 DEF Same, Long!Entries
    <3>2. Long!Persist(e) \/ Long!Persist(mem)
      BY <2>1 DEF Long!Ensure
    <3> QED
      BY <1>2, <3>1, <3>2, PersistStays
  <2>2. CASE Long!Heartbeat
    <3> DEFINE e == [mem EXCEPT !.terminal = TRUE]
    <3>1. Same(e)
      BY <1>2 DEF Same, Long!Entries
    <3>2. Long!Persist(e) \/ Long!Persist(mem)
      BY <2>2 DEF Long!Heartbeat
    <3> QED
      BY <1>2, <3>1, <3>2, PersistStays
  <2>3. CASE \E reads \in BOOLEAN : Long!ReconcileTimer(reads)
    <3>1. PICK seen : Long!Persist(Long!TimerRead(mem, seen))
      BY <2>3 DEF Long!ReconcileTimer
    <3> DEFINE d == IF seen = "blocked" THEN "blocker" ELSE "no"
               f == IF mem.resolving THEN [mem EXCEPT !.resolving = FALSE, !.deferred = d]
                    ELSE mem
    <3>2. \/ Long!TimerRead(mem, seen) = f
          \/ Long!TimerRead(mem, seen) = [f EXCEPT !.deferred = "blocker"]
          \/ Long!TimerRead(mem, seen) = [mem EXCEPT !.terminal = TRUE]
      BY DEF Long!TimerRead
    <3>3. Same(f)
      <4>1. d \in {"no", "blocker"}
        OBVIOUS
      <4> HIDE DEF d
      <4>2. Same([mem EXCEPT !.resolving = FALSE, !.deferred = d])
        BY <1>2, <4>1 DEF Same, Long!Entries
      <4> QED
        BY <1>2, <4>2
    <3> HIDE DEF f
    <3>4. Same([f EXCEPT !.deferred = "blocker"]) /\ Same([mem EXCEPT !.terminal = TRUE])
      BY <1>2, <3>3 DEF Same, Long!Entries
    <3> QED
      BY <3>1, <3>2, <3>3, <3>4, PersistStays
  <2> QED
    BY <2>1, <2>2, <2>3
<1> QED
  BY <1>1, <1>3, FlightsStay, FactsSteady

LEMMA SettleFacts ==
  ASSUME Long!FactsInv, NEW t \in Long!Threads,
         \/ Long!Decide(t) \/ (t = "w" /\ (Long!FlushDue \/ Long!SettleDue))
         \/ (\E seen \in BOOLEAN : Long!SettleRead(t, seen))
         \/ \E out \in Long!Outs : Long!SettleWrite(t, out)
  PROVE  FactsOn
<1> DEFINE e == [mem EXCEPT !.settle = TRUE]
           f == [mem EXCEPT !.deferred = "blocker", !.settle = TRUE]
<1>1. UNCHANGED <<tick, told, snd>>
  BY DEF Long!Decide, Long!FlushDue, Long!SettleDue, Long!SettleRead, Long!SettleWrite
<1>2. Same(e) /\ Same(f) /\ Same(Long!Settled(mem))
  <2>1. mem \in Long!Entries
    BY FactsTyped
  <2>2. Same(e)
    BY <2>1 DEF Same, Long!Entries
  <2>3. Same(f)
    BY <2>1 DEF Same, Long!Entries
  <2>4. Same(Long!Settled(mem))
    BY <2>1 DEF Same, Long!Entries, Long!Settled
  <2> QED
    BY <2>2, <2>3, <2>4
<1>3. \/ Long!Unsaved \/ Long!Persist(e) \/ Long!Persist(f) \/ Long!Persist(Long!Settled(mem))
  BY DEF Long!Decide, Long!FlushDue, Long!SettleDue, Long!SettleRead, Long!SettleWrite,
     Long!Unsaved
<1> HIDE DEF e, f
<1>4. FactsStay
  BY <1>2, <1>3, PersistStays, UnsavedStays
<1>5. \E l \in {"run", "idle", "flush", "settle", "complete", "fcomplete", "fsettle", "send"} :
        pc' = [pc EXCEPT ![t] = l]
  BY DEF Long!Decide, Long!FlushDue, Long!SettleDue, Long!SettleRead, Long!SettleWrite,
     Long!Goto, Long!Home, Long!AfterDecide, Long!SettleGoes
<1>6. FlightsKeep
  BY <1>1, <1>5, FlightMoves DEF Delivers
<1> QED
  BY <1>1, <1>4, <1>6, FactsSteady

LEMMA AdmitFacts ==
  ASSUME Long!FactsInv, NEW r \in LRoots, Long!Admit(r) PROVE FactsOn
<1>1. UNCHANGED <<tick, told, snd>>
  BY DEF Long!Admit
<1>2. \/ mem' = Long!Closed /\ jr' = Long!Closed
      \/ Long!Unsaved /\ pc' = pc
  BY DEF Long!Admit, Long!Close
<1>3. CASE Long!Unsaved /\ pc' = pc
  BY <1>1, <1>3, FlightsStay, UnsavedStays, FactsSteady
<1> QED
  BY <1>1, <1>2, <1>3, FactsClosed

LEMMA SendFacts ==
  ASSUME Long!FactsInv, NEW t \in Long!Threads, NEW out, NEW gone, Long!SendReply(t, out, gone)
  PROVE  FactsOn
<1>1. UNCHANGED <<tick, told, snd>>
  BY DEF Long!SendReply
<1>2. \/ mem' = Long!Closed /\ jr' = Long!Closed
      \/ Long!Unsaved /\ Long!Goto(t, Long!Home(t))
  BY DEF Long!SendReply, Long!Close
<1>3. CASE Long!Unsaved /\ Long!Goto(t, Long!Home(t))
  <2>1. \E l \in {"run", "idle"} : pc' = [pc EXCEPT ![t] = l]
    BY <1>3 DEF Long!Goto, Long!Home
  <2>2. FlightsKeep
    BY <1>1, <2>1, FlightMoves DEF Delivers
  <2> QED
    BY <1>1, <1>3, <2>2, UnsavedStays, FactsSteady
<1> QED
  BY <1>1, <1>2, <1>3, FactsClosed

LEMMA FinishFacts == ASSUME Long!FactsInv, Long!Finish PROVE FactsOn
<1> DEFINE e == [mem EXCEPT !.mgr = FALSE]
<1>1. UNCHANGED <<tick, told, snd>>
  BY DEF Long!Finish
<1>2. \/ mem' = Long!Closed /\ jr' = Long!Closed
      \/ (Long!Unsaved \/ Long!Persist(e)) /\ pc' = [pc EXCEPT !["m"] = "idle"]
  BY DEF Long!Finish, Long!Close, Long!Goto
<1>3. Same(e)
  BY FactsTyped DEF Same, Long!Entries
<1> HIDE DEF e
<1>4. CASE (Long!Unsaved \/ Long!Persist(e)) /\ pc' = [pc EXCEPT !["m"] = "idle"]
  <2>1. FlightsKeep
    <3>1. ~Delivers("idle") /\ "m" \in Long!Threads
      BY DEF Delivers, Long!Threads
    <3> QED
      BY <1>1, <1>4, <3>1, FlightMoves
  <2> QED
    BY <1>1, <1>3, <1>4, <2>1, UnsavedStays, PersistStays, FactsSteady
<1> QED
  BY <1>1, <1>2, <1>4, FactsClosed

\* A task that is over: what is left of its intents is dropped.
LEMMA TerminalFacts == ASSUME Long!FactsInv, Long!CloseIfTerminal PROVE FactsOn
<1> DEFINE e == Long!Discarded(mem)
<1>1. mem.open /\ mem.terminal /\ UNCHANGED <<tick, told, snd>>
  BY DEF Long!CloseIfTerminal
<1>2. \/ mem' = Long!Closed /\ jr' = Long!Closed
      \/ Long!Persist(e) /\ pc' = pc
  BY DEF Long!CloseIfTerminal, Long!Close
<1>3. ASSUME Long!Persist(e), pc' = pc PROVE FactsOn
  <2>1. mem \in Long!Entries /\ jr \in Long!Entries /\ tick \in Nat
    BY FactsTyped
  <2>2. e \in Long!Entries /\ Alike(e, mem)
    BY <2>1, DiscardedTyped
  <2>3. /\ e.fact = mem.fact
        /\ \A w \in LWorkers :
             /\ e.work[w] = IF mem.work[w] = "prepared" THEN mem.work[w] ELSE "none"
             /\ e.mark[w] = IF mem.work[w] \in {"launched", "published"} THEN tick
                            ELSE mem.mark[w]
    <3> DEFINE wk == [w \in LWorkers |-> IF mem.work[w] = "prepared" THEN mem.work[w] ELSE "none"]
               mk == [w \in LWorkers |-> IF mem.work[w] \in {"launched", "published"} THEN tick
                                         ELSE mem.mark[w]]
    <3>1. mem.work \in [LWorkers -> Long!Phases] /\ mem.mark \in [LWorkers -> Nat]
      BY <2>1 DEF Long!Entries
    <3>2. e = [mem EXCEPT !.work = wk, !.mark = mk]
      BY <2>1, <3>1 DEF Long!Discarded, Long!Entries
    <3>3. \A w \in LWorkers :
             /\ wk[w] = IF mem.work[w] = "prepared" THEN mem.work[w] ELSE "none"
             /\ mk[w] = IF mem.work[w] \in {"launched", "published"} THEN tick
                        ELSE mem.mark[w]
      OBVIOUS
    <3> HIDE DEF wk, mk, e
    <3>4. e.work = wk /\ e.mark = mk /\ e.fact = mem.fact
      BY <2>1, <3>2 DEF Long!Entries
    <3> QED
      BY <3>3, <3>4
  <2> HIDE DEF e
  <2>4. ASSUME NEW w \in LWorkers
        PROVE  mem.fact[w] <= e.fact[w] /\ e.fact[w] <= tick' /\ ~Long!Newer(e, w)
    <3>1. /\ mem.work[w] = jr.work[w] /\ mem.fact[w] = jr.fact[w]
          /\ jr.fact[w] <= tick /\ jr.fact[w] \in Nat
      BY <1>1, FactsTyped DEF Long!FactsInv, Long!FactsAgree, Long!FactsStamped
    <3>2. mem.work[w] \in {"none", "prepared", "launched", "published"}
      BY <2>1 DEF Long!Entries, Long!Phases
    <3>3. ~Long!Newer(e, w)
      BY <2>1, <2>3, <3>1, <3>2 DEF Long!Newer
    <3> QED
      BY <1>1, <2>1, <2>3, <3>1, <3>3
  <2>5. FactsGrow(e)
    BY <2>2, <2>4 DEF FactsGrow, Alike
  <2>6. FlightsKeep /\ tick' \in Nat /\ tick <= tick' /\ DOMAIN told' = LWorkers
    BY <1>1, <1>3, <2>1, FlightsStay DEF Long!FactsInv, Long!FactsStamped
  <2>7. Long!FactsAgree' /\ Long!FactsStamped' /\ Long!FactsInFlight'
    BY <1>3, <2>5, <2>6, FactsCarried
  <2>8. jr'.terminal
    <3>1. Long!MergeFacts(e).terminal
      BY <1>1, <2>1, <2>2, MergeTyped DEF Alike
    <3>2. jr' = Long!MergeFacts(e)
      BY <1>1, <1>3, <2>2 DEF Long!Persist, Alike
    <3> QED
      BY <3>1, <3>2
  <2>9. Long!FactKept
    BY <2>8 DEF Long!FactKept
  <2> QED
    BY <2>7, <2>9 DEF FactsOn
<1> HIDE DEF e
<1> QED
  BY <1>1, <1>2, <1>3, FactsClosed

LEMMA CrashFacts == ASSUME Long!FactsInv, Long!Crash PROVE FactsOn
BY FactsClosed DEF Long!Crash

\* A new object takes the intents of the journal over.
LEMMA FactsAdopted ==
  ASSUME Long!FactsInv, ~mem.open, NEW e \in Long!Entries, e.open, Long!Persist(e),
         \/ jr.open /\ e.work = jr.work /\ e.fact = jr.fact
         \/ ~jr.open /\ \A w \in LWorkers : e.fact[w] = 0,
         \A t \in Long!Threads : ~Delivers(pc'[t]), UNCHANGED <<tick, told>>
  PROVE  FactsOn
<1>1. \A w \in LWorkers : jr.fact[w] \in Nat /\ jr.fact[w] <= tick /\ tick \in Nat
  BY FactsTyped DEF Long!FactsInv, Long!FactsStamped
<1>2. \A w \in LWorkers : ~Long!Newer(e, w)
  BY <1>1 DEF Long!Newer
<1>3. mem' = e /\ \A w \in LWorkers : jr'.work[w] = e.work[w] /\ jr'.fact[w] = e.fact[w]
  BY <1>2, PersistsAsIs
<1>4. Long!FactsAgree' /\ Long!FactsInFlight'
  BY <1>3 DEF Long!FactsAgree, Long!FactsInFlight, Delivers
<1>5. Long!FactsStamped'
  BY <1>1, <1>3, FactsTyped DEF Long!FactsInv, Long!FactsStamped
<1>6. Long!FactKept
  BY <1>3 DEF Long!FactKept
<1> QED
  BY <1>4, <1>5, <1>6 DEF FactsOn

LEMMA RecoverFacts == ASSUME Long!FactsInv, Long!Recover PROVE FactsOn
<1> DEFINE d == IF jr.mgr /\ ~jr.reply /\ ~jr.terminal /\ jr.deferred = "no"
                THEN "infra" ELSE jr.deferred
           e == [jr EXCEPT !.mgr = FALSE, !.making = FALSE, !.deferred = d]
<1>1. up = "boot" /\ UNCHANGED <<tick, told, pc, snd>>
  BY DEF Long!Recover
<1>2. ~mem.open /\ pc["m"] = "idle" /\ pc["w"] = "idle"
  BY <1>1 DEF Long!FactsInv, Long!LInv, Long!ClosedIsQuiet
<1>3. jr \in Long!Entries
  BY FactsTyped
<1>4. Long!Recovered(jr) = e
  BY <1>3 DEF Long!Recovered, Long!Entries
<1>5. d \in {"no", "blocker", "infra"}
  BY <1>3 DEF Long!Entries
<1> HIDE DEF d
<1>6. /\ e \in Long!Entries /\ e.open = jr.open
      /\ e.work = jr.work /\ e.fact = jr.fact
  BY <1>3, <1>5 DEF Long!Entries
<1> HIDE DEF e
<1>7. \/ Long!Unsaved
      \/ mem' = Long!Closed /\ jr' = Long!Closed
      \/ jr.open /\ Long!Persist(e)
  BY <1>4 DEF Long!Recover, Long!Close
<1>8. CASE Long!Unsaved
  BY <1>1, <1>8, FlightsStay, UnsavedStays, FactsSteady
<1>9. CASE jr.open /\ Long!Persist(e)
  <2>1. \A t \in Long!Threads : ~Delivers(pc'[t])
    BY <1>1, <1>2 DEF Delivers, Long!Threads
  <2> QED
    BY <1>1, <1>2, <1>6, <1>9, <2>1, FactsAdopted
<1> QED
  BY <1>1, <1>7, <1>8, <1>9, FactsClosed

LEMMA BeginFacts == ASSUME Long!FactsInv, Long!Begin PROVE FactsOn
<1> DEFINE f == IF jr.open THEN [jr EXCEPT !.making = FALSE] ELSE Long!Fresh(cur)
<1>1. /\ pc["m"] = "idle" /\ pc' = [pc EXCEPT !["m"] = "run"]
      /\ cur # Long!NoRoot /\ UNCHANGED <<tick, told, snd>>
      /\ Long!Persist(Long!Attached(IF mem.open THEN mem ELSE f))
  BY DEF Long!Begin, Long!Goto
<1>2. \A e \in Long!Entries : /\ Long!Attached(e) \in Long!Entries
                              /\ Long!Attached(e).open = e.open /\ Long!Attached(e).work = e.work
                              /\ Long!Attached(e).fact = e.fact /\ Long!Attached(e).mark = e.mark
  <2> SUFFICES ASSUME NEW e \in Long!Entries
               PROVE  /\ Long!Attached(e).open = e.open /\ Long!Attached(e).work = e.work
                      /\ Long!Attached(e).fact = e.fact /\ Long!Attached(e).mark = e.mark
    BY AttachedTyped
  <2> QED
    BY DEF Long!Attached, Long!Entries
<1>3. mem \in Long!Entries /\ jr \in Long!Entries
  BY FactsTyped
<1>4. CASE mem.open
  <2>1. Same(Long!Attached(mem))
    BY <1>2, <1>3 DEF Same
  <2>2. FlightsKeep
    <3>1. ~Delivers("run") /\ "m" \in Long!Threads
      BY DEF Delivers, Long!Threads
    <3> QED
      BY <1>1, <3>1, FlightMoves
  <2> QED
    BY <1>1, <1>4, <2>1, <2>2, PersistStays, FactsSteady
<1>5. CASE ~mem.open
  <2>1. pc["w"] = "idle" /\ cur \in LRoots
    BY <1>1, <1>5 DEF Long!FactsInv, Long!LInv, Long!ClosedIsQuiet, Long!LTypeOK
  <2>2. \A t \in Long!Threads : ~Delivers(pc'[t])
    BY <1>1, <2>1, FactsTyped DEF Delivers, Long!Threads
  <2>3. /\ f \in Long!Entries /\ f.open
        /\ \/ jr.open /\ f.work = jr.work /\ f.fact = jr.fact
           \/ ~jr.open /\ \A w \in LWorkers : f.fact[w] = 0
    <3>1. CASE jr.open
      <4>1. f = [jr EXCEPT !.making = FALSE]
        BY <3>1
      <4> QED
        BY <1>3, <3>1, <4>1 DEF Long!Entries
    <3>2. CASE ~jr.open
      <4>1. f = Long!Fresh(cur)
        BY <3>2
      <4>2. \A w \in LWorkers : Long!Fresh(cur).fact[w] = 0
        BY DEF Long!Fresh
      <4> QED
        BY <2>1, <3>2, <4>1, <4>2, FreshTyped
    <3> QED
      BY <3>1, <3>2
  <2> HIDE DEF f
  <2>4. /\ Long!Attached(f) \in Long!Entries /\ Long!Attached(f).open
        /\ Long!Attached(f).work = f.work /\ Long!Attached(f).fact = f.fact
    BY <1>2, <2>3
  <2> QED
    BY <1>1, <1>5, <2>2, <2>3, <2>4, FactsAdopted
<1> QED
  BY <1>4, <1>5

-----------------------------------------------------------------------------
(* Workers and their facts                                                  *)

\* A step that assigns to intents: what is dropped was not launched, or accepted.
LEMMA FactsGrown ==
  ASSUME Long!FactsInv, NEW e, FactsGrow(e), Long!Persist(e), FlightsKeep,
         tick' \in Nat, tick <= tick', DOMAIN told' = LWorkers,
         \A w \in LWorkers :
            /\ mem.open /\ mem.work[w] \in {"launched", "published"} /\ e.work[w] = "none"
            => pc["m"] = "unlaunched" \/ jr.fact[w] \in told'[w]
  PROVE  FactsOn
<1>1. Long!FactsAgree' /\ Long!FactsStamped' /\ Long!FactsInFlight'
  BY FactsCarried
<1>2. CASE mem.open
  <2>1. \A w \in LWorkers : jr'.work[w] = e.work[w] /\ jr.work[w] = mem.work[w]
    BY <1>2, PersistsAsIs DEF FactsGrow, Long!FactsInv, Long!FactsAgree
  <2> QED
    BY <1>1, <1>2, <2>1 DEF FactsOn, Long!FactKept
<1>3. CASE ~mem.open
  <2>1. jr' = jr
    BY <1>3 DEF FactsGrow, Long!Persist
  <2> QED
    BY <1>1, <2>1 DEF FactsOn, Long!FactKept
<1> QED
  BY <1>2, <1>3

LEMMA FactFields ==
  ASSUME NEW e \in Long!Entries, NEW x
  PROVE  /\ Long!Fact(e, x).open = e.open /\ Long!Fact(e, x).mark = e.mark
         /\ \A w \in LWorkers :
              /\ Long!Fact(e, x).work[w] = IF w = x THEN "launched" ELSE e.work[w]
              /\ Long!Fact(e, x).fact[w] = IF w = x THEN tick' ELSE e.fact[w]
<1> DEFINE wk == [e.work EXCEPT ![x] = "launched"]
           ft == [e.fact EXCEPT ![x] = tick']
<1>1. \A w \in LWorkers : /\ wk[w] = IF w = x THEN "launched" ELSE e.work[w]
                          /\ ft[w] = IF w = x THEN tick' ELSE e.fact[w]
  BY DEF Long!Entries
<1>2. Long!Fact(e, x) = [e EXCEPT !.work = wk, !.fact = ft]
  BY DEF Long!Fact, Long!Entries
<1> HIDE DEF wk, ft
<1>3. /\ Long!Fact(e, x).work = wk /\ Long!Fact(e, x).fact = ft
      /\ Long!Fact(e, x).open = e.open /\ Long!Fact(e, x).mark = e.mark
  BY <1>2 DEF Long!Entries
<1> QED
  BY <1>1, <1>3

LEMMA FactOfMem ==
  ASSUME mem \in Long!Entries, NEW x
  PROVE  /\ Long!Fact(mem, x).open = mem.open /\ Long!Fact(mem, x).mark = mem.mark
         /\ \A w \in LWorkers :
              /\ Long!Fact(mem, x).work[w] = IF w = x THEN "launched" ELSE mem.work[w]
              /\ Long!Fact(mem, x).fact[w] = IF w = x THEN tick' ELSE mem.fact[w]
<1> DEFINE wk == [mem.work EXCEPT ![x] = "launched"]
           ft == [mem.fact EXCEPT ![x] = tick']
<1>1. \A w \in LWorkers : /\ wk[w] = IF w = x THEN "launched" ELSE mem.work[w]
                          /\ ft[w] = IF w = x THEN tick' ELSE mem.fact[w]
  BY DEF Long!Entries
<1>2. Long!Fact(mem, x) = [mem EXCEPT !.work = wk, !.fact = ft]
  BY DEF Long!Fact, Long!Entries
<1> HIDE DEF wk, ft
<1>3. /\ Long!Fact(mem, x).work = wk /\ Long!Fact(mem, x).fact = ft
      /\ Long!Fact(mem, x).open = mem.open /\ Long!Fact(mem, x).mark = mem.mark
  BY <1>2 DEF Long!Entries
<1> QED
  BY <1>1, <1>3

LEMMA DiscardFields ==
  ASSUME NEW e \in Long!Entries, NEW x
  PROVE  /\ Long!DiscardIntent(e, x).open = e.open
         /\ Long!DiscardIntent(e, x).fact = e.fact
         /\ \A w \in LWorkers :
              /\ Long!DiscardIntent(e, x).work[w] = IF w = x THEN "none" ELSE e.work[w]
              /\ Long!DiscardIntent(e, x).mark[w] = IF w = x THEN tick ELSE e.mark[w]
<1> DEFINE wk == [e.work EXCEPT ![x] = "none"]
           mk == [e.mark EXCEPT ![x] = tick]
<1>1. \A w \in LWorkers : /\ wk[w] = IF w = x THEN "none" ELSE e.work[w]
                          /\ mk[w] = IF w = x THEN tick ELSE e.mark[w]
  BY DEF Long!Entries
<1>2. Long!DiscardIntent(e, x) = [e EXCEPT !.work = wk, !.mark = mk]
  BY DEF Long!DiscardIntent, Long!Entries
<1> HIDE DEF wk, mk
<1>3. /\ Long!DiscardIntent(e, x).work = wk /\ Long!DiscardIntent(e, x).mark = mk
      /\ Long!DiscardIntent(e, x).open = e.open /\ Long!DiscardIntent(e, x).fact = e.fact
  BY <1>2 DEF Long!Entries
<1> QED
  BY <1>1, <1>3

\* What the object holds, and what one intent of it is changed to.
LEMMA FactsHeld ==
  ASSUME Long!FactsInv, mem.open, NEW w \in LWorkers
  PROVE  /\ mem.work[w] = jr.work[w] /\ mem.fact[w] = jr.fact[w] /\ jr.fact[w] <= tick
         /\ mem.fact[w] \in Nat /\ tick \in Nat /\ ~Long!Newer(mem, w)
BY FactsTyped, NothingNewer DEF Long!FactsInv, Long!FactsAgree, Long!FactsStamped

LEMMA OneGrows ==
  ASSUME Long!FactsInv, mem.open, NEW e \in Long!Entries, e.open, NEW x,
         tick' \in Nat, tick <= tick',
         \A w \in LWorkers \ {x} : /\ e.work[w] = mem.work[w] /\ e.fact[w] = mem.fact[w]
                                   /\ e.mark[w] = mem.mark[w],
         x \in LWorkers => \/ e.work[x] # "none" /\ e.fact[x] \in {mem.fact[x], tick'}
                           \/ e.fact[x] = mem.fact[x] /\ e.mark[x] = tick
  PROVE  FactsGrow(e)
<1> SUFFICES ASSUME NEW w \in LWorkers
             PROVE  mem.fact[w] <= e.fact[w] /\ e.fact[w] <= tick' /\ ~Long!Newer(e, w)
  BY DEF FactsGrow
<1>1. /\ mem.work[w] = jr.work[w] /\ mem.fact[w] = jr.fact[w] /\ jr.fact[w] <= tick
      /\ mem.fact[w] \in Nat /\ tick \in Nat /\ ~Long!Newer(mem, w)
  BY FactsHeld
<1>2. CASE w # x
  BY <1>1, <1>2 DEF Long!Newer
<1>3. CASE w = x
  BY <1>1, <1>3 DEF Long!Newer
<1> QED
  BY <1>2, <1>3

LEMMA FactIsNewer ==
  ASSUME Long!FactsInv, mem.open, NEW x, tick' = tick + 1,
         Long!Persist(Long!Fact(mem, x)), FlightsKeep, DOMAIN told' = LWorkers
  PROVE  FactsOn
<1> DEFINE e == Long!Fact(mem, x)
<1>1. mem \in Long!Entries /\ tick' \in Nat /\ tick <= tick'
  BY FactsTyped
<1>2. e \in Long!Entries
  BY <1>1, FactTyped
<1>3. /\ e.open = mem.open /\ e.mark = mem.mark
      /\ \A w \in LWorkers : /\ e.work[w] = IF w = x THEN "launched" ELSE mem.work[w]
                             /\ e.fact[w] = IF w = x THEN tick' ELSE mem.fact[w]
  BY <1>1, FactOfMem
<1> HIDE DEF e
<1>4. FactsGrow(e)
  BY <1>1, <1>2, <1>3, OneGrows
<1>5. Long!Persist(e)
  BY DEF e
<1> QED
  BY <1>1, <1>3, <1>4, <1>5, FactsGrown

LEMMA JournalFacts ==
  ASSUME Long!FactsInv, NEW x \in LWorkers, Long!JournalWorker(x) PROVE FactsOn
<1> DEFINE e == [mem EXCEPT !.work[x] = "prepared", !.fact[x] = tick', !.mark[x] = 0]
           wk == [mem.work EXCEPT ![x] = "prepared"]
           ft == [mem.fact EXCEPT ![x] = tick']
           mk == [mem.mark EXCEPT ![x] = 0]
<1>1. /\ mem.open /\ mem.work[x] = "none" /\ told' = told /\ tick' = tick + 1
      /\ Long!Persist(e) /\ pc' = [pc EXCEPT !["m"] = "launch"]
      /\ \E s : snd' = [snd EXCEPT !["m"] = s]
  BY DEF Long!JournalWorker, Long!Stamp, Long!Goto
<1>2. /\ mem \in Long!Entries /\ tick' \in Nat /\ tick <= tick' /\ DOMAIN told' = LWorkers
  BY <1>1, FactsTyped DEF Long!FactsInv, Long!FactsStamped
<1>3. /\ wk \in [LWorkers -> Long!Phases] /\ ft \in [LWorkers -> Nat]
      /\ mk \in [LWorkers -> Nat]
      /\ \A w \in LWorkers : /\ wk[w] = IF w = x THEN "prepared" ELSE mem.work[w]
                             /\ ft[w] = IF w = x THEN tick' ELSE mem.fact[w]
                             /\ mk[w] = IF w = x THEN 0 ELSE mem.mark[w]
  BY <1>2 DEF Long!Entries, Long!Phases
<1>4. e = [mem EXCEPT !.work = wk, !.fact = ft, !.mark = mk]
  BY <1>2 DEF Long!Entries
<1> HIDE DEF e, wk, ft, mk
<1>5. e \in Long!Entries /\ e.open /\ e.work = wk /\ e.fact = ft /\ e.mark = mk
  BY <1>1, <1>2, <1>3, <1>4 DEF Long!Entries
<1>6. FactsGrow(e)
  BY <1>1, <1>2, <1>3, <1>5, OneGrows
<1>7. FlightsKeep
  <2>1. ~Delivers("launch") /\ "m" \in Long!Threads
    BY DEF Delivers, Long!Threads
  <2> QED
    BY <1>1, <2>1, FlightMoves
<1> QED
  BY <1>1, <1>2, <1>3, <1>5, <1>6, <1>7, FactsGrown

LEMMA StartedFacts == ASSUME Long!FactsInv, Long!MarkStarted PROVE FactsOn
<1>1. /\ tick' = tick + 1 /\ told' = told /\ pc' = [pc EXCEPT !["m"] = "run"]
      /\ snd' = [snd EXCEPT !["m"] = Long!Nothing]
      /\ Long!Unsaved \/ (mem.open /\ Long!Persist(Long!Fact(mem, snd["m"].w)))
  BY DEF Long!MarkStarted, Long!Stamp, Long!Goto
<1>2. FlightsKeep
  <2>1. ~Delivers("run") /\ "m" \in Long!Threads
    BY DEF Delivers, Long!Threads
  <2> QED
    BY <1>1, <2>1, FlightMoves
<1>3. tick' \in Nat /\ tick <= tick' /\ DOMAIN told' = LWorkers
  BY <1>1, FactsTyped DEF Long!FactsInv, Long!FactsStamped
<1> QED
  BY <1>1, <1>2, <1>3, FactsUnsaved, FactIsNewer

\* A launch that did not happen
LEMMA UnlaunchedFacts == ASSUME Long!FactsInv, Long!DiscardWorker PROVE FactsOn
<1> DEFINE x == snd["m"].w
           e == Long!DiscardIntent(mem, x)
<1>1. /\ pc["m"] = "unlaunched" /\ UNCHANGED <<tick, told>>
      /\ pc' = [pc EXCEPT !["m"] = "run"] /\ snd' = [snd EXCEPT !["m"] = Long!Nothing]
      /\ Long!Unsaved \/ (mem.open /\ Long!Persist(e))
  BY DEF Long!DiscardWorker, Long!Goto
<1>2. FlightsKeep
  <2>1. ~Delivers("run") /\ "m" \in Long!Threads
    BY DEF Delivers, Long!Threads
  <2> QED
    BY <1>1, <2>1, FlightMoves
<1>3. /\ mem \in Long!Entries /\ tick \in Nat /\ tick' \in Nat /\ tick <= tick'
      /\ DOMAIN told' = LWorkers
  BY <1>1, FactsTyped DEF Long!FactsInv, Long!FactsStamped
<1> HIDE DEF x
<1>4. /\ e \in Long!Entries /\ e.open = mem.open /\ e.fact = mem.fact
      /\ \A w \in LWorkers : /\ e.work[w] = IF w = x THEN "none" ELSE mem.work[w]
                             /\ e.mark[w] = IF w = x THEN tick ELSE mem.mark[w]
  BY <1>3, DiscardTyped, DiscardFields
<1> HIDE DEF e
<1>5. mem.open => FactsGrow(e)
  BY <1>3, <1>4, OneGrows
<1> QED
  BY <1>1, <1>2, <1>3, <1>5, FactsUnsaved, FactsGrown

LEMMA WorkerFacts ==
  ASSUME Long!FactsInv, NEW x \in LWorkers, NEW last, NEW out, Long!WorkerFact(x, last, out)
  PROVE  FactsOn
<1>1. /\ tick' = tick + 1 /\ UNCHANGED <<pc, snd>>
      /\ Long!Unsaved \/ Long!RecordPending(x)
      /\ told' = told \/ \E S : told' = [told EXCEPT ![x] = S]
  BY DEF Long!WorkerFact, Long!Stamp
<1>2. FlightsKeep
  BY <1>1, FlightsStay
<1>3. /\ mem \in Long!Entries /\ jr \in Long!Entries /\ tick' \in Nat /\ tick <= tick'
      /\ tick \in Nat /\ DOMAIN told' = LWorkers
  BY <1>1, FactsTyped DEF Long!FactsInv, Long!FactsStamped
<1>4. CASE Long!Unsaved
  BY <1>2, <1>3, <1>4, FactsUnsaved
<1>5. CASE mem.open /\ Long!Persist(Long!Fact(mem, x))
  BY <1>1, <1>2, <1>3, <1>5, FactIsNewer
<1>6. CASE ~mem.open /\ jr' = Long!Fact(jr, x) /\ UNCHANGED mem
  <2>1. \A w \in LWorkers : /\ jr'.work[w] = IF w = x THEN "launched" ELSE jr.work[w]
                            /\ jr'.fact[w] = IF w = x THEN tick' ELSE jr.fact[w]
    <3>1. \A w \in LWorkers :
              /\ Long!Fact(jr, x).work[w] = IF w = x THEN "launched" ELSE jr.work[w]
              /\ Long!Fact(jr, x).fact[w] = IF w = x THEN tick' ELSE jr.fact[w]
      BY <1>3, FactFields, Zenon
    <3> QED
      BY <1>6, <3>1
  <2>2. Long!FactsAgree' /\ Long!FactsInFlight'
    BY <1>6 DEF Long!FactsAgree, Long!FactsInFlight
  <2>3. Long!FactsStamped'
    <3>1. \A w \in LWorkers : jr.fact[w] \in Nat /\ jr.fact[w] <= tick
      BY FactsTyped DEF Long!FactsInv, Long!FactsStamped
    <3> QED
      BY <1>3, <2>1, <3>1 DEF Long!FactsStamped
  <2>4. Long!FactKept
    BY <2>1 DEF Long!FactKept
  <2> QED
    BY <2>2, <2>3, <2>4 DEF FactsOn
<1> QED
  BY <1>1, <1>4, <1>5, <1>6 DEF Long!RecordPending

LEMMA ReconcileFacts ==
  ASSUME Long!FactsInv, NEW x \in LWorkers, Long!ReconcileWorker(x) PROVE FactsOn
<1> DEFINE e == Long!DiscardIntent(mem, x)
<1>1. /\ mem.open /\ mem.work[x] = "prepared" /\ UNCHANGED <<pc, snd, told>>
      /\ \/ tick' = tick + 1 /\ Long!Persist(Long!Fact(mem, x))
         \/ tick' = tick /\ Long!Persist(e)
  BY DEF Long!ReconcileWorker, Long!Stamp
<1>2. FlightsKeep
  BY <1>1, FlightsStay
<1>3. /\ mem \in Long!Entries /\ tick \in Nat /\ DOMAIN told' = LWorkers
  BY <1>1, FactsTyped DEF Long!FactsInv, Long!FactsStamped
<1>4. ASSUME tick' = tick, Long!Persist(e) PROVE FactsOn
  <2>1. /\ e \in Long!Entries /\ e.open = mem.open /\ e.fact = mem.fact
        /\ \A w \in LWorkers : /\ e.work[w] = IF w = x THEN "none" ELSE mem.work[w]
                               /\ e.mark[w] = IF w = x THEN tick ELSE mem.mark[w]
    BY <1>3, DiscardTyped, DiscardFields
  <2> HIDE DEF e
  <2>2. e.open /\ tick' \in Nat /\ tick <= tick'
    BY <1>1, <1>3, <1>4, <2>1
  <2>3. FactsGrow(e)
    BY <1>1, <2>1, <2>2, OneGrows
  <2> QED
    BY <1>1, <1>2, <1>3, <1>4, <2>1, <2>2, <2>3, FactsGrown
<1> HIDE DEF e
<1> QED
  BY <1>1, <1>2, <1>3, <1>4, FactIsNewer

\* A delivery sends the fact the object and the journal hold.
LEMMA DeliverFacts ==
  ASSUME Long!FactsInv, NEW t \in Long!Threads, NEW x \in LWorkers, Long!DeliverStart(t, x)
  PROVE  FactsOn
<1> DEFINE s == [w |-> x, fact |-> mem'.fact[x], phase |-> mem'.work[x], run |-> mem.run]
<1>1. /\ mem.open /\ mem' = Long!MergeFacts(mem) /\ UNCHANGED <<jr, told, tick>>
      /\ mem'.work[x] \in {"launched", "published"} /\ snd' = [snd EXCEPT ![t] = s]
      /\ \E l : pc' = [pc EXCEPT ![t] = l]
  BY DEF Long!DeliverStart, Long!Goto
<1>2. /\ DOMAIN pc = Long!Threads /\ DOMAIN snd = Long!Threads /\ mem \in Long!Entries
      /\ \A w \in LWorkers : jr.fact[w] \in Nat
  BY FactsTyped
<1>3. /\ mem'.open
      /\ \A w \in LWorkers : mem'.work[w] = mem.work[w] /\ mem'.fact[w] = mem.fact[w]
  BY <1>1, <1>2, NothingNewer, MergesNothing
<1>4. \A w \in LWorkers : mem'.work[w] = jr.work[w] /\ mem'.fact[w] = jr.fact[w]
  BY <1>1, <1>3 DEF Long!FactsInv, Long!FactsAgree
<1>5. Long!FactsAgree' /\ Long!FactsStamped' /\ Long!FactKept
  BY <1>1, <1>4 DEF Long!FactsInv, Long!FactsAgree, Long!FactsStamped, Long!FactKept
<1>6. Long!FactsInFlight'
  <2> SUFFICES ASSUME NEW u \in Long!Threads, Delivers(pc'[u])
               PROVE  /\ snd'[u].w \in LWorkers
                      /\ snd'[u].phase \in {"launched", "published"}
                      /\ snd'[u].fact \in Nat /\ snd'[u].fact <= mem'.fact[snd'[u].w]
    BY DEF Long!FactsInFlight, Delivers
  <2>1. CASE u = t
    <3>1. snd'[u] = s
      BY <1>1, <1>2, <2>1
    <3>2. s.w = x /\ s.fact = mem'.fact[x] /\ s.phase = mem'.work[x]
      OBVIOUS
    <3> HIDE DEF s
    <3>3. mem'.fact[x] \in Nat
      BY <1>2, <1>4
    <3> QED
      BY <1>1, <3>1, <3>2, <3>3
  <2>2. CASE u # t
    <3>1. snd'[u] = snd[u] /\ Delivers(pc[u])
      BY <1>1, <1>2, <2>2
    <3>2. /\ snd[u].w \in LWorkers /\ snd[u].phase \in {"launched", "published"}
          /\ snd[u].fact \in Nat /\ snd[u].fact <= mem.fact[snd[u].w]
      BY <1>1, <3>1 DEF Long!FactsInv, Long!FactsInFlight, Delivers
    <3> QED
      BY <1>3, <3>1, <3>2
  <2> QED
    BY <2>1, <2>2
<1> QED
  BY <1>5, <1>6 DEF FactsOn

\* The call is back: an intent that is not newer than what was sent goes only
\* when Glass has taken the fact.
LEMMA DeliveredFacts ==
  ASSUME Long!FactsInv, NEW t \in Long!Threads, NEW out, Long!Delivered(t, out) PROVE FactsOn
<1> DEFINE s == snd[t]
           x == s.w
           again == s.phase = "published" /\ (~v5[x] \/ out # "ok")
           g == [mem EXCEPT !.work[x] = "launched", !.fact[x] = tick + 1]
           f == [g EXCEPT !.work[x] = "published"]
           e == Long!MergeFacts(mem)
<1>1. /\ Delivers(pc[t])
      /\ \E l \in {"flush", "run", "idle"} : pc' = [pc EXCEPT ![t] = l]
      /\ snd' = [snd EXCEPT ![t] = Long!Nothing]
      /\ told' = IF out # "fail" /\ (s.phase = "launched" \/ v5[x])
                 THEN [told EXCEPT ![x] = @ \cup {s.fact}] ELSE told
      /\ IF ~mem.open \/ mem.work[x] = "none" THEN Long!Unsaved /\ tick' = tick
         ELSE IF again THEN tick' = tick + 1 /\ Long!Persist(f)
         ELSE tick' = tick /\ Long!Persist(IF out # "ok" THEN e
                                           ELSE Long!AfterAccepted(e, x, s.fact))
  BY DEF Long!Delivered, Long!Goto, Long!DeliverBack, Long!Home, Long!Stamp, Delivers
<1>2. FlightsKeep
  <2>1. \A l \in {"flush", "run", "idle"} : ~Delivers(l)
    BY DEF Delivers
  <2> QED
    BY <1>1, <2>1, FlightMoves
<1>3. /\ mem \in Long!Entries /\ jr \in Long!Entries /\ tick \in Nat
      /\ DOMAIN told = LWorkers /\ DOMAIN told' = LWorkers
  BY <1>1, FactsTyped DEF Long!FactsInv, Long!FactsStamped
<1>4. CASE ~mem.open \/ mem.work[x] = "none"
  <2>1. Long!Unsaved /\ tick' \in Nat /\ tick <= tick'
    BY <1>1, <1>3, <1>4
  <2> QED
    BY <1>2, <1>3, <2>1, FactsUnsaved
<1>5. ASSUME mem.open, mem.work[x] # "none", again PROVE FactsOn
  <2>1. tick' = tick + 1 /\ Long!Persist(f)
    BY <1>1, <1>5
  <2>2. g = Long!Fact(mem, x)
    BY <2>1 DEF Long!Fact
  <2> HIDE DEF x
  <2>3. /\ g \in Long!Entries /\ g.open = mem.open /\ g.mark = mem.mark
        /\ \A w \in LWorkers : /\ g.work[w] = IF w = x THEN "launched" ELSE mem.work[w]
                               /\ g.fact[w] = IF w = x THEN tick' ELSE mem.fact[w]
    <3>1. tick' \in Nat
      BY <1>3, <2>1
    <3>2. Long!Fact(mem, x) \in Long!Entries
      BY <1>3, <3>1, FactTyped
    <3>3. /\ Long!Fact(mem, x).open = mem.open /\ Long!Fact(mem, x).mark = mem.mark
          /\ \A w \in LWorkers :
               /\ Long!Fact(mem, x).work[w] = IF w = x THEN "launched" ELSE mem.work[w]
               /\ Long!Fact(mem, x).fact[w] = IF w = x THEN tick' ELSE mem.fact[w]
      BY <1>3, FactOfMem
    <3> HIDE DEF g
    <3> QED
      BY <2>2, <3>2, <3>3
  <2> DEFINE wk == [g.work EXCEPT ![x] = "published"]
  <2>4. f = [g EXCEPT !.work = wk]
    BY <2>3 DEF Long!Entries
  <2>5. /\ wk \in [LWorkers -> Long!Phases]
        /\ \A w \in LWorkers : wk[w] = IF w = x THEN "published" ELSE g.work[w]
    BY <2>3 DEF Long!Entries, Long!Phases
  <2> HIDE DEF f, g, wk
  <2>6. f \in Long!Entries /\ f.open /\ f.work = wk /\ f.fact = g.fact /\ f.mark = g.mark
    BY <1>5, <2>3, <2>4, <2>5 DEF Long!Entries
  <2>7. tick' \in Nat /\ tick <= tick'
    BY <1>3, <2>1
  <2>8. FactsGrow(f)
    BY <1>5, <2>3, <2>5, <2>6, <2>7, OneGrows
  <2>9. \A w \in LWorkers : f.work[w] = "none" => mem.work[w] = "none"
    BY <2>3, <2>5, <2>6
  <2> QED
    BY <1>2, <1>3, <2>1, <2>7, <2>8, <2>9, FactsGrown
<1>6. ASSUME mem.open, mem.work[x] # "none", ~again PROVE FactsOn
  <2>1. /\ tick' = tick /\ tick' \in Nat /\ tick <= tick'
        /\ Long!Persist(IF out # "ok" THEN e ELSE Long!AfterAccepted(e, x, s.fact))
    BY <1>1, <1>3, <1>6
  <2>2. /\ x \in LWorkers /\ s.phase \in {"launched", "published"}
        /\ s.fact \in Nat /\ s.fact <= mem.fact[x]
    BY <1>1, <1>6 DEF Long!FactsInv, Long!FactsInFlight, Delivers
  <2> HIDE DEF e, x
  <2>3. /\ e \in Long!Entries /\ e.open /\ e.mark = mem.mark
        /\ \A w \in LWorkers : e.work[w] = mem.work[w] /\ e.fact[w] = mem.fact[w]
    BY <1>3, <1>6, MergeTyped, NothingNewer, MergesNothing DEF e
  <2>4. CASE out # "ok"
    <3>1. Long!Persist(e)
      BY <2>1, <2>4
    <3>2. FactsGrow(e)
      <4>1. \A w \in LWorkers :
              /\ mem.fact[w] <= e.fact[w] /\ e.fact[w] <= tick' /\ ~Long!Newer(e, w)
        BY <1>6, <2>1, <2>3, FactsHeld DEF Long!Newer
      <4> QED
        BY <1>6, <2>3, <4>1 DEF FactsGrow
    <3> QED
      BY <1>2, <1>3, <2>1, <2>3, <3>1, <3>2, FactsGrown
  <2>5. CASE out = "ok" /\ e.fact[x] > s.fact
    <3> DEFINE h == [e EXCEPT !.work[x] = "published"]
               wk == [e.work EXCEPT ![x] = "published"]
    <3>1. Long!Persist(h)
      BY <2>1, <2>5 DEF Long!AfterAccepted
    <3>2. h = [e EXCEPT !.work = wk]
      BY <2>3 DEF Long!Entries
    <3>3. /\ wk \in [LWorkers -> Long!Phases]
          /\ \A w \in LWorkers : wk[w] = IF w = x THEN "published" ELSE e.work[w]
      BY <2>3 DEF Long!Entries, Long!Phases
    <3> HIDE DEF h, wk
    <3>4. h \in Long!Entries /\ h.open /\ h.work = wk /\ h.fact = e.fact /\ h.mark = e.mark
      BY <2>3, <3>2, <3>3 DEF Long!Entries
    <3>5. FactsGrow(h)
      BY <1>6, <2>1, <2>3, <3>3, <3>4, OneGrows
    <3>6. \A w \in LWorkers : h.work[w] = "none" => mem.work[w] = "none"
      BY <2>3, <3>3, <3>4
    <3> QED
      BY <1>2, <1>3, <2>1, <3>1, <3>5, <3>6, FactsGrown
  <2>6. CASE out = "ok" /\ ~(e.fact[x] > s.fact)
    <3> DEFINE h == Long!DiscardIntent(e, x)
    <3>1. Long!Persist(h)
      BY <2>1, <2>6 DEF Long!AfterAccepted
    <3>2. /\ h.open = e.open /\ h.fact = e.fact
          /\ \A w \in LWorkers : /\ h.work[w] = IF w = x THEN "none" ELSE e.work[w]
                                 /\ h.mark[w] = IF w = x THEN tick ELSE e.mark[w]
      <4>1. e \in Long!Entries
        BY <2>3
      <4> QED
        BY <4>1, DiscardFields
    <3>3. h \in Long!Entries
      BY <1>3, <2>3, DiscardTyped
    <3> HIDE DEF h
    <3>7. /\ h.open /\ h.fact[x] = mem.fact[x] /\ h.mark[x] = tick
          /\ \A w \in LWorkers \ {x} : /\ h.work[w] = mem.work[w] /\ h.fact[w] = mem.fact[w]
                                       /\ h.mark[w] = mem.mark[w]
      BY <2>2, <2>3, <3>2
    <3>8. FactsGrow(h)
      BY <1>6, <2>1, <3>3, <3>7, OneGrows
    <3>4. jr.fact[x] = s.fact
      BY <1>6, <2>2, <2>3, <2>6, FactsHeld
    <3>5. s.fact \in told'[x]
      <4>1. s.phase = "launched" \/ v5[x]
        BY <1>6, <2>2, <2>6 DEF x
      <4>2. told' = [told EXCEPT ![x] = @ \cup {s.fact}]
        BY <1>1, <2>6, <4>1 DEF x
      <4> QED
        BY <1>3, <2>2, <4>2
    <3>6. \A w \in LWorkers :
            mem.work[w] \in {"launched", "published"} /\ h.work[w] = "none" => w = x
      BY <2>3, <3>2
    <3> QED
      BY <1>2, <1>3, <2>1, <3>1, <3>8, <3>4, <3>5, <3>6, FactsGrown
  <2> QED
    BY <2>4, <2>5, <2>6
<1> QED
  BY <1>4, <1>5, <1>6

-----------------------------------------------------------------------------
(* Every step keeps them                                                    *)

LEMMA FactsStarts == Long!LInit => Long!FactsInv
<1> SUFFICES ASSUME Long!LInit PROVE Long!FactsInv
  OBVIOUS
<1>1. Long!LInv /\ ~mem.open
  BY LStarts, ClosedTyped DEF Long!LInit
<1>2. \A w \in LWorkers : Long!Closed.fact[w] = 0
  BY DEF Long!Closed, Long!Fresh
<1>3. Long!FactsStamped
  BY <1>2 DEF Long!LInit, Long!FactsStamped
<1> QED
  BY <1>1, <1>3 DEF Long!FactsInv, Long!FactsAgree, Long!FactsInFlight

LEMMA FactsNext == ASSUME Long!FactsInv, Long!LNext PROVE FactsOn
<1>1. CASE \E r \in LRoots : Long!Arrive(r) \/ Long!Admit(r) \/ Long!GlassEnds(r)
  BY <1>1, QuietFacts, AdmitFacts
<1>2. CASE Long!Begin \/ Long!ClaimHead \/ Long!ClaimLapses
  BY <1>2, BeginFacts, QuietFacts
<1>3. CASE Long!Prepare \/ \E k \in {"block", "resolve", "end"} : Long!Intend(k)
  BY <1>3, TurnFacts
<1>4. CASE (\E out \in Long!Outs : Long!SendUpdate(out)) \/ Long!RecordUpdate
  BY <1>4, UpdateFacts
<1>5. CASE \E t \in Long!Threads, out \in Long!Outs :
               Long!Ensure(t, out) \/ Long!Delivered(t, out) \/ Long!SettleWrite(t, out)
  BY <1>5, CardFacts, DeliveredFacts, SettleFacts
<1>6. CASE \E w \in LWorkers : Long!JournalWorker(w) \/ Long!ReconcileWorker(w)
  BY <1>6, JournalFacts, ReconcileFacts
<1>7. CASE Long!LaunchWorker \/ Long!MarkStarted \/ Long!DiscardWorker
  BY <1>7, TurnFacts, StartedFacts, UnlaunchedFacts
<1>8. CASE \E w \in LWorkers, last \in BOOLEAN, out \in Long!Outs : Long!WorkerFact(w, last, out)
  BY <1>8, WorkerFacts
<1>9. CASE \E t \in Long!Threads, w \in LWorkers : Long!DeliverStart(t, w)
  BY <1>9, DeliverFacts
<1>10. CASE \/ Long!FinalReply \/ Long!QueueReply \/ Long!EnterFlush \/ Long!StrayDecide
            \/ Long!FlushDue \/ Long!SettleDue
  <2>1. "w" \in Long!Threads
    BY DEF Long!Threads
  <2> QED
    BY <1>10, <2>1, ReplyFacts, SettleFacts
<1>16. CASE \E out \in Long!Outs : Long!StraySettle(out) \/ Long!StraySend(out)
  BY <1>16, ReplyFacts
<1>11. CASE \E t \in Long!Threads : Long!Decide(t) \/ \E seen \in BOOLEAN : Long!SettleRead(t, seen)
  BY <1>11, SettleFacts
<1>12. CASE \E t \in Long!Threads, out \in Long!Outs, gone \in BOOLEAN : Long!SendReply(t, out, gone)
  BY <1>12, SendFacts
<1>13. CASE (\E reads \in BOOLEAN : Long!ReconcileTimer(reads)) \/ Long!Heartbeat
  BY <1>13, CardFacts
<1>14. CASE Long!CloseIfTerminal \/ Long!Defer \/ Long!Finish
  BY <1>14, TerminalFacts, TurnFacts, FinishFacts
<1>15. CASE Long!Crash \/ Long!Recover
  BY <1>15, CrashFacts, RecoverFacts
<1> QED
  BY <1>1, <1>2, <1>3, <1>4, <1>5, <1>6, <1>7, <1>8, <1>9, <1>10, <1>11, <1>12, <1>13, <1>14, <1>15, <1>16 DEF Long!LNext

LEMMA FactsStepKeeps == Long!FactsInv /\ Long!LNext => Long!FactsInv' /\ Long!FactKept
<1> SUFFICES ASSUME Long!FactsInv, Long!LNext PROVE Long!FactsInv' /\ Long!FactKept
  OBVIOUS
<1>1. FactsOn
  BY FactsNext
<1>2. Long!LInv'
  BY LStepKeeps DEF Long!FactsInv
<1> QED
  BY <1>1, <1>2 DEF FactsOn, Long!FactsInv

LEMMA FactsStutter ==
  ASSUME Long!FactsInv,
         UNCHANGED <<mem, jr, card, told, queue, todo, cur, pc, snd, tick, up, done, rep, need>>
  PROVE  Long!FactsInv'
<1>1. Long!LInv'
  BY LStutters DEF Long!FactsInv
<1>2. Long!FactsAgree' /\ Long!FactsStamped' /\ Long!FactsInFlight'
  BY DEF Long!FactsInv, Long!FactsAgree, Long!FactsStamped, Long!FactsInFlight
<1> QED
  BY <1>1, <1>2 DEF Long!FactsInv

(* While an object is open it and the journal hold the same intents, none    *)
(* stamped ahead of the clock, and none older than the fact a delivery of it *)
(* has in flight.                                                            *)
THEOREM FactsInvariance ==
  (Long!LSpec => []Long!FactsInv) /\ (Spec => [](LongPart => Long!FactsInv))
<1> DEFINE I == LongPart => Long!FactsInv
<1>1. Long!FactsInv /\ [Long!LNext]_(Long!lvars) => Long!FactsInv'
  BY FactsStepKeeps, FactsStutter DEF Long!lvars
<1>2. Init => I
  BY FactsStarts DEF Init, LongPart
<1>3. I /\ [Next]_vars => I'
  <2> SUFFICES ASSUME I, [Next]_vars, LongPart' PROVE Long!FactsInv'
    OBVIOUS
  <2>1. CASE Next
    <3>1. LongPart /\ Long!LNext
      BY <2>1 DEF Next, LongPart
    <3> QED
      BY <3>1, FactsStepKeeps
  <2>2. CASE UNCHANGED vars
    <3>1. UNCHANGED <<part, v1, v2, v3, v4, v7, v9, v10, v11, v12, v13, v16, v17, v18, v19>>
      BY <2>2 DEF vars, Rest7
    <3> QED
      BY <3>1, FactsStutter DEF LongPart
  <2> QED
    BY <2>1, <2>2
<1>4. Long!LSpec => []Long!FactsInv
  BY <1>1, FactsStarts, PTL DEF Long!LSpec
<1>5. Spec => []I
  BY <1>2, <1>3, PTL DEF Spec
<1> QED
  BY <1>4, <1>5

(* A worker's fact that waits in the journal is dropped only when Glass has  *)
(* taken that very fact, or the launch did not happen: the copy a delivery   *)
(* works on, a newer fact that comes in while the call is out, a lost        *)
(* answer, the watcher beside the turn and a restart lose none               *)
(* (_deliver_pending_workers, record_pending_worker_state).                  *)
THEOREM FactsAreDelivered ==
  (Long!LSpec => Long!FactDelivered) /\ (Spec => FactDelivered)
<1>1. Long!FactsInv /\ [Long!LNext]_(Long!lvars) => [Long!FactKept]_(Long!lvars)
  BY FactsStepKeeps
<1>2. (LongPart => Long!FactsInv) /\ [Next]_vars => [LongPart => Long!FactKept]_vars
  <2> SUFFICES ASSUME Long!FactsInv, Next, LongPart PROVE Long!FactKept
    OBVIOUS
  <2>1. Long!LNext
    BY DEF Next, LongPart
  <2> QED
    BY <2>1, FactsStepKeeps
<1>3. Long!LSpec => Long!FactDelivered
  BY <1>1, FactsInvariance, PTL DEF Long!LSpec, Long!FactDelivered
<1>4. Spec => FactDelivered
  BY <1>2, FactsInvariance, PTL DEF Spec, FactDelivered
<1> QED
  BY <1>3, <1>4
=============================================================================
