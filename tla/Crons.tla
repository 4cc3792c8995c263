-------------------------------- MODULE Crons --------------------------------
(* Local execution of Glass's crons and of worker checkbacks (core/cron).
   One cron stands for all: its instants are numbered, and its definition in
   Glass is active, paused or gone.  Sweeps of two processes share the cache of
   definitions, the watermark and the checkbacks.  How a trigger expression yields
   the instants is left out. *)
EXTENDS Naturals, FiniteSets

CONSTANTS
  Sweepers,
  Checked,     \* workers with checkbacks
  MaxFires,    \* instants of the cron
  MaxEdits,    \* changes of its definition, and of checkbacks
  MaxFaults    \* crashes of a sweep
CAssumption == /\ MaxFires \in Nat /\ MaxEdits \in Nat /\ MaxFaults \in Nat
               /\ "tool" \notin Sweepers

Tool == "tool"
Actors == Sweepers \cup {Tool}
NoMark == MaxFires + 1

VARIABLES
  time,        \* instants that have passed
  defn, edits, \* Glass's definition
  note,        \* a crons.changed message is on its way
  cache, stale,\* the cached definition; the invalidation is the newer file
  mark,        \* watermark_utc
  first,       \* history: the watermark the cron was first seen with
  claims,      \* history: how often each instant was claimed
  backs,       \* checkbacks.json: "none", "set", or "due"
  hist,        \* history.json
  holder,      \* of its lock
  pc, now, rec, todo, faults
cvars == <<time, defn, edits, note, cache, stale, mark, first, claims, backs,
           hist, holder, pc, now, rec, todo, faults>>
glassSide == <<time, defn, edits, note>>
cronSide == <<cache, stale, mark, first, claims>>
backSide == <<backs, hist, holder, todo>>

NoOne == "nobody"
To(a, p) == pc' = [pc EXCEPT ![a] = p]
Is(a, p) == pc[a] = p
(* What a sweep or a tool call knows goes with its end. *)
Done(a) == To(a, "idle") /\ rec' = [rec EXCEPT ![a] = "nothing"]
           /\ now' = [now EXCEPT ![a] = 0]
Onward(a, p) == To(a, p) /\ UNCHANGED <<now, rec>>

Tick == time < MaxFires /\ time' = time + 1
        /\ UNCHANGED <<defn, edits, note, cronSide, backSide, pc, now, rec, faults>>
(* Another client edits the cron; the sidecar hears of it, or not. *)
GlassEdits ==
  /\ edits < MaxEdits /\ defn # "gone" /\ edits' = edits + 1
  /\ \E d \in {"active", "paused", "gone"} \ {defn} : defn' = d
  /\ note' = TRUE
  /\ UNCHANGED <<time, cronSide, backSide, pc, now, rec, faults>>
Changed ==
  /\ note /\ note' = FALSE /\ stale' = TRUE
  /\ UNCHANGED <<time, defn, edits, cache, mark, first, claims, backSide, pc, now, rec, faults>>

(* execute_cron_tool *)
ToolEdits ==
  /\ Is(Tool, "idle") /\ edits < MaxEdits /\ defn # "gone" /\ edits' = edits + 1
  /\ \E d \in {"active", "paused", "gone"} \ {defn} : defn' = d
  /\ To(Tool, "invalidate")
  /\ UNCHANGED <<time, note, cronSide, backSide, now, rec, faults>>
ToolInvalidates ==
  /\ Is(Tool, "invalidate") /\ stale' = TRUE
  /\ To(Tool, IF defn = "gone" THEN "forget" ELSE "idle")
  /\ UNCHANGED <<glassSide, cache, mark, first, claims, backSide, now, rec, faults>>
ToolForgets ==
  /\ Is(Tool, "forget") /\ mark' = NoMark /\ To(Tool, "idle")
  /\ UNCHANGED <<glassSide, cache, stale, first, claims, backSide, now, rec, faults>>
ToolLists ==
  /\ Is(Tool, "idle") /\ To(Tool, "fetch")
  /\ UNCHANGED <<glassSide, cronSide, backSide, now, rec, faults>>

(* add_checkback and remove_checkback; trigger_at passes. *)
AddCheckback(w) ==
  /\ edits < MaxEdits /\ edits' = edits + 1
  /\ backs' = [backs EXCEPT ![w] = "set"]
  /\ UNCHANGED <<time, defn, note, cronSide, hist, holder, todo, pc, now, rec, faults>>
RemoveCheckback(w) ==
  /\ backs[w] # "none" /\ backs' = [backs EXCEPT ![w] = "none"]
  /\ UNCHANGED <<glassSide, cronSide, hist, holder, todo, pc, now, rec, faults>>
Due(w) ==
  /\ backs[w] = "set" /\ backs' = [backs EXCEPT ![w] = "due"]
  /\ UNCHANGED <<glassSide, cronSide, hist, holder, todo, pc, now, rec, faults>>

(* check_crons, while new roots are accepted *)
SweepStarts(s) ==
  /\ Is(s, "idle") /\ To(s, "lock")
  /\ UNCHANGED <<glassSide, cronSide, backSide, now, rec, faults>>
(* _check_checkbacks *)
LockBacks(s) ==
  /\ Is(s, "lock") /\ holder = NoOne /\ holder' = s /\ To(s, "backs")
  /\ todo' = [todo EXCEPT ![s] = {w \in Checked : backs[w] = "due"}]
  /\ UNCHANGED <<glassSide, cronSide, backs, hist, now, rec, faults>>
ClaimBack(s, w) ==
  /\ Is(s, "backs") /\ w \in todo[s]
  /\ IF hist[w] = "none"
     THEN hist' = [hist EXCEPT ![w] = "claimed"] /\ To(s, "run") /\ UNCHANGED todo
     ELSE todo' = [todo EXCEPT ![s] = @ \ {w}] /\ UNCHANGED <<hist, pc>>
  /\ UNCHANGED <<glassSide, cronSide, backs, holder, now, rec, faults>>
(* The worker's status is read, then cleanup removes whatever is filed. *)
RunBack(s, w) ==
  /\ Is(s, "run") /\ w \in todo[s] /\ hist[w] = "claimed" /\ To(s, "backs")
  /\ hist' = [hist EXCEPT ![w] = "ran"] /\ todo' = [todo EXCEPT ![s] = @ \ {w}]
  /\ backs' = [backs EXCEPT ![w] = "none"]
  /\ UNCHANGED <<glassSide, cronSide, holder, now, rec, faults>>
UnlockBacks(s) ==
  /\ Is(s, "backs") /\ todo[s] = {} /\ holder' = NoOne /\ To(s, "load")
  /\ UNCHANGED <<glassSide, cronSide, backs, hist, todo, now, rec, faults>>

(* _check_glass_crons takes the time first; then _load_cached_cron_records, whose
   cache is used unless invalidated or five minutes old. *)
Usable == ~stale /\ cache # "nothing"
Load(s) ==
  /\ Is(s, "load") /\ now' = [now EXCEPT ![s] = time]
  /\ \/ Usable /\ rec' = [rec EXCEPT ![s] = cache] /\ To(s, "claim")
     \/ To(s, "fetch") /\ UNCHANGED rec
  /\ UNCHANGED <<glassSide, cronSide, backSide, faults>>
Fetch(a) ==
  /\ Is(a, "fetch")
  /\ \/ rec' = [rec EXCEPT ![a] = defn] /\ To(a, "store")
        /\ UNCHANGED now
     \/ a = Tool /\ Done(a)
     \/ a # Tool /\ rec' = [rec EXCEPT ![a] = cache] /\ To(a, "claim") /\ UNCHANGED now
  /\ UNCHANGED <<glassSide, cronSide, backSide, faults>>
Store(a) ==
  /\ Is(a, "store") /\ cache' = rec[a] /\ stale' = FALSE
  /\ IF a = Tool THEN Done(a) ELSE Onward(a, "claim")
  /\ UNCHANGED <<glassSide, mark, first, claims, backSide, faults>>

(* fire_times_between *)
FiresBetween(after, upto) == {i \in 1 .. MaxFires : after < i /\ i <= upto}
(* Fault: the watermark moves past the first of several missed instants. *)
LatestFirst(fires) == CHOOSE i \in fires : \A j \in fires : i <= j
Latest(fires) == CHOOSE i \in fires : \A j \in fires : j <= i
(* Under the lock of crons.json: the watermark advances before anything runs. *)
Claim(s) ==
  /\ Is(s, "claim")
  /\ LET fires == FiresBetween(mark, now[s])
     IN \/ rec[s] \in {"gone", "nothing"} /\ UNCHANGED <<mark, first, claims>> /\ Done(s)
        \/ rec[s] \in {"active", "paused"} /\ mark = NoMark
           /\ mark' = now[s] /\ first' = now[s] /\ UNCHANGED claims /\ Done(s)
        \/ /\ mark # NoMark /\ rec[s] \in {"active", "paused"}
           /\ rec[s] = "paused" \/ fires = {}
           /\ UNCHANGED <<mark, first, claims>> /\ Done(s)
        \/ /\ mark # NoMark /\ rec[s] = "active" /\ fires # {}
           /\ mark' = Latest(fires) /\ UNCHANGED first /\ Onward(s, "deliver")
           /\ claims' = [i \in 1 .. MaxFires |->
                           IF i \in fires THEN claims[i] + 1 ELSE claims[i]]
  /\ UNCHANGED <<glassSide, cache, stale, backSide, faults>>
(* The targets are resolved; the context goes to the caller for admission. *)
Deliver(s) ==
  /\ Is(s, "deliver") /\ Done(s)
  /\ UNCHANGED <<glassSide, cronSide, backSide, faults>>

(* The process dies; the kernel gives its locks back. *)
CrashSweep(s) ==
  /\ faults < MaxFaults /\ ~Is(s, "idle") /\ faults' = faults + 1 /\ Done(s)
  /\ holder' = IF holder = s THEN NoOne ELSE holder
  /\ todo' = [todo EXCEPT ![s] = {}]
  /\ UNCHANGED <<glassSide, cronSide, backs, hist>>

Sweep(s) ==
  \/ SweepStarts(s) \/ LockBacks(s) \/ UnlockBacks(s) \/ Load(s) \/ Fetch(s) \/ Store(s)
  \/ Claim(s) \/ Deliver(s) \/ \E w \in Checked : ClaimBack(s, w) \/ RunBack(s, w)
CronInit ==
  /\ time = 0 /\ defn = "active" /\ edits = 0 /\ note = FALSE
  /\ cache = "nothing" /\ stale = FALSE /\ mark = NoMark /\ first = NoMark
  /\ claims = [i \in 1 .. MaxFires |-> 0]
  /\ backs = [w \in Checked |-> "none"] /\ hist = [w \in Checked |-> "none"]
  /\ holder = NoOne /\ faults = 0
  /\ pc = [a \in Actors |-> "idle"] /\ now = [a \in Actors |-> 0]
  /\ rec = [a \in Actors |-> "nothing"] /\ todo = [s \in Sweepers |-> {}]
CronNext ==
  \/ Tick \/ GlassEdits \/ Changed
  \/ ToolEdits \/ ToolInvalidates \/ ToolForgets \/ ToolLists \/ Fetch(Tool) \/ Store(Tool)
  \/ \E w \in Checked : AddCheckback(w) \/ RemoveCheckback(w) \/ Due(w)
  \/ \E s \in Sweepers : Sweep(s) \/ CrashSweep(s)
CronSpec == CronInit /\ [][CronNext]_cvars
(* Time passes, and the runtime sweeps again and again. *)
CronFairSpec ==
  CronSpec /\ (\A w \in Checked : WF_cvars(Due(w))) /\ (\A s \in Sweepers : WF_cvars(Sweep(s)))

-----------------------------------------------------------------------------
(* While the cron exists, the sweeps have claimed each instant from its first
   sight up to the watermark once, and none after it: nothing fires twice, and
   what a late sweep collapses is not skipped. *)
ClaimedOnce ==
  defn # "gone" => \A i \in 1 .. MaxFires :
    claims[i] = IF mark # NoMark /\ first < i /\ i <= mark THEN 1 ELSE 0
(* What makes it inductive: only the tool forgets a watermark, and only that of a
   cron that is gone; a watermark never lies before the one it was first given. *)
CronTypeOK ==
  /\ time \in 0 .. MaxFires /\ mark \in 0 .. NoMark /\ first \in 0 .. NoMark
  /\ claims \in [1 .. MaxFires -> Nat] /\ now \in [Actors -> 0 .. MaxFires]
  /\ DOMAIN pc = Actors
ForgottenIsGone == Is(Tool, "forget") => defn = "gone"
FirstSeen == mark # NoMark => first <= mark
CronInv == CronTypeOK /\ ForgottenIsGone /\ FirstSeen /\ ClaimedOnce

(* A checkback the manager asks for is carried out, or taken back: the checkback's
   own instructions say "Decide if you need to check again (use the checkback
   tool)".  The history of a worker's first checkback keeps every later one from
   running. *)
CheckbackRuns == \A w \in Checked : (backs[w] # "none") ~> (backs[w] = "none")
=============================================================================
