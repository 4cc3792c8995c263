------------------------------- MODULE Reviews -------------------------------
(* The periodic accuracy reviews of one task (core/long_task_updates.py and the
   dispatcher in main.py): an accepted estimate starts a schedule of checkpoints;
   the watcher turns all due ones into one pending review, the main loop claims
   it and hands it to the dispatcher, whose turn completes it.  A new estimate
   starts a new generation.  The schedule is in the journal, so a crash only
   loses the claim and what was in flight.  Time is the number of intervals
   since the estimate was accepted. *)
EXTENDS Naturals, FiniteSets

CONSTANTS MaxGoals,      \* estimates accepted
          MaxCheckpoint, \* intervals that pass in one generation
          MaxRetries     \* crashes, lapsed claims and turns that fail

RAssumption == /\ MaxGoals \in Nat /\ MaxCheckpoint \in Nat /\ MaxRetries \in Nat

VARIABLES
  sched,    \* accuracy_schedule and its pending_review
  elapsed,  \* intervals since anchor_at
  ended,    \* the task is terminal
  asked,    \* generation the watcher reads the card for, 0 when none
  held,     \* reviews claimed by the main loop and not yet submitted
  passed,   \* reviews submitted and not yet acknowledged
  roots,    \* reviews the dispatcher owns
  turn,     \* the review whose turn runs
  retries,
  reviewed, deferred \* history: checkpoints a turn has reviewed; that were queued
rvars == <<sched, elapsed, ended, asked, held, passed, roots, turn, retries, reviewed, deferred>>

None == [gen |-> 0]
NoSched == [gen |-> 0, next |-> 1, phase |-> "off", review |-> None]
Review(g, a, b) == [gen |-> g, from |-> a, through |-> b]
Covers(v) == {<<v.gen, k>> : k \in v.from..v.through}
Retry == retries < MaxRetries /\ retries' = retries + 1

(* _set_accuracy_goal_locked for a goal that is new or materially changed; an
   update that removes the estimate cancels the schedule. *)
Scheduled(g) == [NoSched EXCEPT !.gen = g, !.phase = "none"]
Cancelled(s) == [NoSched EXCEPT !.gen = s.gen]
SetGoal == /\ ~ended /\ sched.gen < MaxGoals
           /\ sched' = Scheduled(sched.gen + 1) /\ elapsed' = 0
           /\ UNCHANGED <<ended, asked, held, passed, roots, turn, retries, reviewed, deferred>>
DropGoal == /\ ~ended /\ sched.phase # "off" /\ sched' = Cancelled(sched)
            /\ UNCHANGED <<elapsed, ended, asked, held, passed, roots, turn, retries, reviewed, deferred>>
Interval == /\ sched.phase # "off" /\ elapsed < MaxCheckpoint /\ elapsed' = elapsed + 1
            /\ UNCHANGED <<sched, ended, asked, held, passed, roots, turn, retries, reviewed, deferred>>
(* The task ends: the schedule is cancelled. *)
TaskEnds == /\ ~ended /\ sched.gen > 0 /\ ended' = TRUE
            /\ sched' = Cancelled(sched)
            /\ UNCHANGED <<elapsed, asked, held, passed, roots, turn, retries, reviewed, deferred>>

(* _prepare_accuracy_review_if_due: the card is read without the lock; the
   schedule is looked at again after it. *)
Due == ~ended /\ sched.phase = "none" /\ elapsed >= sched.next
Ask == /\ Due /\ asked = 0 /\ asked' = sched.gen
       /\ UNCHANGED <<sched, elapsed, ended, held, passed, roots, turn, retries, reviewed, deferred>>
Current(g) == ~ended /\ sched.gen = g /\ sched.phase = "none"
Materialize(shown) ==
  /\ asked > 0 /\ asked' = 0
  /\ shown = "changed" => sched.gen < MaxGoals
  /\ LET here == Current(asked) IN
     /\ sched' = IF ~here THEN sched
                ELSE CASE shown \in {"terminal", "removed"} -> Cancelled(sched)
                       [] shown = "changed" -> Scheduled(sched.gen + 1)
                       [] shown = "same" /\ elapsed >= sched.next ->
                            [sched EXCEPT !.phase = "pending",
                                          !.review = Review(sched.gen, sched.next, elapsed)]
                       [] OTHER -> sched        \* the card could not be read
     /\ ended' = (ended \/ (here /\ shown = "terminal"))
     /\ elapsed' = IF here /\ shown = "changed" THEN 0 ELSE elapsed
  /\ UNCHANGED <<held, passed, roots, turn, retries, reviewed, deferred>>

(* claim_accuracy_review by the main loop, submit, then the acknowledgement. *)
Claim == /\ ~ended /\ sched.phase = "pending"
         /\ sched' = [sched EXCEPT !.phase = "claimed"]
         /\ held' = held \cup {sched.review}
         /\ UNCHANGED <<elapsed, ended, asked, passed, roots, turn, retries, reviewed, deferred>>
Submit(v) == /\ v \in held /\ held' = held \ {v}
             /\ roots' = roots \cup {v} /\ passed' = passed \cup {v}
             /\ UNCHANGED <<sched, elapsed, ended, asked, turn, retries, reviewed, deferred>>
Pending(v) == sched.phase \notin {"off", "none"} /\ sched.review = v
MarkDispatched(v) ==
  /\ v \in passed /\ passed' = passed \ {v}
  /\ sched' = IF Pending(v) THEN [sched EXCEPT !.phase = "dispatched"] ELSE sched
  /\ UNCHANGED <<elapsed, ended, asked, held, roots, turn, retries, reviewed, deferred>>
(* The claim of a slow loop or of a dead process lapses. *)
ClaimExpires == /\ sched.phase = "claimed" /\ Retry
                /\ sched' = [sched EXCEPT !.phase = "pending"]
                /\ UNCHANGED <<elapsed, ended, asked, held, passed, roots, turn, reviewed, deferred>>

(* The turn: a review that is not current any more is dropped, one that is fenced
   goes to the durable queue as a plain root, the others run. *)
IsCurrent(v) == ~ended /\ Pending(v)
StartTurn(v) == /\ turn = None /\ v \in roots
                /\ roots' = IF IsCurrent(v) THEN roots ELSE roots \ {v}
                /\ turn' = IF IsCurrent(v) THEN v ELSE None
                /\ UNCHANGED <<sched, elapsed, ended, asked, held, passed, retries, reviewed, deferred>>
(* Fault: any review advances the schedule. *)
CompletedAny(v) == [sched EXCEPT !.next = v.through + 1, !.phase = "none", !.review = None]
(* complete_accuracy_review *)
Completed(v) == IF Pending(v)
                  THEN [sched EXCEPT !.next = IF v.through + 1 > @ THEN v.through + 1 ELSE @,
                                     !.phase = "none", !.review = None]
                  ELSE sched
TurnDone == /\ turn # None
            /\ reviewed' = reviewed \cup Covers(turn)
            /\ sched' = Completed(turn)
            /\ roots' = roots \ {turn} /\ turn' = None
            /\ UNCHANGED <<elapsed, ended, asked, held, passed, retries, deferred>>
(* run_all_managers queues the fenced root and returns like a turn that ran. *)
TurnFenced == /\ turn # None
              /\ deferred' = deferred \cup Covers(turn)
              /\ sched' = Completed(turn)
              /\ roots' = roots \ {turn} /\ turn' = None
              /\ UNCHANGED <<elapsed, ended, asked, held, passed, retries, reviewed>>
TurnFails == /\ turn # None /\ Retry /\ turn' = None
             /\ UNCHANGED <<sched, elapsed, ended, asked, held, passed, roots, reviewed, deferred>>
(* A restart frees the claim; a task of the cache whose journal has no schedule
   is adopted with the time it has already been active. *)
RCrash(old) ==
  /\ Retry /\ asked' = 0 /\ held' = {} /\ passed' = {} /\ turn' = None
  /\ old > 0 => ~ended /\ sched.phase = "off" /\ sched.gen < MaxGoals
  /\ sched' = IF old > 0 THEN Scheduled(sched.gen + 1)
              ELSE IF sched.phase = "claimed" THEN [sched EXCEPT !.phase = "pending"] ELSE sched
  /\ elapsed' = IF old > 0 THEN old ELSE elapsed
  /\ UNCHANGED <<ended, roots, reviewed, deferred>>

RInit == /\ sched = NoSched /\ elapsed = 0 /\ ended = FALSE /\ asked = 0
         /\ held = {} /\ passed = {} /\ roots = {} /\ turn = None /\ retries = 0
         /\ reviewed = {} /\ deferred = {}
RNext == \/ SetGoal \/ DropGoal \/ Interval \/ TaskEnds \/ Ask \/ Claim \/ ClaimExpires
         \/ \E shown \in {"same", "changed", "removed", "terminal", "unread"} : Materialize(shown)
         \/ \E old \in 0..MaxCheckpoint : RCrash(old)
         \/ \E v \in held : Submit(v)
         \/ \E v \in passed : MarkDispatched(v)
         \/ \E v \in roots : StartTurn(v)
         \/ TurnDone \/ TurnFenced \/ TurnFails
RSpec == RInit /\ [][RNext]_rvars

(* A checkpoint of the running generation is passed only when a review that
   covered it was carried out or moved to the durable queue: not by a review of
   an older estimate, nor by one that was claimed twice or retried. *)
CheckpointsCovered ==
   \A k \in 1..(sched.next - 1) : <<sched.gen, k>> \in reviewed \cup deferred

(* What makes it inductive: a review that is pending is of the generation that
   runs, and starts at the first checkpoint that has not been passed. *)
RTypeOK ==
  /\ sched.gen \in Nat /\ sched.next \in Nat \ {0} /\ elapsed \in Nat
  /\ sched = [gen |-> sched.gen, next |-> sched.next, phase |-> sched.phase,
              review |-> sched.review]
PendingIsNext ==
  sched.phase \notin {"off", "none"} =>
    /\ sched.review.through \in Nat
    /\ sched.review = Review(sched.gen, sched.next, sched.review.through)
RInv == RTypeOK /\ CheckpointsCovered /\ PendingIsNext
=============================================================================
