---------------------------- MODULE RecordsProofs ----------------------------
(***************************************************************************)
(* Theorems about the key rotation, the accuracy reviews, the manager      *)
(* queue, the crons and the team context, each in its part of MCRecords,   *)
(* for every value of the constants.                                       *)
(* An inductive invariant is defined beside the module it is about.  Each  *)
(* section shows that it holds initially and that every step of the part   *)
(* keeps it, one step of the proof per action of the module.               *)
(***************************************************************************)
EXTENDS MCRecords, FiniteSetTheorems, WellFoundedInduction, TLAPS

-----------------------------------------------------------------------------
(* Key rotation *)

\* _configured_auth_pair: a key in .glass.json is the configured one.
LEMMA GlassFirst == v2["glass"] # 0 => Key!Configured = v2["glass"]
<1> SUFFICES ASSUME v2["glass"] # 0 PROVE Key!Configured = v2["glass"]
  OBVIOUS
<1> DEFINE with == {i \in DOMAIN Key!Places : v2[Key!Places[i]] # 0}
<1>1. Key!Places = <<"glass", "silicon", "dotenv", "envpy">>
  BY DEF Key!Places
<1>2. 1 \in with /\ \A i \in with : i \in 1..4
  BY <1>1
<1>3. \A i \in with : (\A j \in with : i <= j) => i = 1
  BY <1>2
<1>4. \A j \in with : 1 <= j
  BY <1>2
<1>5. (CHOOSE i \in with : \A j \in with : i <= j) = 1
  BY <1>2, <1>3, <1>4
<1> QED
  BY <1>1, <1>2, <1>5 DEF Key!Configured, Key!None

\* The configured key only depends on what is stored.
LEMMA SameStores ==
  ASSUME v2' = v2 PROVE Key!Configured' = Key!Configured
BY DEF Key!Configured, Key!Places

\* The configured key is a key or none.
LEMMA ConfiguredIsKey ==
  ASSUME Key!KTypeOK PROVE Key!Configured \in Nat
<1> DEFINE with == {i \in DOMAIN Key!Places : v2[Key!Places[i]] # 0}
<1>1. Key!Places = <<"glass", "silicon", "dotenv", "envpy">>
  BY DEF Key!Places
<1>2. \A i \in 1..4 : v2[Key!Places[i]] \in Nat
  BY <1>1 DEF Key!KTypeOK
<1>3. with \subseteq 1..4
  BY <1>1
<1>4. ASSUME with # {} PROVE \E i \in with : \A j \in with : i <= j
  <2>1. CASE 1 \in with
    BY <1>3, <2>1
  <2>2. CASE 1 \notin with /\ 2 \in with
    BY <1>3, <2>2
  <2>3. CASE 1 \notin with /\ 2 \notin with /\ 3 \in with
    BY <1>3, <2>3
  <2>4. CASE 1 \notin with /\ 2 \notin with /\ 3 \notin with
    BY <1>3, <1>4, <2>4
  <2> QED
    BY <2>1, <2>2, <2>3, <2>4
<1> HIDE DEF with
<1>5. ASSUME with # {} PROVE (CHOOSE i \in with : \A j \in with : i <= j) \in 1..4
  BY <1>3, <1>4, <1>5
<1>6. CASE with = {}
  BY <1>6 DEF Key!Configured, Key!None, with
<1>7. CASE with # {}
  BY <1>2, <1>5, <1>7 DEF Key!Configured, Key!None, with
<1> QED
  BY <1>6, <1>7

LEMMA KeyInit ==
  ASSUME Key!KInit PROVE Key!KInv
<1>1. /\ v1 = 1 /\ v3 = 0 /\ v4 = 1 /\ v5 = "idle" /\ v6 = 0 /\ v7 = FALSE
      /\ v2 \in [{"glass", "silicon", "dotenv", "envpy"} -> Nat]
  BY DEF Key!KInit, Key!None
<1>2. v7 \in BOOLEAN
  BY <1>1, Zenon
<1>3. v5 \in {"idle", "stage", "post", "probe", "probe_current", "persist", "scrub", "clear"}
  BY <1>1
<1>4. /\ v1 \in Nat \ {0} /\ v4 \in Nat \ {0} /\ v3 \in Nat /\ v6 \in Nat
  BY <1>1
<1>5. Key!KTypeOK
  BY <1>1, <1>2, <1>3, <1>4, Zenon DEF Key!KTypeOK, Key!None
<1> QED
  BY <1>5 DEF Key!KInit, Key!KInv, Key!KeyKept, Key!CurrentIsConfigured, Key!CandidateProved

LEMMA KeyStep ==
  ASSUME MaxKeys \in Nat, Key!KInv, Key!KNext PROVE Key!KInv'
<1>1. /\ Key!KTypeOK /\ Key!KeyKept /\ Key!CurrentIsConfigured /\ Key!CandidateProved
      /\ Key!Configured \in Nat /\ (v2' = v2 => Key!Configured' = Key!Configured)
  BY ConfiguredIsKey, SameStores DEF Key!KInv
<1> USE DEF Key!KTypeOK, Key!KeyKept, Key!CurrentIsConfigured, Key!CandidateProved, Key!KInv,
            Key!Move, Key!None
<1>2. CASE Key!Rotate
  BY <1>1, <1>2 DEF Key!Rotate
<1>3. CASE Key!Stage
  BY <1>1, <1>3 DEF Key!Stage
<1>4. CASE Key!Post
  BY <1>1, <1>4 DEF Key!Post
<1>5. CASE Key!Probe
  BY <1>1, <1>5 DEF Key!Probe, Key!Installed
<1>6. CASE Key!ProbeCurrent
  BY <1>1, <1>6 DEF Key!ProbeCurrent
<1>7. CASE Key!Persist
  <2>1. v2'["glass"] = v3 /\ v3 = v1 /\ v2' \in [{"glass", "silicon", "dotenv", "envpy"} -> Nat]
    BY <1>1, <1>7 DEF Key!Persist
  <2>2. (v2["glass"] # 0 => Key!Configured = v2["glass"])'
    BY GlassFirst, PTL
  <2> QED
    BY <1>1, <1>7, <2>1, <2>2 DEF Key!Persist
<1>8. CASE Key!Scrub
  BY <1>1, <1>8 DEF Key!Scrub, Key!Legacy
<1>9. CASE Key!Clear
  BY <1>1, <1>9, GlassFirst DEF Key!Clear
<1>10. CASE Key!Abort
  BY <1>1, <1>10 DEF Key!Abort
<1>11. CASE Key!Reprovision
  <2>1. /\ v1' = v4 + 1 /\ v2'["glass"] = v4 + 1 /\ v4 + 1 # 0
        /\ v2' \in [{"glass", "silicon", "dotenv", "envpy"} -> Nat]
    BY <1>1, <1>11 DEF Key!Reprovision
  <2>2. (v2["glass"] # 0 => Key!Configured = v2["glass"])'
    BY GlassFirst, PTL
  <2> QED
    BY <1>1, <1>11, <2>1, <2>2 DEF Key!Reprovision
<1> QED
  BY <1>2, <1>3, <1>4, <1>5, <1>6, <1>7, <1>8, <1>9, <1>10, <1>11 DEF Key!KNext

\* The key Glass accepts is the configured one or the staged one, wherever a
\* rotation is cut off and whatever Glass answers, for any number of keys.
THEOREM KeyIsKept == Spec => []KeyKept
<1> DEFINE I == part = "key" => Key!KInv
<1>1. Init => I
  BY KeyInit DEF Init
<1>2. I /\ [Next]_vars => I'
  <2> SUFFICES ASSUME I, [Next]_vars, part' = "key" PROVE Key!KInv'
    OBVIOUS
  <2>1. CASE Next
    <3>1. part = "key" /\ Key!KNext
      BY <2>1 DEF Next
    <3> QED
      BY <3>1, KeyStep, BoundsAssumption DEF Key!KAssumption
  <2>2. CASE UNCHANGED vars
    <3>1. part = "key" /\ UNCHANGED Key!kvars
      BY <2>2 DEF vars, Key!kvars
    <3> QED
      BY <3>1, SameStores DEF Key!kvars, Key!KInv, Key!KTypeOK, Key!KeyKept,
         Key!CurrentIsConfigured, Key!CandidateProved, Key!None
  <2> QED
    BY <2>1, <2>2
<1>3. I => KeyKept
  BY DEF KeyKept, Key!KInv
<1> QED
  BY <1>1, <1>2, <1>3, PTL DEF Spec

-----------------------------------------------------------------------------
(* Accuracy reviews.  v1 is the schedule, v2 the intervals that passed, v8 the
   review whose turn runs, v10 and v11 what was reviewed and what was queued. *)

\* A step that leaves the schedule, or only moves its pending review from one
\* phase to another, while reviews are carried out or deferred.
LEMMA ReviewGoesOn ==
  ASSUME Review!RInv, v2' \in Nat, v10 \subseteq v10', v11 \subseteq v11',
         \/ v1' = v1
         \/ /\ v1.phase \notin {"off", "none"}
            /\ \E p \in {"pending", "claimed", "dispatched"} : v1' = [v1 EXCEPT !.phase = p]
  PROVE  Review!RInv'
<1>1. /\ v1'.gen = v1.gen /\ v1'.next = v1.next /\ v1'.review = v1.review
      /\ v1'.phase \notin {"off", "none"} => v1.phase \notin {"off", "none"}
      /\ v1' = [gen |-> v1'.gen, next |-> v1'.next, phase |-> v1'.phase, review |-> v1'.review]
  BY DEF Review!RInv, Review!RTypeOK
<1> QED
  BY <1>1 DEF Review!RInv, Review!RTypeOK, Review!CheckpointsCovered, Review!PendingIsNext,
     Review!Review

\* A schedule that has just been set or cancelled has passed no checkpoint.
LEMMA ReviewStartsOver ==
  ASSUME Review!RInv, v2' \in Nat,
         \/ \E g \in Nat : v1' = Review!Scheduled(g)
         \/ v1' = Review!Cancelled(v1)
  PROVE  Review!RInv'
<1>1. /\ v1'.gen \in Nat /\ v1'.next = 1 /\ v1'.phase \in {"off", "none"}
      /\ v1' = [gen |-> v1'.gen, next |-> v1'.next, phase |-> v1'.phase, review |-> v1'.review]
  BY DEF Review!RInv, Review!RTypeOK, Review!Scheduled, Review!Cancelled, Review!NoSched
<1> QED
  BY <1>1 DEF Review!RInv, Review!RTypeOK, Review!CheckpointsCovered, Review!PendingIsNext

\* complete_accuracy_review: only the pending review moves the schedule on, past
\* the checkpoints it covered.
LEMMA ReviewCompletes ==
  ASSUME Review!RInv, v2' \in Nat, v1' = Review!Completed(v8),
         v10 \subseteq v10', v11 \subseteq v11', Review!Covers(v8) \subseteq v10' \cup v11'
  PROVE  Review!RInv'
<1>1. CASE ~Review!Pending(v8)
  BY <1>1, ReviewGoesOn DEF Review!Completed
<1>2. CASE Review!Pending(v8)
  <2>1. PICK b \in Nat : v8 = [gen |-> v1.gen, from |-> v1.next, through |-> b]
    BY <1>2 DEF Review!Pending, Review!RInv, Review!PendingIsNext, Review!Review
  <2>2. /\ v1'.gen = v1.gen /\ v1'.phase = "none"
        /\ v1'.next = IF b + 1 > v1.next THEN b + 1 ELSE v1.next
        /\ v1' = [gen |-> v1'.gen, next |-> v1'.next, phase |-> v1'.phase, review |-> v1'.review]
    BY <1>2, <2>1 DEF Review!Completed, Review!RInv, Review!RTypeOK
  <2>3. \A k \in v1.next..b : <<v1.gen, k>> \in v10' \cup v11'
    BY <2>1 DEF Review!Covers
  <2>4. \A k \in 1..(v1'.next - 1) : <<v1'.gen, k>> \in v10' \cup v11'
    BY <2>1, <2>2, <2>3 DEF Review!RInv, Review!RTypeOK, Review!CheckpointsCovered
  <2> QED
    BY <2>1, <2>2, <2>4 DEF Review!RInv, Review!RTypeOK, Review!CheckpointsCovered,
       Review!PendingIsNext
<1> QED
  BY <1>1, <1>2

LEMMA ReviewStep ==
  ASSUME Review!RInv, Review!RNext PROVE Review!RInv'
<1>1. v1.gen \in Nat /\ v1.gen + 1 \in Nat /\ v2 \in Nat /\ v2 + 1 \in Nat
  BY DEF Review!RInv, Review!RTypeOK
<1>2. CASE Review!SetGoal
  BY <1>1, <1>2, ReviewStartsOver DEF Review!SetGoal
<1>3. CASE Review!DropGoal
  BY <1>1, <1>3, ReviewStartsOver DEF Review!DropGoal
<1>4. CASE Review!Interval
  BY <1>1, <1>4, ReviewGoesOn DEF Review!Interval
<1>5. CASE Review!TaskEnds
  BY <1>1, <1>5, ReviewStartsOver DEF Review!TaskEnds
<1>6. CASE Review!Ask
  BY <1>1, <1>6, ReviewGoesOn DEF Review!Ask
<1>7. CASE Review!Claim
  BY <1>1, <1>7, ReviewGoesOn DEF Review!Claim
<1>8. CASE Review!ClaimExpires
  BY <1>1, <1>8, ReviewGoesOn DEF Review!ClaimExpires
<1>9. ASSUME NEW shown \in {"same", "changed", "removed", "terminal", "unread"},
             Review!Materialize(shown)
      PROVE  Review!RInv'
  <2>1. v2' \in Nat /\ v10' = v10 /\ v11' = v11
    BY <1>1, <1>9 DEF Review!Materialize
  <2>2. CASE ~Review!Current(v4) \/ v1' = v1
    BY <1>9, <2>1, <2>2, ReviewGoesOn DEF Review!Materialize
  <2>3. CASE Review!Current(v4) /\ shown \in {"terminal", "removed", "changed"}
    BY <1>1, <1>9, <2>1, <2>3, ReviewStartsOver DEF Review!Materialize
  <2>4. CASE Review!Current(v4) /\ shown \in {"same", "unread"} /\ v1' # v1
    <3>1. /\ v1' = [v1 EXCEPT !.phase = "pending",
                              !.review = Review!Review(v1.gen, v1.next, v2)]
          /\ v2' = v2
      BY <1>9, <2>4 DEF Review!Materialize
    <3>2. /\ v1'.gen = v1.gen /\ v1'.next = v1.next /\ v1'.phase = "pending"
          /\ v1'.review = [gen |-> v1.gen, from |-> v1.next, through |-> v2]
          /\ v1' = [gen |-> v1'.gen, next |-> v1'.next, phase |-> v1'.phase, review |-> v1'.review]
      BY <3>1 DEF Review!RInv, Review!RTypeOK, Review!Review
    <3> QED
      BY <1>1, <2>1, <3>1, <3>2 DEF Review!RInv, Review!RTypeOK, Review!CheckpointsCovered,
         Review!PendingIsNext, Review!Review
  <2> QED
    BY <2>2, <2>3, <2>4
<1>10. ASSUME NEW old \in 0..MaxCheckpoint, Review!RCrash(old) PROVE Review!RInv'
  <2>1. old \in Nat /\ v2' \in Nat
    BY <1>1, <1>10, BoundsAssumption DEF Review!RCrash, Review!RAssumption
  <2>2. CASE old > 0
    BY <1>1, <1>10, <2>1, <2>2, ReviewStartsOver DEF Review!RCrash
  <2>3. CASE ~(old > 0)
    BY <1>10, <2>1, <2>3, ReviewGoesOn DEF Review!RCrash
  <2> QED
    BY <2>2, <2>3
<1>11. ASSUME NEW v \in v5, Review!Submit(v) PROVE Review!RInv'
  BY <1>1, <1>11, ReviewGoesOn DEF Review!Submit
<1>12. ASSUME NEW v \in v6, Review!MarkDispatched(v) PROVE Review!RInv'
  BY <1>1, <1>12, ReviewGoesOn DEF Review!MarkDispatched, Review!Pending
<1>13. ASSUME NEW v \in v7, Review!StartTurn(v) PROVE Review!RInv'
  BY <1>1, <1>13, ReviewGoesOn DEF Review!StartTurn
<1>14. CASE Review!TurnDone
  BY <1>1, <1>14, ReviewCompletes DEF Review!TurnDone
<1>15. CASE Review!TurnFenced
  BY <1>1, <1>15, ReviewCompletes DEF Review!TurnFenced
<1>16. CASE Review!TurnFails
  BY <1>1, <1>16, ReviewGoesOn DEF Review!TurnFails
<1> QED
  BY <1>2, <1>3, <1>4, <1>5, <1>6, <1>7, <1>8, <1>9, <1>10, <1>11, <1>12, <1>13, <1>14, <1>15,
     <1>16 DEF Review!RNext

\* No checkpoint of the running estimate is passed unreviewed, whatever is claimed
\* twice, retried, overtaken by a newer estimate or lost in a crash.
THEOREM NoCheckpointSkipped == Spec => []CheckpointsCovered
<1> DEFINE I == part = "reviews" => Review!RInv
<1>1. Init => I
  <2> SUFFICES ASSUME Review!RInit PROVE Review!RInv
    BY DEF Init
  <2> QED
    BY DEF Review!RInit, Review!RInv, Review!RTypeOK, Review!CheckpointsCovered,
       Review!PendingIsNext, Review!NoSched
<1>2. I /\ [Next]_vars => I'
  <2> SUFFICES ASSUME I, [Next]_vars, part' = "reviews" PROVE Review!RInv'
    OBVIOUS
  <2>1. CASE Next
    <3>1. part = "reviews" /\ Review!RNext
      BY <2>1 DEF Next
    <3> QED
      BY <3>1, ReviewStep
  <2>2. CASE UNCHANGED vars
    <3>1. part = "reviews" /\ UNCHANGED <<v1, v2, v10, v11>>
      BY <2>2 DEF vars, Rest7
    <3> QED
      BY <3>1, ReviewGoesOn DEF Review!RInv, Review!RTypeOK
  <2> QED
    BY <2>1, <2>2
<1>3. I => CheckpointsCovered
  BY DEF CheckpointsCovered, Review!RInv
<1> QED
  BY <1>1, <1>2, <1>3, PTL DEF Spec

-----------------------------------------------------------------------------
(* The manager queue.  v1 is the queue, v3 what each sender was told, v4 the
   live leases, v5 and v6 the receipts, v7 the filed cards, v8 where each sender
   is, v9 the drain. *)

\* Induction over the naturals for a set, from the well-foundedness of <.
LEMMA SetInduction ==
  ASSUME NEW S, 0 \in S, \A n \in Nat : n \in S => n + 1 \in S
  PROVE  Nat \subseteq S
<1> DEFINE T == Nat \ S
<1>1. SUFFICES ASSUME T # {} PROVE FALSE
  OBVIOUS
<1>2. PICK x \in T : \A y \in T : <<y, x>> \notin OpToRel(<, Nat)
  BY ONLY <1>1, T \subseteq Nat, WFMin, NatLessThanWellFounded
<1>3. x \in Nat /\ x # 0 /\ x - 1 \in Nat /\ x - 1 < x /\ (x - 1) + 1 = x
  OBVIOUS
<1>4. x - 1 \in T
  BY <1>3
<1> QED
  BY <1>2, <1>3, <1>4 DEF OpToRel

\* What a longer sequence and the rest of a sequence have in them.
LEMMA AppendToSet ==
  ASSUME NEW S, NEW s \in Seq(S), NEW x
  PROVE  Queue!ToSet(Append(s, x)) = Queue!ToSet(s) \cup {x}
<1>1. /\ DOMAIN Append(s, x) = 1..(Len(s) + 1) /\ Append(s, x)[Len(s) + 1] = x
      /\ \A i \in 1..Len(s) : Append(s, x)[i] = s[i]
      /\ DOMAIN s = 1..Len(s) /\ Len(s) \in Nat
  OBVIOUS
<1> QED
  BY <1>1 DEF Queue!ToSet

\* _remove_manager_queue_ids: what is left are the items of other handoffs.
LEMMA WithoutFacts ==
  ASSUME NEW S, NEW q \in Seq(S), NEW ids
  PROVE  /\ Queue!Without(q, ids) \in Seq(S)
         /\ Queue!ToSet(Queue!Without(q, ids)) = {i \in Queue!ToSet(q) : i.id \notin ids}
<1> DEFINE One(s, n) == IF q[n].id \in ids THEN s ELSE Append(s, q[n])
           Step(r, n) == IF n = 0 THEN << >> ELSE One(r[n - 1], n)
           IsRest(r, m) == r = [n \in 0..m |-> Step(r, n)]
           HasRest == {m \in Nat : \E r : IsRest(r, m)}
           rest == CHOOSE r : r = [n \in 0..Len(q) |-> Step(r, n)]
<1>1. Nat \subseteq HasRest
  <2> HIDE DEF One
  <2>1. IsRest([n \in 0..0 |-> << >>], 0)
    OBVIOUS
  <2>2. ASSUME NEW m \in Nat, m \in HasRest PROVE m + 1 \in HasRest
    <3>1. PICK r : IsRest(r, m)
      BY <2>2
    <3> DEFINE t == [n \in 0..(m + 1) |-> Step(r, n)]
    <3>2. \A n \in 0..m : r[n] = Step(r, n)
      BY <3>1
    <3>3. \A n \in 0..(m + 1) : t[n] = Step(r, n)
      OBVIOUS
    <3>4. \A n \in 1..(m + 1) : n - 1 \in 0..m /\ t[n - 1] = r[n - 1]
      BY <3>2, <3>3
    <3>5. \A n \in 0..(m + 1) : t[n] = Step(t, n)
      <4> SUFFICES ASSUME NEW n \in 0..(m + 1) PROVE t[n] = Step(t, n)
        OBVIOUS
      <4> HIDE DEF t
      <4>1. CASE n = 0
        BY <3>3, <4>1
      <4>2. CASE n # 0
        <5>1. t[n - 1] = r[n - 1]
          BY <3>4, <4>2
        <5>2. t[n] = One(r[n - 1], n)
          BY <3>3, <4>2
        <5> QED
          BY <4>2, <5>1, <5>2
      <4> QED
        BY <4>1, <4>2
    <3> HIDE DEF Step
    <3>6. t = [n \in 0..(m + 1) |-> Step(t, n)]
      BY <3>5
    <3>7. IsRest(t, m + 1)
      BY <3>6
    <3> HIDE DEF t, IsRest
    <3> QED
      BY <3>7
  <2>3. 0 \in HasRest
    BY <2>1
  <2> HIDE DEF HasRest
  <2> QED
    BY <2>2, <2>3, SetInduction
<1>2. IsRest(rest, Len(q))
  <2> HIDE DEF One
  <2>1. \E r : IsRest(r, Len(q))
    BY <1>1
  <2> QED
    BY <2>1
<1>3. Queue!Without(q, ids) = rest[Len(q)]
  BY DEF Queue!Without
<1> HIDE DEF rest
<1> DEFINE Good == {n \in Nat : n <= Len(q) =>
                      /\ rest[n] \in Seq(S)
                      /\ Queue!ToSet(rest[n]) = {q[i] : i \in {j \in 1..n : q[j].id \notin ids}}}
<1>4. 0 \in Good
  BY <1>2 DEF Queue!ToSet
<1>5. ASSUME NEW n \in Nat, n \in Good PROVE n + 1 \in Good
  <2> SUFFICES ASSUME n + 1 <= Len(q)
               PROVE  /\ rest[n + 1] \in Seq(S)
                      /\ Queue!ToSet(rest[n + 1])
                         = {q[i] : i \in {j \in 1..(n + 1) : q[j].id \notin ids}}
    OBVIOUS
  <2>1. /\ n + 1 \in 1..Len(q) /\ q[n + 1] \in S
        /\ rest[n] \in Seq(S)
        /\ Queue!ToSet(rest[n]) = {q[i] : i \in {j \in 1..n : q[j].id \notin ids}}
    BY <1>5
  <2>2. rest[n + 1] = IF q[n + 1].id \in ids THEN rest[n] ELSE Append(rest[n], q[n + 1])
    <3> HIDE DEF One
    <3>1. \A k \in 0..Len(q) : rest[k] = Step(rest, k)
      BY <1>2
    <3>2. rest[n + 1] = Step(rest, n + 1)
      BY <2>1, <3>1
    <3>3. rest[n + 1] = One(rest[n], n + 1)
      BY <2>1, <3>2
    <3> QED
      BY <3>3 DEF One
  <2> HIDE DEF IsRest, Good
  <2>3. CASE q[n + 1].id \in ids
    BY <2>1, <2>2, <2>3
  <2>4. CASE q[n + 1].id \notin ids
    <3>1. rest[n + 1] \in Seq(S) /\ rest[n + 1] = Append(rest[n], q[n + 1])
      BY <2>1, <2>2, <2>4
    <3>2. Queue!ToSet(rest[n + 1]) = Queue!ToSet(rest[n]) \cup {q[n + 1]}
      BY <2>1, <3>1, AppendToSet
    <3> QED
      BY <2>1, <2>4, <3>1, <3>2
  <2> QED
    BY <2>3, <2>4
<1>6. Len(q) \in Good
  <2> HIDE DEF Good
  <2> QED
    BY <1>4, <1>5, SetInduction
<1>7. Len(q) \in Nat /\ DOMAIN q = 1..Len(q)
  OBVIOUS
<1>8. Queue!ToSet(rest[Len(q)]) = {q[i] : i \in {j \in 1..Len(q) : q[j].id \notin ids}}
  BY <1>6, <1>7
<1>9. rest[Len(q)] \in Seq(S)
  BY <1>6, <1>7
<1> HIDE DEF Good, IsRest
<1>10. Queue!ToSet(rest[Len(q)]) = {i \in Queue!ToSet(q) : i.id \notin ids}
  BY <1>7, <1>8 DEF Queue!ToSet
<1> QED
  BY <1>3, <1>9, <1>10

LEMMA HeadAndTail ==
  ASSUME NEW S, NEW s \in Seq(S), s # << >>
  PROVE  /\ Head(s) \in S /\ Head(s) \in Queue!ToSet(s)
         /\ Tail(s) \in Seq(S) /\ Queue!ToSet(Tail(s)) \subseteq Queue!ToSet(s)
<1>1. /\ Len(s) \in Nat /\ Len(s) >= 1 /\ Head(s) = s[1] /\ Tail(s) \in Seq(S)
      /\ DOMAIN Tail(s) = 1..(Len(s) - 1) /\ DOMAIN s = 1..Len(s)
      /\ \A i \in 1..(Len(s) - 1) : Tail(s)[i] = s[i + 1]
  OBVIOUS
<1> QED
  BY <1>1 DEF Queue!ToSet

\* Every step keeps the types.
LEMMA QueueTypes ==
  ASSUME Queue!QTypeOK, Queue!QNext PROVE Queue!QTypeOK'
<1> USE DEF Queue!QTypeOK, Queue!Becomes, Queue!Spend
<1>1. ASSUME NEW h \in Handoffs, Queue!Sender(h) PROVE Queue!QTypeOK'
  <2>1. \A b \in BOOLEAN : Queue!Appended(h, b) \in Seq(Queue!QItems)
    BY DEF Queue!Appended, Queue!QItems
  <2>2. Queue!Without(v1, {h}) \in Seq(Queue!QItems)
    BY WithoutFacts
  <2>3. CASE Queue!Send(h)
    BY <2>3 DEF Queue!Send
  <2>4. CASE Queue!Prepare(h)
    BY <2>1, <2>4 DEF Queue!Prepare
  <2>5. CASE Queue!Transfer(h)
    BY <2>5 DEF Queue!Transfer, Queue!Transferred
  <2>6. CASE Queue!TransferRaises(h)
    BY <2>6 DEF Queue!TransferRaises, Queue!Transferred, Queue!AfterAmbiguous
  <2>7. CASE Queue!Withdraw(h)
    BY <2>2, <2>7 DEF Queue!Withdraw
  <2>8. CASE Queue!Journal(h)
    BY <2>8 DEF Queue!Journal
  <2>9. CASE Queue!Unlist(h)
    BY <2>2, <2>9 DEF Queue!Unlist
  <2>10. CASE Queue!Plain(h)
    BY <2>1, <2>10 DEF Queue!Plain
  <2>11. CASE Queue!LeaseLapses(h)
    BY <2>11 DEF Queue!LeaseLapses
  <2>12. CASE Queue!SenderDies(h)
    BY <2>12 DEF Queue!SenderDies
  <2> QED
    BY <1>1, <2>3, <2>4, <2>5, <2>6, <2>7, <2>8, <2>9, <2>10, <2>11, <2>12 DEF Queue!Sender
<1>2. ASSUME NEW h \in Handoffs, Queue!Resume(h) \/ Queue!Cards(h) \/ Queue!Deliver(h)
      PROVE  Queue!QTypeOK'
  <2>1. v9.left # << >>
    BY <1>2 DEF Queue!Resume, Queue!Cards, Queue!Deliver, Queue!Handling
  <2>2. /\ Tail(v9.left) \in Seq(Queue!QItems)
        /\ \A ids : Queue!Without(v9.left, ids) \in Seq(Queue!QItems)
    BY <2>1, HeadAndTail, WithoutFacts
  <2> DEFINE Typed == /\ v9'.left \in Seq(Queue!QItems) /\ v9'.on \in BOOLEAN
                      /\ v9'.gone \subseteq Handoffs
                      /\ v9'.at \in {"take", "cards", "cards_only", "ingress"}
                      /\ v9' = [on |-> v9'.on, left |-> v9'.left, at |-> v9'.at,
                                gone |-> v9'.gone]
  <2>3. Queue!Delivered(h) => Typed
    <3> SUFFICES ASSUME Queue!Delivered(h) PROVE Typed
      OBVIOUS
    <3>1. v9' = [on |-> v9.on, left |-> Tail(v9.left), at |-> "take", gone |-> v9.gone \cup {h}]
      BY DEF Queue!Delivered
    <3> QED
      BY <2>2, <3>1
  <2>4. Queue!KeptFrom(h) => Typed
    <3> SUFFICES ASSUME Queue!KeptFrom(h) PROVE Typed
      OBVIOUS
    <3>1. PICK ids : v9' = [on |-> v9.on, left |-> Queue!Without(v9.left, ids), at |-> "take",
                            gone |-> v9.gone]
      BY DEF Queue!KeptFrom
    <3> QED
      BY <2>2, <3>1
  <2>8. \A p \in {"take", "cards", "cards_only", "ingress"} : Queue!Proceed(p) => Typed
    BY DEF Queue!Proceed
  <2>5. CASE Queue!Resume(h)
    BY <2>3, <2>4, <2>5, <2>8 DEF Queue!Resume, Queue!Transferred
  <2>6. CASE Queue!Cards(h)
    BY <2>3, <2>4, <2>6, <2>8 DEF Queue!Cards
  <2>7. CASE Queue!Deliver(h)
    BY <2>3, <2>4, <2>7 DEF Queue!Deliver
  <2> QED
    BY <1>2, <2>5, <2>6, <2>7
<1>3. Queue!AtRest = [on |-> FALSE, left |-> << >>, at |-> "take", gone |-> {}]
  BY DEF Queue!AtRest
<1>4. CASE Queue!DrainStarts
  <2>1. v9' = [on |-> TRUE, left |-> v1, at |-> "take", gone |-> {}]
    BY <1>3, <1>4 DEF Queue!DrainStarts
  <2>2. UNCHANGED <<v1, v2, v3, v4, v5, v6, v7, v8, v10>>
    BY <1>4 DEF Queue!DrainStarts
  <2>3. TRUE \in BOOLEAN /\ v9'.on = TRUE
    BY <2>1
  <2> QED
    BY <2>1, <2>2, <2>3
<1>5. CASE Queue!DrainEnds
  BY <1>3, <1>5, WithoutFacts DEF Queue!DrainEnds
<1>6. CASE Queue!DrainDies
  BY <1>3, <1>6 DEF Queue!DrainDies
<1> QED
  BY <1>1, <1>2, <1>4, <1>5, <1>6 DEF Queue!QNext

\* What an action of a sender leaves in the queue.
LEMMA SenderItems ==
  ASSUME Queue!QTypeOK, NEW h \in Handoffs
  PROVE  /\ \A b \in BOOLEAN : Queue!ToSet(Queue!Appended(h, b))
                               = Queue!ToSet(v1) \cup {[id |-> h, prepared |-> b]}
         /\ Queue!ToSet(Queue!Without(v1, {h})) = {i \in Queue!ToSet(v1) : i.id # h}
BY AppendToSet, WithoutFacts DEF Queue!QTypeOK, Queue!Appended

LEMMA ItemFields ==
  ASSUME NEW q \in Seq(Queue!QItems), NEW i \in Queue!ToSet(q)
  PROVE  i.id \in Handoffs /\ i.prepared \in BOOLEAN
<1>1. PICK n \in 1..Len(q) : i = q[n]
  BY DEF Queue!ToSet
<1>2. i \in Queue!QItems
  BY <1>1
<1> QED
  BY <1>2 DEF Queue!QItems

\* A handoff that is past becoming a continuation stays so: leases are only taken
\* by a sender that begins, receipts only under a lease.
LEMMA RootsFollow ==
  ASSUME Queue!RootsArePast, Queue!QTypeOK, Queue!QTypeOK',
         v5 \subseteq v5',
         \A x \in v5' : x \in v5 \/ (x \in v4 /\ v8[x] \notin {"new", "prepare"}),
         \A x \in v4' : x \in v4 \/ (v8[x] = "new" /\ v8'[x] # "new"),
         \A x \in Handoffs :
           /\ v8[x] # "new" => v8'[x] # "new"
           /\ v8[x] \notin {"new", "prepare"} => v8'[x] \notin {"new", "prepare"},
         \A x \in Handoffs : v8'[x] \in {"withdraw", "plain", "card"}
           => v8[x] \in {"withdraw", "plain", "card"} \/ Queue!Past(x)',
         \A x \in v6' : x \in v6 \/ Queue!Past(x),
         \A i \in Queue!ToSet(v1') \cup Queue!ToSet(v9'.left) :
           \/ i \in Queue!ToSet(v1) \cup Queue!ToSet(v9.left)
           \/ /\ i.id \in Handoffs /\ v8'[i.id] \notin {"new", "prepare"}
              /\ i.prepared \/ Queue!Past(i.id),
         \A x \in Handoffs :
           /\ Queue!Handling(x, "cards")' \/ Queue!Handling(x, "ingress")'
                => Queue!Past(x) \/ Queue!Handling(x, "cards") \/ Queue!Handling(x, "ingress")
           /\ Queue!Handling(x, "cards_only")' => x \in v5' \/ Queue!Handling(x, "cards_only")
  PROVE  Queue!RootsArePast'
<1>1. /\ \A i \in Queue!ToSet(v1) \cup Queue!ToSet(v9.left) : i.id \in Handoffs
      /\ v6 \subseteq Handoffs /\ v6' \subseteq Handoffs /\ v5 \subseteq Handoffs
      /\ v4 \subseteq Handoffs /\ v4' \subseteq Handoffs
  BY ItemFields DEF Queue!QTypeOK
<1>2. \A x \in Handoffs : Queue!Past(x) => Queue!Past(x)'
  BY <1>1 DEF Queue!Past
<1>3. Queue!ToSet(v1)' = Queue!ToSet(v1') /\ Queue!ToSet(v9.left)' = Queue!ToSet(v9'.left)
  BY DEF Queue!ToSet
<1>4. \A x \in v6' : Queue!Past(x)'
  BY <1>1, <1>2 DEF Queue!RootsArePast
<1>5. \A x \in Handoffs : /\ v8'[x] \in {"withdraw", "plain", "card"} => Queue!Past(x)'
                          /\ v8'[x] = "new" => x \notin v4'
                          /\ v8'[x] \in {"new", "prepare"} => x \notin v5'
  <2> SUFFICES ASSUME NEW x \in Handoffs
               PROVE  /\ v8'[x] \in {"withdraw", "plain", "card"} => Queue!Past(x)'
                      /\ v8'[x] = "new" => x \notin v4'
                      /\ v8'[x] \in {"new", "prepare"} => x \notin v5'
    OBVIOUS
  <2>1. v8'[x] \in {"withdraw", "plain", "card"} => Queue!Past(x)'
    BY <1>2 DEF Queue!RootsArePast
  <2>2. v8'[x] = "new" => x \notin v4'
    BY DEF Queue!RootsArePast
  <2>3. v8'[x] \in {"new", "prepare"} => x \notin v5'
    BY DEF Queue!RootsArePast
  <2> QED
    BY <2>1, <2>2, <2>3
<1>6. \A i \in (Queue!ToSet(v1) \cup Queue!ToSet(v9.left))' :
         v8'[i.id] \notin {"new", "prepare"} /\ (~i.prepared => Queue!Past(i.id)')
  <2> SUFFICES ASSUME NEW i \in Queue!ToSet(v1') \cup Queue!ToSet(v9'.left)
               PROVE  v8'[i.id] \notin {"new", "prepare"} /\ (~i.prepared => Queue!Past(i.id)')
    BY <1>3
  <2>1. CASE i \in Queue!ToSet(v1) \cup Queue!ToSet(v9.left)
    <3>1. /\ i.id \in Handoffs /\ v8[i.id] \notin {"new", "prepare"}
          /\ ~i.prepared => Queue!Past(i.id)
      BY <1>1, <2>1 DEF Queue!RootsArePast
    <3> QED
      BY <1>2, <3>1
  <2>2. CASE /\ i.id \in Handoffs /\ v8'[i.id] \notin {"new", "prepare"}
             /\ i.prepared \/ Queue!Past(i.id)
    BY <1>2, <2>2
  <2> QED
    BY <2>1, <2>2
<1>7. \A x \in Handoffs :
         /\ Queue!Handling(x, "cards")' \/ Queue!Handling(x, "ingress")' => Queue!Past(x)'
         /\ Queue!Handling(x, "cards_only")' => x \in v5'
  BY <1>2 DEF Queue!RootsArePast
<1> QED
  BY <1>4, <1>5, <1>6, <1>7 DEF Queue!RootsArePast

\* Every step keeps it that roots and plain items come of such handoffs only.
LEMMA QueueRoots ==
  ASSUME Queue!QTypeOK, Queue!RootsArePast, Queue!QNext PROVE Queue!RootsArePast'
<1>1. Queue!QTypeOK'
  BY QueueTypes
<1>2. ASSUME NEW h \in Handoffs, Queue!Sender(h) PROVE Queue!RootsArePast'
  <2> USE DEF Queue!Becomes
  <2>1. /\ v8 \in [Handoffs -> {"new", "prepare", "transfer", "withdraw", "journal", "remove",
                             "plain", "card", "done"}]
        /\ v6 \subseteq Handoffs /\ v4 \subseteq Handoffs /\ v5 \subseteq Handoffs
    BY DEF Queue!QTypeOK
  <2>2. /\ v9' = v9 /\ v6' = v6
        /\ \A x \in Handoffs \ {h} : v8'[x] = v8[x]
    BY <1>2, <2>1 DEF Queue!Sender, Queue!Send, Queue!Prepare, Queue!Transfer,
       Queue!TransferRaises, Queue!AfterAmbiguous, Queue!Withdraw, Queue!Journal, Queue!Unlist,
       Queue!Plain, Queue!LeaseLapses, Queue!SenderDies
  <2>3. \A x \in Handoffs :
           /\ Queue!Handling(x, "cards")' = Queue!Handling(x, "cards")
           /\ Queue!Handling(x, "ingress")' = Queue!Handling(x, "ingress")
           /\ Queue!Handling(x, "cards_only")' = Queue!Handling(x, "cards_only")
    BY <2>2 DEF Queue!Handling
  <2> DEFINE Leases == /\ v5 \subseteq v5'
                       /\ \A x \in v5' : x \in v5 \/ (x \in v4 /\ v8[x] \notin {"new", "prepare"})
                       /\ \A x \in v4' : x \in v4 \/ (v8[x] = "new" /\ v8'[x] # "new")
             Control == /\ v8[h] # "new" => v8'[h] # "new"
                        /\ v8[h] \notin {"new", "prepare"} => v8'[h] \notin {"new", "prepare"}
                        /\ v8'[h] \in {"withdraw", "plain", "card"}
                             => v8[h] \in {"withdraw", "plain", "card"} \/ Queue!Past(h)'
             Listed == \A i \in Queue!ToSet(v1') :
                         \/ i \in Queue!ToSet(v1)
                         \/ /\ i.id = h /\ v8'[h] \notin {"new", "prepare"}
                            /\ (i.prepared \/ Queue!Past(h))
  <2>4. ASSUME Leases, Control, Listed PROVE Queue!RootsArePast'
    <3>1. \A x \in Handoffs :
             /\ v8[x] # "new" => v8'[x] # "new"
             /\ v8[x] \notin {"new", "prepare"} => v8'[x] \notin {"new", "prepare"}
             /\ v8'[x] \in {"withdraw", "plain", "card"}
                  => v8[x] \in {"withdraw", "plain", "card"} \/ Queue!Past(x)'
      BY <2>2, <2>4
    <3>2. \A i \in Queue!ToSet(v1') \cup Queue!ToSet(v9'.left) :
             \/ i \in Queue!ToSet(v1) \cup Queue!ToSet(v9.left)
             \/ /\ i.id \in Handoffs /\ v8'[i.id] \notin {"new", "prepare"}
                /\ i.prepared \/ Queue!Past(i.id)
      BY <2>2, <2>4
    <3>3. v6' = v6 /\ Leases
      BY <2>2, <2>4
    <3> HIDE DEF Control, Listed
    <3>4. \A x \in Handoffs :
           /\ Queue!Handling(x, "cards")' \/ Queue!Handling(x, "ingress")'
                => Queue!Past(x) \/ Queue!Handling(x, "cards") \/ Queue!Handling(x, "ingress")
           /\ Queue!Handling(x, "cards_only")' => x \in v5' \/ Queue!Handling(x, "cards_only")
      BY <2>3
    <3> QED
      BY <1>1, <3>1, <3>2, <3>3, <3>4, RootsFollow
  <2>5. ASSUME v1' = v1 \/ v1' = Queue!Without(v1, {h}) PROVE Listed
    BY <2>5, SenderItems
  <2> HIDE DEF Listed
  <2>6. CASE Queue!Send(h)
    BY <2>1, <2>4, <2>5, <2>6 DEF Queue!Send, Queue!RootsArePast, Queue!Past
  <2>7. CASE Queue!Prepare(h)
    <3>1. Leases /\ Control
      BY <2>1, <2>7 DEF Queue!Prepare, Queue!RootsArePast, Queue!Past
    <3>2. CASE Queue!Room
      <4>1. Queue!ToSet(v1') = Queue!ToSet(v1) \cup {[id |-> h, prepared |-> TRUE]}
        BY <2>7, <3>2, SenderItems DEF Queue!Prepare
      <4>2. v8'[h] = "transfer"
        BY <2>1, <2>7, <3>2 DEF Queue!Prepare
      <4> QED
        BY <2>4, <3>1, <4>1, <4>2 DEF Listed
    <3> QED
      BY <2>4, <2>5, <2>7, <3>1, <3>2 DEF Queue!Prepare
  <2>8. CASE Queue!Transfer(h)
    BY <2>1, <2>4, <2>5, <2>8
    DEF Queue!Transfer, Queue!Transferred, Queue!Accepts, Queue!RootsArePast, Queue!Past
  <2>9. CASE Queue!TransferRaises(h)
    BY <2>1, <2>4, <2>5, <2>9
    DEF Queue!TransferRaises, Queue!Transferred, Queue!Accepts, Queue!AfterAmbiguous
  <2>10. CASE Queue!Withdraw(h)
    BY <2>1, <2>4, <2>5, <2>10 DEF Queue!Withdraw
  <2>11. CASE Queue!Journal(h)
    BY <2>1, <2>4, <2>5, <2>11 DEF Queue!Journal
  <2>12. CASE Queue!Unlist(h)
    BY <2>1, <2>4, <2>5, <2>12 DEF Queue!Unlist
  <2>13. CASE Queue!Plain(h)
    <3>1. Leases /\ Control
      BY <2>1, <2>13 DEF Queue!Plain
    <3>2. CASE Queue!Room
      <4>1. Queue!ToSet(v1') = Queue!ToSet(v1) \cup {[id |-> h, prepared |-> FALSE]}
        BY <2>13, <3>2, SenderItems DEF Queue!Plain
      <4>2. v8'[h] = "card" /\ Queue!Past(h)
        BY <2>1, <2>13, <3>2 DEF Queue!Plain, Queue!RootsArePast
      <4> QED
        BY <2>4, <3>1, <4>1, <4>2 DEF Listed
    <3> QED
      BY <2>4, <2>5, <2>13, <3>1, <3>2 DEF Queue!Plain
  <2>14. CASE Queue!LeaseLapses(h)
    BY <2>1, <2>4, <2>5, <2>14 DEF Queue!LeaseLapses
  <2>15. CASE Queue!SenderDies(h)
    BY <2>1, <2>4, <2>5, <2>15 DEF Queue!SenderDies
  <2> QED
    BY <1>2, <2>6, <2>7, <2>8, <2>9, <2>10, <2>11, <2>12, <2>13, <2>14, <2>15 DEF Queue!Sender
<1>3. ASSUME NEW h \in Handoffs, Queue!Resume(h) \/ Queue!Cards(h) \/ Queue!Deliver(h)
      PROVE  Queue!RootsArePast'
  <2>1. /\ v9.on /\ v9.left # << >> /\ Head(v9.left).id = h /\ v1' = v1 /\ v8' = v8
        /\ v8 \in [Handoffs -> {"new", "prepare", "transfer", "withdraw", "journal", "remove",
                             "plain", "card", "done"}]
    BY <1>3 DEF Queue!Resume, Queue!Cards, Queue!Deliver, Queue!Handling, Queue!QTypeOK
  <2>2. /\ Head(v9.left) \in Queue!ToSet(v9.left)
        /\ Queue!ToSet(Tail(v9.left)) \subseteq Queue!ToSet(v9.left)
        /\ \A ids : Queue!ToSet(Queue!Without(v9.left, ids)) \subseteq Queue!ToSet(v9.left)
    BY <2>1, HeadAndTail, WithoutFacts DEF Queue!QTypeOK
  <2>3. v8[h] \notin {"new", "prepare"} /\ (~Head(v9.left).prepared => Queue!Past(h))
    BY <2>1, <2>2 DEF Queue!RootsArePast
  <2> DEFINE Kept == Queue!ToSet(v9'.left) \subseteq Queue!ToSet(v9.left)
  <2>4. Queue!Delivered(h) => v9'.at = "take" /\ Kept
    BY <2>2 DEF Queue!Delivered, Queue!QTypeOK
  <2>5. ASSUME Queue!KeptFrom(h) PROVE v9'.at = "take" /\ Kept
    <3>1. PICK ids : v9' = [v9 EXCEPT !.left = Queue!Without(v9.left, ids), !.at = "take"]
      BY <2>5 DEF Queue!KeptFrom
    <3>2. v9'.at = "take" /\ v9'.left = Queue!Without(v9.left, ids)
      BY <3>1 DEF Queue!QTypeOK
    <3> QED
      BY <2>2, <3>2
  <2>6. \A p : Queue!Proceed(p) => v9'.at = p /\ v9'.left = v9.left /\ v9'.on = v9.on /\ Kept
    BY DEF Queue!Proceed, Queue!QTypeOK
  <2> DEFINE Leases == /\ v5 \subseteq v5' /\ v4' \subseteq v4
                       /\ \A x \in v5' : x \in v5 \/ (x \in v4 /\ x = h)
             Turned == /\ v9'.at \in {"cards", "ingress"} => v9'.left = v9.left /\ Queue!Past(h)
                       /\ v9'.at = "cards_only" => v9'.left = v9.left /\ h \in v5'
             Made == \A x \in v6' : x \in v6 \/ Queue!Past(x)
  <2>7. ASSUME Leases, Turned, Kept, Made PROVE Queue!RootsArePast'
    <3>1. \A x \in Handoffs :
             /\ Queue!Handling(x, "cards")' \/ Queue!Handling(x, "ingress")' => Queue!Past(x)
             /\ Queue!Handling(x, "cards_only")' => x \in v5'
      BY <2>1, <2>7 DEF Queue!Handling
    <3>2. \A i \in Queue!ToSet(v1') \cup Queue!ToSet(v9'.left) :
             i \in Queue!ToSet(v1) \cup Queue!ToSet(v9.left)
      BY <2>1, <2>7
    <3> HIDE DEF Turned, Kept
    <3> QED
      BY <1>1, <2>1, <2>3, <2>7, <3>1, <3>2, RootsFollow
  <2> HIDE DEF Kept
  <2>8. CASE Queue!Resume(h)
    <3>1. ASSUME ~Head(v9.left).prepared, Queue!Proceed("cards"), UNCHANGED <<v4, v5, v6>>
          PROVE  Queue!RootsArePast'
      BY <2>3, <2>6, <2>7, <3>1
    <3>2. ASSUME Queue!Accepts(h), Queue!Transferred(h), Queue!Proceed("cards_only"), v6' = v6
          PROVE  Queue!RootsArePast'
      BY <2>6, <2>7, <3>2 DEF Queue!Accepts, Queue!Transferred
    <3>3. ASSUME ~Queue!Accepts(h), Queue!Proceed("cards"), UNCHANGED <<v4, v5, v6>>
          PROVE  Queue!RootsArePast'
      BY <2>3, <2>6, <2>7, <3>3 DEF Queue!Accepts, Queue!Past
    <3>4. ASSUME Queue!KeptFrom(h), v6' = v6,
                 (Queue!Accepts(h) /\ Queue!Transferred(h)) \/ UNCHANGED <<v4, v5>>
          PROVE  Queue!RootsArePast'
      BY <2>5, <2>7, <3>4 DEF Queue!Accepts, Queue!Transferred
    <3> QED
      BY <2>8, <3>1, <3>2, <3>3, <3>4 DEF Queue!Resume
  <2>9. CASE Queue!Cards(h)
    <3>1. ASSUME v9.at = "cards", Queue!Proceed("ingress"), UNCHANGED <<v4, v5, v6>>
          PROVE  Queue!RootsArePast'
      BY <2>1, <2>6, <2>7, <3>1 DEF Queue!RootsArePast, Queue!Handling
    <3>2. ASSUME Queue!Delivered(h) \/ Queue!KeptFrom(h), UNCHANGED <<v4, v5, v6>>
          PROVE  Queue!RootsArePast'
      BY <2>4, <2>5, <2>7, <3>2
    <3> QED
      BY <2>9, <3>1, <3>2 DEF Queue!Cards
  <2>10. CASE Queue!Deliver(h)
    <3>1. Queue!Past(h) /\ UNCHANGED <<v4, v5>> /\ v6' \in {v6, v6 \cup {h}}
      BY <2>10 DEF Queue!Deliver, Queue!RootsArePast
    <3>2. Queue!Delivered(h) \/ Queue!KeptFrom(h)
      BY <2>10 DEF Queue!Deliver
    <3> QED
      BY <2>4, <2>5, <2>7, <3>1, <3>2
  <2> QED
    BY <1>3, <2>8, <2>9, <2>10
<1>4. CASE Queue!DrainStarts
  <2>1. /\ v9'.on = TRUE /\ v9'.left = v1 /\ v9'.at = "take"
        /\ UNCHANGED <<v1, v4, v5, v6, v8>>
    BY <1>4 DEF Queue!DrainStarts, Queue!AtRest
  <2>2. \A x \in Handoffs, p \in {"cards", "cards_only", "ingress"} : ~Queue!Handling(x, p)'
    BY <2>1 DEF Queue!Handling
  <2> QED
    BY <1>1, <2>1, <2>2, RootsFollow
<1>5. CASE Queue!DrainEnds \/ Queue!DrainDies
  <2>1. /\ v9'.on = FALSE /\ v9'.left = << >> /\ UNCHANGED <<v4, v5, v6, v8>>
        /\ v1' \in {v1, Queue!Without(v1, Queue!Finished)}
    BY <1>5 DEF Queue!DrainEnds, Queue!DrainDies, Queue!AtRest
  <2>2. Queue!ToSet(v1') \subseteq Queue!ToSet(v1) /\ Queue!ToSet(v9'.left) = {}
    <3>1. Queue!ToSet(<< >>) = {}
      BY DEF Queue!ToSet
    <3> QED
      BY <2>1, <3>1, WithoutFacts DEF Queue!QTypeOK
  <2>3. \A x \in Handoffs, p \in {"cards", "cards_only", "ingress"} : ~Queue!Handling(x, p)'
    BY <2>1 DEF Queue!Handling
  <2> QED
    BY <1>1, <2>1, <2>2, <2>3, RootsFollow
<1> QED
  BY <1>2, <1>3, <1>4, <1>5 DEF Queue!QNext

\* What was made and filed stays so, so that only what leaves the queue, what a
\* sender is told and where it is have to be looked at.
LEMMA SafeFollows ==
  ASSUME Queue!AcceptedIsSafe, Queue!QTypeOK, Queue!QTypeOK',
         v5 \subseteq v5', v6 \subseteq v6', v7 \subseteq v7',
         \A x \in Handoffs :
           /\ v3'[x] = "accepted" => \/ v3[x] = "accepted"
                                     \/ v8[x] \in {"transfer", "journal", "remove", "card"}
           /\ v8'[x] \in {"transfer", "journal", "card"} =>
                \/ v8[x] \in {"transfer", "journal", "card"}
                \/ x \in Queue!Held'
           /\ x \in Queue!Held /\ x \notin Queue!Held' =>
                \/ Queue!Filed(x)
                \/ v3'[x] # "accepted" /\ v8'[x] \notin {"transfer", "journal", "card"}
           /\ v8'[x] = "journal" => v8[x] = "journal" \/ x \in v5'
           /\ v8'[x] = "remove" => v8[x] = "remove" \/ Queue!Filed(x)'
           /\ v8'[x] # "done" => v8[x] # "done" /\ v3'[x] = v3[x]
           /\ Queue!Handling(x, "ingress")' => x \in v7' \/ Queue!Handling(x, "ingress"),
         \A x \in v9'.gone : x \in v9.gone \/ Queue!Filed(x)'
  PROVE  Queue!AcceptedIsSafe'
<1>1. \A x \in Handoffs : Queue!Filed(x) => Queue!Filed(x)'
  BY DEF Queue!Filed
<1>2. v9.gone \subseteq Handoffs /\ v9'.gone \subseteq Handoffs
  BY DEF Queue!QTypeOK
<1> DEFINE Kept(x) == x \in Queue!Held \/ Queue!Filed(x)
<1>3. ASSUME NEW x \in Handoffs,
             v3'[x] = "accepted" \/ v8'[x] \in {"transfer", "journal", "card"}
      PROVE  x \in Queue!Held' \/ Queue!Filed(x)'
  <2>1. x \in Queue!Held' \/ Kept(x)
    BY <1>3 DEF Queue!AcceptedIsSafe, Queue!AcceptedKept, Queue!Filed
  <2> QED
    BY <1>1, <1>3, <2>1
<1>4. \A x \in Handoffs :
         /\ v8'[x] = "journal" => x \in v5'
         /\ v8'[x] = "remove" => Queue!Filed(x)'
         /\ v8'[x] # "done" => v3'[x] = "nothing"
         /\ Queue!Handling(x, "ingress")' => x \in v7'
  BY <1>1 DEF Queue!AcceptedIsSafe
<1>5. \A x \in v9'.gone : Queue!Filed(x)'
  BY <1>1, <1>2 DEF Queue!AcceptedIsSafe
<1>6. Queue!AcceptedKept'
  BY <1>3 DEF Queue!AcceptedKept, Queue!Filed
<1> QED
  BY <1>3, <1>4, <1>5, <1>6 DEF Queue!AcceptedIsSafe

\* What a sender puts into the queue is there, what it takes out is gone.
LEMMA SenderHeld ==
  ASSUME Queue!QTypeOK, NEW h \in Handoffs
  PROVE  /\ v1' = v1 => Queue!Held' = Queue!Held
         /\ \A b \in BOOLEAN : v1' = Queue!Appended(h, b) => Queue!Held' = Queue!Held \cup {h}
         /\ v1' = Queue!Without(v1, {h}) => Queue!Held' = Queue!Held \ {h}
<1>1. Queue!Held' = {i.id : i \in Queue!ToSet(v1')}
  BY DEF Queue!Held
<1>2. ASSUME v1' = v1 PROVE Queue!Held' = Queue!Held
  BY <1>1, <1>2 DEF Queue!Held
<1>3. ASSUME NEW b \in BOOLEAN, v1' = Queue!Appended(h, b) PROVE Queue!Held' = Queue!Held \cup {h}
  <2>1. PICK i : i.id = h /\ Queue!ToSet(v1') = Queue!ToSet(v1) \cup {i}
    <3>1. Queue!ToSet(v1') = Queue!ToSet(v1) \cup {[id |-> h, prepared |-> b]}
      BY <1>3, SenderItems
    <3>2. [id |-> h, prepared |-> b].id = h
      OBVIOUS
    <3> QED
      BY <3>1, <3>2
  <2> QED
    BY <1>1, <2>1 DEF Queue!Held
<1>4. ASSUME v1' = Queue!Without(v1, {h}) PROVE Queue!Held' = Queue!Held \ {h}
  <2>1. Queue!ToSet(v1') = {i \in Queue!ToSet(v1) : i.id # h}
    BY <1>4, SenderItems
  <2> QED
    BY <1>1, <2>1 DEF Queue!Held
<1> QED
  BY <1>2, <1>3, <1>4

\* Every step keeps what was accepted.
LEMMA QueueSafe ==
  ASSUME Queue!QTypeOK, Queue!RootsArePast, Queue!AcceptedIsSafe, Queue!QNext
  PROVE  Queue!AcceptedIsSafe'
<1>1. Queue!QTypeOK'
  BY QueueTypes
<1>2. /\ v8 \in [Handoffs -> {"new", "prepare", "transfer", "withdraw", "journal", "remove",
                           "plain", "card", "done"}]
      /\ v3 \in [Handoffs -> {"nothing", "accepted", "refused"}]
  BY DEF Queue!QTypeOK
<1>3. ASSUME NEW h \in Handoffs, Queue!Sender(h) PROVE Queue!AcceptedIsSafe'
  <2> USE DEF Queue!Becomes
  <2>1. /\ v9' = v9 /\ v6' = v6 /\ v5 \subseteq v5' /\ v7 \subseteq v7'
        /\ \A x \in Handoffs \ {h} : v8'[x] = v8[x] /\ v3'[x] = v3[x]
    BY <1>2, <1>3 DEF Queue!Sender, Queue!Send, Queue!Prepare, Queue!Transfer,
       Queue!TransferRaises, Queue!AfterAmbiguous, Queue!Withdraw, Queue!Journal, Queue!Unlist,
       Queue!Plain, Queue!LeaseLapses, Queue!SenderDies, Queue!Transferred
  <2>2. \A x \in Handoffs : Queue!Handling(x, "ingress")' = Queue!Handling(x, "ingress")
    BY <2>1 DEF Queue!Handling
  <2> DEFINE Told == v3'[h] = "accepted" => \/ v3[h] = "accepted"
                                            \/ v8[h] \in {"transfer", "journal", "remove", "card"}
             Goes == /\ v8'[h] \in {"transfer", "journal", "card"} =>
                          v8[h] \in {"transfer", "journal", "card"} \/ h \in Queue!Held'
                     /\ v8'[h] = "journal" => v8[h] = "journal" \/ h \in v5'
                     /\ v8'[h] = "remove" => v8[h] = "remove" \/ Queue!Filed(h)'
                     /\ v8'[h] # "done" => v8[h] # "done" /\ v3'[h] = v3[h]
             Leaves == /\ \A x \in Handoffs \ {h} : x \in Queue!Held => x \in Queue!Held'
                       /\ h \in Queue!Held /\ h \notin Queue!Held' =>
                            \/ Queue!Filed(h)
                            \/ v3'[h] # "accepted" /\ v8'[h] \notin {"transfer", "journal", "card"}
  <2>3. ASSUME Told, Goes, Leaves PROVE Queue!AcceptedIsSafe'
    <3>1. \A x \in Handoffs :
           /\ v3'[x] = "accepted" => \/ v3[x] = "accepted"
                                     \/ v8[x] \in {"transfer", "journal", "remove", "card"}
           /\ v8'[x] \in {"transfer", "journal", "card"} =>
                \/ v8[x] \in {"transfer", "journal", "card"}
                \/ x \in Queue!Held'
           /\ x \in Queue!Held /\ x \notin Queue!Held' =>
                \/ Queue!Filed(x)
                \/ v3'[x] # "accepted" /\ v8'[x] \notin {"transfer", "journal", "card"}
           /\ v8'[x] = "journal" => v8[x] = "journal" \/ x \in v5'
           /\ v8'[x] = "remove" => v8[x] = "remove" \/ Queue!Filed(x)'
           /\ v8'[x] # "done" => v8[x] # "done" /\ v3'[x] = v3[x]
           /\ Queue!Handling(x, "ingress")' => x \in v7' \/ Queue!Handling(x, "ingress")
      BY <2>1, <2>2, <2>3
    <3>2. \A x \in v9'.gone : x \in v9.gone \/ Queue!Filed(x)'
      BY <2>1
    <3> HIDE DEF Told, Goes, Leaves
    <3> QED
      BY <1>1, <2>1, <3>1, <3>2, SafeFollows
  <2>4. CASE Queue!Send(h)
    BY <1>2, <2>3, <2>4, SenderHeld DEF Queue!Send
  <2>5. CASE Queue!Prepare(h)
    BY <1>2, <2>3, <2>5, SenderHeld DEF Queue!Prepare
  <2>6. CASE Queue!Transfer(h)
    BY <1>2, <2>3, <2>6, SenderHeld DEF Queue!Transfer, Queue!Transferred
  <2>7. CASE Queue!TransferRaises(h)
    BY <1>2, <2>3, <2>7, SenderHeld DEF Queue!TransferRaises, Queue!AfterAmbiguous
  <2>8. CASE Queue!Withdraw(h)
    BY <1>2, <2>3, <2>8, SenderHeld DEF Queue!Withdraw, Queue!AcceptedIsSafe
  <2>9. CASE Queue!Journal(h)
    BY <1>2, <2>3, <2>9, SenderHeld DEF Queue!Journal, Queue!AcceptedIsSafe, Queue!Filed
  <2>10. CASE Queue!Unlist(h)
    BY <1>2, <2>3, <2>10, SenderHeld DEF Queue!Unlist, Queue!AcceptedIsSafe
  <2>11. CASE Queue!Plain(h)
    BY <1>2, <2>3, <2>11, SenderHeld DEF Queue!Plain
  <2>12. CASE Queue!LeaseLapses(h)
    BY <1>2, <2>3, <2>12, SenderHeld DEF Queue!LeaseLapses
  <2>13. CASE Queue!SenderDies(h)
    BY <1>2, <2>3, <2>13, SenderHeld DEF Queue!SenderDies
  <2> QED
    BY <1>3, <2>4, <2>5, <2>6, <2>7, <2>8, <2>9, <2>10, <2>11, <2>12, <2>13 DEF Queue!Sender
<1>4. ASSUME UNCHANGED <<v3, v8>>, v5 \subseteq v5', v6 \subseteq v6', v7 \subseteq v7',
             \A x \in Queue!Held : x \in Queue!Held' \/ (x \in Handoffs => Queue!Filed(x)),
             \A x \in Handoffs : Queue!Handling(x, "ingress")' =>
                                  x \in v7' \/ Queue!Handling(x, "ingress"),
             \A x \in v9'.gone : x \in v9.gone \/ Queue!Filed(x)'
      PROVE  Queue!AcceptedIsSafe'
  BY <1>1, <1>4, SafeFollows
<1>5. v1' = v1 => Queue!Held' = Queue!Held
  BY DEF Queue!Held
<1>6. ASSUME NEW h \in Handoffs, Queue!Resume(h) \/ Queue!Cards(h) \/ Queue!Deliver(h)
      PROVE  Queue!AcceptedIsSafe'
  <2>1. v9.on /\ v9.left # << >> /\ Head(v9.left).id = h /\ UNCHANGED <<v1, v3, v8>>
        /\ v5 \subseteq v5' /\ v6 \subseteq v6' /\ v7 \subseteq v7'
    BY <1>6 DEF Queue!Resume, Queue!Cards, Queue!Deliver, Queue!Handling, Queue!Transferred
  <2>2. Queue!Delivered(h) => v9'.at = "take" /\ v9'.gone = v9.gone \cup {h}
    BY DEF Queue!Delivered, Queue!QTypeOK
  <2>3. Queue!KeptFrom(h) => v9'.at = "take" /\ v9'.gone = v9.gone
    BY DEF Queue!KeptFrom, Queue!QTypeOK
  <2>4. \A p : Queue!Proceed(p) => v9'.at = p /\ v9'.left = v9.left /\ v9'.gone = v9.gone
    BY DEF Queue!Proceed, Queue!QTypeOK
  <2>5. ASSUME v9'.at = "ingress" => v9'.left = v9.left /\ h \in v7',
               \/ v9'.gone = v9.gone
               \/ v9'.gone = v9.gone \cup {h} /\ Queue!Filed(h)'
        PROVE  Queue!AcceptedIsSafe'
    <3>1. \A x \in Handoffs : Queue!Handling(x, "ingress")' => x \in v7'
      BY <2>1, <2>5 DEF Queue!Handling
    <3> QED
      BY <1>4, <1>5, <2>1, <2>5, <3>1
  <2>6. CASE Queue!Resume(h)
    BY <2>3, <2>4, <2>5, <2>6 DEF Queue!Resume
  <2>7. CASE Queue!Cards(h)
    <3>1. v9.at = "cards_only" => h \in v5
      BY <2>1 DEF Queue!RootsArePast, Queue!Handling
    <3>2. ASSUME v7' = v7 \cup {h}, UNCHANGED <<v5, v6>>, v9.at = "cards", Queue!Proceed("ingress")
          PROVE  Queue!AcceptedIsSafe'
      BY <2>4, <2>5, <3>2
    <3>3. ASSUME v7' = v7 \cup {h}, UNCHANGED <<v5, v6>>, v9.at = "cards_only", Queue!Delivered(h)
          PROVE  Queue!AcceptedIsSafe'
      BY <2>2, <2>5, <3>1, <3>3 DEF Queue!Filed
    <3>4. ASSUME Queue!KeptFrom(h) PROVE Queue!AcceptedIsSafe'
      BY <2>3, <2>5, <3>4
    <3> QED
      BY <2>7, <3>2, <3>3, <3>4 DEF Queue!Cards, Queue!Handling
  <2>8. CASE Queue!Deliver(h)
    <3>1. h \in v7 /\ v7' = v7
      BY <2>8 DEF Queue!Deliver, Queue!AcceptedIsSafe
    <3>2. ASSUME v6' = v6 \cup {h}, Queue!Delivered(h) PROVE Queue!AcceptedIsSafe'
      BY <2>2, <2>5, <3>1, <3>2 DEF Queue!Filed
    <3>3. ASSUME Queue!KeptFrom(h) PROVE Queue!AcceptedIsSafe'
      BY <2>3, <2>5, <3>3
    <3> QED
      BY <2>8, <3>2, <3>3 DEF Queue!Deliver
  <2> QED
    BY <1>6, <2>6, <2>7, <2>8
<1>7. CASE Queue!DrainStarts
  <2>1. v9'.at = "take" /\ v9'.gone = {} /\ UNCHANGED <<v1, v3, v5, v6, v7, v8>>
    BY <1>7 DEF Queue!DrainStarts, Queue!AtRest
  <2> QED
    BY <1>4, <1>5, <2>1 DEF Queue!Handling
<1>8. CASE Queue!DrainDies
  <2>1. v9'.at = "take" /\ v9'.gone = {} /\ UNCHANGED <<v1, v3, v5, v6, v7, v8>>
    BY <1>8 DEF Queue!DrainDies, Queue!AtRest
  <2> QED
    BY <1>4, <1>5, <2>1 DEF Queue!Handling
<1>9. CASE Queue!DrainEnds
  <2>1. /\ v9'.at = "take" /\ v9'.gone = {} /\ UNCHANGED <<v3, v5, v6, v7, v8>>
        /\ v1' = Queue!Without(v1, v9.gone)
    BY <1>9 DEF Queue!DrainEnds, Queue!AtRest, Queue!Finished
  <2>2. Queue!Held' = {x \in Queue!Held : x \notin v9.gone}
    <3>1. Queue!ToSet(v1') = {i \in Queue!ToSet(v1) : i.id \notin v9.gone}
      BY <2>1, WithoutFacts DEF Queue!QTypeOK
    <3>2. Queue!Held' = {i.id : i \in Queue!ToSet(v1')}
      BY DEF Queue!Held
    <3> QED
      BY <3>1, <3>2 DEF Queue!Held
  <2>3. \A x \in v9.gone : Queue!Filed(x)
    BY DEF Queue!AcceptedIsSafe
  <2> QED
    BY <1>4, <2>1, <2>2, <2>3 DEF Queue!Handling
<1> QED
  BY <1>3, <1>6, <1>7, <1>8, <1>9 DEF Queue!QNext

LEMMA QueueInit ==
  ASSUME Queue!QInit PROVE Queue!QInv
<1>1. /\ v1 = << >> /\ v5 = {} /\ v6 = {} /\ v7 = {} /\ v4 = {} /\ v10 = 0
      /\ v3 = [h \in Handoffs |-> "nothing"] /\ v8 = [h \in Handoffs |-> "new"]
      /\ v9 = [on |-> FALSE, left |-> << >>, at |-> "take", gone |-> {}]
  BY DEF Queue!QInit, Queue!AtRest
<1>2. Queue!ToSet(v1) = {} /\ Queue!ToSet(v9.left) = {}
  BY <1>1 DEF Queue!ToSet
<1>3. Queue!QTypeOK
  BY <1>1 DEF Queue!QTypeOK
<1>4. Queue!RootsArePast
  BY <1>1, <1>2 DEF Queue!RootsArePast, Queue!Past, Queue!Handling
<1>5. Queue!AcceptedIsSafe
  BY <1>1 DEF Queue!AcceptedIsSafe, Queue!AcceptedKept, Queue!Handling
<1> QED
  BY <1>1, <1>3, <1>4, <1>5 DEF Queue!QInv, Queue!OneTurn

LEMMA QueueInvariance == Spec => [](part = "queue" => Queue!QInv)
<1> DEFINE I == part = "queue" => Queue!QInv
<1>1. Init => I
  BY QueueInit DEF Init
<1>2. I /\ [Next]_vars => I'
  <2> SUFFICES ASSUME I, [Next]_vars, part' = "queue" PROVE Queue!QInv'
    OBVIOUS
  <2>1. CASE Next
    <3>1. part = "queue" /\ Queue!QNext
      BY <2>1 DEF Next
    <3>2. Queue!QTypeOK' /\ Queue!RootsArePast' /\ Queue!AcceptedIsSafe'
      BY <3>1, QueueTypes, QueueRoots, QueueSafe DEF Queue!QInv
    <3>3. Queue!OneTurn'
      BY <3>2 DEF Queue!RootsArePast, Queue!Past, Queue!OneTurn
    <3> QED
      BY <3>2, <3>3 DEF Queue!QInv
  <2>2. CASE UNCHANGED vars
    <3>1. part = "queue" /\ UNCHANGED <<v1, v2, v3, v4, v5, v6, v7, v8, v9, v10>>
      BY <2>2 DEF vars, Rest7
    <3> QED
      BY <3>1 DEF Queue!QInv, Queue!QTypeOK, Queue!OneTurn, Queue!RootsArePast, Queue!Past,
         Queue!Handling, Queue!AcceptedIsSafe, Queue!AcceptedKept, Queue!Filed, Queue!Held
  <2> QED
    BY <2>1, <2>2
<1> QED
  BY <1>1, <1>2, PTL DEF Spec

\* A handoff is never made both a continuation and a root, however the sender's
\* fallback, a lapsed lease and the drain fall together.
THEOREM OneTurnPerHandoff == Spec => []OneTurn
<1>1. (part = "queue" => Queue!QInv) => OneTurn
  BY DEF OneTurn, Queue!QInv
<1> QED
  BY <1>1, QueueInvariance, PTL

\* What a sender was told is accepted is queued, or its turn is made and its cards
\* are filed, through crashes of either side at any step.
THEOREM AcceptedHandoffsKept == Spec => []AcceptedKept
<1>1. (part = "queue" => Queue!QInv) => AcceptedKept
  BY DEF AcceptedKept, Queue!QInv, Queue!AcceptedIsSafe
<1> QED
  BY <1>1, QueueInvariance, PTL

-----------------------------------------------------------------------------
(* Crons.  v1 is the time, v2 the definition in Glass, v7 the watermark, v8 the
   one the cron was first given, v9 the claims of each instant, v13 where each
   actor is, v14 the time it has read. *)

\* A step that claims nothing: no cron comes back, and the tool forgets the
\* watermark of one that is gone only.
LEMMA CronRests ==
  ASSUME Cron!CronInv, UNCHANGED <<v7, v8, v9>>, v1' \in 0..MaxFires,
         v14' \in [Cron!Actors -> 0..MaxFires], DOMAIN v13' = Cron!Actors,
         v2 = "gone" => v2' = "gone", v13'["tool"] = "forget" => v2' = "gone"
  PROVE  Cron!CronInv'
BY DEF Cron!CronInv, Cron!CronTypeOK, Cron!ForgottenIsGone, Cron!FirstSeen, Cron!ClaimedOnce,
   Cron!Is, Cron!Tool

\* The latest of the missed instants is the last one that has passed.
LEMMA LatestPassed ==
  ASSUME NEW m \in Nat, NEW n \in 0..MaxFires, MaxFires \in Nat,
         Cron!FiresBetween(m, n) # {}
  PROVE  Cron!Latest(Cron!FiresBetween(m, n)) = n /\ m < n
<1> DEFINE F == {i \in 1..MaxFires : m < i /\ i <= n}
<1>1. m < n /\ n \in F /\ \A j \in F : j <= n
  BY DEF Cron!FiresBetween
<1>2. \A i \in F : (\A j \in F : j <= i) => i = n
  BY <1>1
<1>3. (CHOOSE i \in F : \A j \in F : j <= i) = n
  BY <1>1, <1>2
<1> QED
  BY <1>1, <1>3 DEF Cron!Latest, Cron!FiresBetween

\* A sweep claims: the cron is seen for the first time, or every instant from the
\* watermark to the time the sweep has read.
LEMMA CronClaims ==
  ASSUME Cron!CronInv, Cron!CAssumption, NEW s \in Sweepers, Cron!Claim(s)
  PROVE  Cron!CronInv'
<1> DEFINE n == v14[s]
           F == Cron!FiresBetween(v7, n)
<1>1. /\ MaxFires \in Nat /\ {s, "tool"} \subseteq Cron!Actors /\ s # "tool" /\ n \in 0..MaxFires
      /\ v1 \in 0..MaxFires /\ v7 \in 0..(MaxFires + 1) /\ v8 \in 0..(MaxFires + 1)
      /\ v9 \in [1..MaxFires -> Nat] /\ v14 \in [Cron!Actors -> 0..MaxFires]
      /\ DOMAIN v13 = Cron!Actors /\ Cron!NoMark = MaxFires + 1
      /\ (v13["tool"] = "forget" => v2 = "gone") /\ (v7 # MaxFires + 1 => v8 <= v7)
      /\ v2 # "gone" => \A i \in 1..MaxFires :
           v9[i] = IF v7 # MaxFires + 1 /\ v8 < i /\ i <= v7 THEN 1 ELSE 0
  BY DEF Cron!CAssumption, Cron!CronInv, Cron!CronTypeOK, Cron!ForgottenIsGone, Cron!FirstSeen,
     Cron!ClaimedOnce, Cron!Actors, Cron!NoMark, Cron!Is, Cron!Tool
<1>2. v1' = v1 /\ v2' = v2
  BY DEF Cron!Claim, Cron!glassSide
<1>3. /\ v13' \in {[v13 EXCEPT ![s] = "idle"], [v13 EXCEPT ![s] = "deliver"]}
      /\ v14' \in {v14, [v14 EXCEPT ![s] = 0]}
  BY DEF Cron!Claim, Cron!Done, Cron!Onward, Cron!To
<1>4. /\ DOMAIN v13' = Cron!Actors /\ v13'["tool"] = v13["tool"]
      /\ v14' \in [Cron!Actors -> 0..MaxFires]
  <2>1. DOMAIN v13' = DOMAIN v13 /\ v13'["tool"] = v13["tool"]
    BY <1>1, <1>3
  <2>2. [v14 EXCEPT ![s] = 0] \in [Cron!Actors -> 0..MaxFires]
    BY <1>1
  <2> QED
    BY <1>1, <1>3, <2>1, <2>2
<1>5. CASE UNCHANGED <<v7, v8, v9>>
  BY <1>1, <1>2, <1>4, <1>5, CronRests
<1>6. CASE v7 = MaxFires + 1 /\ v7' = n /\ v8' = n /\ v9' = v9
  BY <1>1, <1>2, <1>4, <1>6 DEF Cron!CronInv, Cron!CronTypeOK, Cron!ForgottenIsGone,
     Cron!FirstSeen, Cron!ClaimedOnce, Cron!NoMark, Cron!Is, Cron!Tool
<1>7. CASE /\ v7 # MaxFires + 1 /\ F # {} /\ v7' = Cron!Latest(F) /\ v8' = v8
           /\ v9' = [i \in 1..MaxFires |-> IF i \in F THEN v9[i] + 1 ELSE v9[i]]
  <2>1. v7' = n /\ v7 < n
    BY <1>1, <1>7, LatestPassed
  <2>2. v9' \in [1..MaxFires -> Nat]
    BY <1>1, <1>7
  <2>3. ASSUME v2 # "gone", NEW i \in 1..MaxFires
        PROVE  v9'[i] = IF v8 < i /\ i <= n THEN 1 ELSE 0
    <3>1. i \in F <=> v7 < i /\ i <= n
      BY DEF Cron!FiresBetween
    <3> QED
      BY <1>1, <1>7, <2>1, <2>3, <3>1
  <2> QED
    BY <1>1, <1>2, <1>4, <1>7, <2>1, <2>2, <2>3
       DEF Cron!CronInv, Cron!CronTypeOK, Cron!ForgottenIsGone, Cron!FirstSeen,
           Cron!ClaimedOnce, Cron!NoMark, Cron!Is, Cron!Tool
<1> QED
  BY <1>1, <1>5, <1>6, <1>7 DEF Cron!Claim

LEMMA CronStep ==
  ASSUME Cron!CronInv, Cron!CAssumption, Cron!CronNext
  PROVE  Cron!CronInv'
<1>1. /\ MaxFires \in Nat /\ 0 \in 0..MaxFires /\ v1 \in 0..MaxFires
      /\ v14 \in [Cron!Actors -> 0..MaxFires]
      /\ DOMAIN v13 = Cron!Actors /\ (v13["tool"] = "forget" => v2 = "gone")
      /\ "tool" \in Cron!Actors /\ \A s \in Sweepers : s \in Cron!Actors /\ s # "tool"
  BY DEF Cron!CAssumption, Cron!CronInv, Cron!CronTypeOK, Cron!ForgottenIsGone, Cron!Actors,
     Cron!Is, Cron!Tool
<1> USE <1>1 DEF Cron!glassSide, Cron!cronSide, Cron!backSide, Cron!Is, Cron!To, Cron!Tool
<1>2. CASE Cron!Tick
  <2>1. v1' \in 0..MaxFires /\ UNCHANGED <<v2, v7, v8, v9, v13, v14>>
    BY <1>2 DEF Cron!Tick
  <2> QED
    BY <2>1, CronRests
<1>3. CASE Cron!GlassEdits
  BY <1>3, CronRests DEF Cron!GlassEdits
<1>4. CASE Cron!Changed
  BY <1>4, CronRests DEF Cron!Changed
<1>5. CASE Cron!ToolEdits
  BY <1>5, CronRests DEF Cron!ToolEdits
<1>6. CASE Cron!ToolInvalidates
  BY <1>6, CronRests DEF Cron!ToolInvalidates
<1>7. CASE Cron!ToolForgets
  <2>1. /\ v2 = "gone" /\ v7' = Cron!NoMark /\ UNCHANGED <<v1, v2, v8, v9, v14>>
        /\ v13' = [v13 EXCEPT !["tool"] = "idle"]
    BY <1>7 DEF Cron!ToolForgets
  <2>2. Cron!NoMark \in 0..Cron!NoMark
    BY DEF Cron!NoMark
  <2> QED
    BY <2>1, <2>2 DEF Cron!CronInv, Cron!CronTypeOK, Cron!ForgottenIsGone, Cron!FirstSeen,
       Cron!ClaimedOnce
<1>8. CASE Cron!ToolLists
  BY <1>8, CronRests DEF Cron!ToolLists
<1>9. ASSUME NEW a \in Cron!Actors, Cron!Fetch(a) \/ Cron!Store(a) PROVE Cron!CronInv'
  <2>1. /\ UNCHANGED <<v1, v2, v7, v8, v9>> /\ v14' \in {v14, [v14 EXCEPT ![a] = 0]}
        /\ v13' \in {[v13 EXCEPT ![a] = p] : p \in {"store", "idle", "claim"}}
    BY <1>9 DEF Cron!Fetch, Cron!Store, Cron!Done, Cron!Onward
  <2>2. /\ v14' \in [Cron!Actors -> 0..MaxFires] /\ DOMAIN v13' = Cron!Actors
        /\ (v13'["tool"] = "forget" => v2 = "gone")
    BY <2>1
  <2> QED
    BY <2>1, <2>2, CronRests
<1>10. ASSUME NEW w \in Checked,
              Cron!AddCheckback(w) \/ Cron!RemoveCheckback(w) \/ Cron!Due(w)
       PROVE  Cron!CronInv'
  BY <1>10, CronRests DEF Cron!AddCheckback, Cron!RemoveCheckback, Cron!Due
<1>11. ASSUME NEW s \in Sweepers,
              \/ Cron!SweepStarts(s) \/ Cron!LockBacks(s) \/ Cron!UnlockBacks(s)
              \/ Cron!Load(s) \/ Cron!Deliver(s) \/ Cron!CrashSweep(s)
              \/ \E w \in Checked : Cron!ClaimBack(s, w) \/ Cron!RunBack(s, w)
       PROVE  Cron!CronInv'
  <2>1. /\ UNCHANGED <<v1, v2, v7, v8, v9>>
        /\ v14' \in {v14, [v14 EXCEPT ![s] = 0], [v14 EXCEPT ![s] = v1]}
        /\ \/ v13' = v13
           \/ v13' \in {[v13 EXCEPT ![s] = p] :
                          p \in {"lock", "backs", "run", "load", "claim", "fetch", "idle"}}
    BY <1>11 DEF Cron!SweepStarts, Cron!LockBacks, Cron!UnlockBacks, Cron!Load, Cron!Deliver,
       Cron!CrashSweep, Cron!ClaimBack, Cron!RunBack, Cron!Done
  <2>2. /\ v14' \in [Cron!Actors -> 0..MaxFires] /\ DOMAIN v13' = Cron!Actors
        /\ v13'["tool"] = v13["tool"]
    BY <2>1
  <2> QED
    BY <2>1, <2>2, CronRests
<1>12. ASSUME NEW s \in Sweepers, Cron!Claim(s) PROVE Cron!CronInv'
  BY <1>12, CronClaims
<1> QED
  BY <1>2, <1>3, <1>4, <1>5, <1>6, <1>7, <1>8, <1>9, <1>10, <1>11, <1>12
     DEF Cron!CronNext, Cron!Sweep

LEMMA CronStarts ==
  ASSUME Cron!CronInit, Cron!CAssumption
  PROVE  Cron!CronInv
<1>1. MaxFires \in Nat /\ Cron!NoMark \in 0..Cron!NoMark /\ 0 \in 0..MaxFires
  BY DEF Cron!CAssumption, Cron!NoMark
<1>2. /\ v1 = 0 /\ v2 = "active" /\ v7 = Cron!NoMark /\ v8 = Cron!NoMark
      /\ v9 = [i \in 1..MaxFires |-> 0] /\ v13 = [a \in Cron!Actors |-> "idle"]
      /\ v14 = [a \in Cron!Actors |-> 0]
  BY DEF Cron!CronInit
<1>3. Cron!CronTypeOK
  BY <1>1, <1>2 DEF Cron!CronTypeOK
<1>4. Cron!ForgottenIsGone
  BY <1>2 DEF Cron!ForgottenIsGone, Cron!Is, Cron!Tool, Cron!Actors
<1>5. Cron!FirstSeen /\ Cron!ClaimedOnce
  BY <1>2 DEF Cron!FirstSeen, Cron!ClaimedOnce
<1> QED
  BY <1>3, <1>4, <1>5 DEF Cron!CronInv

LEMMA CronStutters ==
  ASSUME Cron!CronInv, UNCHANGED <<v1, v2, v7, v8, v9, v13, v14>>
  PROVE  Cron!CronInv'
BY DEF Cron!CronInv, Cron!CronTypeOK, Cron!ForgottenIsGone, Cron!FirstSeen,
   Cron!ClaimedOnce, Cron!Is, Cron!Tool

\* While a cron exists, each instant from its first sight to the watermark has been
\* claimed once and none after it, for any sweeps, instants, edits and crashes, and
\* so in the parts of MCRecords that split them.
THEOREM InstantsClaimedOnce ==
  (Cron!CronSpec => []Cron!ClaimedOnce) /\ (Spec => []ClaimedOnce)
<1> DEFINE I == part \in {"crons", "checkbacks"} => Cron!CronInv
<1>0. Cron!CAssumption
  BY BoundsAssumption DEF BoundsAssumption
<1>1. Cron!CronInit => Cron!CronInv
  BY <1>0, CronStarts
<1>2. Cron!CronInv /\ [Cron!CronNext]_(Cron!cvars) => Cron!CronInv'
  BY <1>0, CronStep, CronStutters DEF Cron!cvars, Cron!glassSide, Cron!cronSide, Cron!backSide
<1>3. Cron!CronInv => Cron!ClaimedOnce
  BY DEF Cron!CronInv
<1>4. Init => I
  BY <1>1 DEF Init
<1>5. I /\ [Next]_vars => I'
  <2> SUFFICES ASSUME I, [Next]_vars, part' \in {"crons", "checkbacks"} PROVE Cron!CronInv'
    OBVIOUS
  <2>1. CASE Next
    <3>1. part' = part /\ Cron!CronInv
      BY <2>1 DEF Next
    <3>2. Cron!CronNext
      BY <2>1, <3>1 DEF Next
    <3> QED
      BY <1>0, <3>1, <3>2, CronStep
  <2>2. CASE UNCHANGED vars
    <3>1. part' = part /\ UNCHANGED <<v1, v2, v7, v8, v9, v13, v14>>
      BY <2>2 DEF vars, Rest7
    <3> QED
      BY <3>1, CronStutters
  <2> QED
    BY <2>1, <2>2
<1>6. I => ClaimedOnce
  BY <1>3 DEF ClaimedOnce
<1>7. Cron!CronSpec => []Cron!ClaimedOnce
  BY <1>1, <1>2, <1>3, PTL DEF Cron!CronSpec
<1>8. Spec => []ClaimedOnce
  BY <1>4, <1>5, <1>6, PTL DEF Spec
<1> QED
  BY <1>7, <1>8

-----------------------------------------------------------------------------
(* The team context.  The variables, in the order of TeamContext: v1 glass,  *)
(* v2 conf, v3 st, v4 mem, v5 disk, v6 op, v7 pc, v9 faults, v10 told,       *)
(* v11 last, v12 known.                                                      *)

\* The credential and the records that stand for none.
LEMMA TeamNone ==
  /\ Team!NoCred \notin TeamCreds /\ Team!NoCred \in Team!AnyCred
  /\ "none" \notin Team!Silicons /\ TeamBodies \subseteq Nat \ {0}
  /\ \A c \in TeamCreds : Team!Owner(c) \in Team!Silicons /\ c \in Team!AnyCred
<1>1. \A c \in TeamCreds : c[1] # "none"
  BY BoundsAssumption DEF BoundsAssumption, Team!TAssumption
<1>2. Team!NoCred[1] = "none"
  BY DEF Team!NoCred
<1>3. Team!NoCred \notin TeamCreds
  BY <1>1, <1>2
<1>4. "none" \notin Team!Silicons
  BY <1>1 DEF Team!Silicons, Team!Owner
<1>5. TeamBodies \subseteq Nat \ {0}
  BY BoundsAssumption DEF BoundsAssumption, Team!TAssumption
<1> QED
  BY <1>3, <1>4, <1>5 DEF Team!AnyCred, Team!Silicons

LEMMA TeamNothing ==
  /\ Team!NoCtx \in [who : Team!AnyCred, rev : Nat, peer : Nat, own : Team!Entries]
  /\ Team!NoCtx.who = Team!NoCred
  /\ Team!NoOwn \in Team!OwnRecords /\ Team!NoOwn.base = -1
  /\ Team!Placeholder \in Team!Stamps /\ Team!Absent = -1 /\ Team!Empty = 0
  /\ Team!Placeholder[1] = Team!NoCred
<1>1. Team!NoCred \in Team!AnyCred
  BY TeamNone
<1>2. Team!Absent = -1 /\ Team!Empty = 0 /\ -1 \in Int
  BY DEF Team!Absent, Team!Empty
<1>3. Team!NoCtx \in [who : Team!AnyCred, rev : Nat, peer : Nat, own : Team!Entries]
  BY <1>1, <1>2 DEF Team!NoCtx, Team!Entries
<1>4. Team!NoOwn \in Team!OwnRecords /\ Team!NoOwn.base = -1
  BY <1>2 DEF Team!NoOwn, Team!OwnRecords, Team!Files
<1>5. Team!Placeholder \in Team!Stamps /\ Team!Placeholder[1] = Team!NoCred
  BY <1>1 DEF Team!Placeholder, Team!Stamps
<1> QED
  BY <1>2, <1>3, <1>4, <1>5 DEF Team!NoCtx

LEMMA TeamNoOp == Team!NoOp \in Team!Ops /\ ~Team!NoOp.good
<1> USE TeamNone, TeamNothing
<1>1. Team!NoCtx.own \in Team!Entries
  OBVIOUS
<1>2. [id |-> Team!NoCred, valid |-> TRUE, peer |-> 0, ctx |-> FALSE, team |-> Team!Placeholder]
        \in [id : Team!AnyCred, valid : BOOLEAN, peer : Nat, ctx : BOOLEAN, team : Team!Stamps]
  OBVIOUS
<1>3. Team!Absent \in Team!Files
  BY DEF Team!Files
<1> QED
  BY <1>1, <1>2, <1>3 DEF Team!NoOp, Team!Ops

\* Hiding keeps who and what is own; what was not written stays.
LEMMA TeamHides ==
  ASSUME NEW s \in Team!States, NEW d \in Team!Disks, NEW bad,
         NEW m, m = Team!HiddenState(s, d, bad), NEW e, e = Team!HiddenDisk(s, d, bad)
  PROVE  /\ m \in Team!States /\ m.id = s.id /\ m.valid = s.valid /\ m.own = s.own
         /\ m.ctx = Team!NoCtx
         /\ e \in Team!Disks /\ e.own = d.own /\ e.arch = d.arch
         /\ d.block => e.block
         /\ e.team \in {d.team, Team!Placeholder}
         /\ ~e.block => ~d.block /\ "block" \in bad
         /\ e.team # Team!Placeholder => "team" \in bad
<1>1. m = [s EXCEPT !.ctx = Team!NoCtx, !.peer = IF Team!Pruned(s, d, bad) THEN 0 ELSE @]
  BY DEF Team!HiddenState
<1>2. (IF Team!Pruned(s, d, bad) THEN 0 ELSE s.peer) \in Nat
  BY DEF Team!States
<1>3. /\ m \in Team!States /\ m.id = s.id /\ m.valid = s.valid /\ m.own = s.own
      /\ m.ctx = Team!NoCtx
  BY <1>1, <1>2, TeamNothing DEF Team!States
<1>4. e \in Team!Disks /\ e.own = d.own /\ e.arch = d.arch
  BY TeamNothing DEF Team!HiddenDisk, Team!Disks
<1>5. /\ d.block => e.block
      /\ e.team \in {d.team, Team!Placeholder}
      /\ ~e.block => ~d.block /\ "block" \in bad
      /\ e.team # Team!Placeholder => "team" \in bad
  BY DEF Team!HiddenDisk, Team!Disks
<1> QED
  BY <1>3, <1>4, <1>5

LEMMA TeamInvalidated ==
  ASSUME NEW s \in Team!States, NEW m, m = [s EXCEPT !.valid = FALSE]
  PROVE  /\ m \in Team!States /\ ~m.valid
         /\ m.id = s.id /\ m.own = s.own /\ m.ctx = s.ctx
BY DEF Team!States

\* What Glass has had, and what the history says of it, only grows in a step.
TeamGrows ==
  /\ v12.pub \subseteq v12'.pub /\ v5.arch \subseteq v5'.arch
  /\ \A w \in Team!Silicons :
       /\ v12.seen[w] \subseteq v12'.seen[w] /\ <<w, v1'.own[w].body>> \in v12'.pub
       /\ v1'.own[w] = v1.own[w] \/ v1'.own[w].rev > v1.own[w].rev
HadThen(w, r, b) == /\ <<w, b>> \in v12'.pub /\ r <= v1'.own[w].rev
                    /\ r = v1'.own[w].rev => b = v1'.own[w].body
\* The context and the own memory that an operation works on, after a step.
CtxFollows ==
  \/ v4'.ctx \in {v3.ctx, v4.ctx} \/ v4'.ctx.who = Team!NoCred
  \/ /\ v4'.ctx.who \in TeamCreds
     /\ HadThen(Team!Owner(v4'.ctx.who), v4'.ctx.own.rev, v4'.ctx.own.body)
SameBase(a, b) == a.who = b.who /\ a.base = b.base /\ a.brev = b.brev
OwnFollows ==
  \/ v4'.own.base = -1
  \/ v4' = v3
  \/ /\ SameBase(v4'.own, v4.own)
     /\ v4'.id = v4.id \/ (v4'.id # Team!NoCred /\ Team!Owner(v4'.id) = Team!Owner(v4.id))
  \/ /\ v4'.id \in TeamCreds /\ v4'.own.who = Team!Owner(v4'.id)
     /\ HadThen(v4'.own.who, v4'.own.brev, v4'.own.base)
     /\ v4'.own.base \in v12'.seen[v4'.own.who]

\* What Glass has had it has had after a step too, and a change of Glass is a
\* later revision.
LEMMA TeamHadKept ==
  ASSUME Team!TInv, Team!TTypeOK', TeamGrows,
         NEW w \in Team!Silicons, NEW r \in Nat, NEW b, Team!Had(w, r, b)
  PROVE  HadThen(w, r, b)
<1>1. v1.own[w].rev \in Nat /\ v1'.own[w].rev \in Nat
  BY DEF Team!TInv, Team!TTypeOK, Team!Services, Team!Entries
<1>2. <<w, b>> \in v12'.pub
  BY DEF Team!Had, TeamGrows
<1>3. v1'.own[w] = v1.own[w] \/ v1'.own[w].rev > v1.own[w].rev
  BY DEF TeamGrows
<1>4. r <= v1.own[w].rev /\ (r = v1.own[w].rev => b = v1.own[w].body)
  BY DEF Team!Had
<1> QED
  BY <1>1, <1>2, <1>3, <1>4 DEF HadThen

LEMMA TeamCtxKept ==
  ASSUME Team!TInv, Team!TTypeOK', TeamGrows, NEW s \in {v3, v4}, s.ctx.who # Team!NoCred
  PROVE  /\ s.ctx.who \in TeamCreds
         /\ HadThen(Team!Owner(s.ctx.who), s.ctx.own.rev, s.ctx.own.body)
<1>1. s.ctx.who \in TeamCreds /\ s.ctx.own.rev \in Nat
  BY DEF Team!TInv, Team!TTypeOK, Team!States, Team!AnyCred, Team!Entries
<1>2. Team!Had(Team!Owner(s.ctx.who), s.ctx.own.rev, s.ctx.own.body)
  BY DEF Team!TInv, Team!Memories, Team!CtxHad
<1> QED
  BY <1>1, <1>2, TeamHadKept, TeamNone

LEMMA TeamBaseKept ==
  ASSUME Team!TInv, Team!TTypeOK', TeamGrows, NEW s \in {v3, v4}, s.own.base # -1
  PROVE  /\ s.id \in TeamCreds /\ s.own.who = Team!Owner(s.id)
         /\ HadThen(s.own.who, s.own.brev, s.own.base)
         /\ s.own.base \in v12'.seen[s.own.who]
<1>1. s.own.brev \in Nat /\ s.id \in Team!AnyCred
  BY DEF Team!TInv, Team!TTypeOK, Team!States, Team!OwnRecords
<1>2. /\ s.id # Team!NoCred /\ s.own.who = Team!Owner(s.id)
      /\ Team!Had(s.own.who, s.own.brev, s.own.base) /\ s.own.base \in v12.seen[s.own.who]
  BY TeamNothing DEF Team!TInv, Team!Memories, Team!BaseHad
<1>3. s.id \in TeamCreds /\ s.own.who \in Team!Silicons
  BY <1>1, <1>2, TeamNone DEF Team!AnyCred
<1>4. s.own.base \in v12'.seen[s.own.who]
  BY <1>2, <1>3 DEF TeamGrows
<1> QED
  BY <1>1, <1>2, <1>3, <1>4, TeamHadKept

LEMMA TeamMemories ==
  ASSUME Team!TInv, Team!TTypeOK', TeamGrows, v3' \in {v3, v4}, CtxFollows, OwnFollows,
         v7' \in {"peers", "own"} => HadThen(Team!Me', v6'.ent.rev, v6'.ent.body),
         v7' = "put" /\ ~v6'.res => Team!Replaces',
         v7' = "down" => v11'[Team!Me'] = -1 \/ Team!Kept(Team!Me)'
  PROVE  Team!Memories'
<1>1. Team!CtxHad(v3)'
  BY TeamCtxKept DEF Team!CtxHad, Team!Had, HadThen
<1>2. Team!CtxHad(v4)'
  BY TeamCtxKept, TeamNone DEF Team!CtxHad, Team!Had, HadThen, CtxFollows
<1>3. Team!BaseHad(v3)'
  BY TeamBaseKept, TeamNone, TeamNothing DEF Team!BaseHad, Team!Had, HadThen
<1>4. Team!BaseHad(v4)'
  <2> SUFFICES ASSUME v4'.own.base # -1
               PROVE  /\ v4'.id # Team!NoCred /\ v4'.own.who = Team!Owner(v4'.id)
                      /\ HadThen(v4'.own.who, v4'.own.brev, v4'.own.base)
                      /\ v4'.own.base \in v12'.seen[v4'.own.who]
    BY TeamNothing DEF Team!BaseHad, Team!Had, HadThen
  <2>1. CASE v4' = v3
    BY <2>1, TeamBaseKept, TeamNone
  <2>2. CASE /\ SameBase(v4'.own, v4.own)
             /\ \/ v4'.id = v4.id
                \/ v4'.id # Team!NoCred /\ Team!Owner(v4'.id) = Team!Owner(v4.id)
    BY <2>2, TeamBaseKept, TeamNone DEF SameBase
  <2> QED
    BY <2>1, <2>2, TeamNone DEF OwnFollows
<1>5. \A w \in Team!Silicons : <<w, v1'.own[w].body>> \in v12'.pub
  BY DEF TeamGrows
<1> QED
  BY <1>1, <1>2, <1>3, <1>4, <1>5, TeamNothing DEF Team!Memories, Team!Had, HadThen

\* A draft that was kept stays kept while its file stays.
LEMMA TeamDrafts ==
  ASSUME Team!TInv, v12.pub \subseteq v12'.pub, v5.arch \subseteq v5'.arch,
         \A w \in Team!Silicons :
            \/ v11'[w] = -1 \/ v5'.own[w] = v11'[w]
            \/ <<w, v11'[w]>> \in v5'.arch \cup v12'.pub
            \/ v11'[w] = v11[w] /\ (v5'.own[w] = v5.own[w] \/ Team!Kept(w))
  PROVE  Team!DraftsKept'
BY TeamNothing DEF Team!TInv, Team!DraftsKept, Team!Kept

\* Local failures are counted.
LEMMA TeamSpent ==
  ASSUME v9 \in Nat, NEW bad, NEW S, S \subseteq Team!HideFaults, Team!Failing(bad, S)
  PROVE  /\ v9' \in Nat /\ v9' >= v9
         /\ {"block", "team"} \subseteq bad => v9' >= v9 + 2
<1>0. Team!Cardinality(bad) = Cardinality(bad)
  BY DEF Team!Cardinality, Cardinality
<1>1. bad \subseteq Team!HideFaults /\ v9' = v9 + Cardinality(bad)
  BY <1>0 DEF Team!Failing, Team!Spend
<1>2. IsFiniteSet(Team!HideFaults)
  <2>1. Team!HideFaults = ({"block"} \cup {"prune"}) \cup {"team"}
    BY DEF Team!HideFaults
  <2>2. /\ IsFiniteSet({"block"}) /\ IsFiniteSet({"prune"}) /\ IsFiniteSet({"team"})
    BY FS_Singleton
  <2> QED
    BY <2>1, <2>2, FS_Union
<1>3. IsFiniteSet(bad) /\ Cardinality(bad) \in Nat
  BY <1>1, <1>2, FS_Subset, FS_CardinalityType
<1>4. Cardinality({"block", "team"}) = 2
  <2>1. IsFiniteSet({"block"}) /\ Cardinality({"block"}) = 1
    BY FS_Singleton
  <2>2. {"block"} \cup {"team"} = {"block", "team"} /\ "team" \notin {"block"}
    OBVIOUS
  <2> QED
    BY <2>1, <2>2, FS_AddElement
<1>5. {"block", "team"} \subseteq bad => 2 <= Cardinality(bad)
  BY <1>3, <1>4, FS_Subset
<1> QED
  BY <1>1, <1>3, <1>5

\* Steps that leave TEAM.md alone or replace it by the placeholder show nothing new.
LEMMA TeamHiding ==
  ASSUME Team!TInv, v7 # "save", v3' = v3, v9 \in Nat, v9' \in Nat, v9' >= v9,
         v10' \subseteq v10, v5'.team \in {v5.team, Team!Placeholder}, v5.block => v5'.block,
         v7' # "idle" => v7 # "idle" /\ v6'.was = v6.was
  PROVE  Team!Hidden'
<1>1. ~Team!Shown(Team!Placeholder)'
  <2>1. v10' \subseteq TeamCreds
    BY DEF Team!TInv, Team!TTypeOK
  <2> QED
    BY <2>1, TeamNone, TeamNothing DEF Team!Shown, Team!Stamp
<1>2. Team!Shown(v5.team)' => Team!Shown(v5.team)
  BY <1>1 DEF Team!Shown
<1>3. v7' # "idle" /\ Team!Shown(v6.was.team)' => Team!Shown(v6.was.team) /\ v7 # "idle"
  BY DEF Team!Shown
<1>4. Team!Shown(v5.team) => v9 >= 3
  BY DEF Team!TInv, Team!Hidden, Team!Dropped
<1>5. v7 # "idle" /\ Team!Shown(v6.was.team) => v9 >= 3
  BY DEF Team!TInv, Team!Hidden, Team!Dropped
<1> QED
  BY <1>2, <1>3, <1>4, <1>5 DEF Team!Hidden

LEMMA TeamStill ==
  ASSUME Team!TInv, v1' = v1, v12' = v12, v5.arch \subseteq v5'.arch
  PROVE  TeamGrows
BY DEF TeamGrows, Team!TInv, Team!Memories

\* Steps that leave the memories alone; a draft they take is archived.
LEMMA TeamQuiet ==
  ASSUME Team!TInv, Team!TTypeOK', UNCHANGED <<v1, v12>>, v3' \in {v3, v4},
         v5.arch \subseteq v5'.arch, v5'.own = v5.own,
         \A w \in Team!Silicons : v11'[w] = v11[w] \/ <<w, v11'[w]>> \in v5'.arch,
         v4'.id = v4.id, v4'.own = v4.own, v4'.ctx \in {v4.ctx, Team!NoCtx},
         v7' \notin {"peers", "own", "put", "down"}
  PROVE  Team!Memories' /\ Team!DraftsKept'
<1>1. TeamGrows
  BY TeamStill
<1>2. CtxFollows
  BY TeamNothing DEF CtxFollows
<1>3. OwnFollows
  BY DEF OwnFollows, SameBase
<1>4. Team!Memories'
  BY <1>1, <1>2, <1>3, TeamMemories
<1> QED
  BY <1>4, TeamDrafts

LEMMA TeamAtWork ==
  ASSUME Team!TInv, v7 # "idle"
  PROVE  /\ v6.cred \in TeamCreds /\ Team!Me \in Team!Silicons
         /\ Team!Remote \in Team!Entries /\ v5.own[Team!Me] \in Team!Files
         /\ <<Team!Me, Team!Remote.body>> \in v12.pub
<1>1. v6.cred \in TeamCreds
  BY DEF Team!TInv, Team!TTypeOK
<1>2. Team!Me \in Team!Silicons
  BY <1>1, TeamNone DEF Team!Me
<1> QED
  BY <1>1, <1>2 DEF Team!TInv, Team!TTypeOK, Team!Services, Team!Memories, Team!Remote, Team!Disks

\* A step inside an operation that leaves alone who it is about and what the
\* readers of the prompt are shown.
Routine ==
  /\ v7 \in Team!Known /\ v7' \in (Team!Known \ {"write"}) \cup {"save"}
  /\ v7' = "fetch" => v6.kind = "update"
  /\ Team!Whole' => Team!Whole
  /\ v3' = v3 /\ v10' = v10 /\ v9' = v9
  /\ v4'.id = v4.id /\ v4'.valid = v4.valid /\ v4'.ctx = v4.ctx
  /\ v6'.cred = v6.cred /\ v6'.kind = v6.kind /\ v6'.was = v6.was /\ v6'.good = v6.good
  /\ v6'.body = v6.body /\ (v7' = "put" => Team!Content' \in Nat)
  /\ v5'.team = v5.team /\ (v5.block => v5'.block)
LEMMA TeamRoutine ==
  ASSUME Team!TInv, Routine PROVE Team!Operating' /\ Team!Hidden'
<1>1. v7 \notin {"idle", "scope", "save"} /\ v7' \notin {"idle", "scope"}
  BY DEF Routine, Team!Known
<1>2. Team!Operating'
  <2>1. v4'.id = v6'.cred /\ (v7' \in {"write", "fetch"} => v6'.kind = "update")
    BY DEF Routine, Team!TInv, Team!Operating
  <2>2. /\ Team!Whole' => v6'.cred \notin v10'
        /\ ~v6'.good /\ (v6'.kind = "update" => v6'.body \in Nat)
    BY <1>1 DEF Routine, Team!TInv, Team!Operating
  <2>3. /\ v6'.was.valid = v3'.valid
        /\ v6'.cred \in v10' /\ v4'.valid /\ v4'.id = v6'.cred =>
             v3'.valid /\ v3'.id = v6'.cred /\ v4'.ctx = v3'.ctx
    BY <1>1 DEF Routine, Team!TInv, Team!Operating
  <2> QED
    BY <2>1, <2>2, <2>3 DEF Routine, Team!Operating
<1>3. Team!Hidden'
  <2>1. Team!Shown(v5.team)' => Team!Shown(v5.team)
    BY DEF Routine, Team!Shown
  <2>2. Team!Shown(v6.was.team)' => Team!Shown(v6.was.team)
    BY DEF Routine, Team!Shown
  <2>3. v9' = v9
    BY DEF Routine
  <2> QED
    BY <1>1, <2>1, <2>2, <2>3 DEF Team!TInv, Team!Hidden, Team!Dropped
<1> QED
  BY <1>2, <1>3

LEMMA TeamBeginStep ==
  ASSUME Team!TInv, NEW kind \in {"sync", "update"}, NEW body \in Team!Files,
         NEW res \in BOOLEAN, NEW due \in BOOLEAN, NEW next \in {"scope", "own"},
         Team!Begin(kind, body, res, due, next),
         next = "own" => ~Team!NeedsFull /\ ~Team!ScopeChanged /\ ~due,
         kind = "update" => body \in Nat
  PROVE  Team!TInv'
<1> DEFINE was == [id |-> v3.id, valid |-> v3.valid, peer |-> v3.peer,
                   ctx |-> v3.ctx # Team!NoCtx, team |-> v5.team]
<1>0. Team!TTypeOK
  BY DEF Team!TInv
<1>1. /\ v7 = "idle" /\ v7' = next /\ v4' = v3
      /\ UNCHANGED <<v1, v2, v3, v5, v9, v10, v11, v12>>
      /\ v6' = [Team!NoOp EXCEPT !.kind = kind, !.body = body, !.res = res, !.cred = v2,
                                 !.full = due, !.ent = v3.ctx.own, !.was = was]
  BY DEF Team!Begin, Team!Goto
<1>2. was \in [id : Team!AnyCred, valid : BOOLEAN, peer : Nat, ctx : BOOLEAN, team : Team!Stamps]
  BY <1>0 DEF Team!TTypeOK, Team!States, Team!Disks
<1>3. /\ was.valid = v3.valid /\ was.team = v5.team
      /\ v3.ctx.own \in Team!Entries /\ v2 \in TeamCreds /\ v2 \in Team!AnyCred
  BY <1>0, TeamNone DEF Team!TTypeOK, Team!States
<1> HIDE DEF was
<1>4. /\ v6' \in Team!Ops /\ v6'.cred = v2 /\ v6'.kind = kind /\ v6'.full = due
      /\ v6'.body = body /\ v6'.ent = v3.ctx.own /\ v6'.was = was /\ ~v6'.good
  BY <1>1, <1>2, <1>3, TeamNoOp DEF Team!Ops
<1>5. Team!TTypeOK'
  BY <1>0, <1>1, <1>3, <1>4 DEF Team!TTypeOK
<1>6. v7' = "own" => v3.id = v2 /\ v3.ctx.who = v2
  BY <1>1 DEF Team!NeedsFull, Team!ScopeChanged
<1>7. Team!Operating'
  BY <1>1, <1>3, <1>4, <1>6 DEF Team!Operating, Team!Whole, Team!Known
<1>8. Team!Hidden'
  <2>1. Team!Shown(v5.team)' => Team!Shown(v5.team)
    BY <1>1 DEF Team!Shown
  <2>2. Team!Shown(v6.was.team)' => Team!Shown(v5.team)
    BY <1>1, <1>3, <1>4 DEF Team!Shown
  <2> QED
    BY <1>1, <2>1, <2>2 DEF Team!TInv, Team!Hidden, Team!Dropped
<1>9. Team!Memories'
  <2>1. TeamGrows
    BY <1>1, TeamStill
  <2>2. CtxFollows /\ OwnFollows
    BY <1>1 DEF CtxFollows, OwnFollows
  <2>3. v7' \in {"peers", "own"} => HadThen(Team!Me', v6'.ent.rev, v6'.ent.body)
    <3> SUFFICES ASSUME v7' = "own" PROVE HadThen(Team!Me', v6'.ent.rev, v6'.ent.body)
      BY <1>1
    <3>1. v3.ctx.who # Team!NoCred /\ v3.ctx.who = v2
      BY <1>3, <1>6, TeamNone
    <3>2. HadThen(Team!Owner(v2), v3.ctx.own.rev, v3.ctx.own.body)
      BY <1>5, <2>1, <3>1, TeamCtxKept
    <3> QED
      BY <1>4, <3>2 DEF Team!Me
  <2> QED
    BY <1>1, <1>5, <2>1, <2>2, <2>3, TeamMemories
<1>10. Team!DraftsKept'
  BY <1>1, TeamDrafts
<1> QED
  BY <1>5, <1>7, <1>8, <1>9, <1>10 DEF Team!TInv

\* _mark_configured_scope_change hides what another principal was shown.
LEMMA TeamScopeStep ==
  ASSUME Team!TInv, NEW bad, Team!Scope(bad) PROVE Team!TInv'
<1>0. Team!TTypeOK /\ v4 \in Team!States /\ v5 \in Team!Disks /\ v9 \in Nat
  BY DEF Team!TInv, Team!TTypeOK
<1>1. /\ v7 = "scope" /\ v7' = "ident" /\ UNCHANGED <<v1, v2, v3, v6, v10, v11, v12>>
      /\ v9' = v9 \/ Team!Failing(bad, Team!HideFaults)
  BY DEF Team!Scope, Team!Goto
<1> v9' \in Nat /\ v9' >= v9
  BY <1>0, <1>1, TeamSpent
<1> DEFINE m == Team!HiddenState(v4, v5, bad)
<1>2. \/ v4.id \in {Team!NoCred, v6.cred} /\ v4' = v4 /\ v5' = v5
      \/ v4' = [m EXCEPT !.valid = FALSE] /\ v5' = Team!HiddenDisk(v4, v5, bad)
  BY DEF Team!Scope
<1>3. /\ v5' \in Team!Disks /\ v5'.own = v5.own /\ v5'.arch = v5.arch
      /\ v5.block => v5'.block
      /\ v5'.team \in {v5.team, Team!Placeholder}
  BY <1>0, <1>2, TeamHides
<1>8. /\ v4' \in Team!States /\ v4'.id = v4.id /\ v4'.own = v4.own
      /\ v4'.ctx \in {v4.ctx, Team!NoCtx}
      /\ (v4.id \in {Team!NoCred, v6.cred} /\ v4' = v4) \/ ~v4'.valid
  <2>1. m \in Team!States /\ m.id = v4.id /\ m.own = v4.own /\ m.ctx = Team!NoCtx
    BY <1>0, TeamHides
  <2> HIDE DEF m
  <2> QED
    BY <1>0, <1>2, <2>1, TeamInvalidated
<1>4. Team!TTypeOK'
  BY <1>0, <1>1, <1>3, <1>8 DEF Team!TTypeOK
<1>5. Team!Operating'
  BY <1>1, <1>8 DEF Team!TInv, Team!Operating, Team!Whole, Team!Known
<1>6. Team!Hidden'
  BY <1>0, <1>1, <1>3, TeamHiding
<1>7. Team!Memories' /\ Team!DraftsKept'
  BY <1>1, <1>3, <1>4, <1>8, TeamQuiet
<1> QED
  BY <1>4, <1>5, <1>6, <1>7 DEF Team!TInv

\* _transition_identity: the credential is the one that was answered for, and the
\* former owner's path is free.
LEMMA TeamMoves ==
  ASSUME NEW s \in Team!States, NEW d \in Team!Disks, NEW c \in TeamCreds, NEW bad,
         NEW m, m = Team!MovedState(s, d, c, bad), NEW e, e = Team!MovedDisk(s, d, c, bad)
  PROVE  /\ m \in Team!States /\ m.id = c /\ m.ctx = Team!NoCtx
         /\ IF Team!NewOwner(s, c) THEN m.own.base = -1 ELSE m.own = s.own
         /\ e \in Team!Disks
         /\ d.block => e.block
         /\ e.team \in {d.team, Team!Placeholder}
         /\ e.arch = d.arch \cup Team!Archived(s, d, c)
         /\ \A w \in Team!Silicons : e.own[w] = IF w \in Team!Leaving(s, c) THEN -1 ELSE d.own[w]
<1> DEFINE h == Team!HiddenState(s, d, bad)
           f == Team!HiddenDisk(s, d, bad)
           o == IF ~Team!NewOwner(s, c) THEN h.own
                ELSE IF d.own[Team!Owner(c)] = Team!Absent THEN Team!NoOwn
                ELSE [Team!NoOwn EXCEPT !.who = Team!Owner(c), !.st = "conflict"]
           a == Team!Archived(s, d, c)
           n == [w \in Team!Silicons |-> IF w \in Team!Leaving(s, c) THEN Team!Absent ELSE f.own[w]]
           p == IF s.id = Team!NoCred THEN 0 ELSE f.peer
<1>1. /\ h \in Team!States /\ h.own = s.own /\ h.ctx = Team!NoCtx
      /\ f \in Team!Disks /\ f.own = d.own /\ f.arch = d.arch
      /\ d.block => f.block
      /\ f.team \in {d.team, Team!Placeholder}
  BY TeamHides
<1>2. m = [h EXCEPT !.id = c, !.valid = TRUE, !.own = o]
  BY DEF Team!MovedState
<1>3. e = [f EXCEPT !.own = n, !.arch = @ \cup a, !.peer = p]
  BY DEF Team!MovedDisk
<1> HIDE DEF h, f
<1>4. Team!Owner(c) \in Team!Silicons /\ c \in Team!AnyCred
  BY TeamNone
<1>5. o \in Team!OwnRecords /\ IF Team!NewOwner(s, c) THEN o.base = -1 ELSE o = s.own
  <2>1. s.own \in Team!OwnRecords
    BY DEF Team!States
  <2> QED
    BY <1>1, <1>4, <2>1, TeamNothing DEF Team!OwnRecords
<1>6. a \subseteq Team!Silicons \X Team!Files
  <2>1. d.own \in [Team!Silicons -> Team!Files] /\ s.id \in Team!AnyCred
    BY DEF Team!Disks, Team!States
  <2>2. Team!Leaving(s, c) \subseteq Team!Silicons
    BY <2>1, TeamNone DEF Team!Leaving, Team!AnyCred
  <2> QED
    BY <2>1, <2>2 DEF Team!Archived
<1>7. n \in [Team!Silicons -> Team!Files]
  BY <1>1 DEF Team!Disks, Team!Files
<1>8. p \in Nat
  BY <1>1 DEF Team!Disks
<1>9. \A w \in Team!Silicons : n[w] = IF w \in Team!Leaving(s, c) THEN -1 ELSE d.own[w]
  BY <1>1, TeamNothing
<1> HIDE DEF o, a, n, p
<1>10. m \in Team!States /\ m.id = c /\ m.ctx = Team!NoCtx /\ m.own = o
  BY <1>1, <1>2, <1>4, <1>5 DEF Team!States
<1>11. /\ (f.block => e.block) /\ e.team = f.team /\ e.arch = d.arch \cup a
       /\ e.own = n
  BY <1>1, <1>3 DEF Team!Disks
<1>12. e \in Team!Disks
  <2>1. f.arch \cup a \subseteq Team!Silicons \X Team!Files
    BY <1>1, <1>6 DEF Team!Disks
  <2> QED
    BY <1>1, <1>3, <1>7, <1>8, <2>1 DEF Team!Disks
<1> QED
  BY <1>1, <1>5, <1>9, <1>10, <1>11, <1>12 DEF a

\* A draft in a path that is freed is archived or Glass has had it.
LEMMA TeamDraftMoved ==
  ASSUME Team!TInv, NEW c \in TeamCreds, NEW w \in Team!Leaving(v4, c), w \in Team!Silicons,
         v11[w] # -1
  PROVE  Team!Kept(w) \/ <<w, v11[w]>> \in Team!Archived(v4, v5, c)
<1> SUFFICES ASSUME ~Team!Kept(w) PROVE <<w, v11[w]>> \in Team!Archived(v4, v5, c)
  OBVIOUS
<1>1. v5.own[w] = v11[w] /\ v5.own[w] # Team!Absent
  BY TeamNothing DEF Team!TInv, Team!DraftsKept
<1>2. v4.id = Team!NoCred \/ Team!Unsynced(v4, v5, w)
  <2> SUFFICES ASSUME v4.own.who = w, v4.own.base = v5.own[w] PROVE FALSE
    BY <1>1 DEF Team!Unsynced
  <2>1. <<w, v11[w]>> \in v12.pub
    BY <1>1 DEF Team!TInv, Team!Memories, Team!BaseHad, Team!Had
  <2> QED
    BY <2>1 DEF Team!Kept
<1>3. w \in {v \in Team!Leaving(v4, c) : v5.own[v] # Team!Absent
                /\ (v4.id = Team!NoCred \/ Team!Unsynced(v4, v5, v))}
  BY <1>1, <1>2
<1> QED
  BY <1>1, <1>3 DEF Team!Archived

LEMMA TeamIdentifiedStep ==
  ASSUME Team!TInv, NEW bad, Team!Identified(bad) PROVE Team!TInv'
<1>0. /\ Team!TTypeOK /\ v4 \in Team!States /\ v5 \in Team!Disks /\ v9 \in Nat
      /\ v6 \in Team!Ops
  BY DEF Team!TInv, Team!TTypeOK
<1>1. /\ v7 = "ident" /\ v7' = IF v6.kind = "update" THEN "write" ELSE "ctx"
      /\ UNCHANGED <<v1, v2, v3, v11, v12>> /\ v10' = v10 \ {v6.cred}
      /\ v9' = v9 \/ Team!Failing(bad, Team!HideFaults)
      /\ v6' = v6 \/ v6' = [v6 EXCEPT !.hid = v5.peer # v5'.peer]
  BY DEF Team!Identified, Team!Goto
<1>2. v9' \in Nat /\ v9' >= v9 /\ v6.cred \in TeamCreds
  BY <1>0, <1>1, TeamSpent, TeamAtWork
<1>3. /\ v6' \in Team!Ops /\ v6'.cred = v6.cred /\ v6'.kind = v6.kind /\ v6'.was = v6.was
      /\ v6'.good = v6.good /\ v6'.body = v6.body
  BY <1>0, <1>1 DEF Team!Ops
<1>4. \/ v4.id = v6.cred /\ v4' = v4 /\ v5' = v5
      \/ /\ v4' = Team!MovedState(v4, v5, v6.cred, bad)
         /\ v5' = Team!MovedDisk(v4, v5, v6.cred, bad)
  BY DEF Team!Identified, Team!Same
<1>5. /\ v4' \in Team!States /\ v5' \in Team!Disks /\ v4'.id = v6.cred
      /\ v4'.ctx \in {v4.ctx, Team!NoCtx}
      /\ v5.block => v5'.block
      /\ v5'.team \in {v5.team, Team!Placeholder} /\ v5.arch \subseteq v5'.arch
      /\ \/ v4' = v4
         \/ v4'.own.base = -1
         \/ v4'.own = v4.own /\ ~Team!NewOwner(v4, v6.cred)
  BY <1>0, <1>2, <1>4, TeamMoves
<1>6. Team!TTypeOK'
  BY <1>0, <1>1, <1>2, <1>3, <1>5 DEF Team!TTypeOK
<1>7. Team!Operating'
  BY <1>1, <1>3, <1>5 DEF Team!TInv, Team!Operating
<1>8. Team!Hidden'
  BY <1>0, <1>1, <1>2, <1>3, <1>5, TeamHiding
<1>9. Team!Memories'
  <2>1. TeamGrows
    BY <1>1, <1>5, TeamStill
  <2>2. CtxFollows
    BY <1>5, TeamNothing DEF CtxFollows
  <2>3. OwnFollows
    BY <1>2, <1>5, TeamNone DEF OwnFollows, SameBase, Team!NewOwner
  <2> QED
    BY <1>1, <1>6, <2>1, <2>2, <2>3, TeamMemories
<1>10. Team!DraftsKept'
  <2> SUFFICES ASSUME NEW w \in Team!Silicons, v11[w] # -1
               PROVE  v5'.own[w] = v5.own[w] \/ Team!Kept(w) \/ <<w, v11[w]>> \in v5'.arch
    BY <1>1, <1>5, TeamDrafts
  <2>1. CASE v4' = v4 /\ v5' = v5
    BY <2>1
  <2>2. CASE v5' = Team!MovedDisk(v4, v5, v6.cred, bad)
    <3>1. /\ v5'.arch = v5.arch \cup Team!Archived(v4, v5, v6.cred)
          /\ v5'.own[w] = IF w \in Team!Leaving(v4, v6.cred) THEN -1 ELSE v5.own[w]
      BY <1>0, <1>2, <2>2, TeamMoves
    <3> QED
      BY <1>2, <3>1, TeamDraftMoved
  <2> QED
    BY <1>4, <2>1, <2>2
<1> QED
  BY <1>6, <1>7, <1>8, <1>9, <1>10 DEF Team!TInv

\* _archive_explicit_draft.
LEMMA TeamSavedApart ==
  ASSUME Team!TInv, v7 # "idle", NEW d \in Team!Disks, Team!SaveApart(d)
  PROVE  /\ v5' \in Team!Disks /\ v5'.own = d.own /\ v5'.team = d.team
         /\ v5'.block <=> d.block
         /\ d.arch \subseteq v5'.arch /\ v11' \in [Team!Silicons -> Team!Files]
         /\ \A w \in Team!Silicons : v11'[w] = v11[w] \/ <<w, v11'[w]>> \in v5'.arch
<1>1. Team!Me \in Team!Silicons /\ v11 \in [Team!Silicons -> Team!Files]
  BY TeamAtWork DEF Team!TInv, Team!TTypeOK
<1>2. CASE v6.kind = "update"
  <2> DEFINE a == d.arch \cup {<<Team!Me, v6.body>>}
  <2>1. v5' = [d EXCEPT !.arch = a] /\ v11' = [v11 EXCEPT ![Team!Me] = v6.body]
    BY <1>2 DEF Team!SaveApart, Team!SavedApart, Team!LastDraft
  <2>2. v6.body \in Team!Files
    BY DEF Team!TInv, Team!TTypeOK, Team!Ops
  <2>3. a \subseteq Team!Silicons \X Team!Files
    BY <1>1, <2>2 DEF Team!Disks
  <2> HIDE DEF a
  <2>4. /\ v5' \in Team!Disks /\ v5'.own = d.own /\ v5'.team = d.team
        /\ v5'.block <=> d.block
        /\ v5'.arch = a
    BY <2>1, <2>3 DEF Team!Disks
  <2>5. /\ v11' \in [Team!Silicons -> Team!Files]
        /\ \A w \in Team!Silicons : v11'[w] = v11[w] \/ <<w, v11'[w]>> \in a
    BY <1>1, <2>1, <2>2 DEF a
  <2> QED
    BY <2>4, <2>5 DEF a
<1>3. CASE v6.kind # "update"
  BY <1>1, <1>3 DEF Team!SaveApart
<1> QED
  BY <1>2, <1>3

LEMMA TeamUnarchivedStep ==
  ASSUME Team!TInv, Team!Unarchived PROVE Team!TInv'
<1>0. /\ Team!TTypeOK /\ v4 \in Team!States /\ v5 \in Team!Disks /\ v9 \in Nat
  BY DEF Team!TInv, Team!TTypeOK
<1> DEFINE m == Team!HiddenState(v4, v5, {})
           d == Team!HiddenDisk(v4, v5, {})
<1>1. /\ v7 = "ident" /\ v7' = "save" /\ UNCHANGED <<v1, v2, v3, v6, v10, v12>>
      /\ v9' = v9 + 1 /\ v4' = [m EXCEPT !.valid = FALSE] /\ Team!SaveApart(d)
  BY DEF Team!Unarchived, Team!Goto, Team!Spend
<1>2. /\ m \in Team!States /\ m.id = v4.id /\ m.own = v4.own /\ m.ctx = Team!NoCtx
      /\ d \in Team!Disks /\ d.own = v5.own /\ d.arch = v5.arch
      /\ d.team \in {v5.team, Team!Placeholder}
      /\ v5.block => d.block
  BY <1>0, TeamHides
<1> HIDE DEF m, d
<1>3. /\ v5' \in Team!Disks /\ v5'.own = v5.own /\ v5.arch \subseteq v5'.arch
      /\ v5'.team \in {v5.team, Team!Placeholder}
      /\ v5.block => v5'.block
      /\ v11' \in [Team!Silicons -> Team!Files]
      /\ \A w \in Team!Silicons : v11'[w] = v11[w] \/ <<w, v11'[w]>> \in v5'.arch
  BY <1>1, <1>2, TeamSavedApart
<1>4. /\ v4' \in Team!States /\ v4'.id = v4.id /\ v4'.own = v4.own /\ v4'.ctx = Team!NoCtx
      /\ ~v4'.valid
  BY <1>1, <1>2, TeamInvalidated
<1>5. Team!TTypeOK'
  BY <1>0, <1>1, <1>3, <1>4 DEF Team!TTypeOK
<1>6. Team!Operating'
  BY <1>1, <1>4 DEF Team!TInv, Team!Operating, Team!Whole, Team!Known
<1>7. Team!Hidden'
  BY <1>0, <1>1, <1>3, TeamHiding
<1>8. Team!Memories' /\ Team!DraftsKept'
  BY <1>1, <1>3, <1>4, <1>5, TeamQuiet
<1> QED
  BY <1>5, <1>6, <1>7, <1>8 DEF Team!TInv

LEMMA TeamUnidentifiedStep ==
  ASSUME Team!TInv, Team!Unidentified PROVE Team!TInv'
<1>0. /\ Team!TTypeOK /\ v5 \in Team!Disks /\ v9 \in Nat /\ v6 \in Team!Ops
  BY DEF Team!TInv, Team!TTypeOK
<1>1. /\ v7 = "ident" /\ UNCHANGED <<v1, v2, v3, v4, v9, v10, v12>>
      /\ \/ /\ v7' = "write" /\ v6.kind = "update" /\ v4.id = v6.cred
            /\ v6' = [v6 EXCEPT !.full = FALSE] /\ v5' = v5 /\ v11' = v11
         \/ v7' = "save" /\ v6' = v6 /\ Team!SaveApart(v5)
  BY DEF Team!Unidentified, Team!Goto
<1>2. /\ v6' \in Team!Ops /\ v6'.cred = v6.cred /\ v6'.kind = v6.kind /\ v6'.was = v6.was
      /\ v6'.good = v6.good /\ v6'.body = v6.body
  BY <1>0, <1>1 DEF Team!Ops
<1>3. /\ v5' \in Team!Disks /\ v5'.own = v5.own /\ v5.arch \subseteq v5'.arch
      /\ v5'.team = v5.team
      /\ v5.block => v5'.block
      /\ v11' \in [Team!Silicons -> Team!Files]
      /\ \A w \in Team!Silicons : v11'[w] = v11[w] \/ <<w, v11'[w]>> \in v5'.arch
  BY <1>0, <1>1, TeamSavedApart DEF Team!TTypeOK
<1>4. Team!TTypeOK'
  BY <1>0, <1>1, <1>2, <1>3 DEF Team!TTypeOK
<1>5. Team!Operating'
  <2>1. ~Team!Whole'
    BY <1>1, <1>2 DEF Team!Whole, Team!Known
  <2> QED
    BY <1>1, <1>2, <2>1 DEF Team!TInv, Team!Operating, Team!Known
<1>6. Team!Hidden'
  BY <1>0, <1>1, <1>2, <1>3, TeamHiding
<1>7. Team!Memories' /\ Team!DraftsKept'
  BY <1>1, <1>3, <1>4, TeamQuiet
<1> QED
  BY <1>4, <1>5, <1>6, <1>7 DEF Team!TInv

\* _invalidate_team_access: two local failures leave what was shown, with the state
\* that would show it no longer valid.
LEMMA TeamRefusedStep ==
  ASSUME Team!TInv, NEW bad, Team!Refused(bad) PROVE Team!TInv'
<1>0. /\ Team!TTypeOK /\ v4 \in Team!States /\ v5 \in Team!Disks /\ v9 \in Nat
      /\ v6 \in Team!Ops
  BY DEF Team!TInv, Team!TTypeOK
<1> DEFINE m == Team!HiddenState(v4, v5, bad)
           d == Team!HiddenDisk(v4, v5, bad)
<1>1. /\ v7 \in Team!Asking /\ v7' = "save" /\ UNCHANGED <<v1, v2, v3, v12>>
      /\ Team!Failing(bad, Team!HideFaults) /\ v4' = [m EXCEPT !.valid = FALSE]
      /\ Team!SaveApart(d) \/ (v5' = d /\ v11' = v11)
      /\ v6' = [v6 EXCEPT !.hid = FALSE] /\ v10' = v10 \cup {v6.cred}
  BY DEF Team!Refused, Team!Goto
<1>2. /\ m \in Team!States /\ m.id = v4.id /\ m.own = v4.own /\ m.ctx = Team!NoCtx
      /\ d \in Team!Disks /\ d.own = v5.own /\ d.arch = v5.arch
      /\ ~d.block => "block" \in bad
      /\ d.team # Team!Placeholder => "team" \in bad
  BY <1>0, TeamHides
<1> HIDE DEF m, d
<1>3. v7 # "idle" /\ v7 # "save" /\ v6.cred \in TeamCreds
  BY <1>1, TeamAtWork DEF Team!Asking
<1>4. /\ v5' \in Team!Disks /\ v5'.own = v5.own /\ v5.arch \subseteq v5'.arch
      /\ v5'.team = d.team
      /\ v5'.block <=> d.block
      /\ v11' \in [Team!Silicons -> Team!Files]
      /\ \A w \in Team!Silicons : v11'[w] = v11[w] \/ <<w, v11'[w]>> \in v5'.arch
  BY <1>0, <1>1, <1>2, <1>3, TeamSavedApart DEF Team!TTypeOK
<1>5. /\ v4' \in Team!States /\ v4'.id = v4.id /\ v4'.own = v4.own /\ v4'.ctx = Team!NoCtx
      /\ ~v4'.valid
  BY <1>1, <1>2, TeamInvalidated
<1>6. /\ v6' \in Team!Ops /\ v6'.cred = v6.cred /\ v6'.kind = v6.kind /\ v6'.was = v6.was
      /\ v6'.good = v6.good /\ v6'.body = v6.body
  BY <1>0, <1>1 DEF Team!Ops
<1>7. v9' \in Nat /\ ({"block", "team"} \subseteq bad => v9' >= v9 + 2)
  BY <1>0, <1>1, TeamSpent
<1>8. Team!TTypeOK'
  BY <1>0, <1>1, <1>3, <1>4, <1>5, <1>6, <1>7 DEF Team!TTypeOK
<1>9. Team!Operating'
  BY <1>1, <1>3, <1>5, <1>6 DEF Team!TInv, Team!Operating, Team!Whole, Team!Known
<1>10. Team!Hidden'
  <2>1. Team!Dropped'
    BY <1>1, <1>5 DEF Team!Dropped
  <2>2. ASSUME Team!Shown(v5.team)' PROVE {"block", "team"} \subseteq bad
    <3>1. ~v5'.block /\ v5'.team # Team!Placeholder
      BY <1>8, <2>2, TeamNone, TeamNothing DEF Team!Shown, Team!Stamp, Team!TTypeOK
    <3> QED
      BY <1>2, <1>4, <3>1
  <2> QED
    BY <1>0, <1>7, <2>1, <2>2 DEF Team!Hidden
<1>11. Team!Memories' /\ Team!DraftsKept'
  BY <1>1, <1>4, <1>5, <1>8, TeamQuiet
<1> QED
  BY <1>8, <1>9, <1>10, <1>11 DEF Team!TInv

\* An operation ends and the lock is free.
LEMMA TeamReleased ==
  ASSUME Team!TInv, Team!TTypeOK', Team!Released, v3' \in {v3, v4},
         v5'.own = v5.own, v5.arch \subseteq v5'.arch
  PROVE  Team!Operating' /\ Team!Memories' /\ Team!DraftsKept'
<1>1. v7' = "idle" /\ v4' = v3' /\ v6' = Team!NoOp /\ UNCHANGED <<v1, v2, v10, v11, v12>>
  BY DEF Team!Released
<1>2. ~Team!NoOp.good /\ Team!NoOp.kind = "none"
  BY TeamNoOp DEF Team!NoOp
<1>3. Team!Operating'
  BY <1>1, <1>2 DEF Team!Operating, Team!Whole, Team!Known
<1>4. TeamGrows
  BY <1>1, TeamStill
<1>5. CtxFollows /\ OwnFollows
  BY <1>1 DEF CtxFollows, OwnFollows, SameBase
<1>6. Team!Memories'
  BY <1>1, <1>4, <1>5, TeamMemories
<1> QED
  BY <1>1, <1>3, <1>6, TeamDrafts

LEMMA TeamSaveStep ==
  ASSUME Team!TInv, Team!Save PROVE Team!TInv'
<1>0. /\ Team!TTypeOK /\ v4 \in Team!States /\ v5 \in Team!Disks /\ v9 \in Nat
  BY DEF Team!TInv, Team!TTypeOK
<1>1. /\ v7 = "save" /\ v3' = v4 /\ Team!Released /\ v9' = v9
      /\ v5' = v5 \/ (v6.good /\ v5' = [v5 EXCEPT !.block = FALSE])
  BY DEF Team!Save
<1>2. v5' \in Team!Disks /\ v5'.own = v5.own /\ v5'.arch = v5.arch /\ v5'.team = v5.team
  BY <1>0, <1>1 DEF Team!Disks
<1>3. /\ v7' = "idle" /\ v4' = v4 /\ v6' = Team!NoOp
      /\ UNCHANGED <<v1, v2, v10, v11, v12>>
  BY <1>1 DEF Team!Released
<1>4. Team!TTypeOK'
  BY <1>0, <1>1, <1>2, <1>3, TeamNoOp DEF Team!TTypeOK
<1>5. Team!Operating' /\ Team!Memories' /\ Team!DraftsKept'
  BY <1>1, <1>2, <1>4, TeamReleased
<1>6. ASSUME Team!Shown(v5.team)' PROVE v9 >= 3
  <2>1. v4.valid /\ v4.ctx.who = v4.id /\ v4.id \in v10 /\ v5.team = Team!Stamp(v4.ctx)
        /\ ~v5'.block
    BY <1>1, <1>2, <1>3, <1>6 DEF Team!Shown
  <2>2. v4.id # Team!NoCred
    BY <1>0, <2>1, TeamNone DEF Team!TTypeOK
  <2>3. v4.id = v6.cred
    BY <1>1, <2>1, <2>2 DEF Team!TInv, Team!Operating
  <2>4. v3.valid /\ v3.id = v6.cred /\ v4.ctx = v3.ctx /\ ~v6.good
    BY <1>1, <2>1, <2>3 DEF Team!TInv, Team!Operating
  <2>5. Team!Shown(v5.team)
    BY <1>1, <2>1, <2>3, <2>4 DEF Team!Shown
  <2> QED
    BY <2>1, <2>5 DEF Team!TInv, Team!Hidden, Team!Dropped
<1>7. Team!Hidden'
  BY <1>1, <1>3, <1>6 DEF Team!Hidden
<1> QED
  BY <1>4, <1>5, <1>7 DEF Team!TInv

LEMMA TeamSaveFailsStep ==
  ASSUME Team!TInv, NEW bad, Team!SaveFails(bad) PROVE Team!TInv'
<1>0. /\ Team!TTypeOK /\ v5 \in Team!Disks /\ v9 \in Nat /\ v6 \in Team!Ops /\ v3 \in Team!States
  BY DEF Team!TInv, Team!TTypeOK
<1> DEFINE b == v5.block \/ (v6.hid /\ "block" \notin bad)
           p == IF v4.peer # 0 /\ (Team!Moved \/ v6.was.peer = 0) THEN 0 ELSE v5.peer
           t == IF "team" \in bad THEN v5.team
                ELSE IF Team!FailClosed THEN Team!Placeholder ELSE v6.was.team
<1>1. /\ v7 = "save" /\ v3' = v3 /\ Team!Released /\ bad \subseteq {"block", "team"}
      /\ Team!Spend(1 + Team!Cardinality(bad))
      /\ v5' = v5 \/ v5' = [v5 EXCEPT !.block = b, !.peer = p, !.team = t]
  BY DEF Team!SaveFails
<1>2. b \in BOOLEAN /\ p \in Nat /\ t \in Team!Stamps /\ (v5.block => b)
  BY <1>0, TeamNothing DEF Team!Disks, Team!Ops
<1>3. t \in {v5.team, Team!Placeholder} \/ (t = v6.was.team /\ ~Team!FailClosed)
  OBVIOUS
<1> HIDE DEF b, p, t
<1>4. /\ v5' \in Team!Disks /\ v5'.own = v5.own /\ v5'.arch = v5.arch
      /\ v5'.team \in {v5.team, t}
      /\ v5.block => v5'.block
  BY <1>0, <1>1, <1>2 DEF Team!Disks
<1>5. /\ v7' = "idle" /\ v4' = v3 /\ v6' = Team!NoOp
      /\ UNCHANGED <<v1, v2, v10, v11, v12>>
  BY <1>1 DEF Team!Released
<1>6. v9' \in Nat /\ v9' >= v9 + 1
  <2>1. Team!Cardinality(bad) = Cardinality(bad)
    BY DEF Team!Cardinality, Cardinality
  <2>2. IsFiniteSet({"block", "team"})
    <3>1. IsFiniteSet({"block"}) /\ IsFiniteSet({"team"})
      BY FS_Singleton
    <3>2. {"block"} \cup {"team"} = {"block", "team"}
      OBVIOUS
    <3>3. IsFiniteSet({"block"} \cup {"team"})
      BY <3>1, FS_Union
    <3> QED
      BY <3>2, <3>3
  <2>3. Cardinality(bad) \in Nat
    BY <1>1, <2>2, FS_Subset, FS_CardinalityType
  <2>4. v9' = v9 + (1 + Cardinality(bad))
    BY <1>1, <2>1 DEF Team!Spend
  <2> QED
    BY <1>0, <2>3, <2>4
<1>7. Team!TTypeOK'
  BY <1>0, <1>1, <1>4, <1>5, <1>6, TeamNoOp DEF Team!TTypeOK
<1>8. Team!Operating' /\ Team!Memories' /\ Team!DraftsKept'
  BY <1>1, <1>4, <1>7, TeamReleased
<1>9. ASSUME Team!Shown(v5.team)' PROVE v9' >= 3
  <2>1. /\ v3.valid /\ v3.ctx.who = v3.id /\ v3.id \in v10 /\ ~v5.block
        /\ v5'.team = Team!Stamp(v3.ctx)
    BY <1>1, <1>4, <1>5, <1>9 DEF Team!Shown
  <2>2. v5'.team # Team!Placeholder
    BY <1>0, <2>1, TeamNone, TeamNothing DEF Team!Stamp, Team!TTypeOK
  <2>3. CASE v5'.team = v5.team
    <3>1. Team!Shown(v5.team)
      BY <2>1, <2>3 DEF Team!Shown
    <3> QED
      BY <1>0, <1>6, <3>1 DEF Team!TInv, Team!Hidden
  <2>4. CASE v5'.team # v5.team
    <3>1. v5'.team = v6.was.team /\ ~Team!FailClosed
      BY <1>3, <1>4, <2>2, <2>4
    <3>2. Team!Shown(v6.was.team)
      BY <2>1, <3>1 DEF Team!Shown
    <3>3. v6.was.valid = v3.valid /\ v6.was.valid = v4.valid
      BY <1>1, <3>1 DEF Team!TInv, Team!Operating, Team!FailClosed, Team!Moved
    <3>4. v4.valid
      BY <2>1, <3>3, Zenon
    <3>5. v9 >= 3
      BY <1>1, <3>2, <3>4 DEF Team!TInv, Team!Hidden, Team!Dropped
    <3> QED
      BY <1>0, <1>6, <3>5
  <2> QED
    BY <2>3, <2>4
<1>10. Team!Hidden'
  BY <1>5, <1>9 DEF Team!Hidden
<1> QED
  BY <1>7, <1>8, <1>10 DEF Team!TInv

\* A crash, and a draft that cannot be written, leave the disk and the saved state.
LEMMA TeamStopStep ==
  ASSUME Team!TInv, Team!Crash \/ Team!WriteFails PROVE Team!TInv'
<1>0. /\ Team!TTypeOK /\ v9 \in Nat
  BY DEF Team!TInv, Team!TTypeOK
<1>1. v7 # "idle" /\ v3' = v3 /\ v5' = v5 /\ v9' = v9 + 1 /\ Team!Released
  BY DEF Team!Crash, Team!WriteFails, Team!Spend, Team!Released, Team!Goto
<1>2. /\ v7' = "idle" /\ v4' = v3 /\ v6' = Team!NoOp
      /\ UNCHANGED <<v1, v2, v10, v11, v12>>
  BY <1>1 DEF Team!Released
<1>3. Team!TTypeOK'
  BY <1>0, <1>1, <1>2, TeamNoOp DEF Team!TTypeOK
<1>4. Team!Operating' /\ Team!Memories' /\ Team!DraftsKept'
  BY <1>1, <1>3, TeamReleased
<1>5. Team!Shown(v5.team)' => Team!Shown(v5.team)
  BY <1>1, <1>2 DEF Team!Shown
<1>6. Team!Hidden'
  BY <1>0, <1>1, <1>2, <1>5 DEF Team!TInv, Team!Hidden
<1> QED
  BY <1>3, <1>4, <1>6 DEF Team!TInv

\* What a step of the own memory, of the peers or of the world has to show.
Drafted ==
  /\ v5.arch \subseteq v5'.arch
  /\ \A w \in Team!Silicons :
        \/ v11'[w] = -1 \/ v5'.own[w] = v11'[w]
        \/ v11'[w] = v11[w] /\ (v5'.own[w] = v5.own[w] \/ Team!Kept(w))
LEMMA TeamOwnStep ==
  ASSUME Team!TInv, Team!TTypeOK', Routine, TeamGrows, OwnFollows, Drafted,
         v7' \in {"peers", "own"} => HadThen(Team!Me', v6'.ent.rev, v6'.ent.body),
         v7' = "put" /\ ~v6'.res => Team!Replaces',
         v7' = "down" => v11'[Team!Me'] = -1 \/ Team!Kept(Team!Me)'
  PROVE  Team!TInv'
<1>1. CtxFollows /\ v3' \in {v3, v4}
  BY DEF Routine, CtxFollows
<1>2. Team!Memories'
  BY <1>1, TeamMemories
<1>3. Team!DraftsKept'
  BY TeamDrafts DEF TeamGrows, Drafted
<1> QED
  BY <1>2, <1>3, TeamRoutine DEF Team!TInv

LEMMA TeamAlike ==
  ASSUME v5' = v5, v11' = v11 PROVE Drafted
BY DEF Drafted

\* While Glass has not answered for another principal, the memory is its own.
LEMMA TeamOwner ==
  ASSUME Team!TInv, v7 \in Team!Known
  PROVE  /\ v4.id = v6.cred /\ v4.id \in TeamCreds /\ Team!Me = Team!Owner(v4.id)
         /\ Team!Me \in Team!Silicons /\ v7 # "idle" /\ v4.own \in Team!OwnRecords
         /\ v4.own.base # -1 => v4.own.who = Team!Me
<1>1. v7 # "idle" /\ v4.id = v6.cred
  BY DEF Team!TInv, Team!Operating, Team!Known
<1>2. v6.cred \in TeamCreds /\ Team!Me \in Team!Silicons /\ v4.own \in Team!OwnRecords
  BY <1>1, TeamAtWork DEF Team!TInv, Team!TTypeOK, Team!States
<1>3. v4.own.base # -1 => v4.own.who = Team!Me
  BY <1>1, TeamNothing DEF Team!TInv, Team!Memories, Team!BaseHad, Team!Me
<1> QED
  BY <1>1, <1>2, <1>3 DEF Team!Me

\* The own memory is marked, with its base.
Remarked(o) ==
  /\ o \in Team!OwnRecords
  /\ \/ o.base = -1
     \/ o.base = v4.own.base /\ o.brev = v4.own.brev /\ o.who = Team!Me
LEMMA TeamRemarked ==
  ASSUME Team!TInv, v7 \in Team!Known, NEW o, Remarked(o), v4' = [v4 EXCEPT !.own = o]
  PROVE  /\ v4' \in Team!States /\ v4'.id = v4.id /\ v4'.valid = v4.valid
         /\ v4'.ctx = v4.ctx /\ OwnFollows
<1>1. v4 \in Team!States
  BY DEF Team!TInv, Team!TTypeOK
<1>2. /\ v4' \in Team!States /\ v4'.id = v4.id /\ v4'.valid = v4.valid
      /\ v4'.ctx = v4.ctx /\ v4'.own = o
  BY <1>1 DEF Remarked, Team!States
<1>3. v4.own.base # -1 => v4.own.who = Team!Me
  BY TeamOwner
<1> QED
  BY <1>2, <1>3 DEF Remarked, OwnFollows, SameBase

LEMMA TeamMarks ==
  ASSUME Team!TInv, v7 \in Team!Known
  PROVE  /\ Remarked(v4.own)
         /\ Remarked(Team!NoOwn) /\ Remarked(Team!Mine(v4.own))
         /\ \A o : Remarked(o) => Remarked([o EXCEPT !.st = "conflict"])
         /\ \A o, r : Remarked(o) /\ r \in Int => Remarked(Team!Marked(o, r))
         /\ Remarked([v4.own EXCEPT !.who = Team!Me, !.st = "pending"])
<1>1. /\ Team!Me \in Team!Silicons /\ v4.own \in Team!OwnRecords
      /\ v4.own.base # -1 => v4.own.who = Team!Me
  BY TeamOwner
<1>2. Remarked(v4.own) /\ Remarked(Team!NoOwn)
  BY <1>1, TeamNothing DEF Remarked
<1>3. ASSUME NEW o, Remarked(o) PROVE Remarked([o EXCEPT !.st = "conflict"])
  BY <1>3 DEF Remarked, Team!OwnRecords
<1>4. ASSUME NEW o, Remarked(o), NEW r \in Int PROVE Remarked(Team!Marked(o, r))
  <2> DEFINE n == IF r > o.crev THEN r ELSE o.crev
  <2>1. n \in Int
    BY <1>4 DEF Remarked, Team!OwnRecords
  <2>2. Team!Marked(o, r) = [o EXCEPT !.who = Team!Me, !.st = "conflict", !.crev = n]
    BY DEF Team!Marked
  <2> HIDE DEF n
  <2> QED
    BY <1>1, <1>4, <2>1, <2>2 DEF Remarked, Team!OwnRecords
<1>5. Remarked([v4.own EXCEPT !.who = Team!Me, !.st = "pending"])
  BY <1>1 DEF Remarked, Team!OwnRecords
<1> QED
  BY <1>2, <1>3, <1>4, <1>5 DEF Team!Mine

\* A request of the own memory fails: the state is the same, or its edit is pending.
LEMMA TeamPendsSo ==
  ASSUME Team!TInv, v7 \in Team!Known,
         v4' = v4 \/ v4' = [v4 EXCEPT !.own.who = Team!Me, !.own.st = "pending"]
  PROVE  /\ v4' \in Team!States /\ v4'.id = v4.id /\ v4'.valid = v4.valid
         /\ v4'.ctx = v4.ctx /\ OwnFollows
<1>1. v4 \in Team!States
  BY DEF Team!TInv, Team!TTypeOK
<1>2. CASE v4' = v4
  BY <1>1, <1>2 DEF OwnFollows, SameBase
<1>3. CASE v4' = [v4 EXCEPT !.own.who = Team!Me, !.own.st = "pending"]
  <2> DEFINE o == [v4.own EXCEPT !.who = Team!Me, !.st = "pending"]
  <2>1. Remarked(o)
    BY TeamMarks
  <2>2. v4' = [v4 EXCEPT !.own = o]
    BY <1>1, <1>3 DEF Team!States, Team!OwnRecords
  <2> HIDE DEF o
  <2> QED
    BY <2>1, <2>2, TeamRemarked
<1> QED
  BY <1>2, <1>3

LEMMA TeamPends ==
  ASSUME Team!TInv, v7 \in Team!Known, v4' = v4 \/ v4' = Team!Pending(v4)
  PROVE  /\ v4' \in Team!States /\ v4'.id = v4.id /\ v4'.valid = v4.valid
         /\ v4'.ctx = v4.ctx /\ OwnFollows
BY TeamPendsSo DEF Team!Pending

\* The own memory takes a base that Glass has had and the silicon has seen.
LEMMA TeamRebased ==
  ASSUME Team!TInv, v7 \in Team!Known, NEW r \in Team!Entries,
         v4' = [v4 EXCEPT !.own = Team!SetBase(r)],
         HadThen(Team!Me, r.rev, r.body), r.body \in v12'.seen[Team!Me]
  PROVE  /\ v4' \in Team!States /\ v4'.id = v4.id /\ v4'.valid = v4.valid
         /\ v4'.ctx = v4.ctx /\ OwnFollows
<1> DEFINE o == Team!SetBase(r)
<1>1. v4 \in Team!States
  BY DEF Team!TInv, Team!TTypeOK
<1>2. /\ o \in Team!OwnRecords /\ o.who = Team!Me /\ o.base = r.body /\ o.brev = r.rev
  <2>1. Team!Me \in Team!Silicons
    BY TeamOwner
  <2> QED
    BY <2>1 DEF Team!SetBase, Team!OwnRecords, Team!Entries, Team!Files
<1>4. v4' = [v4 EXCEPT !.own = o]
  OBVIOUS
<1> HIDE DEF o
<1>3. /\ v4' \in Team!States /\ v4'.id = v4.id /\ v4'.valid = v4.valid
      /\ v4'.ctx = v4.ctx /\ v4'.own = o
  BY <1>1, <1>2, <1>4 DEF Team!States
<1> QED
  BY <1>2, <1>3, TeamOwner DEF OwnFollows

LEMMA TeamAdopts ==
  ASSUME Team!TInv, v7 \in Team!Known, NEW r \in Team!Entries, Team!Adopt(r), v1' = v1,
         v5.arch \subseteq v5'.arch, Team!Had(Team!Me, r.rev, r.body)
  PROVE  /\ v4' \in Team!States /\ v4'.id = v4.id /\ v4'.valid = v4.valid
         /\ v4'.ctx = v4.ctx /\ OwnFollows
         /\ v12' \in Team!Histories
         /\ TeamGrows
<1> DEFINE n == [v12.seen EXCEPT ![Team!Me] = @ \cup {r.body}]
<1>1. /\ v4' = [v4 EXCEPT !.own = Team!SetBase(r)] /\ v12' = [v12 EXCEPT !.seen = n]
  BY DEF Team!Adopt
<1>2. /\ v12 \in Team!Histories /\ v12.seen \in [Team!Silicons -> SUBSET Nat]
      /\ r.body \in Nat /\ r.rev \in Nat /\ Team!Me \in Team!Silicons
  BY TeamOwner DEF Team!TInv, Team!TTypeOK, Team!Entries, Team!Histories
<1>3. /\ n \in [Team!Silicons -> SUBSET Nat] /\ r.body \in n[Team!Me]
      /\ \A w \in Team!Silicons : v12.seen[w] \subseteq n[w]
  BY <1>2
<1> HIDE DEF n
<1>4. /\ v12' \in Team!Histories
      /\ v12'.pub = v12.pub /\ v12'.seen = n
  BY <1>1, <1>2, <1>3 DEF Team!Histories
<1>5. TeamGrows
  BY <1>3, <1>4 DEF TeamGrows, Team!TInv, Team!Memories
<1>6. HadThen(Team!Me, r.rev, r.body)
  BY <1>4 DEF Team!Had, HadThen
<1> QED
  BY <1>1, <1>3, <1>4, <1>5, <1>6, TeamRebased

\* What Glass has now, it has had.
LEMMA TeamRemoteHad ==
  ASSUME Team!TInv, v7 # "idle"
  PROVE  Team!Remote \in Team!Entries /\ Team!Had(Team!Me, Team!Remote.rev, Team!Remote.body)
<1>1. Team!Remote \in Team!Entries /\ <<Team!Me, Team!Remote.body>> \in v12.pub
  BY TeamAtWork
<1> QED
  BY <1>1 DEF Team!Had, Team!Remote, Team!Entries

\* Steps after which the operation has nothing more to ask of the own memory.
LEMMA TeamOver ==
  ASSUME Team!TInv, v7 \in Team!Known, v7' = Team!AfterOwn, v6'.kind = v6.kind, v6'.full = v6.full
  PROVE  /\ v7' \in {"fin", "save"} /\ (Team!Whole' => Team!Whole)
<1>1. v7' = "fin" => v6.kind = "sync" /\ v6.full
  BY DEF Team!AfterOwn
<1>2. v7' \in {"fin", "save"}
  BY DEF Team!AfterOwn
<1> QED
  BY <1>1, <1>2 DEF Team!Whole, Team!Known

LEMMA TeamOwnDownStep ==
  ASSUME Team!TInv, Team!OwnDown \/ Team!ContextFails PROVE Team!TInv'
<1>0. Team!TTypeOK /\ v4 \in Team!States /\ v6 \in Team!Ops
  BY DEF Team!TInv, Team!TTypeOK
<1>1. /\ v7 \in Team!Known /\ UNCHANGED <<v1, v2, v3, v5, v9, v10, v11, v12>>
      /\ v6' = [v6 EXCEPT !.err = TRUE] \/ v6' = [v6 EXCEPT !.hid = FALSE]
      /\ v7' \in {Team!AfterOwn, "save"}
      /\ v4' = v4 \/ v4' = Team!Pending(v4)
  BY DEF Team!OwnDown, Team!ContextFails, Team!Unheard, Team!Goto, Team!Known
<1>2. /\ v6' \in Team!Ops /\ v6'.cred = v6.cred /\ v6'.kind = v6.kind /\ v6'.was = v6.was
      /\ v6'.good = v6.good /\ v6'.body = v6.body /\ v6'.full = v6.full
  BY <1>0, <1>1 DEF Team!Ops
<1>3. v7' \in {"fin", "save"} /\ (Team!Whole' => Team!Whole)
  <2>1. CASE v7' = "save"
    BY <2>1 DEF Team!Whole, Team!Known
  <2>2. CASE v7' = Team!AfterOwn
    BY <1>1, <1>2, <2>2, TeamOver
  <2> QED
    BY <1>1, <2>1, <2>2
<1>4. /\ v4' \in Team!States /\ v4'.id = v4.id /\ v4'.valid = v4.valid
      /\ v4'.ctx = v4.ctx /\ OwnFollows
  BY <1>1, TeamPends
<1>5. Team!TTypeOK'
  BY <1>0, <1>1, <1>2, <1>3, <1>4 DEF Team!TTypeOK, Team!Known
<1>6. Routine
  BY <1>1, <1>2, <1>3, <1>4 DEF Routine, Team!Known
<1>7. TeamGrows /\ Drafted
  BY <1>1, TeamStill, TeamAlike
<1> QED
  BY <1>3, <1>4, <1>5, <1>6, <1>7, TeamOwnStep

\* update_own_advertising_memory writes the draft and goes on as its base allows.
LEMMA TeamWriteStep ==
  ASSUME Team!TInv, Team!Write PROVE Team!TInv'
<1>0. /\ Team!TTypeOK /\ v4 \in Team!States /\ v5 \in Team!Disks /\ v6 \in Team!Ops
      /\ v11 \in [Team!Silicons -> Team!Files] /\ v7 \in Team!Known /\ v7 = "write"
  BY DEF Team!TInv, Team!TTypeOK, Team!Write, Team!Known
<1>1. /\ v6.kind = "update" /\ v6.body \in Nat /\ Team!Me \in Team!Silicons
      /\ v6.body \in Team!Files
  BY <1>0, TeamOwner DEF Team!TInv, Team!Operating, Team!Files
<1>2. /\ UNCHANGED <<v1, v2, v3, v9, v10, v12>>
      /\ v5' = [v5 EXCEPT !.own[Team!Me] = v6.body]
      /\ v11' = [v11 EXCEPT ![Team!Me] = v6.body]
  BY DEF Team!Write, Team!LastDraft
<1>3. /\ v5' \in Team!Disks /\ v5'.arch = v5.arch /\ v5'.team = v5.team
      /\ v5.block => v5'.block
      /\ v11' \in [Team!Silicons -> Team!Files]
      /\ \A w \in Team!Silicons : \/ v5'.own[w] = v11'[w]
                                  \/ v11'[w] = v11[w] /\ v5'.own[w] = v5.own[w]
  <2> DEFINE n == [v5.own EXCEPT ![Team!Me] = v6.body]
  <2>1. v5.own \in [Team!Silicons -> Team!Files] /\ v5' = [v5 EXCEPT !.own = n]
    BY <1>0, <1>2 DEF Team!Disks
  <2>2. /\ n \in [Team!Silicons -> Team!Files] /\ n[Team!Me] = v6.body
        /\ \A w \in Team!Silicons \ {Team!Me} : n[w] = v5.own[w]
    BY <1>1, <2>1
  <2>3. /\ v11' \in [Team!Silicons -> Team!Files] /\ v11'[Team!Me] = v6.body
        /\ \A w \in Team!Silicons \ {Team!Me} : v11'[w] = v11[w]
    BY <1>0, <1>1, <1>2
  <2> HIDE DEF n
  <2>4. /\ v5' \in Team!Disks /\ v5'.arch = v5.arch /\ v5'.team = v5.team
        /\ v5.block => v5'.block
        /\ v5'.own = n
    BY <1>0, <2>1, <2>2 DEF Team!Disks
  <2> QED
    BY <2>2, <2>3, <2>4
<1>4. \/ v7' = "save" /\ v6' = v6 /\ v4' = [v4 EXCEPT !.own.who = Team!Me, !.own.st = "pending"]
      \/ v7' = "save" /\ v6' = v6 /\ v4' = [v4 EXCEPT !.own = Team!Marked(@, @.crev)]
      \/ /\ v7' = "put" /\ v6' = [v6 EXCEPT !.exp = v4.own.brev] /\ v4' = v4
         /\ Team!Based(v4.own)
      \/ v7' = "fetch" /\ v6' = v6 /\ v4' = v4
  BY DEF Team!Write, Team!Goto
<1>5. /\ v6' \in Team!Ops /\ v6'.cred = v6.cred /\ v6'.kind = v6.kind /\ v6'.was = v6.was
      /\ v6'.good = v6.good /\ v6'.body = v6.body
      /\ v7' = "put" => v6'.exp = v4.own.brev
  BY <1>0, <1>4 DEF Team!Ops, Team!States, Team!OwnRecords
<1>6. /\ v4' \in Team!States /\ v4'.id = v4.id /\ v4'.valid = v4.valid
      /\ v4'.ctx = v4.ctx /\ OwnFollows
  <2>1. CASE v4' = v4 \/ v4' = [v4 EXCEPT !.own.who = Team!Me, !.own.st = "pending"]
    BY <1>0, <2>1, TeamPendsSo
  <2>2. CASE v4' = [v4 EXCEPT !.own = Team!Marked(@, @.crev)]
    <3>1. v4' = [v4 EXCEPT !.own = Team!Marked(v4.own, v4.own.crev)]
      BY <1>0, <2>2 DEF Team!States
    <3>2. Remarked(Team!Marked(v4.own, v4.own.crev))
      BY <1>0, TeamMarks DEF Team!States, Team!OwnRecords
    <3> QED
      BY <1>0, <3>1, <3>2, TeamRemarked
  <2> QED
    BY <1>4, <2>1, <2>2
<1>7. Team!TTypeOK'
  BY <1>0, <1>2, <1>3, <1>4, <1>5, <1>6 DEF Team!TTypeOK
<1>8. Routine
  <2>1. ~Team!Whole'
    BY <1>1, <1>4, <1>5 DEF Team!Whole, Team!Known
  <2>2. Team!Content' \in Nat
    BY <1>1, <1>5 DEF Team!Content
  <2> QED
    BY <1>0, <1>1, <1>2, <1>3, <1>4, <1>5, <1>6, <2>1, <2>2 DEF Routine, Team!Known
<1>9. TeamGrows /\ Drafted
  BY <1>2, <1>3, TeamStill DEF Drafted
<1>10. ASSUME v7' = "put" PROVE Team!Replaces'
  <2>1. v6'.exp = v4.own.brev /\ v4.own.base # Team!Absent /\ v4.own.who = Team!Me
    BY <1>4, <1>5, <1>10 DEF Team!Based
  <2>2. /\ Team!Had(Team!Me, v4.own.brev, v4.own.base)
        /\ v4.own.base \in v12.seen[Team!Me]
    BY <2>1 DEF Team!TInv, Team!Memories, Team!BaseHad
  <2>3. Team!Me' = Team!Me /\ v1' = v1 /\ v12' = v12
    BY <1>2, <1>5 DEF Team!Me
  <2> QED
    BY <2>1, <2>2, <2>3 DEF Team!Replaces, Team!Had, Team!Remote
<1> QED
  BY <1>4, <1>7, <1>8, <1>6, <1>9, <1>10, TeamOwnStep

LEMMA TeamFetchStep ==
  ASSUME Team!TInv, Team!Fetch PROVE Team!TInv'
<1>0. /\ Team!TTypeOK /\ v4 \in Team!States /\ v6 \in Team!Ops /\ v7 \in Team!Known
      /\ v7 = "fetch" /\ v7 # "idle" /\ v12 \in Team!Histories
  BY DEF Team!TInv, Team!TTypeOK, Team!Fetch, Team!Known
<1>1. v6.kind = "update" /\ v6.body \in Nat
  BY <1>0 DEF Team!TInv, Team!Operating
<1>2. /\ UNCHANGED <<v1, v2, v3, v5, v9, v10, v11>>
      /\ \/ v7' = "save" /\ Team!Adopt(Team!Remote) /\ v6' = v6
         \/ /\ v7' = "put" /\ v6' = [v6 EXCEPT !.exp = Team!Remote.rev] /\ v4' = v4 /\ v12' = v12
            /\ v6.res \/ Team!Remote = [rev |-> 0, body |-> Team!Empty]
         \/ /\ v7' = "save" /\ v4' = [v4 EXCEPT !.own = Team!Marked(@, Team!Remote.rev)]
            /\ v6' = v6 /\ v12' = v12
  BY DEF Team!Fetch, Team!Goto
<1>3. Team!Remote \in Team!Entries /\ Team!Had(Team!Me, Team!Remote.rev, Team!Remote.body)
  BY <1>0, TeamRemoteHad
<1>4. /\ v6' \in Team!Ops /\ v6'.cred = v6.cred /\ v6'.kind = v6.kind /\ v6'.was = v6.was
      /\ v6'.good = v6.good /\ v6'.body = v6.body /\ v6'.res = v6.res
      /\ v7' = "put" => v6'.exp = Team!Remote.rev
  BY <1>0, <1>2, <1>3 DEF Team!Ops, Team!Entries
<1>5. /\ v4' \in Team!States /\ v4'.id = v4.id /\ v4'.valid = v4.valid
      /\ v4'.ctx = v4.ctx /\ OwnFollows /\ v12' \in Team!Histories /\ TeamGrows
  <2>1. CASE Team!Adopt(Team!Remote)
    BY <1>0, <1>2, <1>3, <2>1, TeamAdopts
  <2>2. CASE v4' = v4 /\ v12' = v12
    BY <1>0, <1>2, <2>2, TeamStill, TeamPends
  <2>3. CASE v4' = [v4 EXCEPT !.own = Team!Marked(@, Team!Remote.rev)] /\ v12' = v12
    <3>1. v4' = [v4 EXCEPT !.own = Team!Marked(v4.own, Team!Remote.rev)]
      BY <1>0, <2>3 DEF Team!States
    <3>2. Remarked(Team!Marked(v4.own, Team!Remote.rev))
      BY <1>0, <1>3, TeamMarks DEF Team!Entries
    <3> QED
      BY <1>0, <1>2, <2>3, <3>1, <3>2, TeamRemarked, TeamStill
  <2> QED
    BY <1>2, <2>1, <2>2, <2>3
<1>6. Team!TTypeOK'
  BY <1>0, <1>2, <1>4, <1>5 DEF Team!TTypeOK
<1>7. Routine /\ Drafted
  <2>1. ~Team!Whole' /\ Team!Content' \in Nat
    BY <1>1, <1>2, <1>4 DEF Team!Whole, Team!Known, Team!Content
  <2> QED
    BY <1>0, <1>1, <1>2, <1>4, <1>5, <2>1, TeamAlike DEF Routine, Team!Known
<1>8. ASSUME v7' = "put", ~v6'.res PROVE Team!Replaces'
  <2>1. Team!Remote.body = Team!Empty /\ v6'.exp = Team!Remote.rev
    BY <1>2, <1>4, <1>8
  <2>2. Team!Remote' = Team!Remote
    BY <1>2, <1>4 DEF Team!Remote, Team!Me
  <2> QED
    BY <1>3, <2>1, <2>2 DEF Team!Replaces, Team!Entries
<1> QED
  BY <1>2, <1>5, <1>6, <1>7, <1>8, TeamOwnStep

\* Glass takes a PUT: what it had is replaced by a later revision.
LEMMA TeamAccepted ==
  ASSUME Team!TInv, Team!Accepts, v5' = v5, NEW S,
         S = v12.seen \/ S = [v12.seen EXCEPT ![Team!Me] = @ \cup {Team!Content}],
         v12' = [v12 EXCEPT !.seen = S, !.pub = @ \cup {<<Team!Me, Team!Content>>}]
  PROVE  /\ v1' \in Team!Services /\ v12' \in Team!Histories /\ TeamGrows
         /\ v12'.seen = S
         /\ v1'.own[Team!Me] \in Team!Entries /\ v1'.own[Team!Me].body = Team!Content
         /\ HadThen(Team!Me, v1'.own[Team!Me].rev, Team!Content)
<1>0. /\ v1 \in Team!Services /\ v12 \in Team!Histories /\ Team!Content \in Nat
      /\ Team!Me \in Team!Silicons /\ v1.own \in [Team!Silicons -> Team!Entries]
      /\ v12.seen \in [Team!Silicons -> SUBSET Nat]
      /\ Team!Remote = v1.own[Team!Me]
  BY TeamAtWork DEF Team!Accepts, Team!TInv, Team!TTypeOK, Team!Operating, Team!Services,
     Team!Histories, Team!Remote
<1> DEFINE e == IF Team!Remote.body = Team!Content THEN Team!Remote
                ELSE [rev |-> Team!Remote.rev + 1, body |-> Team!Content]
           n == [v1.own EXCEPT ![Team!Me] = e]
<1>1. /\ e \in Team!Entries /\ e.body = Team!Content
      /\ e = v1.own[Team!Me] \/ e.rev > v1.own[Team!Me].rev
  BY <1>0 DEF Team!Entries
<1>2. v1' = [v1 EXCEPT !.own = n]
  <2>1. CASE Team!Remote.body = Team!Content
    <3>1. v1' = v1 /\ n = v1.own
      BY <1>0, <2>1 DEF Team!Accepts
    <3> HIDE DEF n
    <3> QED
      BY <1>0, <3>1 DEF Team!Services
  <2>2. CASE Team!Remote.body # Team!Content
    BY <1>0, <2>2 DEF Team!Accepts, Team!Services
  <2> QED
    BY <2>1, <2>2
<1> HIDE DEF e
<1>3. /\ n \in [Team!Silicons -> Team!Entries] /\ n[Team!Me] = e
      /\ \A w \in Team!Silicons \ {Team!Me} : n[w] = v1.own[w]
  BY <1>0, <1>1
<1> HIDE DEF n
<1>4. v1' \in Team!Services /\ v1'.own = n
  BY <1>0, <1>2, <1>3 DEF Team!Services
<1>5. /\ S \in [Team!Silicons -> SUBSET Nat]
      /\ \A w \in Team!Silicons : v12.seen[w] \subseteq S[w]
  BY <1>0
<1>6. /\ v12' \in Team!Histories /\ v12'.seen = S
      /\ v12'.pub = v12.pub \cup {<<Team!Me, Team!Content>>}
  <2> DEFINE p == v12.pub \cup {<<Team!Me, Team!Content>>}
  <2>1. p \in SUBSET (Team!Silicons \X Team!Files)
    BY <1>0 DEF Team!Histories, Team!Files
  <2>2. v12' = [v12 EXCEPT !.seen = S, !.pub = p]
    OBVIOUS
  <2> HIDE DEF p
  <2>3. v12' \in Team!Histories /\ v12'.seen = S /\ v12'.pub = p
    BY <1>0, <1>5, <2>1, <2>2 DEF Team!Histories
  <2> QED
    BY <2>3 DEF p
<1>7. \A w \in Team!Silicons : <<w, v1.own[w].body>> \in v12.pub
  BY DEF Team!TInv, Team!Memories
<1>8. TeamGrows
  BY <1>1, <1>3, <1>4, <1>5, <1>6, <1>7 DEF TeamGrows
<1>9. HadThen(Team!Me, v1'.own[Team!Me].rev, Team!Content)
  BY <1>1, <1>3, <1>4, <1>6 DEF HadThen, Team!Entries
<1> QED
  BY <1>1, <1>3, <1>4, <1>6, <1>8, <1>9

LEMMA TeamPutStep ==
  ASSUME Team!TInv, Team!Put \/ Team!PutUnheard PROVE Team!TInv'
<1>0. /\ Team!TTypeOK /\ v4 \in Team!States /\ v6 \in Team!Ops /\ v7 \in Team!Known
      /\ v7 = "put" /\ v12 \in Team!Histories /\ v12.seen \in [Team!Silicons -> SUBSET Nat]
      /\ Team!Me \in Team!Silicons /\ Team!Accepts
  <2>1. v7 = "put" /\ v7 \in Team!Known /\ Team!Accepts
    BY DEF Team!Put, Team!PutUnheard, Team!Accepts, Team!Known
  <2> QED
    BY <2>1, TeamOwner DEF Team!TInv, Team!TTypeOK, Team!Histories
<1> DEFINE S == [v12.seen EXCEPT ![Team!Me] = @ \cup {Team!Content}]
<1>1. /\ UNCHANGED <<v2, v3, v5, v9, v10, v11>> /\ v7' = Team!AfterOwn
      /\ v6' = v6 \/ v6' = [v6 EXCEPT !.err = TRUE]
      /\ \/ /\ v4' = [v4 EXCEPT !.own = Team!SetBase(v1'.own[Team!Me])]
            /\ v12' = [v12 EXCEPT !.seen = S, !.pub = @ \cup {<<Team!Me, Team!Content>>}]
         \/ /\ v4' = Team!Pending(v4)
            /\ v12' = [v12 EXCEPT !.pub = @ \cup {<<Team!Me, Team!Content>>}]
  <2>1. CASE Team!Put
    BY <2>1 DEF Team!Put, Team!Goto
  <2>2. CASE Team!PutUnheard
    BY <2>2 DEF Team!PutUnheard, Team!Unheard, Team!Goto
  <2> QED
    BY <2>1, <2>2
<1>2. /\ v6' \in Team!Ops /\ v6'.cred = v6.cred /\ v6'.kind = v6.kind /\ v6'.was = v6.was
      /\ v6'.good = v6.good /\ v6'.body = v6.body /\ v6'.full = v6.full
  BY <1>0, <1>1 DEF Team!Ops
<1>3. v7' \in {"fin", "save"} /\ (Team!Whole' => Team!Whole)
  BY <1>0, <1>1, <1>2, TeamOver
<1>4. /\ v4' \in Team!States /\ v4'.id = v4.id /\ v4'.valid = v4.valid
      /\ v4'.ctx = v4.ctx /\ OwnFollows
      /\ v1' \in Team!Services /\ v12' \in Team!Histories /\ TeamGrows
  <2>1. CASE /\ v4' = [v4 EXCEPT !.own = Team!SetBase(v1'.own[Team!Me])]
             /\ v12' = [v12 EXCEPT !.seen = S, !.pub = @ \cup {<<Team!Me, Team!Content>>}]
    <3>1. /\ v1' \in Team!Services /\ v12' \in Team!Histories /\ TeamGrows
          /\ v12'.seen = S /\ v1'.own[Team!Me] \in Team!Entries
          /\ v1'.own[Team!Me].body = Team!Content
          /\ HadThen(Team!Me, v1'.own[Team!Me].rev, Team!Content)
      BY <1>0, <1>1, <2>1, TeamAccepted
    <3>2. Team!Content \in v12'.seen[Team!Me]
      BY <1>0, <3>1
    <3> HIDE DEF S
    <3> QED
      BY <1>0, <2>1, <3>1, <3>2, TeamRebased
  <2>2. CASE /\ v4' = Team!Pending(v4)
             /\ v12' = [v12 EXCEPT !.pub = @ \cup {<<Team!Me, Team!Content>>}]
    <3>1. v12' = [v12 EXCEPT !.seen = v12.seen, !.pub = @ \cup {<<Team!Me, Team!Content>>}]
      BY <1>0, <2>2 DEF Team!Histories
    <3>2. v1' \in Team!Services /\ v12' \in Team!Histories /\ TeamGrows
      BY <1>0, <1>1, <3>1, TeamAccepted
    <3> QED
      BY <1>0, <2>2, <3>2, TeamPends
  <2> QED
    BY <1>1, <2>1, <2>2
<1>5. Team!TTypeOK'
  BY <1>0, <1>1, <1>2, <1>3, <1>4 DEF Team!TTypeOK
<1>6. Routine /\ Drafted
  BY <1>0, <1>1, <1>2, <1>3, <1>4, TeamAlike DEF Routine, Team!Known
<1> QED
  BY <1>3, <1>4, <1>5, <1>6, TeamOwnStep

LEMMA TeamPutRefusedStep ==
  ASSUME Team!TInv, Team!PutRefused PROVE Team!TInv'
<1>0. /\ Team!TTypeOK /\ v6 \in Team!Ops /\ v7 = "put" /\ v7 \in Team!Known /\ v7 # "idle"
  BY DEF Team!TInv, Team!TTypeOK, Team!PutRefused, Team!Known
<1>1. /\ UNCHANGED <<v1, v2, v3, v4, v5, v9, v10, v11, v12>> /\ v7' = "refused"
      /\ v6' = [v6 EXCEPT !.exp = Team!Remote.rev] /\ Team!Remote.rev \in Nat
  BY <1>0, TeamRemoteHad DEF Team!PutRefused, Team!Goto, Team!Entries
<1>2. /\ v6' \in Team!Ops /\ v6'.cred = v6.cred /\ v6'.kind = v6.kind /\ v6'.was = v6.was
      /\ v6'.good = v6.good /\ v6'.body = v6.body /\ v6'.full = v6.full
  BY <1>0, <1>1 DEF Team!Ops
<1>3. Team!TTypeOK'
  BY <1>0, <1>1, <1>2 DEF Team!TTypeOK
<1>4. Routine /\ Drafted /\ OwnFollows /\ TeamGrows
  BY <1>0, <1>1, <1>2, TeamAlike, TeamStill
     DEF Routine, Team!Known, Team!Whole, OwnFollows, SameBase
<1> QED
  BY <1>1, <1>3, <1>4, TeamOwnStep

LEMMA TeamCompareStep ==
  ASSUME Team!TInv, Team!Compare PROVE Team!TInv'
<1>0. /\ Team!TTypeOK /\ v4 \in Team!States /\ v6 \in Team!Ops /\ v7 \in Team!Known
      /\ v7 = "refused" /\ v7 # "idle" /\ v12 \in Team!Histories
  BY DEF Team!TInv, Team!TTypeOK, Team!Compare, Team!Known
<1>1. Team!Remote \in Team!Entries /\ Team!Had(Team!Me, Team!Remote.rev, Team!Remote.body)
  BY <1>0, TeamRemoteHad
<1>2. /\ UNCHANGED <<v1, v2, v3, v5, v6, v9, v10, v11>> /\ v7' = Team!AfterOwn
      /\ \/ Team!Adopt(Team!Remote)
         \/ \E r \in Int : v4' = [v4 EXCEPT !.own = Team!Marked(@, r)] /\ v12' = v12
  <2>1. Team!Remote.rev \in Int /\ v6.exp \in Int
    BY <1>0, <1>1 DEF Team!Entries, Team!Ops
  <2> QED
    BY <2>1 DEF Team!Compare, Team!Goto
<1>3. v7' \in {"fin", "save"} /\ (Team!Whole' => Team!Whole)
  BY <1>0, <1>2, TeamOver
<1>4. /\ v4' \in Team!States /\ v4'.id = v4.id /\ v4'.valid = v4.valid
      /\ v4'.ctx = v4.ctx /\ OwnFollows /\ v12' \in Team!Histories /\ TeamGrows
  <2>1. CASE Team!Adopt(Team!Remote)
    BY <1>0, <1>1, <1>2, <2>1, TeamAdopts
  <2>2. ASSUME NEW r \in Int, v4' = [v4 EXCEPT !.own = Team!Marked(@, r)], v12' = v12
        PROVE  /\ v4' \in Team!States /\ v4'.id = v4.id /\ v4'.valid = v4.valid
               /\ v4'.ctx = v4.ctx /\ OwnFollows /\ v12' \in Team!Histories /\ TeamGrows
    <3>1. v4' = [v4 EXCEPT !.own = Team!Marked(v4.own, r)]
      BY <1>0, <2>2 DEF Team!States
    <3>2. Remarked(Team!Marked(v4.own, r))
      BY <1>0, TeamMarks
    <3> QED
      BY <1>0, <1>2, <2>2, <3>1, <3>2, TeamRemarked, TeamStill
  <2> QED
    BY <1>2, <2>1, <2>2
<1>5. Team!TTypeOK'
  BY <1>0, <1>2, <1>3, <1>4 DEF Team!TTypeOK
<1>6. Routine /\ Drafted
  BY <1>0, <1>2, <1>3, <1>4, TeamAlike DEF Routine, Team!Known
<1> QED
  BY <1>3, <1>4, <1>5, <1>6, TeamOwnStep

\* _sync_own: what each plan says of the file, its base and the manifest's entry.
LEMMA TeamPlan ==
  ASSUME NEW o, NEW f, NEW e, NEW plan, plan = Team!Plan(o, f, e)
  PROVE  /\ plan \in {"down", "base", "mark", "put", "conflict"}
         /\ plan = "down" => f = Team!Absent \/ (Team!Based(o) /\ f = o.base)
         /\ plan = "put" => /\ f # Team!Absent
                            /\ \/ e = [rev |-> 0, body |-> Team!Empty]
                               \/ Team!Based(o) /\ e.body = o.base
<1>1. CASE f = Team!Absent
  BY <1>1 DEF Team!Plan
<1>2. CASE f # Team!Absent /\ o.st = "conflict"
  <2>1. plan = IF f = e.body /\ e.rev >= o.crev THEN "base" ELSE "mark"
    BY <1>2 DEF Team!Plan
  <2> QED
    BY <2>1
<1>3. CASE f # Team!Absent /\ o.st # "conflict" /\ f = e.body
  BY <1>3 DEF Team!Plan
<1>4. CASE f # Team!Absent /\ o.st # "conflict" /\ f # e.body /\ ~Team!Based(o)
  <2>1. plan = IF e = [rev |-> 0, body |-> Team!Empty] THEN "put" ELSE "conflict"
    BY <1>4 DEF Team!Plan
  <2> QED
    BY <1>4, <2>1
<1>5. CASE f # Team!Absent /\ o.st # "conflict" /\ f # e.body /\ Team!Based(o)
  BY <1>5 DEF Team!Plan
<1> QED
  BY <1>1, <1>2, <1>3, <1>4, <1>5

LEMMA TeamSyncOwnStep ==
  ASSUME Team!TInv, Team!SyncOwn PROVE Team!TInv'
<1> DEFINE f == v5.own[Team!Me]
           o == Team!Mine(v4.own)
           plan == Team!Plan(o, f, v6.ent)
<1>0. /\ Team!TTypeOK /\ v4 \in Team!States /\ v6 \in Team!Ops /\ v7 \in Team!Known
      /\ v7 = "own" /\ v7 # "idle" /\ v12 \in Team!Histories
  BY DEF Team!TInv, Team!TTypeOK, Team!SyncOwn, Team!Known
<1>1. /\ f \in Team!Files /\ v6.ent \in Team!Entries /\ Team!Me \in Team!Silicons
      /\ Team!Had(Team!Me, v6.ent.rev, v6.ent.body)
  BY <1>0, TeamAtWork DEF Team!Ops, Team!TInv, Team!Memories
<1>2. /\ UNCHANGED <<v1, v2, v3, v5, v9, v10, v11>>
      /\ v7' = IF plan \in {"down", "put"} THEN plan ELSE Team!AfterOwn
      /\ v6' = [v6 EXCEPT !.found = f, !.exp = v6.ent.rev,
                          !.err = @ \/ plan \in {"mark", "conflict"}]
      /\ \/ plan = "base" /\ Team!Adopt(v6.ent)
         \/ /\ v12' = v12
            /\ \/ v4' = [v4 EXCEPT !.own = Team!Marked(o, v6.ent.rev)]
               \/ v4' = [v4 EXCEPT !.own = [o EXCEPT !.st = "conflict"]]
               \/ v4' = [v4 EXCEPT !.own = o]
  BY DEF Team!SyncOwn, Team!Goto
<1>3. /\ plan \in {"down", "base", "mark", "put", "conflict"}
      /\ plan = "down" => f = Team!Absent \/ (Team!Based(o) /\ f = o.base)
      /\ plan = "put" => /\ f # Team!Absent
                         /\ \/ v6.ent = [rev |-> 0, body |-> Team!Empty]
                            \/ Team!Based(o) /\ v6.ent.body = o.base
  BY TeamPlan
<1>4. Team!Based(o) =>
        /\ v4.own.base = o.base /\ Team!Had(Team!Me, v4.own.brev, o.base)
        /\ o.base \in v12.seen[Team!Me]
  <2> SUFFICES ASSUME Team!Based(o)
               PROVE  /\ v4.own.base = o.base /\ Team!Had(Team!Me, v4.own.brev, o.base)
                      /\ o.base \in v12.seen[Team!Me]
    OBVIOUS
  <2>1. o = v4.own /\ v4.own.who = Team!Me /\ v4.own.base # Team!Absent
    BY TeamNothing DEF Team!Based, Team!Mine, Team!Absent
  <2> QED
    BY <2>1 DEF Team!TInv, Team!Memories, Team!BaseHad
<1> HIDE DEF f, o, plan
<1>5. /\ v6' \in Team!Ops /\ v6'.cred = v6.cred /\ v6'.kind = v6.kind /\ v6'.was = v6.was
      /\ v6'.good = v6.good /\ v6'.body = v6.body /\ v6'.full = v6.full
      /\ v6'.found = f /\ v6'.exp = v6.ent.rev
  <2>1. (v6.err \/ plan \in {"mark", "conflict"}) \in BOOLEAN /\ v6.ent.rev \in Nat
    BY <1>1 DEF Team!Entries
  <2> QED
    BY <1>0, <1>1, <1>2, <2>1 DEF Team!Ops
<1>6. /\ v4' \in Team!States /\ v4'.id = v4.id /\ v4'.valid = v4.valid
      /\ v4'.ctx = v4.ctx /\ OwnFollows /\ v12' \in Team!Histories /\ TeamGrows
  <2>1. CASE Team!Adopt(v6.ent)
    BY <1>0, <1>1, <1>2, <2>1, TeamAdopts
  <2>2. ASSUME NEW n, Remarked(n), v4' = [v4 EXCEPT !.own = n], v12' = v12
        PROVE  /\ v4' \in Team!States /\ v4'.id = v4.id /\ v4'.valid = v4.valid
               /\ v4'.ctx = v4.ctx /\ OwnFollows /\ v12' \in Team!Histories /\ TeamGrows
    BY <1>0, <1>2, <2>2, TeamRemarked, TeamStill
  <2>3. /\ Remarked(o) /\ Remarked([o EXCEPT !.st = "conflict"])
        /\ Remarked(Team!Marked(o, v6.ent.rev))
    <3>1. Remarked(o) /\ v6.ent.rev \in Int
      BY <1>0, <1>1, TeamMarks DEF o, Team!Entries
    <3> QED
      BY <1>0, <3>1, TeamMarks
  <2> QED
    BY <1>2, <2>1, <2>2, <2>3
<1>7. v7' \in {"down", "put", "fin", "save"} /\ (Team!Whole' => Team!Whole)
  <2>1. CASE v7' = Team!AfterOwn
    BY <1>0, <1>5, <2>1, TeamOver
  <2>2. CASE v7' \in {"down", "put"}
    BY <1>0, <1>5, <2>2 DEF Team!Whole, Team!Known
  <2> QED
    BY <1>2, <2>1, <2>2
<1>8. Team!TTypeOK'
  BY <1>0, <1>2, <1>5, <1>6, <1>7 DEF Team!TTypeOK
<1>9. ASSUME v7' = "put"
      PROVE  /\ f \in Nat
             /\ \/ v6.ent = [rev |-> 0, body |-> Team!Empty]
                \/ Team!Based(o) /\ v6.ent.body = o.base
  <2>1. plan = "put"
    BY <1>2, <1>9 DEF Team!AfterOwn
  <2> QED
    BY <1>1, <1>3, <2>1 DEF Team!Files
<1>10. Routine /\ Drafted
  <2>1. v7' = "put" => Team!Content' \in Nat
    BY <1>5, <1>9 DEF Team!Content, Team!TInv, Team!Operating
  <2> QED
    BY <1>0, <1>2, <1>5, <1>6, <1>7, <2>1, TeamAlike DEF Routine, Team!Known
<1>11. ASSUME v7' = "put" PROVE Team!Replaces'
  <2>1. Team!Remote' = Team!Remote /\ Team!Me' = Team!Me
    BY <1>2, <1>5 DEF Team!Remote, Team!Me
  <2>2. /\ v6.ent.rev <= Team!Remote.rev
        /\ v6.ent.rev = Team!Remote.rev => v6.ent.body = Team!Remote.body
    BY <1>1 DEF Team!Had, Team!Remote
  <2>3. v6.ent.body \in v12'.seen[Team!Me] \cup {Team!Empty}
    <3>1. CASE v6.ent = [rev |-> 0, body |-> Team!Empty]
      BY <3>1
    <3>2. CASE Team!Based(o) /\ v6.ent.body = o.base
      BY <1>1, <1>4, <1>6, <3>2 DEF TeamGrows
    <3> QED
      BY <1>9, <1>11, <3>1, <3>2
  <2> QED
    BY <1>5, <2>1, <2>2, <2>3 DEF Team!Replaces
<1>12. ASSUME v7' = "down" PROVE v11'[Team!Me'] = -1 \/ Team!Kept(Team!Me)'
  <2> SUFFICES ASSUME v11[Team!Me] # -1 PROVE Team!Kept(Team!Me)
    <3>1. Team!Me' = Team!Me /\ v11' = v11 /\ v5' = v5 /\ v12.pub \subseteq v12'.pub
      BY <1>2, <1>5, <1>6 DEF Team!Me, TeamGrows
    <3> QED
      BY <3>1 DEF Team!Kept
  <2>1. plan = "down"
    BY <1>2, <1>12 DEF Team!AfterOwn
  <2>2. CASE f = Team!Absent
    BY <1>1, <2>2, TeamNothing DEF Team!TInv, Team!DraftsKept, f
  <2>3. CASE Team!Based(o) /\ f = o.base
    <3>1. <<Team!Me, f>> \in v12.pub
      BY <1>4, <2>3 DEF Team!Had
    <3> QED
      BY <1>1, <3>1, TeamNothing DEF Team!TInv, Team!DraftsKept, Team!Kept, f
  <2> QED
    BY <1>3, <2>1, <2>2, <2>3
<1> QED
  BY <1>6, <1>7, <1>8, <1>10, <1>11, <1>12, TeamOwnStep

\* The file takes what Glass has; the draft it replaces was kept.
LEMMA TeamDownloadStep ==
  ASSUME Team!TInv, Team!Download PROVE Team!TInv'
<1>0. /\ Team!TTypeOK /\ v5 \in Team!Disks /\ v6 \in Team!Ops /\ v7 \in Team!Known
      /\ v7 = "down" /\ v7 # "idle" /\ v11 \in [Team!Silicons -> Team!Files]
  BY DEF Team!TInv, Team!TTypeOK, Team!Download, Team!Known
<1>1. /\ Team!Me \in Team!Silicons /\ Team!Remote \in Team!Entries
      /\ Team!Had(Team!Me, Team!Remote.rev, Team!Remote.body)
  BY <1>0, TeamAtWork, TeamRemoteHad
<1>2. /\ UNCHANGED <<v1, v2, v3, v6, v9, v10, v11>> /\ v7' = Team!AfterOwn
      /\ v5' = [v5 EXCEPT !.own[Team!Me] = Team!Remote.body] /\ Team!Adopt(Team!Remote)
  BY DEF Team!Download, Team!Goto
<1>3. /\ v5' \in Team!Disks /\ v5'.arch = v5.arch /\ v5'.team = v5.team
      /\ v5.block => v5'.block
      /\ \A w \in Team!Silicons \ {Team!Me} : v5'.own[w] = v5.own[w]
  <2> DEFINE n == [v5.own EXCEPT ![Team!Me] = Team!Remote.body]
  <2>1. v5.own \in [Team!Silicons -> Team!Files] /\ Team!Remote.body \in Team!Files
    BY <1>0, <1>1 DEF Team!Disks, Team!Entries, Team!Files
  <2>2. v5' = [v5 EXCEPT !.own = n]
    BY <1>0, <1>2 DEF Team!Disks
  <2>3. /\ n \in [Team!Silicons -> Team!Files]
        /\ \A w \in Team!Silicons \ {Team!Me} : n[w] = v5.own[w]
    BY <1>1, <2>1
  <2> HIDE DEF n
  <2>4. /\ v5' \in Team!Disks /\ v5'.own = n /\ v5'.arch = v5.arch /\ v5'.team = v5.team
        /\ v5.block => v5'.block
    BY <1>0, <2>2, <2>3 DEF Team!Disks
  <2> QED
    BY <2>3, <2>4
<1>4. /\ v4' \in Team!States /\ v4'.id = v4.id /\ v4'.valid = v4.valid
      /\ v4'.ctx = v4.ctx /\ OwnFollows /\ v12' \in Team!Histories /\ TeamGrows
  BY <1>0, <1>1, <1>2, <1>3, TeamAdopts
<1>5. v7' \in {"fin", "save"} /\ (Team!Whole' => Team!Whole)
  BY <1>0, <1>2, TeamOver
<1>6. Team!TTypeOK'
  BY <1>0, <1>2, <1>3, <1>4, <1>5 DEF Team!TTypeOK
<1>7. Routine
  BY <1>0, <1>2, <1>3, <1>4, <1>5 DEF Routine, Team!Known
<1>8. Drafted
  <2>1. v11[Team!Me] = -1 \/ Team!Kept(Team!Me)
    BY <1>0, TeamNothing DEF Team!TInv, Team!Memories
  <2> QED
    BY <1>2, <1>3, <2>1 DEF Drafted
<1> QED
  BY <1>4, <1>5, <1>6, <1>7, <1>8, TeamOwnStep

\* The team's context is for the credential that has just been answered.
LEMMA TeamContextStep ==
  ASSUME Team!TInv, Team!Context PROVE Team!TInv'
<1> DEFINE c == [who |-> v6.cred, rev |-> v1.team, peer |-> v1.peer, own |-> Team!Remote]
<1>0. /\ Team!TTypeOK /\ v4 \in Team!States /\ v5 \in Team!Disks /\ v6 \in Team!Ops
      /\ v1 \in Team!Services /\ v7 = "ctx" /\ v7 \in Team!Known /\ v7 # "idle"
  BY DEF Team!TInv, Team!TTypeOK, Team!Context, Team!Known
<1>1. /\ v6.cred \in TeamCreds /\ v6.cred \in Team!AnyCred /\ Team!Remote \in Team!Entries
      /\ Team!Had(Team!Me, Team!Remote.rev, Team!Remote.body)
      /\ Team!Me \in Team!Silicons
  BY <1>0, TeamAtWork, TeamRemoteHad, TeamNone
<1>2. /\ UNCHANGED <<v1, v2, v3, v9, v10, v11, v12>> /\ v7' = "peers"
      /\ v5' = [v5 EXCEPT !.team = Team!Stamp(c)] /\ v4' = [v4 EXCEPT !.ctx = c]
      /\ v6' = [v6 EXCEPT !.ent = Team!Remote]
  BY DEF Team!Context, Team!Goto
<1>3. /\ c \in [who : Team!AnyCred, rev : Nat, peer : Nat, own : Team!Entries]
      /\ c.who = v6.cred /\ c.own = Team!Remote /\ Team!Stamp(c) \in Team!Stamps
  BY <1>0, <1>1 DEF Team!Services, Team!Stamp, Team!Stamps
<1> HIDE DEF c
<1>4. /\ v4' \in Team!States /\ v4'.id = v4.id /\ v4'.own = v4.own /\ v4'.ctx = c
      /\ v4'.valid = v4.valid
  BY <1>0, <1>2, <1>3 DEF Team!States
<1>5. /\ v5' \in Team!Disks /\ v5'.own = v5.own /\ v5'.arch = v5.arch
      /\ v5'.block = v5.block /\ v5'.team = Team!Stamp(c)
  BY <1>0, <1>2, <1>3 DEF Team!Disks
<1>6. /\ v6' \in Team!Ops /\ v6'.cred = v6.cred /\ v6'.kind = v6.kind /\ v6'.was = v6.was
      /\ v6'.good = v6.good /\ v6'.body = v6.body /\ v6'.ent = Team!Remote
  BY <1>0, <1>1, <1>2 DEF Team!Ops
<1>7. Team!TTypeOK'
  BY <1>0, <1>2, <1>4, <1>5, <1>6 DEF Team!TTypeOK
<1>8. v6.cred \notin v10
  BY <1>0 DEF Team!TInv, Team!Operating, Team!Whole
<1>9. Team!Operating'
  BY <1>0, <1>2, <1>4, <1>6, <1>8 DEF Team!TInv, Team!Operating, Team!Known
<1>10. Team!Hidden'
  <2>1. ~Team!Shown(v5.team)'
    BY <1>2, <1>3, <1>5, <1>8 DEF Team!Shown, Team!Stamp
  <2>2. Team!Shown(v6.was.team)' => Team!Shown(v6.was.team)
    BY <1>2, <1>5, <1>6 DEF Team!Shown
  <2> QED
    BY <1>0, <1>2, <2>1, <2>2 DEF Team!TInv, Team!Hidden, Team!Dropped
<1>11. TeamGrows
  BY <1>2, <1>5, TeamStill
<1>12. HadThen(Team!Me, Team!Remote.rev, Team!Remote.body)
  BY <1>1, <1>7, <1>11, TeamHadKept DEF Team!Entries
<1>13. Team!Memories'
  <2>1. CtxFollows /\ OwnFollows
    BY <1>1, <1>3, <1>4, <1>12 DEF CtxFollows, OwnFollows, SameBase, Team!Me
  <2>2. Team!Me' = Team!Me
    BY <1>6 DEF Team!Me
  <2> QED
    BY <1>2, <1>6, <1>7, <1>11, <1>12, <2>1, <2>2, TeamMemories
<1>14. Team!DraftsKept'
  BY <1>2, <1>5, TeamDrafts
<1> QED
  BY <1>7, <1>9, <1>10, <1>13, <1>14 DEF Team!TInv

\* The peer's file changes, or goes behind a block.
LEMMA TeamPeerFile ==
  ASSUME NEW d \in Team!Disks, NEW e,
         \/ e = d
         \/ \E p \in Nat : e = [d EXCEPT !.peer = p]
         \/ e = [d EXCEPT !.block = @ \/ d.peer # 0, !.peer = 0]
  PROVE  /\ e \in Team!Disks /\ e.own = d.own /\ e.arch = d.arch /\ e.team = d.team
         /\ d.block => e.block
<1>1. CASE e = d
  BY <1>1
<1>2. ASSUME NEW p \in Nat, e = [d EXCEPT !.peer = p]
      PROVE  /\ e \in Team!Disks /\ e.own = d.own /\ e.arch = d.arch /\ e.team = d.team
             /\ d.block => e.block
  BY <1>2 DEF Team!Disks
<1>3. CASE e = [d EXCEPT !.block = @ \/ d.peer # 0, !.peer = 0]
  <2> DEFINE b == d.block \/ d.peer # 0
  <2>1. b \in BOOLEAN /\ (d.block => b)
    OBVIOUS
  <2>2. e = [d EXCEPT !.block = b, !.peer = 0]
    BY <1>3
  <2> HIDE DEF b
  <2>3. e \in Team!Disks /\ e.own = d.own /\ e.arch = d.arch /\ e.team = d.team
    BY <2>1, <2>2 DEF Team!Disks
  <2>4. e.block = b
    BY <2>2 DEF Team!Disks
  <2> QED
    BY <2>1, <2>3, <2>4
<1> QED
  BY <1>1, <1>2, <1>3

\* The peer's memory is there, is fetched or is missed.
LEMMA TeamPeerStep ==
  ASSUME Team!TInv, Team!PeerHere \/ Team!PeerFetched \/ Team!PeerMissed PROVE Team!TInv'
<1>0. /\ Team!TTypeOK /\ v4 \in Team!States /\ v5 \in Team!Disks /\ v6 \in Team!Ops
      /\ v7 = "peers" /\ v7 \in Team!Known /\ v7 # "idle"
  BY DEF Team!TInv, Team!TTypeOK, Team!PeerHere, Team!PeerFetched, Team!PeerMissed,
     Team!PeerStep, Team!Known
<1>1. /\ UNCHANGED <<v1, v2, v3, v9, v10, v11, v12>> /\ v7' = "own"
  BY DEF Team!PeerHere, Team!PeerFetched, Team!PeerMissed, Team!PeerStep, Team!Goto
<1>2. /\ v4' = v4 \/ \E p \in Nat : v4' = [v4 EXCEPT !.peer = p]
      /\ \/ v5' = v5
         \/ \E p \in Nat : v5' = [v5 EXCEPT !.peer = p]
         \/ v5' = [v5 EXCEPT !.block = @ \/ v5.peer # 0, !.peer = 0]
      /\ \/ v6' = v6
         \/ v6' = [v6 EXCEPT !.err = TRUE]
         \/ \E h \in BOOLEAN : v6' = [v6 EXCEPT !.err = TRUE, !.hid = h]
  <2>1. Team!Listed \in Nat
    BY <1>0 DEF Team!Listed, Team!States
  <2>2. CASE Team!PeerHere
    BY <2>1, <2>2 DEF Team!PeerHere
  <2>3. CASE Team!PeerFetched
    BY <2>1, <2>3 DEF Team!PeerFetched
  <2>4. CASE Team!PeerMissed
    <3> DEFINE h == v6.hid \/ v5.peer # 0
    <3>1. h \in BOOLEAN
      OBVIOUS
    <3>2. \/ v6' = [v6 EXCEPT !.err = TRUE] /\ v5' = v5 /\ v4' = v4
          \/ /\ v6' = [v6 EXCEPT !.err = TRUE, !.hid = h] /\ v4' = [v4 EXCEPT !.peer = 0]
             /\ v5' = [v5 EXCEPT !.block = @ \/ v5.peer # 0, !.peer = 0]
      BY <1>0, <2>4 DEF Team!PeerMissed, Team!Ops
    <3> HIDE DEF h
    <3> QED
      BY <3>1, <3>2
  <2> QED
    BY <2>2, <2>3, <2>4
<1>3. /\ v4' \in Team!States /\ v4'.id = v4.id /\ v4'.own = v4.own /\ v4'.ctx = v4.ctx
      /\ v4'.valid = v4.valid
  BY <1>0, <1>2 DEF Team!States
<1>4. /\ v5' \in Team!Disks /\ v5'.own = v5.own /\ v5'.arch = v5.arch /\ v5'.team = v5.team
      /\ v5.block => v5'.block
  BY <1>0, <1>2, TeamPeerFile
<1>5. /\ v6' \in Team!Ops /\ v6'.cred = v6.cred /\ v6'.kind = v6.kind /\ v6'.was = v6.was
      /\ v6'.good = v6.good /\ v6'.body = v6.body /\ v6'.ent = v6.ent
  <2>1. CASE v6' = v6
    BY <1>0, <2>1
  <2>2. CASE v6' = [v6 EXCEPT !.err = TRUE]
    BY <1>0, <2>2 DEF Team!Ops
  <2>3. ASSUME NEW h \in BOOLEAN, v6' = [v6 EXCEPT !.err = TRUE, !.hid = h]
        PROVE  /\ v6' \in Team!Ops /\ v6'.cred = v6.cred /\ v6'.kind = v6.kind
               /\ v6'.was = v6.was /\ v6'.good = v6.good /\ v6'.body = v6.body
               /\ v6'.ent = v6.ent
    BY <1>0, <2>3 DEF Team!Ops
  <2> QED
    BY <1>2, <2>1, <2>2, <2>3
<1>6. Team!TTypeOK'
  BY <1>0, <1>1, <1>3, <1>4, <1>5 DEF Team!TTypeOK
<1>7. Routine
  BY <1>0, <1>1, <1>3, <1>4, <1>5 DEF Routine, Team!Known, Team!Whole
<1>8. TeamGrows /\ OwnFollows /\ Drafted
  BY <1>1, <1>3, <1>4, TeamStill DEF OwnFollows, SameBase, Drafted
<1>9. HadThen(Team!Me', v6'.ent.rev, v6'.ent.body)
  <2>1. Team!Had(Team!Me, v6.ent.rev, v6.ent.body) /\ v6.ent.rev \in Nat
    BY <1>0 DEF Team!TInv, Team!Memories, Team!Ops, Team!Entries
  <2>2. Team!Me \in Team!Silicons /\ Team!Me' = Team!Me
    BY <1>0, <1>5, TeamAtWork DEF Team!Me
  <2> QED
    BY <1>5, <1>6, <1>8, <2>1, <2>2, TeamHadKept
<1> QED
  BY <1>1, <1>6, <1>7, <1>8, <1>9, TeamOwnStep

\* A peer's file that cannot be hidden takes the whole context with it.
LEMMA TeamPeerStuckStep ==
  ASSUME Team!TInv, NEW bad, Team!PeerStuck(bad) PROVE Team!TInv'
<1> DEFINE s == [v4 EXCEPT !.peer = Team!Listed]
<1>0. /\ Team!TTypeOK /\ v4 \in Team!States /\ v5 \in Team!Disks /\ v9 \in Nat
      /\ v6 \in Team!Ops
  BY DEF Team!TInv, Team!TTypeOK
<1>1. /\ v7 = "peers" /\ v7' = "save" /\ UNCHANGED <<v1, v2, v3, v10, v11, v12>>
      /\ Team!Failing(bad, Team!HideFaults)
      /\ v5' = Team!HiddenDisk(s, v5, bad) /\ v4' = Team!HiddenState(s, v5, bad)
      /\ v6' = [v6 EXCEPT !.hid = FALSE]
  BY DEF Team!PeerStuck, Team!Goto
<1>2. s \in Team!States /\ s.id = v4.id /\ s.own = v4.own /\ s.valid = v4.valid
  BY <1>0 DEF Team!States, Team!Listed
<1> HIDE DEF s
<1>3. /\ v4' \in Team!States /\ v4'.id = v4.id /\ v4'.own = v4.own /\ v4'.ctx = Team!NoCtx
      /\ v5' \in Team!Disks /\ v5'.own = v5.own /\ v5'.arch = v5.arch
      /\ v5'.team \in {v5.team, Team!Placeholder}
      /\ v5.block => v5'.block
  BY <1>0, <1>1, <1>2, TeamHides
<1>4. /\ v6' \in Team!Ops /\ v6'.cred = v6.cred /\ v6'.kind = v6.kind /\ v6'.was = v6.was
      /\ v6'.good = v6.good /\ v6'.body = v6.body
  BY <1>0, <1>1 DEF Team!Ops
<1>5. v9' \in Nat /\ v9' >= v9
  BY <1>0, <1>1, TeamSpent
<1>6. Team!TTypeOK'
  BY <1>0, <1>1, <1>3, <1>4, <1>5 DEF Team!TTypeOK
<1>7. v6.cred \notin v10 /\ v4.id = v6.cred
  BY <1>1 DEF Team!TInv, Team!Operating, Team!Whole, Team!Known
<1>8. Team!Operating'
  BY <1>1, <1>3, <1>4, <1>7 DEF Team!TInv, Team!Operating, Team!Whole, Team!Known
<1>9. Team!Hidden'
  BY <1>0, <1>1, <1>3, <1>4, <1>5, TeamHiding
<1>10. Team!Memories' /\ Team!DraftsKept'
  BY <1>1, <1>3, <1>6, TeamQuiet
<1> QED
  BY <1>6, <1>8, <1>9, <1>10 DEF Team!TInv

\* A whole pass ends with its identity answered for.
LEMMA TeamFinishStep ==
  ASSUME Team!TInv, NEW bad, Team!Finish(bad) PROVE Team!TInv'
<1>0. /\ Team!TTypeOK /\ v4 \in Team!States /\ v5 \in Team!Disks /\ v9 \in Nat
      /\ v6 \in Team!Ops
  BY DEF Team!TInv, Team!TTypeOK
<1>1. /\ v7 = "fin" /\ v7' = "save" /\ UNCHANGED <<v1, v2, v3, v10, v11, v12>>
      /\ Team!Failing(bad, {"prune"})
      /\ v5' = v5 \/ v5' = [v5 EXCEPT !.block = @ \/ v5.peer # 0, !.peer = 0]
      /\ v4' = v4 \/ v4' = [v4 EXCEPT !.peer = 0]
      /\ \E h \in BOOLEAN : v6' = [v6 EXCEPT !.good = TRUE, !.hid = h]
  <2> DEFINE gone == Team!Listed = 0 /\ v4.peer # 0 /\ bad = {}
             h == v6.hid \/ (gone /\ v5.peer # 0)
  <2>1. v6.hid \in BOOLEAN
    BY <1>0 DEF Team!Ops
  <2>2. h \in BOOLEAN
    BY <2>1
  <2>3. /\ v6' = [v6 EXCEPT !.good = TRUE, !.hid = h]
        /\ v5' = IF gone THEN [v5 EXCEPT !.block = @ \/ v5.peer # 0, !.peer = 0] ELSE v5
        /\ v4' = IF gone THEN [v4 EXCEPT !.peer = 0] ELSE v4
    BY <1>0 DEF Team!Finish, Team!Ops
  <2>4. /\ v7 = "fin" /\ v7' = "save" /\ UNCHANGED <<v1, v2, v3, v10, v11, v12>>
        /\ Team!Failing(bad, {"prune"})
    BY DEF Team!Finish, Team!Goto
  <2> HIDE DEF h, gone
  <2> QED
    BY <2>2, <2>3, <2>4
<1>2. /\ v4' \in Team!States /\ v4'.id = v4.id /\ v4'.own = v4.own /\ v4'.ctx = v4.ctx
      /\ v4'.valid = v4.valid
  BY <1>0, <1>1 DEF Team!States
<1>3. /\ v5' \in Team!Disks /\ v5'.own = v5.own /\ v5'.arch = v5.arch /\ v5'.team = v5.team
      /\ v5.block => v5'.block
  BY <1>0, <1>1, TeamPeerFile
<1>4. /\ v6' \in Team!Ops /\ v6'.cred = v6.cred /\ v6'.kind = v6.kind /\ v6'.was = v6.was
      /\ v6'.body = v6.body
  <2>1. PICK h \in BOOLEAN : v6' = [v6 EXCEPT !.good = TRUE, !.hid = h]
    BY <1>1
  <2> QED
    BY <1>0, <2>1 DEF Team!Ops
<1>5. v9' \in Nat /\ v9' >= v9
  <2>1. {"prune"} \subseteq Team!HideFaults
    BY DEF Team!HideFaults
  <2> QED
    BY <1>0, <1>1, <2>1, TeamSpent
<1>6. Team!TTypeOK'
  BY <1>0, <1>1, <1>2, <1>3, <1>4, <1>5 DEF Team!TTypeOK
<1>7. v6.cred \notin v10 /\ v4.id = v6.cred
  BY <1>1 DEF Team!TInv, Team!Operating, Team!Whole, Team!Known
<1>8. Team!Operating'
  BY <1>1, <1>2, <1>4, <1>7 DEF Team!TInv, Team!Operating, Team!Whole, Team!Known
<1>9. Team!Hidden'
  BY <1>0, <1>1, <1>3, <1>4, <1>5, TeamHiding
<1>10. Team!Memories' /\ Team!DraftsKept'
  BY <1>1, <1>2, <1>3, <1>6, TeamQuiet
<1> QED
  BY <1>6, <1>8, <1>9, <1>10 DEF Team!TInv

\* Glass, the configuration and the manager change things while an operation runs.
Outside ==
  /\ v3' = v3 /\ v4' = v4 /\ v6' = v6 /\ v7' = v7 /\ v9' = v9 /\ v10' = v10
  /\ v5'.team = v5.team /\ v5'.block = v5.block /\ v5'.arch = v5.arch
  /\ v7 # "idle" => \A w \in Team!Silicons : v11'[w] \in {-1, v11[w]}
LEMMA TeamWorldStep ==
  ASSUME Team!TInv, Team!TTypeOK', Outside, TeamGrows, Drafted PROVE Team!TInv'
<1>1. Team!Operating'
  BY DEF Outside, Team!TInv, Team!Operating, Team!Whole, Team!Content
<1>2. Team!Hidden'
  BY DEF Outside, Team!TInv, Team!Hidden, Team!Shown, Team!Dropped
<1>3. Team!DraftsKept'
  BY TeamDrafts DEF TeamGrows, Drafted
<1>4. CtxFollows /\ OwnFollows /\ Team!Me' = Team!Me
  <2>1. v4' = v4 /\ v6' = v6
    BY DEF Outside
  <2>2. CtxFollows
    BY <2>1 DEF CtxFollows
  <2>3. OwnFollows
    BY <2>1 DEF OwnFollows, SameBase
  <2> QED
    BY <2>1, <2>2, <2>3 DEF Team!Me
<1>5. v7' \in {"peers", "own"} => HadThen(Team!Me', v6'.ent.rev, v6'.ent.body)
  <2> SUFFICES ASSUME v7 \in {"peers", "own"} PROVE HadThen(Team!Me, v6.ent.rev, v6.ent.body)
    BY <1>4 DEF Outside
  <2>1. Team!Had(Team!Me, v6.ent.rev, v6.ent.body) /\ v6.ent.rev \in Nat
    BY DEF Team!TInv, Team!TTypeOK, Team!Memories, Team!Ops, Team!Entries
  <2> QED
    BY <2>1, TeamAtWork, TeamHadKept
<1>6. v7' = "put" /\ ~v6'.res => Team!Replaces'
  <2> SUFFICES ASSUME v7 = "put", ~v6.res PROVE Team!Replaces'
    BY DEF Outside
  <2>1. Team!Me \in Team!Silicons /\ v6'.exp = v6.exp /\ v6.exp \in Nat
    BY TeamAtWork DEF Outside, Team!TInv, Team!TTypeOK, Team!Ops
  <2>2. /\ v6.exp <= v1.own[Team!Me].rev
        /\ v6.exp = v1.own[Team!Me].rev =>
             v1.own[Team!Me].body \in v12.seen[Team!Me] \cup {Team!Empty}
    BY DEF Team!TInv, Team!Memories, Team!Replaces, Team!Remote
  <2>3. /\ v1'.own[Team!Me] = v1.own[Team!Me] \/ v1'.own[Team!Me].rev > v1.own[Team!Me].rev
        /\ v12.seen[Team!Me] \subseteq v12'.seen[Team!Me]
    BY <2>1 DEF TeamGrows
  <2>4. v1.own[Team!Me].rev \in Nat /\ v1'.own[Team!Me].rev \in Nat
    BY <2>1 DEF Team!TInv, Team!TTypeOK, Team!Services, Team!Entries
  <2> QED
    BY <1>4, <2>1, <2>2, <2>3, <2>4 DEF Team!Replaces, Team!Remote
<1>7. v7' = "down" => v11'[Team!Me'] = -1 \/ Team!Kept(Team!Me)'
  <2> SUFFICES ASSUME v7 = "down", v11'[Team!Me] # -1 PROVE Team!Kept(Team!Me)'
    BY <1>4 DEF Outside
  <2>1. Team!Me \in Team!Silicons
    BY TeamAtWork
  <2>2. v11'[Team!Me] = v11[Team!Me]
    BY <2>1 DEF Outside
  <2>3. Team!Kept(Team!Me)
    BY <2>2, TeamNothing DEF Team!TInv, Team!Memories
  <2>4. v12.pub \subseteq v12'.pub /\ v5'.arch = v5.arch
    BY DEF TeamGrows, Outside
  <2> QED
    BY <1>4, <2>2, <2>3, <2>4 DEF Team!Kept
<1>8. Team!Memories'
  BY <1>4, <1>5, <1>6, <1>7, TeamMemories DEF Outside
<1> QED
  BY <1>1, <1>2, <1>3, <1>8 DEF Team!TInv

LEMMA TeamChangeStep ==
  ASSUME Team!TInv, NEW v \in Nat, NEW c \in TeamCreds,
         Team!TeamEdit(v) \/ Team!Revoke(c) \/ Team!Rotate(c)
  PROVE  Team!TInv'
<1>0. Team!TTypeOK /\ v1 \in Team!Services
  BY DEF Team!TInv, Team!TTypeOK
<1>1. /\ UNCHANGED <<v3, v4, v5, v6, v7, v9, v10, v11, v12>>
      /\ v2' \in {v2, c}
      /\ \/ v1' = v1
         \/ v1' = [v1 EXCEPT !.team = @ + 1, !.peer = v]
         \/ v1' = [v1 EXCEPT !.denied = @ \cup {c}]
  BY DEF Team!TeamEdit, Team!Revoke, Team!Rotate, Team!World
<1>2. v1' \in Team!Services /\ v1'.own = v1.own
  <2>1. CASE v1' = v1
    BY <1>0, <2>1
  <2>2. CASE v1' = [v1 EXCEPT !.team = @ + 1, !.peer = v]
    <3> DEFINE t == v1.team + 1
    <3>1. t \in Nat
      BY <1>0 DEF Team!Services
    <3>2. v1' = [v1 EXCEPT !.team = t, !.peer = v]
      BY <2>2
    <3> HIDE DEF t
    <3> QED
      BY <1>0, <3>1, <3>2 DEF Team!Services
  <2>3. CASE v1' = [v1 EXCEPT !.denied = @ \cup {c}]
    <3> DEFINE q == v1.denied \cup {c}
    <3>1. q \in SUBSET TeamCreds
      BY <1>0 DEF Team!Services
    <3>2. v1' = [v1 EXCEPT !.denied = q]
      BY <2>3
    <3> HIDE DEF q
    <3> QED
      BY <1>0, <3>1, <3>2 DEF Team!Services
  <2> QED
    BY <1>1, <2>1, <2>2, <2>3
<1>3. Team!TTypeOK'
  BY <1>0, <1>1, <1>2 DEF Team!TTypeOK
<1>4. TeamGrows
  BY <1>1, <1>2 DEF TeamGrows, Team!TInv, Team!Memories
<1>5. Outside /\ Drafted
  BY <1>1 DEF Outside, Drafted
<1> QED
  BY <1>3, <1>4, <1>5, TeamWorldStep

LEMMA TeamRemoteEditStep ==
  ASSUME Team!TInv, NEW w \in Team!Silicons, NEW b \in TeamBodies, Team!RemoteEdit(w, b)
  PROVE  Team!TInv'
<1> DEFINE e == [rev |-> v1.own[w].rev + 1, body |-> b]
           n == [v1.own EXCEPT ![w] = e]
           p == v12.pub \cup {<<w, b>>}
<1>0. /\ Team!TTypeOK /\ v1 \in Team!Services /\ v12 \in Team!Histories
      /\ v1.own \in [Team!Silicons -> Team!Entries]
      /\ \A u \in Team!Silicons : <<u, v1.own[u].body>> \in v12.pub
  BY DEF Team!TInv, Team!TTypeOK, Team!Services, Team!Memories
<1>1. b \in Nat
  BY TeamNone
<1>2. /\ UNCHANGED <<v2, v3, v4, v5, v6, v7, v9, v10, v11>>
      /\ v1' = [v1 EXCEPT !.own = n] /\ v12' = [v12 EXCEPT !.pub = p]
  <2>1. v1' = [v1 EXCEPT !.own[w] = [rev |-> @.rev + 1, body |-> b]]
    BY DEF Team!RemoteEdit
  <2>2. v1' = [v1 EXCEPT !.own = n]
    BY <1>0, <2>1 DEF Team!Services
  <2> QED
    BY <2>2 DEF Team!RemoteEdit, Team!World
<1>3. /\ e \in Team!Entries /\ e.body = b /\ e.rev > v1.own[w].rev
      /\ n \in [Team!Silicons -> Team!Entries] /\ n[w] = e
      /\ \A u \in Team!Silicons \ {w} : n[u] = v1.own[u]
      /\ p \in SUBSET (Team!Silicons \X Team!Files)
  <2>1. e \in Team!Entries /\ e.body = b /\ e.rev > v1.own[w].rev
    BY <1>0, <1>1 DEF Team!Entries
  <2>2. p \in SUBSET (Team!Silicons \X Team!Files)
    BY <1>0, <1>1 DEF Team!Histories, Team!Files
  <2> HIDE DEF e
  <2> QED
    BY <1>0, <2>1, <2>2
<1>4. <<w, b>> \in p /\ v12.pub \subseteq p
  OBVIOUS
<1> HIDE DEF e, n, p
<1>5. /\ v1' \in Team!Services /\ v1'.own = n
      /\ v12' \in Team!Histories /\ v12'.pub = p /\ v12'.seen = v12.seen
  BY <1>0, <1>2, <1>3 DEF Team!Services, Team!Histories
<1>6. Team!TTypeOK'
  BY <1>0, <1>2, <1>5 DEF Team!TTypeOK
<1>7. TeamGrows
  BY <1>0, <1>2, <1>3, <1>4, <1>5 DEF TeamGrows
<1>8. Outside /\ Drafted
  BY <1>2 DEF Outside, Drafted
<1> QED
  BY <1>6, <1>7, <1>8, TeamWorldStep

LEMMA TeamEditFileStep ==
  ASSUME Team!TInv, NEW b \in TeamBodies, Team!EditFile(b) PROVE Team!TInv'
<1> DEFINE w == Team!Owner(v2)
           x == IF v7 = "idle" THEN b ELSE Team!Absent
           n == [v5.own EXCEPT ![w] = b]
<1>0. /\ Team!TTypeOK /\ v5 \in Team!Disks /\ w \in Team!Silicons
      /\ v11 \in [Team!Silicons -> Team!Files]
      /\ v5.own \in [Team!Silicons -> Team!Files]
  BY TeamNone DEF Team!TInv, Team!TTypeOK, Team!Disks
<1>1. b \in Team!Files /\ x \in Team!Files /\ x \in {b, -1} /\ (v7 # "idle" => x = -1)
  BY TeamNone, TeamNothing DEF Team!Files
<1>2. /\ UNCHANGED <<v1, v2, v3, v4, v6, v7, v9, v10, v12>>
      /\ v5' = [v5 EXCEPT !.own = n] /\ v11' = [v11 EXCEPT ![w] = x]
  <2>1. v5' = [v5 EXCEPT !.own[w] = b]
    BY DEF Team!EditFile
  <2>2. v5' = [v5 EXCEPT !.own = n]
    BY <1>0, <2>1 DEF Team!Disks
  <2> QED
    BY <2>2 DEF Team!EditFile
<1>3. /\ n \in [Team!Silicons -> Team!Files] /\ n[w] = b
      /\ \A u \in Team!Silicons \ {w} : n[u] = v5.own[u]
  BY <1>0, <1>1
<1> HIDE DEF w, x, n
<1>4. /\ v11' \in [Team!Silicons -> Team!Files] /\ v11'[w] = x
      /\ \A u \in Team!Silicons \ {w} : v11'[u] = v11[u]
  BY <1>0, <1>1, <1>2
<1>5. /\ v5' \in Team!Disks /\ v5'.own = n /\ v5'.arch = v5.arch /\ v5'.team = v5.team
      /\ v5'.block = v5.block
  BY <1>0, <1>2, <1>3 DEF Team!Disks
<1>6. Team!TTypeOK'
  BY <1>0, <1>2, <1>4, <1>5 DEF Team!TTypeOK
<1>7. TeamGrows
  BY <1>2, <1>5, TeamStill
<1>8. Outside
  BY <1>1, <1>2, <1>4, <1>5 DEF Outside
<1>9. Drafted
  BY <1>1, <1>3, <1>4, <1>5 DEF Drafted
<1> QED
  BY <1>6, <1>7, <1>8, <1>9, TeamWorldStep

LEMMA TeamStarts ==
  ASSUME Team!TInit PROVE Team!TInv
<1> DEFINE s == [id |-> Team!NoCred, valid |-> TRUE, ctx |-> Team!NoCtx, peer |-> 0,
                 own |-> Team!NoOwn]
           d == [team |-> Team!Placeholder, peer |-> 0,
                 own |-> [w \in Team!Silicons |-> Team!Absent], block |-> FALSE, arch |-> {}]
           g == [team |-> 1, peer |-> 1, own |-> [w \in Team!Silicons |-> Team!NoCtx.own],
                 denied |-> {}]
           k == [pub |-> Team!Silicons \X {Team!Empty}, seen |-> [w \in Team!Silicons |-> {}]]
<1>1. /\ v1 = g /\ v2 \in TeamCreds /\ v3 = s /\ v4 = s /\ v5 = d /\ v6 = Team!NoOp
      /\ v7 = "idle" /\ v9 = 0 /\ v10 = {} /\ v12 = k
      /\ v11 = [w \in Team!Silicons |-> Team!Absent]
  BY DEF Team!TInit
<1>2. s \in Team!States /\ s.ctx.who = Team!NoCred /\ s.own.base = -1
  BY TeamNone, TeamNothing DEF Team!States
<1>3. d \in Team!Disks
  BY TeamNothing DEF Team!Disks, Team!Files
<1>4. /\ g \in Team!Services
      /\ \A w \in Team!Silicons : g.own[w].body = 0
  <2>1. Team!NoCtx.own \in Team!Entries /\ Team!NoCtx.own.body = 0
    BY TeamNothing DEF Team!NoCtx
  <2> QED
    BY <2>1 DEF Team!Services
<1>5. k \in Team!Histories /\ \A w \in Team!Silicons : <<w, 0>> \in k.pub
  BY TeamNothing DEF Team!Histories, Team!Files
<1>6. /\ v11 \in [Team!Silicons -> Team!Files]
      /\ \A w \in Team!Silicons : v11[w] = Team!Absent
  BY <1>1 DEF Team!Files
<1> HIDE DEF s, d, g, k
<1>7. Team!TTypeOK
  BY <1>1, <1>2, <1>3, <1>4, <1>5, <1>6, TeamNoOp DEF Team!TTypeOK
<1>8. Team!Operating
  BY <1>1, TeamNoOp DEF Team!Operating, Team!Whole, Team!Known, Team!NoOp
<1>9. Team!Hidden
  BY <1>1 DEF Team!Hidden, Team!Shown
<1>10. Team!Memories
  BY <1>1, <1>2, <1>4, <1>5, TeamNothing
     DEF Team!Memories, Team!CtxHad, Team!BaseHad
<1>11. Team!DraftsKept
  BY <1>6 DEF Team!DraftsKept
<1> QED
  BY <1>7, <1>8, <1>9, <1>10, <1>11 DEF Team!TInv

LEMMA TeamStep ==
  ASSUME Team!TInv, Team!TNext PROVE Team!TInv'
<1>1. CASE Team!Reconcile \/ Team!Tick \/ \E b \in TeamBodies, r \in BOOLEAN : Team!Update(b, r)
  <2>1. CASE Team!Reconcile
    <3>1. Team!Begin("sync", Team!Absent, FALSE, TRUE, "scope") /\ Team!Absent \in Team!Files
      BY <2>1 DEF Team!Reconcile, Team!Files
    <3> QED
      BY <3>1, TeamBeginStep
  <2>2. CASE Team!Tick
    <3>1. /\ Team!Begin("sync", Team!Absent, FALSE, FALSE, "own")
          /\ ~Team!NeedsFull /\ ~Team!ScopeChanged /\ Team!Absent \in Team!Files
      BY <2>2 DEF Team!Tick, Team!Files
    <3> QED
      BY <3>1, TeamBeginStep
  <2>3. ASSUME NEW b \in TeamBodies, NEW r \in BOOLEAN, Team!Update(b, r) PROVE Team!TInv'
    <3>1. Team!Begin("update", b, r, TRUE, "scope") /\ b \in Team!Files /\ b \in Nat
      BY <2>3, TeamNone DEF Team!Update, Team!Files
    <3> QED
      BY <3>1, TeamBeginStep
  <2> QED
    BY <1>1, <2>1, <2>2, <2>3
<1>2. ASSUME NEW bad,
             \/ Team!Scope(bad) \/ Team!Identified(bad) \/ Team!Refused(bad)
             \/ Team!PeerStuck(bad) \/ Team!Finish(bad) \/ Team!SaveFails(bad)
      PROVE  Team!TInv'
  BY <1>2, TeamScopeStep, TeamIdentifiedStep, TeamRefusedStep, TeamPeerStuckStep,
     TeamFinishStep, TeamSaveFailsStep
<1>3. CASE \/ Team!Unarchived \/ Team!Unidentified \/ Team!Write \/ Team!WriteFails
           \/ Team!Fetch \/ Team!OwnDown \/ Team!Put \/ Team!PutUnheard
  BY <1>3, TeamUnarchivedStep, TeamUnidentifiedStep, TeamWriteStep, TeamStopStep,
     TeamFetchStep, TeamOwnDownStep, TeamPutStep
<1>4. CASE \/ Team!PutRefused \/ Team!Compare \/ Team!SyncOwn \/ Team!Download
           \/ Team!Context \/ Team!ContextFails \/ Team!PeerHere \/ Team!PeerFetched
           \/ Team!PeerMissed \/ Team!Save \/ Team!Crash
  BY <1>4, TeamPutRefusedStep, TeamCompareStep, TeamSyncOwnStep, TeamDownloadStep,
     TeamContextStep, TeamOwnDownStep, TeamPeerStep, TeamSaveStep, TeamStopStep
<1>5. CASE \E v \in 0..2 : Team!TeamEdit(v)
  <2>1. PICK v \in 0..2 : Team!TeamEdit(v)
    BY <1>5
  <2>2. PICK c \in TeamCreds : TRUE
    BY DEF Team!TInv, Team!TTypeOK
  <2> QED
    BY <2>1, <2>2, TeamChangeStep
<1>6. CASE \E c \in TeamCreds : Team!Revoke(c) \/ Team!Rotate(c)
  <2>1. 0 \in Nat
    OBVIOUS
  <2> QED
    BY <1>6, <2>1, TeamChangeStep
<1>7. CASE \E w \in Team!Silicons, b \in TeamBodies : Team!RemoteEdit(w, b)
  BY <1>7, TeamRemoteEditStep
<1>8. CASE \E b \in TeamBodies : Team!EditFile(b)
  BY <1>8, TeamEditFileStep
<1> QED
  BY <1>1, <1>2, <1>3, <1>4, <1>5, <1>6, <1>7, <1>8 DEF Team!TNext

LEMMA TeamStutters ==
  ASSUME Team!TInv, UNCHANGED <<v1, v2, v3, v4, v5, v6, v7, v9, v10, v11, v12>>
  PROVE  Team!TInv'
<1>1. Team!TTypeOK'
  BY DEF Team!TInv, Team!TTypeOK
<1>2. TeamGrows
  BY TeamStill
<1>3. Outside /\ Drafted
  BY DEF Outside, Drafted
<1> QED
  BY <1>1, <1>2, <1>3, TeamWorldStep

\* The inductive invariant of the team context, alone and in the part of MCRecords.
THEOREM TeamInvariance ==
  (Team!TSpec => []Team!TInv) /\ (Spec => [](TeamPart => Team!TInv))
<1> DEFINE I == TeamPart => Team!TInv
<1>1. Team!TInit => Team!TInv
  BY TeamStarts
<1>2. Team!TInv /\ [Team!TNext]_(Team!tvars) => Team!TInv'
  BY TeamStep, TeamStutters DEF Team!tvars
<1>3. Init => I
  BY <1>1 DEF Init, TeamPart
<1>4. I /\ [Next]_vars => I'
  <2> SUFFICES ASSUME I, [Next]_vars, part' = "team" PROVE Team!TInv'
    BY DEF TeamPart
  <2>1. CASE Next
    <3>1. part = "team" /\ Team!TInv
      BY <2>1 DEF Next, TeamPart
    <3>2. Team!TNext
      BY <2>1, <3>1 DEF Next
    <3> QED
      BY <3>1, <3>2, TeamStep
  <2>2. CASE UNCHANGED vars
    <3>1. part' = part /\ UNCHANGED <<v1, v2, v3, v4, v5, v6, v7, v9, v10, v11, v12>>
      BY <2>2 DEF vars, Rest7, Rest12
    <3> QED
      BY <3>1, TeamStutters DEF TeamPart
  <2> QED
    BY <2>1, <2>2
<1>5. Team!TSpec => []Team!TInv
  BY <1>1, <1>2, PTL DEF Team!TSpec
<1>6. Spec => []I
  BY <1>3, <1>4, PTL DEF Spec
<1> QED
  BY <1>5, <1>6

\* Once an operation has learned that Glass refuses the configured credential, a reader
\* of the prompt is shown the placeholder, whatever fails up to twice in the hiding, the
\* saving or a crash.
THEOREM HiddenAfterRefusal ==
  (Team!TSpec => []Team!HiddenAfterDenial) /\ (Spec => []HiddenAfterDenial)
<1>1. Team!TInv => Team!HiddenAfterDenial
  <2> SUFFICES ASSUME Team!TInv, v7 = "idle", v2 \in v10, v9 <= 2, Team!Visible PROVE FALSE
    BY DEF Team!HiddenAfterDenial
  <2>1. Team!Shown(v5.team)
    BY DEF Team!Visible, Team!Shown
  <2>2. v9 \in Nat /\ (v9 >= 3 \/ (v9 = 2 /\ Team!Dropped))
    BY <2>1 DEF Team!TInv, Team!TTypeOK, Team!Hidden
  <2> QED
    BY <2>2 DEF Team!Dropped
<1>2. (TeamPart => Team!TInv) => HiddenAfterDenial
  BY <1>1 DEF HiddenAfterDenial
<1> QED
  BY <1>1, <1>2, TeamInvariance, PTL

\* The last draft the manager saved for a silicon is in its file, in the private archive,
\* or Glass has had it, through transfers, refusals, downloads, failures and crashes.
THEOREM DraftsAreKept ==
  (Team!TSpec => []Team!DraftsKept) /\ (Spec => []DraftsKept)
<1>1. Team!TInv => Team!DraftsKept
  BY DEF Team!TInv
<1>2. (TeamPart => Team!TInv) => DraftsKept
  BY <1>1 DEF DraftsKept
<1> QED
  BY <1>1, <1>2, TeamInvariance, PTL

\* A PUT replaces nothing in Glass that the silicon has not had in its own file, unless
\* the manager asked to resolve the conflict: the revision it names guards it.
LEMMA TeamUploads ==
  ASSUME Team!TInv, [Team!TNext]_(Team!tvars) PROVE Team!UploadOverSeen
<1> SUFFICES ASSUME NEW w \in Team!Silicons, v1'.own[w] # v1.own[w], v7' # v7, ~v6.res
             PROVE  v1.own[w].body \in v12.seen[w] \cup {Team!Empty}
  BY DEF Team!UploadOverSeen
<1>1. Team!Put \/ Team!PutUnheard
  <2>1. Team!TNext /\ ~UNCHANGED <<v1, v7>>
    BY DEF Team!tvars
  <2>2. v1' # v1 /\ v7' # v7
    OBVIOUS
  <2>3. ~\E b \in TeamBodies, r \in BOOLEAN : Team!Update(b, r)
    BY <2>2 DEF Team!Update, Team!Begin
  <2>4. ~Team!Reconcile /\ ~Team!Tick
    BY <2>2 DEF Team!Reconcile, Team!Tick, Team!Begin
  <2>5. \A bad : /\ ~Team!Scope(bad) /\ ~Team!Identified(bad) /\ ~Team!Refused(bad)
                 /\ ~Team!PeerStuck(bad) /\ ~Team!Finish(bad) /\ ~Team!SaveFails(bad)
    BY <2>2 DEF Team!Scope, Team!Identified, Team!Refused, Team!PeerStuck, Team!Finish,
       Team!SaveFails, Team!Released
  <2>6. /\ ~Team!Unarchived /\ ~Team!Unidentified /\ ~Team!Write /\ ~Team!WriteFails
        /\ ~Team!Fetch /\ ~Team!OwnDown
    BY <2>2 DEF Team!Unarchived, Team!Unidentified, Team!Write, Team!WriteFails, Team!Fetch,
       Team!OwnDown
  <2>7. /\ ~Team!PutRefused /\ ~Team!Compare /\ ~Team!SyncOwn /\ ~Team!Download
        /\ ~Team!Context /\ ~Team!ContextFails
    BY <2>2 DEF Team!PutRefused, Team!Compare, Team!SyncOwn, Team!Download, Team!Context,
       Team!ContextFails
  <2>8. /\ ~Team!PeerHere /\ ~Team!PeerFetched /\ ~Team!PeerMissed /\ ~Team!Save /\ ~Team!Crash
    BY <2>2 DEF Team!PeerHere, Team!PeerFetched, Team!PeerMissed, Team!PeerStep, Team!Save,
       Team!Crash, Team!Released
  <2>9. /\ ~\E v \in 0..2 : Team!TeamEdit(v)
        /\ ~\E u \in Team!Silicons, b \in TeamBodies : Team!RemoteEdit(u, b)
        /\ ~\E c \in TeamCreds : Team!Revoke(c) \/ Team!Rotate(c)
        /\ ~\E b \in TeamBodies : Team!EditFile(b)
    BY <2>2 DEF Team!TeamEdit, Team!RemoteEdit, Team!Revoke, Team!Rotate, Team!EditFile,
       Team!World
  <2> QED
    BY <2>1, <2>3, <2>4, <2>5, <2>6, <2>7, <2>8, <2>9 DEF Team!TNext
<1>2. /\ v7 = "put" /\ v6.exp = Team!Remote.rev
      /\ v1' = v1 \/ v1' = [v1 EXCEPT !.own[Team!Me] =
                              [rev |-> Team!Remote.rev + 1, body |-> Team!Content]]
  BY <1>1 DEF Team!Put, Team!PutUnheard, Team!Accepts
<1>3. w = Team!Me
  BY <1>2 DEF Team!TInv, Team!TTypeOK, Team!Services
<1>4. Team!Remote.body \in v12.seen[Team!Me] \cup {Team!Empty}
  BY <1>2 DEF Team!TInv, Team!Memories, Team!Replaces
<1> QED
  BY <1>3, <1>4 DEF Team!Remote

THEOREM UploadsReplaceTheSeen ==
  (Team!TSpec => Team!UploadsOverSeen) /\ (Spec => UploadsOverSeen)
<1>1. Team!TInv /\ [Team!TNext]_(Team!tvars) => [Team!UploadOverSeen]_(Team!tvars)
  BY TeamUploads
<1>2. (TeamPart => Team!TInv) /\ [Next]_vars => [TeamPart => Team!UploadOverSeen]_vars
  <2> SUFFICES ASSUME Team!TInv, Next, part = "team" PROVE Team!UploadOverSeen
    BY DEF TeamPart
  <2>1. Team!TNext
    BY DEF Next
  <2> QED
    BY <2>1, TeamUploads
<1>3. Team!TSpec => Team!UploadsOverSeen
  BY <1>1, TeamInvariance, PTL DEF Team!TSpec, Team!UploadsOverSeen
<1>4. Spec => UploadsOverSeen
  BY <1>2, TeamInvariance, PTL DEF Spec, UploadsOverSeen
<1> QED
  BY <1>3, <1>4
=============================================================================
