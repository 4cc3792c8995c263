---------------------------- MODULE CallsProofs ----------------------------
(***************************************************************************)
(* The calls of MCRecords: the journal of call mutations implements        *)
(* CallOrder, and a message changes a call once, for any messages,         *)
(* deliverers, calls, capacity and number of failures.                     *)
(*                                                                         *)
(* v3 is the journal, v4 what Glass applied last, v9 what the deliverers   *)
(* have in hand, v11 what was accepted, v12 what was given up.             *)
(***************************************************************************)
EXTENDS MCRecords, FiniteSetTheorems, WellFoundedInduction, TLAPS

-----------------------------------------------------------------------------
(* Journals.  q is a journal, c says how many mutations of each card are
   settled, a what was accepted, g what was given up. *)
LaneOf(q, k) == {j \in DOMAIN q : q[j].call = k /\ Call!Blocks(q[j])}
InLine(q, k, b, n) ==
    /\ b \in Nat /\ b <= n
    /\ \A j \in LaneOf(q, k) : q[j].i \in (b + 1)..n
    /\ \A j, x \in LaneOf(q, k) : j < x => q[j].i < q[x].i
    /\ \A x \in (b + 1)..n : \E j \in LaneOf(q, k) : q[j].i = x
Tried(e) == e.failed \/ e.tok # 0
Tidy(e, g) == Call!IsDead(e) =>
    e.failed /\ e.tok = 0 /\ (e.create \/ <<e.call, e.i>> \in g)
Orderly(q, c, a, g) ==
    /\ q \in Seq(Call!Entries)
    /\ \A k \in Call!Cards : InLine(q, k, c[k], Len(a[k]))
    /\ \A j \in DOMAIN q : Call!Blocks(q[j]) /\ Tried(q[j]) => q[j].i = c[q[j].call] + 1
    /\ \A j \in DOMAIN q : Tidy(q[j], g)
Cut(q, v) == [n \in 1..(Len(q) - 1) |-> IF n < v THEN q[n] ELSE q[n + 1]]
Shift(q, v) == [n \in 1..(Len(q) - 1) |-> IF n < v THEN n ELSE n + 1]

\* A lane that holds the mutations after b has as many entries as there are.
LEMMA LaneLength ==
  ASSUME NEW q \in Seq(Call!Entries), NEW k, NEW b, NEW n \in Nat, InLine(q, k, b, n)
  PROVE  Cardinality(LaneOf(q, k)) = n - b
<1> DEFINE f == [j \in LaneOf(q, k) |-> q[j].i - b]
<1>1. b \in Nat /\ n - b \in Nat /\ DOMAIN q = 1..Len(q) /\ Len(q) \in Nat
  BY DEF InLine
<1>2. IsFiniteSet(LaneOf(q, k))
  <2>1. IsFiniteSet(1..Len(q))
    BY <1>1, FS_Interval
  <2>2. LaneOf(q, k) \in SUBSET (1..Len(q))
    BY <1>1 DEF LaneOf
  <2> QED
    BY <2>1, <2>2, FS_Subset
<1>3. \A j \in LaneOf(q, k) : j \in Int /\ q[j].i \in (b + 1)..n
  BY <1>1 DEF InLine, LaneOf
<1>4. f \in [LaneOf(q, k) -> 1..(n - b)]
  BY <1>1, <1>3
<1>5. \A j, x \in LaneOf(q, k) : f[j] = f[x] => j = x
  <2> SUFFICES ASSUME NEW j \in LaneOf(q, k), NEW x \in LaneOf(q, k), f[j] = f[x], j # x
               PROVE  FALSE
    OBVIOUS
  <2>1. q[j].i = q[x].i
    BY <1>1, <1>3
  <2>2. j < x \/ x < j
    BY <1>3
  <2> QED
    BY <1>1, <1>3, <2>1, <2>2 DEF InLine
<1>6. \A y \in 1..(n - b) : \E j \in LaneOf(q, k) : f[j] = y
  <2> SUFFICES ASSUME NEW y \in 1..(n - b) PROVE \E j \in LaneOf(q, k) : f[j] = y
    OBVIOUS
  <2>1. PICK j \in LaneOf(q, k) : q[j].i = b + y
    BY <1>1 DEF InLine
  <2> QED
    BY <1>1, <2>1
<1>7. ExistsBijection(LaneOf(q, k), 1..(n - b))
  BY <1>4, <1>5, <1>6 DEF ExistsBijection, Bijection, Injection, Surjection, IsInjective
<1>8. Cardinality(1..(n - b)) = n - b
  BY <1>1, FS_Interval
<1> QED
  BY <1>2, <1>7, <1>8, FS_Bijection

\* The first of a lane is the mutation after the settled ones.
LEMMA LaneFirst ==
  ASSUME NEW q \in Seq(Call!Entries), NEW k, NEW b, NEW n \in Nat, InLine(q, k, b, n),
         NEW j \in LaneOf(q, k)
  PROVE  q[j].i = b + 1 <=> j = Call!Oldest(LaneOf(q, k))
<1>1. b \in Nat /\ \A x \in LaneOf(q, k) : x \in Nat /\ q[x].i \in (b + 1)..n
  BY DEF InLine, LaneOf
<1>2. b + 1 \in (b + 1)..n
  BY <1>1
<1>3. PICK x \in LaneOf(q, k) : q[x].i = b + 1
  BY <1>2 DEF InLine
<1>4. \A y \in LaneOf(q, k) : x <= y
  BY <1>1, <1>3 DEF InLine
<1>5. \A y \in LaneOf(q, k) : (\A z \in LaneOf(q, k) : y <= z) => y = x
  BY <1>1, <1>4
<1>6. Call!Oldest(LaneOf(q, k)) = x
  BY <1>4, <1>5 DEF Call!Oldest
<1>7. q[j].i = b + 1 => j = x
  BY <1>1, <1>3 DEF InLine
<1> QED
  BY <1>3, <1>6, <1>7

\* s leads from the lane of k in q2 to its lane in q, in order; R is not in it.
Moved(q, q2, k, s, R) ==
    /\ s \in [DOMAIN q2 -> DOMAIN q]
    /\ \A j, x \in DOMAIN q2 : j < x => s[j] < s[x]
    /\ \A j \in LaneOf(q2, k) : s[j] \in LaneOf(q, k) \ R /\ q2[j].i = q[s[j]].i
    /\ \A y \in LaneOf(q, k) \ R : \E j \in LaneOf(q2, k) : s[j] = y

\* A lane whose entries are those of another one, moved, or all but its first.
LEMMA LineFollows ==
  ASSUME NEW q \in Seq(Call!Entries), NEW q2 \in Seq(Call!Entries), NEW k,
         NEW b, NEW b2, NEW n \in Nat, InLine(q, k, b, n), NEW R, NEW s, Moved(q, q2, k, s, R),
         \/ R \cap LaneOf(q, k) = {} /\ b2 = b
         \/ \E v \in LaneOf(q, k) : R = {v} /\ q[v].i = b + 1 /\ b2 = b + 1
  PROVE  InLine(q2, k, b2, n)
<1>1. b \in Nat /\ \A x \in LaneOf(q, k) : x \in Nat /\ q[x].i \in (b + 1)..n
  BY DEF InLine, LaneOf
<1>2. \A x \in LaneOf(q, k) \ R : q[x].i \in (b2 + 1)..n
  <2>1. CASE R \cap LaneOf(q, k) = {} /\ b2 = b
    BY <1>1, <2>1
  <2>2. ASSUME NEW v \in LaneOf(q, k), R = {v}, q[v].i = b + 1, b2 = b + 1
        PROVE  \A x \in LaneOf(q, k) \ R : q[x].i \in (b2 + 1)..n
    <3> SUFFICES ASSUME NEW x \in LaneOf(q, k), x # v PROVE q[x].i \in (b2 + 1)..n
      BY <2>2
    <3>1. x < v => q[x].i < q[v].i
      BY DEF InLine
    <3>2. v < x => q[v].i < q[x].i
      BY DEF InLine
    <3>3. x \in Nat /\ v \in Nat /\ q[x].i \in (b + 1)..n /\ b \in Nat
      BY <1>1
    <3> QED
      BY <2>2, <3>1, <3>2, <3>3
  <2> QED
    BY <2>1, <2>2
<1> USE DEF Moved
<1>3. b2 \in Nat /\ b2 <= n
  BY <1>1 DEF InLine
<1>4. \A j \in LaneOf(q2, k) : q2[j].i \in (b2 + 1)..n
  BY <1>2
<1>5. \A j, x \in LaneOf(q2, k) : j < x => q2[j].i < q2[x].i
  <2> SUFFICES ASSUME NEW j \in LaneOf(q2, k), NEW x \in LaneOf(q2, k), j < x
               PROVE  q2[j].i < q2[x].i
    OBVIOUS
  <2>1. s[j] < s[x] /\ s[j] \in LaneOf(q, k) /\ s[x] \in LaneOf(q, k)
    BY DEF LaneOf
  <2> QED
    BY <2>1 DEF InLine
<1>6. \A x \in (b2 + 1)..n : \E j \in LaneOf(q2, k) : q2[j].i = x
  <2> SUFFICES ASSUME NEW x \in (b2 + 1)..n PROVE \E j \in LaneOf(q2, k) : q2[j].i = x
    OBVIOUS
  <2>1. x \in (b + 1)..n /\ (R \cap LaneOf(q, k) = {} \/ x # b + 1)
    BY <1>1, <1>3
  <2>2. PICK y \in LaneOf(q, k) : q[y].i = x
    BY <2>1 DEF InLine
  <2>3. y \notin R
    BY <2>1, <2>2
  <2> QED
    BY <2>2, <2>3
<1> QED
  BY <1>3, <1>4, <1>5, <1>6 DEF InLine

LEMMA FunctionIsSequence ==
  ASSUME NEW S, NEW n \in Nat, NEW f \in [1..n -> S]
  PROVE  f \in Seq(S) /\ Len(f) = n /\ DOMAIN f = 1..n
OBVIOUS

\* What is left when an entry is taken out.
LEMMA CutFacts ==
  ASSUME NEW q \in Seq(Call!Entries), NEW v \in DOMAIN q
  PROVE  /\ Cut(q, v) \in Seq(Call!Entries) /\ Len(Cut(q, v)) = Len(q) - 1
         /\ Shift(q, v) \in [DOMAIN Cut(q, v) -> DOMAIN q]
         /\ \A j, x \in DOMAIN Cut(q, v) : j < x => Shift(q, v)[j] < Shift(q, v)[x]
         /\ \A j \in DOMAIN Cut(q, v) : Cut(q, v)[j] = q[Shift(q, v)[j]] /\ Shift(q, v)[j] # v
         /\ \A y \in DOMAIN q : y # v => \E j \in DOMAIN Cut(q, v) : Shift(q, v)[j] = y
<1> DEFINE s == Shift(q, v)
<1>1. DOMAIN q = 1..Len(q) /\ Len(q) \in Nat /\ v \in 1..Len(q) /\ Len(q) - 1 \in Nat
  OBVIOUS
<1>2. \A n \in 1..(Len(q) - 1) : s[n] \in 1..Len(q) /\ Cut(q, v)[n] = q[s[n]] /\ s[n] # v
  BY <1>1 DEF Cut, Shift
<1>3. Cut(q, v) \in [1..(Len(q) - 1) -> Call!Entries]
  BY <1>1, <1>2 DEF Cut
<1>4. Cut(q, v) \in Seq(Call!Entries) /\ Len(Cut(q, v)) = Len(q) - 1
      /\ DOMAIN Cut(q, v) = 1..(Len(q) - 1)
  BY ONLY <1>1, <1>3, FunctionIsSequence
<1>5. \A j, x \in DOMAIN Cut(q, v) : j < x => s[j] < s[x]
  BY <1>1, <1>4 DEF Shift
<1>6. ASSUME NEW y \in DOMAIN q, y # v PROVE \E j \in DOMAIN Cut(q, v) : s[j] = y
  <2>1. CASE y < v
    BY <1>1, <1>4, <2>1 DEF Shift
  <2>2. CASE v < y
    <3>1. y - 1 \in 1..(Len(q) - 1) /\ ~(y - 1 < v) /\ (y - 1) + 1 = y
      BY <1>1, <2>2
    <3> QED
      BY <1>4, <3>1 DEF Shift
  <2> QED
    BY <1>1, <1>6, <2>1, <2>2
<1>7. s \in [DOMAIN Cut(q, v) -> DOMAIN q]
  BY <1>1, <1>2, <1>4 DEF Shift
<1> QED
  BY <1>1, <1>2, <1>4, <1>5, <1>6, <1>7

\* Taking out an entry that is in no lane, and one that is the first of its lane.
LEMMA CutLoose ==
  ASSUME NEW q, NEW c, NEW a, NEW g, Orderly(q, c, a, g), NEW v \in DOMAIN q,
         a \in [Call!Cards -> Seq(Call!Items)], ~Call!Blocks(q[v])
  PROVE  Orderly(Cut(q, v), c, a, g)
<1> DEFINE q2 == Cut(q, v)
           s == Shift(q, v)
<1>1. q \in Seq(Call!Entries)
  BY DEF Orderly
<1>2. /\ q2 \in Seq(Call!Entries) /\ s \in [DOMAIN q2 -> DOMAIN q]
      /\ \A j, x \in DOMAIN q2 : j < x => s[j] < s[x]
      /\ \A j \in DOMAIN q2 : q2[j] = q[s[j]] /\ s[j] # v
      /\ \A y \in DOMAIN q : y # v => \E j \in DOMAIN q2 : s[j] = y
  BY <1>1, CutFacts
<1> HIDE DEF s, q2
<1>3. ASSUME NEW k \in Call!Cards PROVE InLine(q2, k, c[k], Len(a[k]))
  <2>1. \A j \in LaneOf(q2, k) : s[j] \in LaneOf(q, k) \ {} /\ q2[j].i = q[s[j]].i
    BY <1>2 DEF LaneOf
  <2>2. \A y \in LaneOf(q, k) \ {} : \E j \in LaneOf(q2, k) : s[j] = y
    <3> SUFFICES ASSUME NEW y \in LaneOf(q, k) PROVE \E j \in LaneOf(q2, k) : s[j] = y
      OBVIOUS
    <3>1. y \in DOMAIN q /\ y # v
      BY DEF LaneOf
    <3>2. PICK j \in DOMAIN q2 : s[j] = y
      BY <1>2, <3>1
    <3> QED
      BY <1>2, <3>2 DEF LaneOf
  <2>3. InLine(q, k, c[k], Len(a[k])) /\ Len(a[k]) \in Nat
    BY DEF Orderly
  <2>5. Moved(q, q2, k, s, {})
    BY <1>2, <2>1, <2>2 DEF Moved
  <2> QED
    BY <1>1, <1>2, <2>5, <2>3, LineFollows
<1>4. \A j \in DOMAIN q2 : Call!Blocks(q2[j]) /\ Tried(q2[j]) => q2[j].i = c[q2[j].call] + 1
  BY <1>2 DEF Orderly
<1>5. \A j \in DOMAIN q2 : Tidy(q2[j], g)
  BY <1>2 DEF Orderly
<1> QED
  BY <1>2, <1>3, <1>4, <1>5 DEF Orderly, q2

LEMMA CutFirst ==
  ASSUME NEW q, NEW c, NEW a, NEW g, Orderly(q, c, a, g), NEW v \in DOMAIN q,
         a \in [Call!Cards -> Seq(Call!Items)], c \in [Call!Cards -> Nat],
         Call!Blocks(q[v]), Tried(q[v]), NEW g2, g \subseteq g2
  PROVE  /\ Orderly(Cut(q, v), [c EXCEPT ![q[v].call] = @ + 1], a, g2)
         /\ q[v].i = c[q[v].call] + 1 /\ c[q[v].call] < Len(a[q[v].call])
         /\ q[v].call \in Call!Cards
<1> DEFINE q2 == Cut(q, v)
           s == Shift(q, v)
           w == q[v].call
           c2 == [c EXCEPT ![w] = @ + 1]
<1>0. q \in Seq(Call!Entries) /\ q[v] \in Call!Entries
  BY DEF Orderly
<1>1. /\ q \in Seq(Call!Entries) /\ q[v] \in Call!Entries /\ w \in Call!Cards
      /\ q[v].i = c[w] + 1 /\ v \in LaneOf(q, w)
  BY <1>0 DEF Orderly, Call!Entries, LaneOf
<1>2. /\ q2 \in Seq(Call!Entries) /\ s \in [DOMAIN q2 -> DOMAIN q]
      /\ \A j, x \in DOMAIN q2 : j < x => s[j] < s[x]
      /\ \A j \in DOMAIN q2 : q2[j] = q[s[j]] /\ s[j] # v
      /\ \A y \in DOMAIN q : y # v => \E j \in DOMAIN q2 : s[j] = y
  BY <1>1, CutFacts
<1>3. \A k \in Call!Cards : c2[k] = IF k = w THEN c[k] + 1 ELSE c[k]
  BY <1>1
<1> HIDE DEF s, q2, c2
<1>4. ASSUME NEW k \in Call!Cards
      PROVE  InLine(q2, k, c2[k], Len(a[k]))
  <2>1. \A j \in LaneOf(q2, k) : s[j] \in LaneOf(q, k) \ {v} /\ q2[j].i = q[s[j]].i
    BY <1>2 DEF LaneOf
  <2>2. \A y \in LaneOf(q, k) \ {v} : \E j \in LaneOf(q2, k) : s[j] = y
    <3> SUFFICES ASSUME NEW y \in LaneOf(q, k) \ {v} PROVE \E j \in LaneOf(q2, k) : s[j] = y
      OBVIOUS
    <3>1. y \in DOMAIN q /\ y # v
      BY DEF LaneOf
    <3>2. PICK j \in DOMAIN q2 : s[j] = y
      BY <1>2, <3>1
    <3> QED
      BY <1>2, <3>2 DEF LaneOf
  <2>3. InLine(q, k, c[k], Len(a[k])) /\ Len(a[k]) \in Nat
    BY DEF Orderly
  <2>4. \/ {v} \cap LaneOf(q, k) = {} /\ c2[k] = c[k]
        \/ \E x \in LaneOf(q, k) : {v} = {x} /\ q[x].i = c[k] + 1 /\ c2[k] = c[k] + 1
    BY <1>1, <1>3 DEF LaneOf
  <2>5. Moved(q, q2, k, s, {v})
    BY <1>2, <2>1, <2>2 DEF Moved
  <2> QED
    BY <1>1, <1>2, <2>5, <2>3, <2>4, LineFollows
<1>5. ASSUME NEW j \in DOMAIN q2, Call!Blocks(q2[j]), Tried(q2[j])
      PROVE  q2[j].i = c2[q2[j].call] + 1
  <2>1. s[j] \in DOMAIN q /\ s[j] # v /\ q2[j] = q[s[j]] /\ q2[j] \in Call!Entries
    BY <1>2
  <2>2. q2[j].i = c[q2[j].call] + 1
    BY <1>5, <2>1 DEF Orderly
  <2>3. q2[j].call # w
    <3> SUFFICES ASSUME q2[j].call = w PROVE FALSE
      OBVIOUS
    <3>1. s[j] \in LaneOf(q, w) /\ q[s[j]].i = q[v].i
      BY <1>1, <1>5, <2>1, <2>2 DEF LaneOf
    <3>2. InLine(q, w, c[w], Len(a[w]))
      BY <1>1 DEF Orderly
    <3>3. s[j] = v
      BY <1>1, <3>1, <3>2, LaneFirst
    <3> QED
      BY <2>1, <3>3
  <2> QED
    BY <1>3, <2>1, <2>2, <2>3 DEF Call!Entries
<1>6. \A j \in DOMAIN q2 : Tidy(q2[j], g2)
  BY <1>2 DEF Orderly, Tidy
<1>7. c[w] < Len(a[w])
  BY <1>1 DEF Orderly, InLine
<1> QED
  BY <1>1, <1>2, <1>4, <1>5, <1>6, <1>7 DEF Orderly, q2, c2

\* A new mutation goes to the end of its lane.
LEMMA AppendEntry ==
  ASSUME NEW q, NEW c, NEW a, NEW g, Orderly(q, c, a, g), NEW k \in Call!Cards,
         a \in [Call!Cards -> Seq(Call!Items)], NEW x \in Call!Items,
         NEW e \in Call!Entries, e.call = k, e.i = Len(a[k]) + 1, e.st = "pending",
         e.tok = 0, ~e.failed
  PROVE  Orderly(Append(q, e), c, [a EXCEPT ![k] = Append(@, x)], g)
<1> DEFINE q2 == Append(q, e)
           a2 == [a EXCEPT ![k] = Append(@, x)]
           N == Len(q)
<1>1. q \in Seq(Call!Entries) /\ N \in Nat /\ DOMAIN q = 1..N
  BY DEF Orderly
<1>2. /\ q2 \in Seq(Call!Entries) /\ DOMAIN q2 = 1..(N + 1) /\ q2[N + 1] = e
      /\ \A j \in 1..N : q2[j] = q[j]
  BY <1>1
<1>3. Call!Blocks(e) /\ ~Tried(e) /\ ~Call!IsDead(e)
  BY DEF Call!Blocks, Tried, Call!IsDead
<1>4. \A l \in Call!Cards :
        Len(a[l]) \in Nat /\ Len(a2[l]) = IF l = k THEN Len(a[l]) + 1 ELSE Len(a[l])
  OBVIOUS
<1> HIDE DEF q2, a2, N
<1>5. \A l \in Call!Cards :
        LaneOf(q2, l) = IF l = k THEN LaneOf(q, l) \cup {N + 1} ELSE LaneOf(q, l)
  BY <1>1, <1>2, <1>3 DEF LaneOf
<1>6. ASSUME NEW l \in Call!Cards PROVE InLine(q2, l, c[l], Len(a2[l]))
  <2> DEFINE n == Len(a[l])
             b == c[l]
  <2>1. InLine(q, l, b, n) /\ n \in Nat
    BY <1>4 DEF Orderly
  <2>2. \A j \in LaneOf(q, l) : j \in 1..N /\ q2[j] = q[j]
    BY <1>1, <1>2 DEF LaneOf
  <2>3. CASE l # k
    BY <1>4, <1>5, <2>1, <2>2, <2>3 DEF InLine
  <2>4. CASE l = k
    <3>1. LaneOf(q2, l) = LaneOf(q, l) \cup {N + 1} /\ Len(a2[l]) = n + 1 /\ q2[N + 1].i = n + 1
      BY <1>2, <1>4, <1>5, <2>4
    <3> HIDE DEF n, b
    <3>2. b \in Nat /\ b <= n + 1
      BY <2>1 DEF InLine
    <3>3. \A j \in LaneOf(q2, l) : q2[j].i \in (b + 1)..(n + 1)
      BY <2>1, <2>2, <3>1, <3>2 DEF InLine
    <3>4. \A j, y \in LaneOf(q2, l) : j < y => q2[j].i < q2[y].i
      <4> SUFFICES ASSUME NEW j \in LaneOf(q2, l), NEW y \in LaneOf(q2, l), j < y
                   PROVE  q2[j].i < q2[y].i
        OBVIOUS
      <4>1. CASE j \in LaneOf(q, l) /\ y \in LaneOf(q, l)
        BY <2>1, <2>2, <4>1 DEF InLine
      <4>2. CASE j \in LaneOf(q, l) /\ y = N + 1
        <5>1. q[j].i \in (b + 1)..n
          BY <2>1, <4>2 DEF InLine
        <5>2. q2[j].i = q[j].i /\ q2[y].i = n + 1
          BY <2>2, <3>1, <4>2
        <5> QED
          BY <2>1, <3>2, <5>1, <5>2
      <4>3. CASE j = N + 1
        <5>1. y \in LaneOf(q, l) \/ y = N + 1
          BY <3>1
        <5>2. N \in Nat /\ y \in 1..N + 1
          BY <1>1, <2>2, <5>1
        <5> QED
          BY <4>3, <5>2
      <4> QED
        BY <3>1, <4>1, <4>2, <4>3
    <3>5. \A y \in (b + 1)..(n + 1) : \E j \in LaneOf(q2, l) : q2[j].i = y
      <4> SUFFICES ASSUME NEW y \in (b + 1)..(n + 1) PROVE \E j \in LaneOf(q2, l) : q2[j].i = y
        OBVIOUS
      <4>1. CASE y = n + 1
        BY <3>1, <4>1
      <4>2. CASE y # n + 1
        <5>1. y \in (b + 1)..n
          BY <2>1, <3>2, <4>2
        <5>2. PICK j \in LaneOf(q, l) : q[j].i = y
          BY <2>1, <5>1 DEF InLine
        <5> QED
          BY <2>2, <3>1, <5>2
      <4> QED
        BY <4>1, <4>2
    <3>6. InLine(q2, l, b, n + 1)
      BY <3>2, <3>3, <3>4, <3>5 DEF InLine
    <3> QED
      BY <3>1, <3>6 DEF b
  <2> QED
    BY <2>3, <2>4
<1>7. \A j \in DOMAIN q2 : Call!Blocks(q2[j]) /\ Tried(q2[j]) => q2[j].i = c[q2[j].call] + 1
  BY <1>1, <1>2, <1>3 DEF Orderly
<1>8. \A j \in DOMAIN q2 : Tidy(q2[j], g)
  BY <1>1, <1>2, <1>3 DEF Orderly, Tidy
<1> QED
  BY <1>2, <1>6, <1>7, <1>8 DEF Orderly, q2, a2

\* An entry is leased, released or marked, and stays in its lane.
LEMMA MarkEntry ==
  ASSUME NEW q, NEW c, NEW a, NEW g, Orderly(q, c, a, g), NEW v \in DOMAIN q,
         NEW e \in Call!Entries, e.call = q[v].call, e.i = q[v].i,
         Call!Blocks(e) <=> Call!Blocks(q[v]),
         Call!Blocks(e) /\ Tried(e) => q[v].i = c[q[v].call] + 1,
         NEW g2, g \subseteq g2, Tidy(e, g2)
  PROVE  Orderly([q EXCEPT ![v] = e], c, a, g2)
<1> DEFINE q2 == [q EXCEPT ![v] = e]
<1>1. q \in Seq(Call!Entries) /\ DOMAIN q \subseteq Nat
  BY DEF Orderly
<1>2. /\ q2 \in Seq(Call!Entries) /\ DOMAIN q2 = DOMAIN q
      /\ q2[v] = e /\ \A j \in DOMAIN q : j # v => q2[j] = q[j]
  BY <1>1
<1> HIDE DEF q2
<1>3. \A j \in DOMAIN q : q2[j].call = q[j].call /\ q2[j].i = q[j].i
                         /\ (Call!Blocks(q2[j]) <=> Call!Blocks(q[j]))
  BY <1>2
<1>4. \A k : LaneOf(q2, k) = LaneOf(q, k)
  BY <1>2, <1>3 DEF LaneOf
<1>5. \A k \in Call!Cards : InLine(q2, k, c[k], Len(a[k]))
  <2> SUFFICES ASSUME NEW k \in Call!Cards PROVE InLine(q2, k, c[k], Len(a[k]))
    OBVIOUS
  <2>1. InLine(q, k, c[k], Len(a[k]))
    BY DEF Orderly
  <2>2. \A j \in LaneOf(q, k) : q2[j].i = q[j].i
    BY <1>3 DEF LaneOf
  <2> QED
    BY <1>4, <2>1, <2>2 DEF InLine
<1>6. \A j \in DOMAIN q2 : Call!Blocks(q2[j]) /\ Tried(q2[j]) => q2[j].i = c[q2[j].call] + 1
  BY <1>2, <1>3 DEF Orderly
<1>7. \A j \in DOMAIN q2 : Tidy(q2[j], g2)
  BY <1>2 DEF Orderly, Tidy
<1> QED
  BY <1>2, <1>5, <1>6, <1>7 DEF Orderly, q2

\* The first entry of a lane is given up and leaves it.
LEMMA LoseEntry ==
  ASSUME NEW q, NEW c, NEW a, NEW g, Orderly(q, c, a, g), NEW v \in DOMAIN q,
         a \in [Call!Cards -> Seq(Call!Items)], c \in [Call!Cards -> Nat],
         Call!Blocks(q[v]), Tried(q[v]),
         NEW e \in Call!Entries, e.call = q[v].call, e.i = q[v].i, ~Call!Blocks(e),
         NEW g2, g \subseteq g2, Tidy(e, g2)
  PROVE  Orderly([q EXCEPT ![v] = e], [c EXCEPT ![q[v].call] = @ + 1], a, g2)
<1> DEFINE q2 == [q EXCEPT ![v] = e]
           s == [j \in DOMAIN q |-> j]
           w == q[v].call
           c2 == [c EXCEPT ![w] = @ + 1]
<1>0. q \in Seq(Call!Entries) /\ q[v] \in Call!Entries /\ DOMAIN q \subseteq Nat
  BY DEF Orderly
<1>1. w \in Call!Cards /\ q[v].i = c[w] + 1 /\ v \in LaneOf(q, w)
  BY <1>0 DEF Orderly, Call!Entries, LaneOf
<1>2. /\ q2 \in Seq(Call!Entries) /\ DOMAIN q2 = DOMAIN q
      /\ q2[v] = e /\ \A j \in DOMAIN q : j # v => q2[j] = q[j]
  BY <1>0
<1>3. \A k \in Call!Cards : c2[k] = IF k = w THEN c[k] + 1 ELSE c[k]
  BY <1>1
<1>4. s \in [DOMAIN q2 -> DOMAIN q] /\ \A j \in DOMAIN q2 : s[j] = j
  BY <1>2
<1> HIDE DEF q2, s, c2
<1>5. \A k : LaneOf(q2, k) = LaneOf(q, k) \ {v}
  BY <1>2 DEF LaneOf
<1>6. ASSUME NEW k \in Call!Cards PROVE InLine(q2, k, c2[k], Len(a[k]))
  <2>1. \A j \in LaneOf(q2, k) : j \in DOMAIN q2 /\ j # v /\ s[j] = j /\ q2[j] = q[j]
    BY <1>2, <1>4, <1>5 DEF LaneOf
  <2>2. \A j, x \in DOMAIN q2 : j < x => s[j] < s[x]
    BY <1>4
  <2>3. Moved(q, q2, k, s, {v})
    BY <1>4, <1>5, <2>1, <2>2 DEF Moved
  <2>4. InLine(q, k, c[k], Len(a[k])) /\ Len(a[k]) \in Nat
    BY DEF Orderly
  <2>5. \/ {v} \cap LaneOf(q, k) = {} /\ c2[k] = c[k]
        \/ \E x \in LaneOf(q, k) : {v} = {x} /\ q[x].i = c[k] + 1 /\ c2[k] = c[k] + 1
    BY <1>1, <1>3 DEF LaneOf
  <2> QED
    BY <1>0, <1>2, <2>3, <2>4, <2>5, LineFollows
<1>7. ASSUME NEW j \in DOMAIN q2, Call!Blocks(q2[j]), Tried(q2[j])
      PROVE  q2[j].i = c2[q2[j].call] + 1
  <2>1. j \in DOMAIN q /\ j # v /\ q2[j] = q[j] /\ q2[j] \in Call!Entries
    BY <1>2, <1>7
  <2>2. q2[j].i = c[q2[j].call] + 1
    BY <1>7, <2>1 DEF Orderly
  <2>3. q2[j].call # w
    <3> SUFFICES ASSUME q2[j].call = w PROVE FALSE
      OBVIOUS
    <3>1. j \in LaneOf(q, w) /\ q[j].i = q[v].i
      BY <1>1, <1>7, <2>1, <2>2 DEF LaneOf
    <3>2. InLine(q, w, c[w], Len(a[w]))
      BY <1>1 DEF Orderly
    <3>3. j = v
      BY <1>0, <1>1, <3>1, <3>2, LaneFirst
    <3> QED
      BY <2>1, <3>3
  <2> QED
    BY <1>3, <2>1, <2>2, <2>3 DEF Call!Entries
<1>8. ASSUME NEW j \in DOMAIN q2 PROVE Tidy(q2[j], g2)
  <2>1. CASE j = v
    BY <1>2, <2>1
  <2>2. CASE j # v
    <3>1. j \in DOMAIN q /\ q2[j] = q[j]
      BY <1>2, <2>2
    <3>2. Tidy(q[j], g)
      BY <3>1 DEF Orderly
    <3> QED
      BY <3>1, <3>2 DEF Tidy
  <2> QED
    BY <2>1, <2>2
<1> QED
  BY <1>2, <1>6, <1>7, <1>8 DEF Orderly, q2, c2

\* Settled counts what is settled.
LEMMA SettledCounts ==
  ASSUME NEW q, NEW c, NEW a, NEW g, Orderly(q, c, a, g),
         a \in [Call!Cards -> Seq(Call!Items)], c \in [Call!Cards -> Nat]
  PROVE  [k \in Call!Cards |-> Len(a[k]) - Cardinality(LaneOf(q, k))] = c
<1>1. ASSUME NEW k \in Call!Cards PROVE Len(a[k]) - Cardinality(LaneOf(q, k)) = c[k]
  <2>1. InLine(q, k, c[k], Len(a[k])) /\ Len(a[k]) \in Nat /\ q \in Seq(Call!Entries)
    BY DEF Orderly
  <2>2. Cardinality(LaneOf(q, k)) = Len(a[k]) - c[k]
    BY <2>1, LaneLength
  <2> QED
    BY <2>1, <2>2
<1> QED
  BY <1>1

-----------------------------------------------------------------------------
(* The journal of the calls. *)

\* The oldest of a set of positions is in it.
LEMMA OldestIn ==
  ASSUME NEW S, S \subseteq Nat, S # {}
  PROVE  Call!Oldest(S) \in S
<1>1. PICK x \in S : \A y \in S : <<y, x>> \notin OpToRel(<, Nat)
  BY WFMin, NatLessThanWellFounded
<1>2. ASSUME NEW y \in S PROVE x <= y
  <2>1. x \in Nat /\ y \in Nat
    OBVIOUS
  <2>2. y < x => <<y, x>> \in OpToRel(<, Nat)
    BY <2>1 DEF OpToRel
  <2>3. ~(y < x)
    BY <1>1, <2>2
  <2> QED
    BY ONLY <2>1, <2>3
<1> QED
  BY <1>2 DEF Call!Oldest

\* The operators of FiniteSets, reached through Calls.
LEMMA SameSets ==
  ASSUME NEW S
  PROVE  Call!Cardinality(S) = Cardinality(S) /\ (Call!IsFiniteSet(S) <=> IsFiniteSet(S))
<1>1. Call!Cardinality(S) = Cardinality(S)
  BY DEF Call!Cardinality, Cardinality
<1>2. Call!IsFiniteSet(S) <=> IsFiniteSet(S)
  BY DEF Call!IsFiniteSet, IsFiniteSet
<1> QED
  BY <1>1, <1>2

LEMMA JournalOrderly ==
  ASSUME Call!CInv
  PROVE  /\ Orderly(v3, Call!Settled, v11, v12) /\ Call!Settled \in [Call!Cards -> Nat]
         /\ v11 \in [Call!Cards -> Seq(Call!Items)]
<1>1. /\ v11 \in [Call!Cards -> Seq(Call!Items)] /\ v3 \in Seq(Call!Entries)
      /\ Call!LanesInOrder /\ Call!TriedIsFirst /\ Call!DeadAreGone
  BY DEF Call!CInv, Call!CTypeOK
<1>2. Call!Settled \in [Call!Cards -> Nat]
  <2>1. \A k \in Call!Cards : Call!Settled[k] \in Nat
    BY <1>1 DEF Call!LanesInOrder
  <2>2. Call!Settled = [k \in Call!Cards |-> Call!Settled[k]]
    BY DEF Call!Settled
  <2> QED
    BY <2>1, <2>2
<1>3. \A k : LaneOf(v3, k) = Call!Lane(k)
  BY DEF LaneOf, Call!Lane
<1>4. ASSUME NEW k \in Call!Cards
      PROVE  InLine(v3, k, Call!Settled[k], Len(v11[k]))
  <2> DEFINE b == Call!Settled[k]
             n == Len(v11[k])
  <2>1. /\ b \in 0..n /\ n \in Nat
        /\ \A j \in LaneOf(v3, k) : v3[j].i \in (b + 1)..n
        /\ \A j, x \in LaneOf(v3, k) : j < x => v3[j].i < v3[x].i
        /\ \A x \in (b + 1)..n : \E j \in LaneOf(v3, k) : v3[j].i = x
    BY <1>1, <1>3 DEF Call!LanesInOrder
  <2> HIDE DEF b, n
  <2>2. InLine(v3, k, b, n)
    BY <2>1 DEF InLine
  <2> QED
    BY <2>2 DEF b, n
<1>5. \A j \in DOMAIN v3 : Call!Blocks(v3[j]) /\ Tried(v3[j]) =>
        v3[j].i = Call!Settled[v3[j].call] + 1
  BY <1>1 DEF Call!TriedIsFirst, Tried
<1>6. \A j \in DOMAIN v3 : Tidy(v3[j], v12)
  BY <1>1 DEF Call!DeadAreGone, Tidy
<1> QED
  BY <1>1, <1>2, <1>4, <1>5, <1>6 DEF Orderly

InOrder == Call!LanesInOrder /\ Call!TriedIsFirst /\ Call!DeadAreGone

LEMMA OrderlyJournal ==
  ASSUME NEW c, c \in [Call!Cards -> Nat], v11' \in [Call!Cards -> Seq(Call!Items)],
         Orderly(v3', c, v11', v12')
  PROVE  Call!Settled' = c /\ InOrder'
<1>1. \A k : LaneOf(v3', k) = Call!Lane(k)'
  BY DEF LaneOf, Call!Lane
<1>2. Call!Settled' = [k \in Call!Cards |-> Len(v11'[k]) - Cardinality(LaneOf(v3', k))]
  BY <1>1, SameSets DEF Call!Settled
<1>3. Call!Settled' = c
  BY <1>2, SettledCounts
<1>4. ASSUME NEW k \in Call!Cards
      PROVE  InLine(v3', k, Call!Settled'[k], Len(v11'[k])) /\ Len(v11'[k]) \in Nat
  BY <1>3 DEF Orderly
<1>5. Call!LanesInOrder'
  <2> SUFFICES ASSUME NEW k \in Call!Cards
               PROVE  /\ Call!Settled'[k] \in 0..Len(v11'[k])
                      /\ \A j \in LaneOf(v3', k) : v3'[j].i \in (Call!Settled'[k] + 1)..Len(v11'[k])
                      /\ \A j, n \in LaneOf(v3', k) : j < n => v3'[j].i < v3'[n].i
                      /\ \A x \in (Call!Settled'[k] + 1)..Len(v11'[k]) :
                            \E j \in LaneOf(v3', k) : v3'[j].i = x
    BY <1>1 DEF Call!LanesInOrder
  <2> QED
    BY <1>4 DEF InLine
<1>6. Call!TriedIsFirst'
  BY <1>3 DEF Call!TriedIsFirst, Orderly, Tried
<1>7. Call!DeadAreGone'
  BY DEF Call!DeadAreGone, Orderly, Tidy
<1> QED
  BY <1>3, <1>5, <1>6, <1>7 DEF InOrder

\* The entries that are leased.
Leased(q) == {e \in {q[j] : j \in DOMAIN q} : e.tok # 0}

LEMMA CutLeased ==
  ASSUME NEW q \in Seq(Call!Entries), NEW v \in DOMAIN q, q[v].tok = 0
  PROVE  Leased(Cut(q, v)) = Leased(q)
<1>1. ASSUME NEW e \in Leased(Cut(q, v)) PROVE e \in Leased(q)
  BY CutFacts DEF Leased
<1>2. ASSUME NEW e \in Leased(q) PROVE e \in Leased(Cut(q, v))
  <2>1. PICK y \in DOMAIN q : e = q[y] /\ y # v
    BY DEF Leased
  <2>2. PICK j \in DOMAIN Cut(q, v) : Shift(q, v)[j] = y
    BY <2>1, CutFacts
  <2> QED
    BY <2>1, <2>2, CutFacts DEF Leased
<1> QED
  BY <1>1, <1>2

LEMMA AppendLeased ==
  ASSUME NEW q \in Seq(Call!Entries), NEW x, x.tok = 0
  PROVE  Leased(Append(q, x)) = Leased(q)
<1>1. /\ DOMAIN Append(q, x) = 1..(Len(q) + 1) /\ Append(q, x)[Len(q) + 1] = x
      /\ \A j \in 1..Len(q) : Append(q, x)[j] = q[j]
      /\ DOMAIN q = 1..Len(q) /\ Len(q) \in Nat
  OBVIOUS
<1>2. {Append(q, x)[j] : j \in DOMAIN Append(q, x)} = {q[j] : j \in DOMAIN q} \cup {x}
  BY <1>1
<1> QED
  BY <1>2 DEF Leased

\* A victim of a full journal is in no lane or the first of its lane, and not leased.
LEMMA VictimFacts ==
  ASSUME Call!CInv, Call!Victims # {}
  PROVE  LET v == Call!Oldest(Call!Victims)
         IN v \in DOMAIN v3 /\ v3[v].tok = 0 /\ Tried(v3[v])
<1>1. Call!Victims \subseteq DOMAIN v3
  BY DEF Call!Victims, Call!Positions
<1>2. v3 \in Seq(Call!Entries) /\ DOMAIN v3 \subseteq Nat
  BY DEF Call!CInv, Call!CTypeOK
<1>3. \A v \in Call!Victims : v3[v].tok = 0 /\ v3[v].failed
  BY DEF Call!Victims, Call!Positions, Call!CInv, Call!DeadAreGone
<1>4. Call!Oldest(Call!Victims) \in Call!Victims
  BY <1>1, <1>2, OldestIn
<1> QED
  BY <1>1, <1>3, <1>4 DEF Tried

LEMMA InsertKeeps ==
  ASSUME Call!CInv, Call!CAssumption, NEW k \in Call!Cards, NEW kind, NEW m,
         Call!Item(kind, m) \in Call!Items, Call!Inserted(k, kind, m)
  PROVE  /\ v3' \in Seq(Call!Entries) /\ Len(v3') <= Capacity
         /\ v11' = [v11 EXCEPT ![k] = Append(@, Call!Item(kind, m))]
         /\ v11' \in [Call!Cards -> Seq(Call!Items)]
         /\ InOrder' /\ (v4' = v4 => Call!Order!ONext)
         /\ Leased(v3') = Leased(v3)
<1> DEFINE x == Call!Item(kind, m)
           e == Call!Entry(k, kind)
           v == Call!Oldest(Call!Victims)
           S == Call!Settled
<1>1. /\ Orderly(v3, S, v11, v12) /\ S \in [Call!Cards -> Nat]
      /\ v11 \in [Call!Cards -> Seq(Call!Items)]
      /\ v3 \in Seq(Call!Entries) /\ Len(v3) <= Capacity /\ Len(v3) \in Nat
      /\ Capacity \in Nat \ {0}
  BY JournalOrderly DEF Call!CInv, Call!CTypeOK, Call!CAssumption
<1>2. /\ e \in Call!Entries /\ e.call = k /\ e.i = Len(v11[k]) + 1 /\ e.st = "pending"
      /\ e.tok = 0 /\ ~e.failed
  BY <1>1 DEF Call!Entry, Call!Entries
<1>3. /\ v11' = [v11 EXCEPT ![k] = Append(@, x)] /\ x \in Call!Items
      /\ v11' \in [Call!Cards -> Seq(Call!Items)]
  BY <1>1 DEF Call!Inserted
<1>4. CASE Call!Room
  <2>1. v3' = Append(v3, e) /\ v12' = v12 /\ Len(v3) < Capacity
    BY <1>4 DEF Call!Inserted, Call!Room
  <2>2. Orderly(v3', S, v11', v12')
    BY <1>1, <1>2, <1>3, <2>1, AppendEntry
  <2>3. Call!Settled' = S /\ InOrder'
    BY <1>1, <1>3, <2>2, OrderlyJournal
  <2>4. v4' = v4 => Call!Order!Accept(k)
    BY <1>3, <2>1, <2>3 DEF Call!Order!Accept, Call!Order!Accepted
  <2> QED
    BY <1>1, <1>2, <1>3, <2>1, <2>3, <2>4, AppendLeased DEF Call!Order!ONext
<1>5. CASE ~Call!Room
  <2>1. /\ Call!Victims # {} /\ v3' = Append(Cut(v3, v), e)
        /\ v12' = IF Call!Blocks(v3[v]) THEN v12 \cup {<<v3[v].call, v3[v].i>>} ELSE v12
    BY <1>5 DEF Call!Inserted, Call!Insertable, Call!Without, Cut
  <2>2. v \in DOMAIN v3 /\ v3[v].tok = 0 /\ Tried(v3[v])
    BY <2>1, VictimFacts
  <2>3. Cut(v3, v) \in Seq(Call!Entries) /\ Len(Cut(v3, v)) = Len(v3) - 1
    BY <1>1, <2>2, CutFacts
  <2>4. v3' \in Seq(Call!Entries) /\ Len(v3') <= Capacity
    BY <1>1, <1>2, <2>1, <2>3
  <2>5. Leased(v3') = Leased(v3)
    BY <1>1, <1>2, <2>1, <2>2, <2>3, CutLeased, AppendLeased
  <2>6. CASE ~Call!Blocks(v3[v])
    <3>1. v12' = v12
      BY <2>1, <2>6
    <3>2. Orderly(Cut(v3, v), S, v11, v12)
      BY <1>1, <2>2, <2>6, CutLoose
    <3>3. Orderly(v3', S, v11', v12')
      BY <1>1, <1>2, <1>3, <2>1, <3>1, <3>2, AppendEntry
    <3>4. Call!Settled' = S /\ InOrder'
      BY <1>1, <1>3, <3>3, OrderlyJournal
    <3>5. v4' = v4 => Call!Order!Accept(k)
      BY <1>3, <3>1, <3>4 DEF Call!Order!Accept, Call!Order!Accepted
    <3> QED
      BY <1>3, <2>4, <2>5, <3>4, <3>5 DEF Call!Order!ONext
  <2>7. CASE Call!Blocks(v3[v])
    <3> DEFINE l == v3[v].call
               c == [S EXCEPT ![l] = @ + 1]
    <3>1. v12' = v12 \cup {<<l, v3[v].i>>} /\ v12 \subseteq v12'
      BY <2>1, <2>7
    <3>2. /\ Orderly(Cut(v3, v), c, v11, v12') /\ v3[v].i = S[l] + 1
          /\ S[l] < Len(v11[l]) /\ l \in Call!Cards
      BY <1>1, <2>2, <2>7, <3>1, CutFirst
    <3>3. c \in [Call!Cards -> Nat]
      <4>1. S \in [Call!Cards -> Nat]
        BY <1>1
      <4>2. S[l] + 1 \in Nat
        BY <3>2, <4>1
      <4> QED
        BY <4>1, <4>2
    <3> HIDE DEF c
    <3>4. Orderly(v3', c, v11', v12')
      BY <1>1, <1>2, <1>3, <2>1, <3>2, AppendEntry
    <3>5. Call!Settled' = c /\ InOrder'
      BY <1>3, <3>3, <3>4, OrderlyJournal
    <3>6. v4' = v4 => Call!Order!Displace(k, l)
      BY <1>3, <3>1, <3>2, <3>5
         DEF Call!Order!Displace, Call!Order!Accepted, Call!Order!GivenUp, Call!Order!Settle, c
    <3> QED
      BY <1>3, <2>4, <2>5, <3>2, <3>5, <3>6 DEF Call!Order!ONext
  <2> QED
    BY <2>6, <2>7
<1> QED
  BY <1>4, <1>5

\* The leases by what is leased: S is the leased entries, h what is in hand.
Holds(S, x) == \E e \in S : e.call = x.call /\ e.i = x.i /\ e.tok = x.tok
Leases(S, h, p) ==
    /\ \A d \in Deliverers : h[d].call # 0 =>
         /\ h[d].tok # 0
         /\ h[d].res = "none" => Holds(S, h[d])
         /\ h[d].res = "ok" /\ Holds(S, h[d]) => p[h[d].call] = h[d].i
    /\ \A d, e \in Deliverers : d # e /\ h[d].tok # 0 => h[d].tok # h[e].tok
MineOf(q, x) == {j \in DOMAIN q : q[j].call = x.call /\ q[j].i = x.i /\ q[j].tok = x.tok}

LEMMA MineHolds ==
  ASSUME NEW q, NEW x, x.tok # 0
  PROVE  MineOf(q, x) # {} <=> Holds(Leased(q), x)
<1>1. ASSUME NEW j \in MineOf(q, x) PROVE Holds(Leased(q), x)
  <2>1. q[j] \in Leased(q)
    BY DEF MineOf, Leased
  <2> QED
    BY <2>1 DEF MineOf, Holds
<1>2. ASSUME Holds(Leased(q), x) PROVE MineOf(q, x) # {}
  <2>1. PICK e \in Leased(q) : e.call = x.call /\ e.i = x.i /\ e.tok = x.tok
    BY <1>2 DEF Holds
  <2>2. PICK j \in DOMAIN q : e = q[j]
    BY DEF Leased
  <2>3. j \in MineOf(q, x)
    BY <2>1, <2>2 DEF MineOf
  <2> QED
    BY <2>3
<1> QED
  BY <1>1, <1>2

LEMMA LeasesByEntry == Call!LeasesHeld => Leases(Leased(v3), v9, v4)
<1>1. \A d : Call!Mine(d) = MineOf(v3, v9[d])
  BY DEF Call!Mine, MineOf
<1> QED
  BY <1>1, MineHolds DEF Call!LeasesHeld, Leases

LEMMA EntriesByLease == Leases(Leased(v3'), v9', v4') => Call!LeasesHeld'
<1>1. \A d : Call!Mine(d)' = MineOf(v3', v9'[d])
  BY DEF Call!Mine, MineOf
<1> QED
  BY <1>1, MineHolds DEF Call!LeasesHeld, Leases

\* A lease t ends; who held it has nothing in hand or has its answer.
Ended(S, S2, h, h2, t) ==
    /\ S2 \subseteq S
    /\ \A e \in S : e.tok # t => e \in S2
    /\ \A d \in Deliverers :
         \/ h2[d] = Call!Idle
         \/ h2[d] = h[d] /\ (S2 = S \/ h[d].tok # t \/ h[d].res # "none")
         \/ h2[d].call = h[d].call /\ h2[d].tok = h[d].tok /\ h2[d].res = "fail"
LEMMA LeaseEnds ==
  ASSUME NEW S, NEW S2, NEW h, NEW h2, NEW p, NEW t, Leases(S, h, p), Ended(S, S2, h, h2, t)
  PROVE  Leases(S2, h2, p)
<1> USE DEF Ended
<1>1. ASSUME NEW d \in Deliverers, h2[d].call # 0
      PROVE  /\ h2[d].tok # 0
             /\ h2[d].res = "none" => Holds(S2, h2[d])
             /\ h2[d].res = "ok" /\ Holds(S2, h2[d]) => p[h2[d].call] = h2[d].i
  <2>1. h2[d] # Call!Idle
    BY <1>1 DEF Call!Idle
  <2>2. CASE h2[d] = h[d] /\ (S2 = S \/ h[d].tok # t \/ h[d].res # "none")
    <3>1. Holds(S2, h[d]) => Holds(S, h[d])
      BY DEF Holds
    <3>2. h[d].res = "none" => Holds(S2, h[d])
      BY <1>1, <2>2 DEF Leases, Holds
    <3> QED
      BY <1>1, <2>2, <3>1, <3>2 DEF Leases
  <2>3. CASE h2[d].call = h[d].call /\ h2[d].tok = h[d].tok /\ h2[d].res = "fail"
    BY <1>1, <2>3 DEF Leases
  <2> QED
    BY <2>1, <2>2, <2>3
<1>2. ASSUME NEW d \in Deliverers, NEW e \in Deliverers, d # e, h2[d].tok # 0
      PROVE  h2[d].tok # h2[e].tok
  <2>1. \A x \in Deliverers : h2[x].tok \in {0, h[x].tok}
    BY DEF Call!Idle
  <2> QED
    BY <1>2, <2>1 DEF Leases
<1> QED
  BY <1>1, <1>2 DEF Leases

\* What an entry that is leased is: pending, and the first of its lane.
LEMMA LeasedIsFirst ==
  ASSUME Call!CInv, NEW j \in DOMAIN v3, v3[j].tok # 0
  PROVE  /\ v3[j] \in Call!Entries /\ v3[j].st = "pending" /\ Call!Blocks(v3[j])
         /\ Tried(v3[j]) /\ v3[j].call \in Call!Cards
         /\ v3[j].i = Call!Settled[v3[j].call] + 1
         /\ Call!Settled[v3[j].call] < Len(v11[v3[j].call])
<1>1. v3[j] \in Call!Entries
  BY DEF Call!CInv, Call!CTypeOK
<1>2. v3[j] \in Call!Entries /\ v3[j].call \in Call!Cards /\ v3[j].st \in {"pending", "dead"}
  BY <1>1 DEF Call!Entries
<1>3. v3[j].st = "pending"
  BY <1>2 DEF Call!CInv, Call!DeadAreGone, Call!IsDead
<1>4. Call!Blocks(v3[j]) /\ Tried(v3[j])
  BY <1>3 DEF Call!Blocks, Tried
<1>5. v3[j].i = Call!Settled[v3[j].call] + 1
  BY <1>4 DEF Call!CInv, Call!TriedIsFirst
<1>6. Orderly(v3, Call!Settled, v11, v12) /\ Call!Settled \in [Call!Cards -> Nat]
      /\ v11 \in [Call!Cards -> Seq(Call!Items)]
  BY JournalOrderly
<1>7. Call!Settled[v3[j].call] < Len(v11[v3[j].call])
  BY <1>2, <1>4, <1>6, CutFirst
<1> QED
  BY <1>2, <1>3, <1>4, <1>5, <1>7

-----------------------------------------------------------------------------
(* Delivery. *)

\* What a step leaves behind: the types of what delivery changes, the order of
\* the lanes, the leases, and a step of CallOrder.
Delivery ==
    /\ v3 \in Seq(Call!Entries) /\ Len(v3) <= Capacity /\ v4 \in [Call!Cards -> Nat]
    /\ v9 \in [Deliverers -> [call : 0..MaxCalls, i : Nat, tok : Nat,
                              res : {"none", "ok", "lost", "fail", "bad"}]]
    /\ InOrder /\ Call!LeasesHeld

LEMMA DeliveryHolds == Call!CInv => Delivery
BY DEF Call!CInv, Call!CTypeOK, Delivery, InOrder

LEMMA Stutters ==
  ASSUME Call!CInv, UNCHANGED <<v3, v4, v9, v11, v12>>
  PROVE  Delivery' /\ UNCHANGED <<v11, Call!Settled, v4, v12>>
<1>1. Call!Settled' = Call!Settled
  BY DEF Call!Settled, Call!Lane
<1>2. InOrder'
  BY <1>1 DEF InOrder, Call!CInv, Call!LanesInOrder, Call!TriedIsFirst, Call!DeadAreGone, Call!Lane
<1>3. Leases(Leased(v3'), v9', v4')
  BY LeasesByEntry DEF Call!CInv
<1> QED
  BY <1>1, <1>2, <1>3, EntriesByLease DEF Delivery, Call!CInv, Call!CTypeOK

\* A request lands: it is that of the first entry of its lane, whose lease is held.
LEMMA SendKeeps ==
  ASSUME Call!CInv, NEW d \in Deliverers, NEW r \in {"ok", "lost", "fail", "bad"}, Call!Send(d, r)
  PROVE  Delivery' /\ (Call!Order!ONext \/ UNCHANGED <<v11, Call!Settled, v4, v12>>)
<1> DEFINE x == v9[d]
<1>1. /\ x.call # 0 /\ x.res = "none" /\ v9' = [v9 EXCEPT ![d].res = r]
      /\ v4' = IF r \in {"ok", "lost"} THEN [v4 EXCEPT ![x.call] = x.i] ELSE v4
      /\ UNCHANGED <<v3, v11, v12>>
  BY DEF Call!Send
<1>2. /\ v9 \in [Deliverers -> [call : 0..MaxCalls, i : Nat, tok : Nat,
                                res : {"none", "ok", "lost", "fail", "bad"}]]
      /\ v4 \in [Call!Cards -> Nat] /\ Delivery /\ Leases(Leased(v3), v9, v4)
  BY LeasesByEntry DEF Call!CInv, Call!CTypeOK, Delivery, InOrder
<1>3. PICK j \in DOMAIN v3 : v3[j].call = x.call /\ v3[j].i = x.i /\ v3[j].tok = x.tok
  BY <1>1 DEF Call!CInv, Call!LeasesHeld, Call!Mine
<1>4. x.tok # 0
  BY <1>1, <1>2 DEF Leases
<1>5. /\ x.call \in Call!Cards /\ x.i = Call!Settled[x.call] + 1
      /\ Call!Settled[x.call] < Len(v11[x.call])
  BY <1>3, <1>4, LeasedIsFirst
<1>6. Call!Settled' = Call!Settled
  BY <1>1 DEF Call!Settled, Call!Lane
<1>7. InOrder'
  BY <1>1, <1>2, <1>6
     DEF Delivery, InOrder, Call!LanesInOrder, Call!TriedIsFirst, Call!DeadAreGone, Call!Lane
<1>8. /\ v9' \in [Deliverers -> [call : 0..MaxCalls, i : Nat, tok : Nat,
                                 res : {"none", "ok", "lost", "fail", "bad"}]]
      /\ v4' \in [Call!Cards -> Nat]
      /\ \A e \in Deliverers : /\ v9'[e].call = v9[e].call /\ v9'[e].tok = v9[e].tok
                               /\ v9'[e].i = v9[e].i
                               /\ v9'[e].res = IF e = d THEN r ELSE v9[e].res
  BY <1>1, <1>2
<1>9. Leases(Leased(v3'), v9', v4')
  <2> DEFINE S == Leased(v3)
  <2>1. \A e \in Deliverers : Holds(S, v9'[e]) <=> Holds(S, v9[e])
    BY <1>8 DEF Holds
  <2>2. ASSUME NEW e \in Deliverers, v9'[e].call # 0
        PROVE  /\ v9'[e].tok # 0
               /\ v9'[e].res = "none" => Holds(S, v9'[e])
               /\ v9'[e].res = "ok" /\ Holds(S, v9'[e]) => v4'[v9'[e].call] = v9'[e].i
    <3>1. v9'[e].tok # 0 /\ (v9'[e].res = "none" => Holds(S, v9'[e]))
      BY <1>2, <1>8, <2>1, <2>2 DEF Leases
    <3>2. ASSUME v9'[e].res = "ok", Holds(S, v9'[e]) PROVE v4'[v9'[e].call] = v9'[e].i
      <4>1. CASE e = d
        BY <1>1, <1>2, <1>5, <1>8, <3>2, <4>1
      <4>2. CASE e # d
        <5>1. v9[e].res = "ok" /\ v9[e].call # 0 /\ v4[v9[e].call] = v9[e].i
          BY <1>2, <1>8, <2>1, <2>2, <3>2, <4>2 DEF Leases
        <5>2. PICK y \in DOMAIN v3 : v3[y].call = v9[e].call /\ v3[y].i = v9[e].i /\ v3[y].tok # 0
          BY <2>1, <3>2 DEF Holds, Leased
        <5>3. v9[e].i = Call!Settled[v9[e].call] + 1
          BY <5>2, LeasedIsFirst
        <5> QED
          BY <1>1, <1>2, <1>5, <1>8, <5>1, <5>3
      <4> QED
        BY <4>1, <4>2
    <3> QED
      BY <3>1, <3>2
  <2> QED
    BY <1>1, <1>2, <1>8, <2>2 DEF Leases
<1>10. Delivery'
  BY <1>1, <1>2, <1>7, <1>8, <1>9, EntriesByLease DEF Delivery
<1>11. CASE r \in {"ok", "lost"}
  <2>1. Call!Order!Apply(x.call)
    BY <1>1, <1>5, <1>6, <1>11 DEF Call!Order!Apply
  <2> QED
    BY <1>5, <1>10, <2>1 DEF Call!Order!ONext
<1>12. CASE r \notin {"ok", "lost"}
  BY <1>1, <1>6, <1>10, <1>12
<1> QED
  BY <1>11, <1>12

LEMMA IntervalSize ==
  ASSUME NEW n \in Nat
  PROVE  IsFiniteSet(1..n) /\ Cardinality(1..n) = n
BY FS_Interval

\* There are more tokens than deliverers and entries can hold.
LEMMA TokenFresh ==
  ASSUME Call!CInv, Call!CAssumption
  PROVE  /\ Call!Token \in Nat \ {0}
         /\ \A d \in Deliverers : v9[d].tok # Call!Token
         /\ \A j \in DOMAIN v3 : v3[j].tok # Call!Token
<1> DEFINE D == Cardinality(Deliverers)
           N == D + Capacity + 1
           H == {v9[d].tok : d \in Deliverers}
           E == {v3[j].tok : j \in DOMAIN v3}
           T == {t \in 1..N : /\ \A d \in Deliverers : v9[d].tok # t
                              /\ \A j \in DOMAIN v3 : v3[j].tok # t}
<1>1. IsFiniteSet(Deliverers) /\ D \in Nat /\ Capacity \in Nat /\ Call!Cardinality(Deliverers) = D
  BY SameSets, FS_CardinalityType DEF Call!CAssumption
<1>2. DOMAIN v3 = 1..Len(v3) /\ Len(v3) \in Nat /\ Len(v3) <= Capacity
  BY DEF Call!CInv, Call!CTypeOK
<1>3. IsFiniteSet(H) /\ Cardinality(H) <= D
  <2> DEFINE f == [d \in Deliverers |-> v9[d].tok]
  <2>1. f \in Surjection(Deliverers, H)
    BY DEF Surjection
  <2> HIDE DEF f, H
  <2> QED
    BY <1>1, <2>1, FS_Surjection
<1>4. IsFiniteSet(E) /\ Cardinality(E) <= Len(v3)
  <2> DEFINE f == [j \in DOMAIN v3 |-> v3[j].tok]
  <2>1. f \in Surjection(DOMAIN v3, E)
    BY DEF Surjection
  <2>2. IsFiniteSet(DOMAIN v3) /\ Cardinality(DOMAIN v3) = Len(v3)
    BY <1>2, IntervalSize
  <2> HIDE DEF f, E
  <2> QED
    BY <2>1, <2>2, FS_Surjection
<1>5. IsFiniteSet(1..N) /\ Cardinality(1..N) = N /\ N \in Nat
  <2>1. N \in Nat
    BY <1>1
  <2> HIDE DEF N
  <2> QED
    BY <2>1, IntervalSize
<1> HIDE DEF D, H, E
<1>6. IsFiniteSet(H \cup E) /\ Cardinality(H \cup E) < N
  <2>1. /\ IsFiniteSet(H \cup E)
        /\ Cardinality(H \cup E) = Cardinality(H) + Cardinality(E) - Cardinality(H \cap E)
    BY <1>3, <1>4, FS_Union
  <2>2. IsFiniteSet(H \cap E)
    BY <1>3, FS_Subset
  <2>3. Cardinality(H) \in Nat /\ Cardinality(E) \in Nat /\ Cardinality(H \cap E) \in Nat
    BY <1>3, <1>4, <2>2, FS_CardinalityType
  <2> QED
    BY <1>1, <1>2, <1>3, <1>4, <2>1, <2>3
<1>7. ~(1..N \subseteq H \cup E)
  <2> SUFFICES ASSUME 1..N \subseteq H \cup E PROVE FALSE
    OBVIOUS
  <2>1. Cardinality(1..N) <= Cardinality(H \cup E) /\ Cardinality(H \cup E) \in Nat
    BY <1>6, FS_Subset, FS_CardinalityType
  <2> QED
    BY <1>5, <1>6, <2>1
<1>8. T # {} /\ T \subseteq Nat
  BY <1>5, <1>7 DEF H, E
<1>9. Call!Token = Call!Oldest(T)
  BY <1>1 DEF Call!Token
<1>10. Call!Token \in T
  BY <1>8, <1>9, OldestIn
<1> QED
  BY <1>10

LEMMA ClaimKeeps ==
  ASSUME Call!CInv, Call!CAssumption, NEW d \in Deliverers, Call!Claim(d)
  PROVE  Delivery' /\ UNCHANGED <<v11, Call!Settled, v4, v12>>
<1> DEFINE t == Call!Token
           S == Call!Settled
<1>1. /\ t \in Nat \ {0} /\ (\A x \in Deliverers : v9[x].tok # t)
      /\ (\A n \in DOMAIN v3 : v3[n].tok # t)
  BY TokenFresh
<1> HIDE DEF t
<1>2. PICK j \in DOMAIN v3 :
        /\ v3[j].st = "pending" /\ v3[j].tok = 0 /\ Call!First(j)
        /\ v3' = [v3 EXCEPT ![j].tok = t]
        /\ v9' = [v9 EXCEPT ![d] = [call |-> v3[j].call, i |-> v3[j].i, tok |-> t, res |-> "none"]]
  BY DEF Call!Claim, Call!Positions, t
<1>3. UNCHANGED <<v4, v11, v12>>
  BY DEF Call!Claim
<1>4. /\ Orderly(v3, S, v11, v12) /\ S \in [Call!Cards -> Nat]
      /\ v11 \in [Call!Cards -> Seq(Call!Items)]
      /\ v3 \in Seq(Call!Entries) /\ v3[j] \in Call!Entries /\ Len(v3) <= Capacity
      /\ v9 \in [Deliverers -> [call : 0..MaxCalls, i : Nat, tok : Nat,
                                res : {"none", "ok", "lost", "fail", "bad"}]]
      /\ v4 \in [Call!Cards -> Nat] /\ Leases(Leased(v3), v9, v4)
  BY JournalOrderly, LeasesByEntry DEF Call!CInv, Call!CTypeOK
<1> DEFINE e == [v3[j] EXCEPT !.tok = t]
<1>5. /\ e \in Call!Entries /\ e.call = v3[j].call /\ e.i = v3[j].i /\ e.st = v3[j].st
      /\ e.create = v3[j].create /\ e.tok = t /\ v3[j].call \in Call!Cards
  BY <1>1, <1>4 DEF Call!Entries
<1>6. v3' = [v3 EXCEPT ![j] = e] /\ v3' \in Seq(Call!Entries) /\ Len(v3') = Len(v3)
  BY <1>2, <1>4, <1>5
<1> HIDE DEF e
<1>7. v3[j].i = S[v3[j].call] + 1
  <2>1. j \in LaneOf(v3, v3[j].call) /\ LaneOf(v3, v3[j].call) = Call!Lane(v3[j].call)
    BY <1>2 DEF LaneOf, Call!Lane, Call!Blocks
  <2>2. j = Call!Oldest(LaneOf(v3, v3[j].call))
    BY <1>2, <2>1 DEF Call!First
  <2>3. InLine(v3, v3[j].call, S[v3[j].call], Len(v11[v3[j].call])) /\ Len(v11[v3[j].call]) \in Nat
    BY <1>4, <1>5 DEF Orderly
  <2> QED
    BY <1>4, <2>1, <2>2, <2>3, LaneFirst
<1>8. Call!Blocks(e) /\ Call!Blocks(v3[j]) /\ Tidy(e, v12)
  BY <1>2, <1>5 DEF Call!Blocks, Tidy, Call!IsDead
<1>9. Orderly(v3', S, v11', v12')
  BY <1>3, <1>4, <1>5, <1>6, <1>7, <1>8, MarkEntry
<1>10. Call!Settled' = S /\ InOrder'
  BY <1>3, <1>4, <1>9, OrderlyJournal
<1>11. Leased(v3') = Leased(v3) \cup {e}
  <2>1. \A n \in DOMAIN v3 : v3'[n] = IF n = j THEN e ELSE v3[n]
    BY <1>4, <1>6
  <2>2. DOMAIN v3' = DOMAIN v3
    BY <1>4, <1>6
  <2> QED
    BY <1>1, <1>2, <1>5, <2>1, <2>2 DEF Leased
<1>12. /\ v9' \in [Deliverers -> [call : 0..MaxCalls, i : Nat, tok : Nat,
                                  res : {"none", "ok", "lost", "fail", "bad"}]]
       /\ v9'[d] = [call |-> e.call, i |-> e.i, tok |-> t, res |-> "none"]
       /\ \A x \in Deliverers : x # d => v9'[x] = v9[x]
  <2>1. v3[j].call \in 0..MaxCalls /\ v3[j].i \in Nat
    BY <1>4 DEF Call!Entries, Call!Cards
  <2> QED
    BY <1>1, <1>2, <1>4, <1>5, <2>1
<1>13. Leases(Leased(v3'), v9', v4')
  <2>1. Holds(Leased(v3'), v9'[d])
    BY <1>5, <1>11, <1>12 DEF Holds
  <2>2. \A x \in Deliverers : x # d => (Holds(Leased(v3'), v9'[x]) <=> Holds(Leased(v3), v9[x]))
    BY <1>1, <1>5, <1>11, <1>12 DEF Holds
  <2>3. ASSUME NEW x \in Deliverers, v9'[x].call # 0
        PROVE  /\ v9'[x].tok # 0
               /\ v9'[x].res = "none" => Holds(Leased(v3'), v9'[x])
               /\ v9'[x].res = "ok" /\ Holds(Leased(v3'), v9'[x]) => v4'[v9'[x].call] = v9'[x].i
    <3>1. CASE x = d
      BY <1>1, <1>12, <2>1, <3>1
    <3>2. CASE x # d
      BY <1>3, <1>4, <1>12, <2>2, <2>3, <3>2 DEF Leases
    <3> QED
      BY <3>1, <3>2
  <2>4. ASSUME NEW x \in Deliverers, NEW y \in Deliverers, x # y, v9'[x].tok # 0
        PROVE  v9'[x].tok # v9'[y].tok
    <3>1. \A z \in Deliverers : v9'[z].tok = IF z = d THEN t ELSE v9[z].tok
      BY <1>12
    <3> QED
      BY <1>1, <1>4, <2>4, <3>1 DEF Leases
  <2> QED
    BY <2>3, <2>4 DEF Leases
<1> QED
  BY <1>3, <1>4, <1>6, <1>10, <1>12, <1>13, EntriesByLease DEF Delivery

LEMMA ArchiveKeeps ==
  ASSUME Call!CInv, Call!ArchiveDead
  PROVE  Delivery' /\ (Call!Order!ONext \/ UNCHANGED <<v11, Call!Settled, v4, v12>>)
<1> DEFINE S == Call!Settled
<1>1. PICK j \in DOMAIN v3 :
        /\ Call!IsDead(v3[j]) /\ v3' = Call!Without(j)
        /\ v12' = v12 \cup {<<v3[j].call, v3[j].i>>}
  BY DEF Call!ArchiveDead, Call!Positions
<1>2. UNCHANGED <<v4, v9, v11>>
  BY DEF Call!ArchiveDead
<1>3. /\ Orderly(v3, S, v11, v12) /\ S \in [Call!Cards -> Nat]
      /\ v11 \in [Call!Cards -> Seq(Call!Items)]
      /\ v3 \in Seq(Call!Entries) /\ Len(v3) <= Capacity /\ Capacity \in Int
      /\ v9 \in [Deliverers -> [call : 0..MaxCalls, i : Nat, tok : Nat,
                                res : {"none", "ok", "lost", "fail", "bad"}]]
      /\ v4 \in [Call!Cards -> Nat] /\ Leases(Leased(v3), v9, v4)
  BY JournalOrderly, LeasesByEntry, BoundsAssumption
     DEF Call!CInv, Call!CTypeOK, BoundsAssumption, Call!CAssumption
<1>4. v3' = Cut(v3, j)
  BY <1>1 DEF Call!Without, Cut
<1>5. /\ v3[j].failed /\ v3[j].tok = 0 /\ (v3[j].create \/ <<v3[j].call, v3[j].i>> \in v12)
      /\ Tried(v3[j]) /\ j \in DOMAIN v3
  BY <1>1 DEF Call!CInv, Call!DeadAreGone, Tried
<1>6. v3' \in Seq(Call!Entries) /\ Len(v3') <= Capacity /\ Leased(v3') = Leased(v3)
  BY <1>3, <1>4, <1>5, CutFacts, CutLeased
<1>7. Call!LeasesHeld'
  BY <1>2, <1>3, <1>6, EntriesByLease
<1>8. CASE Call!Blocks(v3[j])
  <2> DEFINE l == v3[j].call
             c == [S EXCEPT ![l] = @ + 1]
  <2>1. v12' = v12 \cup {<<l, v3[j].i>>} /\ v12 \subseteq v12'
    BY <1>1
  <2>2. /\ Orderly(Cut(v3, j), c, v11, v12') /\ v3[j].i = S[l] + 1
        /\ S[l] < Len(v11[l]) /\ l \in Call!Cards
    <3>1. /\ Orderly(v3, S, v11, v12) /\ S \in [Call!Cards -> Nat]
          /\ v11 \in [Call!Cards -> Seq(Call!Items)] /\ j \in DOMAIN v3
          /\ Call!Blocks(v3[j]) /\ Tried(v3[j]) /\ v12 \subseteq v12'
      BY <1>3, <1>5, <1>8, <2>1
    <3> QED
      BY <3>1, CutFirst
  <2>3. c \in [Call!Cards -> Nat]
    BY <1>3, <2>2
  <2> HIDE DEF c
  <2>4. Call!Settled' = c /\ InOrder'
    BY <1>2, <1>3, <1>4, <2>2, <2>3, OrderlyJournal
  <2>5. Call!Order!GiveUp(l)
    BY <1>2, <2>1, <2>2, <2>4 DEF Call!Order!GiveUp, Call!Order!GivenUp, Call!Order!Settle, c
  <2> QED
    BY <1>2, <1>3, <1>6, <1>7, <2>2, <2>4, <2>5 DEF Delivery, Call!Order!ONext
<1>9. CASE ~Call!Blocks(v3[j])
  <2>1. v12' = v12
    BY <1>1, <1>5, <1>9 DEF Call!Blocks
  <2>2. Orderly(v3', S, v11', v12')
    BY <1>2, <1>3, <1>4, <1>9, <2>1, CutLoose
  <2>3. Call!Settled' = S /\ InOrder'
    BY <1>2, <1>3, <2>2, OrderlyJournal
  <2> QED
    BY <1>2, <1>3, <1>6, <1>7, <2>1, <2>3 DEF Delivery
<1> QED
  BY <1>8, <1>9

\* The answer of a request: what its holder does is to the first entry of a lane,
\* and an accepted one is the one Glass applied last.
LEMMA FinishKeeps ==
  ASSUME Call!CInv, NEW d \in Deliverers, NEW dead \in BOOLEAN, Call!Finish(d, dead)
  PROVE  Delivery' /\ (Call!Order!ONext \/ UNCHANGED <<v11, Call!Settled, v4, v12>>)
<1> DEFINE S == Call!Settled
           x == v9[d]
<1>1. /\ x.res # "none" /\ v9' = [v9 EXCEPT ![d] = Call!Idle] /\ UNCHANGED <<v4, v11>>
      /\ IF dead THEN x.res # "ok" ELSE x.res # "bad"
  BY DEF Call!Finish
<1>2. /\ Orderly(v3, S, v11, v12) /\ S \in [Call!Cards -> Nat]
      /\ v11 \in [Call!Cards -> Seq(Call!Items)]
      /\ v3 \in Seq(Call!Entries) /\ Len(v3) <= Capacity /\ Capacity \in Int
      /\ v9 \in [Deliverers -> [call : 0..MaxCalls, i : Nat, tok : Nat,
                                res : {"none", "ok", "lost", "fail", "bad"}]]
      /\ v4 \in [Call!Cards -> Nat] /\ Leases(Leased(v3), v9, v4)
  BY JournalOrderly, LeasesByEntry, BoundsAssumption
     DEF Call!CInv, Call!CTypeOK, BoundsAssumption, Call!CAssumption
<1>3. /\ v9' \in [Deliverers -> [call : 0..MaxCalls, i : Nat, tok : Nat,
                                 res : {"none", "ok", "lost", "fail", "bad"}]]
      /\ v9'[d] = Call!Idle /\ \A e \in Deliverers : e # d => v9'[e] = v9[e]
  <2>1. 0 \in 0..MaxCalls
    BY BoundsAssumption DEF BoundsAssumption, Call!CAssumption
  <2> QED
    BY <1>1, <1>2, <2>1 DEF Call!Idle
<1>4. CASE Call!Mine(d) = {}
  <2>1. UNCHANGED <<v3, v12>>
    BY <1>4 DEF Call!Finish
  <2>2. Leases(Leased(v3'), v9', v4')
    <3>1. Ended(Leased(v3), Leased(v3'), v9, v9', 0)
      BY <1>3, <2>1 DEF Ended
    <3> QED
      BY <1>1, <1>2, <3>1, LeaseEnds
  <2>3. Orderly(v3', S, v11', v12')
    BY <1>1, <1>2, <2>1
  <2>4. Call!Settled' = S /\ InOrder'
    BY <1>1, <1>2, <2>3, OrderlyJournal
  <2> QED
    BY <1>1, <1>2, <1>3, <2>1, <2>2, <2>4, EntriesByLease DEF Delivery
<1>5. CASE Call!Mine(d) # {}
  <2>1. PICK j \in Call!Mine(d) : IF x.res = "ok" THEN Call!Completed(j) ELSE Call!Failed(j, dead)
    BY <1>5 DEF Call!Finish
  <2>2. j \in DOMAIN v3 /\ v3[j].call = x.call /\ v3[j].i = x.i /\ v3[j].tok = x.tok
    BY DEF Call!Mine
  <2>3. v3[j] \in Call!Entries /\ x.call \in Call!Cards /\ x.call # 0
    <3>1. v3[j] \in Call!Entries
      BY <1>2, <2>2
    <3>2. x.call \in Call!Cards
      BY <2>2, <3>1 DEF Call!Entries
    <3> QED
      BY <3>1, <3>2 DEF Call!Cards
  <2>4. x.tok # 0 /\ (x.res = "ok" => v4[x.call] = x.i)
    BY <1>5, <2>3 DEF Call!CInv, Call!LeasesHeld
  <2>5. /\ v3[j].st = "pending" /\ Call!Blocks(v3[j]) /\ Tried(v3[j])
        /\ v3[j].i = S[x.call] + 1 /\ S[x.call] < Len(v11[x.call])
    BY <2>2, <2>4, LeasedIsFirst
  <2>6. \A e \in Deliverers : e # d => v9[e].tok # x.tok
    BY <1>2, <2>4 DEF Leases
  <2>7. ASSUME Leased(v3') \subseteq Leased(v3),
               \A e \in Leased(v3) : e.tok # x.tok => e \in Leased(v3')
        PROVE  Call!LeasesHeld'
    <3>1. Ended(Leased(v3), Leased(v3'), v9, v9', x.tok)
      BY <1>3, <2>6, <2>7 DEF Ended
    <3>2. Leases(Leased(v3'), v9', v4)
      BY <1>2, <3>1, LeaseEnds
    <3> QED
      BY <1>1, <3>2, EntriesByLease
  <2> DEFINE l == x.call
             c == [S EXCEPT ![l] = @ + 1]
  <2>8. c \in [Call!Cards -> Nat]
    BY <1>2, <2>3
  <2> HIDE DEF c
  <2>9. CASE x.res = "ok"
    <3>1. v3' = Cut(v3, j) /\ v12' = v12
      BY <2>1, <2>9 DEF Call!Completed, Call!Without, Cut
    <3>2. v3' \in Seq(Call!Entries) /\ Len(v3') <= Capacity
      BY <1>2, <2>2, <3>1, CutFacts
    <3>3. ASSUME NEW e \in Leased(v3') PROVE e \in Leased(v3)
      <4>1. PICK n \in DOMAIN Cut(v3, j) : e = Cut(v3, j)[n] /\ e.tok # 0
        BY <3>1 DEF Leased
      <4>2. Shift(v3, j)[n] \in DOMAIN v3 /\ e = v3[Shift(v3, j)[n]]
        BY <1>2, <2>2, <4>1, CutFacts
      <4> QED
        BY <4>1, <4>2 DEF Leased
    <3>4. ASSUME NEW e \in Leased(v3), e.tok # x.tok PROVE e \in Leased(v3')
      <4>1. PICK y \in DOMAIN v3 : e = v3[y] /\ y # j
        BY <2>2, <3>4 DEF Leased
      <4>2. PICK n \in DOMAIN Cut(v3, j) : Shift(v3, j)[n] = y
        BY <1>2, <2>2, <4>1, CutFacts
      <4>3. Cut(v3, j)[n] = e
        BY <1>2, <2>2, <4>1, <4>2, CutFacts
      <4> QED
        BY <3>1, <4>2, <4>3 DEF Leased
    <3>5. Orderly(Cut(v3, j), c, v11, v12)
      BY <1>2, <2>2, <2>5, CutFirst DEF c
    <3>6. Call!Settled' = c /\ InOrder'
      BY <1>1, <1>2, <2>8, <3>1, <3>5, OrderlyJournal
    <3>7. Call!Order!Deliver(l)
      BY <1>1, <2>3, <2>4, <2>5, <2>9, <2>2, <3>1, <3>6 DEF Call!Order!Deliver, Call!Order!Settle, c
    <3> QED
      BY <1>1, <1>2, <1>3, <2>3, <2>7, <3>2, <3>3, <3>4, <3>6, <3>7 DEF Delivery, Call!Order!ONext
  <2>10. CASE x.res # "ok"
    <3> DEFINE e == [v3[j] EXCEPT !.st = IF dead THEN "dead" ELSE "pending",
                                  !.tok = 0, !.failed = TRUE]
    <3>1. /\ v3' = [v3 EXCEPT ![j] = e]
          /\ v12' = IF dead /\ ~v3[j].create THEN v12 \cup {<<v3[j].call, v3[j].i>>} ELSE v12
      BY <1>2, <2>1, <2>2, <2>10 DEF Call!Failed
    <3>2. /\ e \in Call!Entries /\ e.call = v3[j].call /\ e.i = v3[j].i /\ e.tok = 0 /\ e.failed
          /\ e.create = v3[j].create /\ e.st = IF dead THEN "dead" ELSE "pending"
      BY <2>3 DEF Call!Entries
    <3> HIDE DEF e
    <3>3. /\ v3' \in Seq(Call!Entries) /\ Len(v3') <= Capacity /\ DOMAIN v3' = DOMAIN v3
          /\ v3'[j] = e /\ \A n \in DOMAIN v3 : n # j => v3'[n] = v3[n]
      BY <1>2, <2>2, <3>1, <3>2
    <3>4. /\ Leased(v3') \subseteq Leased(v3)
          /\ \A y \in Leased(v3) : y.tok # x.tok => y \in Leased(v3')
      BY <2>2, <3>2, <3>3 DEF Leased
    <3>5. Tidy(e, v12') /\ v12 \subseteq v12'
      <4>1. dead /\ ~e.create => <<e.call, e.i>> \in v12'
        BY <3>1, <3>2
      <4>2. ~dead => ~Call!IsDead(e)
        BY <3>2 DEF Call!IsDead
      <4> QED
        BY <3>1, <3>2, <4>1, <4>2 DEF Tidy
    <3>6. CASE dead /\ ~v3[j].create
      <4>1. ~Call!Blocks(e)
        BY <3>2, <3>6 DEF Call!Blocks
      <4>2. Orderly(v3', c, v11, v12')
        BY <1>2, <2>2, <2>5, <3>1, <3>2, <3>5, <4>1, LoseEntry DEF c
      <4>3. Call!Settled' = c /\ InOrder'
        BY <1>1, <1>2, <2>8, <4>2, OrderlyJournal
      <4>4. Call!Order!GiveUp(l)
        BY <1>1, <2>2, <2>5, <3>1, <3>6, <4>3
           DEF Call!Order!GiveUp, Call!Order!GivenUp, Call!Order!Settle, c
      <4> QED
        BY <1>1, <1>2, <1>3, <2>3, <2>7, <3>3, <3>4, <4>3, <4>4 DEF Delivery, Call!Order!ONext
    <3>7. CASE ~(dead /\ ~v3[j].create)
      <4>1. Call!Blocks(e) /\ v12' = v12
        BY <3>1, <3>2, <3>7 DEF Call!Blocks
      <4>2. Orderly(v3', S, v11, v12)
        BY <1>2, <2>2, <2>5, <3>1, <3>2, <3>5, <4>1, MarkEntry
      <4>3. Call!Settled' = S /\ InOrder'
        BY <1>1, <1>2, <4>1, <4>2, OrderlyJournal
      <4> QED
        BY <1>1, <1>2, <1>3, <2>7, <3>3, <3>4, <4>1, <4>3 DEF Delivery
    <3> QED
      BY <3>6, <3>7
  <2> QED
    BY <2>9, <2>10
<1> QED
  BY <1>4, <1>5

LEMMA LapseKeeps ==
  ASSUME Call!CInv, Call!Lapse
  PROVE  Delivery' /\ UNCHANGED <<v11, Call!Settled, v4, v12>>
<1> DEFINE S == Call!Settled
<1>1. PICK j \in DOMAIN v3 :
        /\ v3[j].tok # 0 /\ v3' = [v3 EXCEPT ![j].tok = 0]
        /\ v9' = [d \in Deliverers |->
                    IF d \in {y \in Deliverers : v9[y].tok = v3[j].tok} /\ v9[d].res = "none"
                      THEN [v9[d] EXCEPT !.res = "fail"] ELSE v9[d]]
  BY DEF Call!Lapse, Call!Positions
<1>2. UNCHANGED <<v4, v11, v12>>
  BY DEF Call!Lapse
<1>3. /\ Orderly(v3, S, v11, v12) /\ S \in [Call!Cards -> Nat]
      /\ v11 \in [Call!Cards -> Seq(Call!Items)]
      /\ v3 \in Seq(Call!Entries) /\ Len(v3) <= Capacity
      /\ v9 \in [Deliverers -> [call : 0..MaxCalls, i : Nat, tok : Nat,
                                res : {"none", "ok", "lost", "fail", "bad"}]]
      /\ v4 \in [Call!Cards -> Nat] /\ Leases(Leased(v3), v9, v4)
  BY JournalOrderly, LeasesByEntry DEF Call!CInv, Call!CTypeOK
<1>4. /\ v3[j] \in Call!Entries /\ v3[j].st = "pending" /\ Call!Blocks(v3[j])
      /\ v3[j].i = S[v3[j].call] + 1
  BY <1>1, LeasedIsFirst
<1> DEFINE e == [v3[j] EXCEPT !.tok = 0]
<1>5. /\ e \in Call!Entries /\ e.call = v3[j].call /\ e.i = v3[j].i /\ e.st = v3[j].st /\ e.tok = 0
      /\ e.create = v3[j].create
  BY <1>4 DEF Call!Entries
<1>6. v3' = [v3 EXCEPT ![j] = e]
  BY <1>1, <1>3
<1> HIDE DEF e
<1>7. /\ v3' \in Seq(Call!Entries) /\ Len(v3') <= Capacity /\ DOMAIN v3' = DOMAIN v3
      /\ v3'[j] = e /\ \A n \in DOMAIN v3 : n # j => v3'[n] = v3[n]
  BY <1>3, <1>5, <1>6
<1>8. Call!Blocks(e) /\ Tidy(e, v12)
  BY <1>4, <1>5 DEF Call!Blocks, Tidy, Call!IsDead
<1>9. Orderly(v3', S, v11, v12)
  BY <1>3, <1>4, <1>5, <1>6, <1>8, MarkEntry
<1>10. Call!Settled' = S /\ InOrder'
  BY <1>2, <1>3, <1>9, OrderlyJournal
<1>11. /\ Leased(v3') \subseteq Leased(v3)
       /\ \A y \in Leased(v3) : y.tok # v3[j].tok => y \in Leased(v3')
  BY <1>5, <1>7 DEF Leased
<1>12. \A d \in Deliverers :
         \/ v9'[d] = v9[d] /\ (v9[d].tok # v3[j].tok \/ v9[d].res # "none")
         \/ v9'[d] = [v9[d] EXCEPT !.res = "fail"]
  BY <1>1
<1>13. v9' \in [Deliverers -> [call : 0..MaxCalls, i : Nat, tok : Nat,
                              res : {"none", "ok", "lost", "fail", "bad"}]]
  BY <1>1, <1>3
<1>14. Leases(Leased(v3'), v9', v4)
  <2>1. Ended(Leased(v3), Leased(v3'), v9, v9', v3[j].tok)
    BY <1>3, <1>11, <1>12 DEF Ended
  <2> QED
    BY <1>3, <2>1, LeaseEnds
<1> QED
  BY <1>2, <1>3, <1>7, <1>10, <1>13, <1>14, EntriesByLease DEF Delivery

LEMMA CrashKeeps ==
  ASSUME Call!CInv, Call!CCrash
  PROVE  Delivery' /\ UNCHANGED <<v11, Call!Settled, v4, v12>>
<1>1. UNCHANGED <<v3, v4, v11, v12>> /\ v9' = [d \in Deliverers |-> Call!Idle]
  BY DEF Call!CCrash
<1>2. Call!Settled' = Call!Settled
  BY <1>1 DEF Call!Settled, Call!Lane
<1>3. InOrder'
  BY <1>1, <1>2
     DEF InOrder, Call!CInv, Call!LanesInOrder, Call!TriedIsFirst, Call!DeadAreGone, Call!Lane
<1>4. Leases(Leased(v3'), v9', v4')
  BY <1>1 DEF Leases, Call!Idle
<1>5. v9' \in [Deliverers -> [call : 0..MaxCalls, i : Nat, tok : Nat,
                             res : {"none", "ok", "lost", "fail", "bad"}]]
  <2>1. 0 \in 0..MaxCalls
    BY BoundsAssumption DEF BoundsAssumption, Call!CAssumption
  <2> QED
    BY <1>1, <2>1 DEF Call!Idle
<1> QED
  BY <1>1, <1>2, <1>3, <1>4, <1>5, EntriesByLease DEF Delivery, Call!CInv, Call!CTypeOK

-----------------------------------------------------------------------------
(* Messages. *)
Absent(a, m) == \A k \in Call!Cards : \A i \in DOMAIN a[k] : a[k][i].msg # m
Once(a) == \A m \in Call!Msgs, k \in Call!Cards, l \in Call!Cards :
    \A i \in DOMAIN a[k], j \in DOMAIN a[l] : a[k][i].msg = m /\ a[l][j].msg = m => k = l /\ i = j

LEMMA AppendOnce ==
  ASSUME NEW a \in [Call!Cards -> Seq(Call!Items)], NEW k \in Call!Cards, NEW x,
         Once(a), x.msg \in Call!Msgs => Absent(a, x.msg),
         NEW a2, a2 = [a EXCEPT ![k] = Append(@, x)]
  PROVE  Once(a2) /\ \A m : Absent(a, m) /\ x.msg # m => Absent(a2, m)
<1> DEFINE N == Len(a[k])
<1>1. \A l \in Call!Cards : l # k => a2[l] = a[l]
  OBVIOUS
<1>2. /\ DOMAIN a[k] = 1..N /\ N \in Nat /\ DOMAIN a2[k] = 1..(N + 1) /\ a2[k][N + 1] = x
      /\ \A i \in 1..N : a2[k][i] = a[k][i]
  OBVIOUS
<1> HIDE DEF N
<1>3. \A l \in Call!Cards : \A i \in DOMAIN a2[l] :
        \/ l = k /\ i = N + 1 /\ a2[l][i] = x
        \/ i \in DOMAIN a[l] /\ a2[l][i] = a[l][i]
  BY <1>1, <1>2
<1>4. Once(a2)
  <2> SUFFICES ASSUME NEW m \in Call!Msgs, NEW l \in Call!Cards, NEW n \in Call!Cards,
                      NEW i \in DOMAIN a2[l], NEW j \in DOMAIN a2[n],
                      a2[l][i].msg = m, a2[n][j].msg = m
               PROVE  l = n /\ i = j
    BY DEF Once
  <2>1. CASE x.msg = m
    <3>1. l = k /\ i = N + 1
      BY <1>3, <2>1 DEF Absent
    <3>2. n = k /\ j = N + 1
      BY <1>3, <2>1 DEF Absent
    <3> QED
      BY <3>1, <3>2
  <2>2. CASE x.msg # m
    <3>1. i \in DOMAIN a[l] /\ a[l][i].msg = m
      BY <1>3, <2>2
    <3>2. j \in DOMAIN a[n] /\ a[n][j].msg = m
      BY <1>3, <2>2
    <3> QED
      BY <3>1, <3>2 DEF Once
  <2> QED
    BY <2>1, <2>2
<1>5. \A m : Absent(a, m) /\ x.msg # m => Absent(a2, m)
  BY <1>3 DEF Absent
<1> QED
  BY <1>4, <1>5

\* What the handling of messages keeps.
Books ==
    /\ v1 \in [call : 0..MaxCalls, asked : BOOLEAN] /\ v7 \in 0..MaxCalls
    /\ v2 \in [Call!Msgs -> [kind : {"none", "append", "create"}, call : 0..MaxCalls]]
    /\ v6 \in [Call!Msgs -> 0..MaxCalls] /\ DOMAIN v5 = Call!Msgs
    /\ v11 \in [Call!Cards -> Seq(Call!Items)]
    /\ Call!CardsNamed
    /\ Once(v11) /\ \A m \in Call!Msgs : v2[m].kind = "none" => Absent(v11, m)

LEMMA InvParts == Call!CInv <=> Delivery /\ Books
<1>1. Call!MessageOnce <=> Once(v11)
  BY DEF Call!MessageOnce, Once
<1>2. Call!Unheard <=> \A m \in Call!Msgs : v2[m].kind = "none" => Absent(v11, m)
  BY DEF Call!Unheard, Absent
<1> QED
  BY <1>1, <1>2 DEF Call!CInv, Call!CTypeOK, Delivery, Books, InOrder

LEMMA InvPartsNext == Delivery' /\ Books' => Call!CInv'
<1>1. Once(v11') => Call!MessageOnce'
  BY DEF Call!MessageOnce, Once
<1>2. (\A m \in Call!Msgs : v2'[m].kind = "none" => Absent(v11', m)) => Call!Unheard'
  BY DEF Call!Unheard, Absent
<1> QED
  BY <1>1, <1>2 DEF Call!CInv, Call!CTypeOK, Delivery, Books, InOrder

\* An accepted mutation carries no message, or one that no receipt was given for.
LEMMA InsertOnce ==
  ASSUME Call!CInv, Call!CAssumption, NEW k \in Call!Cards, NEW kind, NEW m,
         v11' = [v11 EXCEPT ![k] = Append(@, Call!Item(kind, m))],
         \/ m = Call!NoMsg /\ v2' = v2
         \/ m \in Call!Msgs /\ v2[m].kind = "none" /\ v2'[m].kind # "none"
            /\ \A n \in Call!Msgs : n # m => v2'[n] = v2[n]
  PROVE  Once(v11') /\ \A n \in Call!Msgs : v2'[n].kind = "none" => Absent(v11', n)
<1> DEFINE x == Call!Item(kind, m)
<1>1. x.msg = m /\ Call!NoMsg \notin Call!Msgs
  BY DEF Call!Item, Call!NoMsg, Call!CAssumption, Call!Msgs
<1>2. /\ v11 \in [Call!Cards -> Seq(Call!Items)] /\ Once(v11)
      /\ \A n \in Call!Msgs : v2[n].kind = "none" => Absent(v11, n)
  BY InvParts DEF Books
<1>3. x.msg \in Call!Msgs => Absent(v11, x.msg)
  BY <1>1, <1>2
<1>4. v11' = [v11 EXCEPT ![k] = Append(@, x)]
  BY DEF x
<1> HIDE DEF x
<1>5. Once(v11') /\ \A n : Absent(v11, n) /\ x.msg # n => Absent(v11', n)
  BY <1>2, <1>3, <1>4, AppendOnce
<1> QED
  BY <1>1, <1>2, <1>5

\* A mutation is accepted: Glass and the leases are as they were.
LEMMA InsertDelivers ==
  ASSUME Call!CInv, Call!CAssumption, NEW k \in Call!Cards, NEW kind, NEW m,
         Call!Item(kind, m) \in Call!Items, Call!Inserted(k, kind, m), UNCHANGED <<v4, v9>>
  PROVE  Delivery' /\ Call!Order!ONext
<1>1. /\ v3' \in Seq(Call!Entries) /\ Len(v3') <= Capacity /\ InOrder'
      /\ Call!Order!ONext /\ Leased(v3') = Leased(v3)
  BY InsertKeeps
<1>2. /\ v4 \in [Call!Cards -> Nat] /\ Call!LeasesHeld
      /\ v9 \in [Deliverers -> [call : 0..MaxCalls, i : Nat, tok : Nat,
                                res : {"none", "ok", "lost", "fail", "bad"}]]
  BY DEF Call!CInv, Call!CTypeOK
<1>3. Call!LeasesHeld'
  BY <1>1, <1>2, LeasesByEntry, EntriesByLease
<1> QED
  BY <1>1, <1>2, <1>3 DEF Delivery

\* The correlation, the receipts and where each message is.
Named ==
    /\ v1 \in [call : 0..MaxCalls, asked : BOOLEAN] /\ v7 \in 0..MaxCalls
    /\ v2 \in [Call!Msgs -> [kind : {"none", "append", "create"}, call : 0..MaxCalls]]
    /\ v6 \in [Call!Msgs -> 0..MaxCalls] /\ DOMAIN v5 = Call!Msgs
    /\ Call!CardsNamed
Changed == /\ v11 \in [Call!Cards -> Seq(Call!Items)] /\ Once(v11)
           /\ \A m \in Call!Msgs : v2[m].kind = "none" => Absent(v11, m)

LEMMA SweptIs ==
  ASSUME NEW c \in [call : 0..MaxCalls, asked : BOOLEAN], NEW q, MaxCalls \in Nat
  PROVE  Call!Swept(c, q) \in [call : 0..MaxCalls, asked : BOOLEAN]
BY DEF Call!Swept, Call!NoCall

LEMMA MessageNamed ==
  ASSUME Named, MaxCalls \in Nat, NEW m \in Call!Msgs,
         \/ Call!Start(m) \/ Call!Miss(m) \/ Call!Touch(m) \/ Call!Mark(m) \/ Call!CreateCall(m)
         \/ Call!Remember(m) \/ Call!Refused(m) \/ \E last \in BOOLEAN : Call!AppendCall(m, last)
  PROVE  Named'
<1>1. /\ v1 \in [call : 0..MaxCalls, asked : BOOLEAN] /\ v7 \in 0..MaxCalls
      /\ v2 \in [Call!Msgs -> [kind : {"none", "append", "create"}, call : 0..MaxCalls]]
      /\ v6 \in [Call!Msgs -> 0..MaxCalls] /\ DOMAIN v5 = Call!Msgs
      /\ Call!CardsNamed
  BY DEF Named
<1>2. /\ v1.call \in 0..MaxCalls /\ v1.asked \in BOOLEAN /\ v6[m] \in 0..MaxCalls
      /\ v2[m].call \in 0..MaxCalls
  BY <1>1
<1>3. ASSUME DOMAIN v5' = Call!Msgs, \A n \in Call!Msgs : n # m => v5'[n] = v5[n],
             v6' \in [Call!Msgs -> 0..MaxCalls], \A n \in Call!Msgs : n # m => v6'[n] = v6[n],
             v2' \in [Call!Msgs -> [kind : {"none", "append", "create"}, call : 0..MaxCalls]],
             \A n \in Call!Msgs : n # m => v2'[n] = v2[n],
             v1' \in [call : 0..MaxCalls, asked : BOOLEAN], v7' \in 0..MaxCalls,
             v5'[m] \in {"touch", "insert", "mark", "create", "remember"} => v6'[m] # 0,
             v2'[m].kind # "none" => v2'[m].call # 0
      PROVE  Named'
  BY <1>1, <1>3 DEF Named, Call!CardsNamed
<1>4. CASE Call!Start(m)
  BY <1>1, <1>2, <1>3, <1>4 DEF Call!Start, Call!Goes, Call!Live, Call!CardsNamed
<1>5. CASE Call!Miss(m)
  <2>1. v7 < MaxCalls => v7 + 1 \in 0..MaxCalls /\ v7 + 1 # 0
    BY <1>1
  <2> QED
    BY <1>1, <1>2, <1>3, <1>5, <2>1
       DEF Call!Miss, Call!Goes, Call!Live, Call!Allocate, Call!CardsNamed
<1>6. CASE Call!Touch(m)
  BY <1>1, <1>2, <1>3, <1>6 DEF Call!Touch, Call!Goes, Call!CardsNamed
<1>7. CASE Call!Mark(m)
  BY <1>1, <1>2, <1>3, <1>7 DEF Call!Mark, Call!Goes, Call!CardsNamed
<1>8. CASE Call!CreateCall(m)
  <2>1. v6[m] # 0
    BY <1>1, <1>8 DEF Call!CreateCall, Call!CardsNamed
  <2>2. CASE Call!Known(m)
    BY <1>1, <1>2, <1>3, <1>8, <2>1, <2>2
       DEF Call!CreateCall, Call!Goes, Call!Known, Call!CardsNamed
  <2>3. CASE ~Call!Known(m)
    BY <1>1, <1>2, <1>3, <1>8, <2>1, <2>3 DEF Call!CreateCall, Call!Goes, Call!CardsNamed
  <2> QED
    BY <2>2, <2>3
<1>9. CASE Call!Remember(m)
  BY <1>1, <1>2, <1>3, <1>9 DEF Call!Remember, Call!Goes, Call!CardsNamed
<1>10. CASE Call!Refused(m)
  BY <1>1, <1>2, <1>3, <1>10 DEF Call!Refused, Call!Goes, Call!CardsNamed
<1>11. ASSUME NEW last \in BOOLEAN, Call!AppendCall(m, last) PROVE Named'
  <2>1. v6[m] # 0
    BY <1>1, <1>11 DEF Call!AppendCall, Call!CardsNamed
  <2>2. CASE Call!Known(m)
    BY <1>1, <1>2, <1>3, <1>11, <2>1, <2>2 DEF Call!AppendCall, Call!Goes, Call!CardsNamed
  <2>3. CASE ~Call!Known(m)
    BY <1>1, <1>2, <1>3, <1>11, <2>1, <2>3 DEF Call!AppendCall, Call!Goes, Call!CardsNamed
  <2> QED
    BY <2>2, <2>3
<1> QED
  BY <1>4, <1>5, <1>6, <1>7, <1>8, <1>9, <1>10, <1>11

Follows == Delivery' /\ Changed' /\ (Call!Order!ONext \/ UNCHANGED <<v11, Call!Settled, v4, v12>>)

\* A step that neither accepts a mutation nor gives out a receipt.
LEMMA NothingAccepted ==
  ASSUME Call!CInv, UNCHANGED <<v2, v11>>
  PROVE  Changed'
<1>1. Changed
  BY InvParts DEF Books, Changed
<1>2. Once(v11') /\ \A m \in Call!Msgs : v2'[m].kind = "none" => Absent(v11', m)
  BY <1>1 DEF Changed
<1> QED
  BY <1>1, <1>2 DEF Changed

LEMMA MessageFollows ==
  ASSUME Call!CInv, Call!CAssumption, NEW m \in Call!Msgs,
         \/ Call!Start(m) \/ Call!Miss(m) \/ Call!Touch(m) \/ Call!Mark(m) \/ Call!CreateCall(m)
         \/ Call!Remember(m) \/ Call!Refused(m) \/ \E last \in BOOLEAN : Call!AppendCall(m, last)
  PROVE  Follows
<1>1. ASSUME UNCHANGED <<v2, v3, v4, v9, v11, v12>> PROVE Follows
  BY <1>1, Stutters, NothingAccepted DEF Follows
<1>2. ASSUME NEW kind \in {"create", "append", "last"}, Call!Inserted(v6[m], kind, m),
             v5[m] \in {"insert", "create"}, UNCHANGED <<v4, v9>>, ~Call!Known(m),
             NEW r, r # "none", v2' = [v2 EXCEPT ![m] = [kind |-> r, call |-> v6[m]]]
      PROVE  Follows
  <2>1. Named
    BY InvParts DEF Books, Named
  <2>2. v6[m] \in Call!Cards
    <3>1. v6[m] \in 0..MaxCalls /\ v6[m] # 0
      BY <1>2, <2>1 DEF Named, Call!CardsNamed
    <3> QED
      BY <3>1 DEF Call!Cards, Call!CAssumption
  <2>3. Call!Item(kind, m) \in Call!Items
    BY DEF Call!Item, Call!Items
  <2>4. Delivery' /\ Call!Order!ONext
    BY <1>2, <2>2, <2>3, InsertDelivers
  <2>5. /\ v11' = [v11 EXCEPT ![v6[m]] = Append(@, Call!Item(kind, m))]
        /\ v11' \in [Call!Cards -> Seq(Call!Items)]
    BY <1>2, <2>2, <2>3, InsertKeeps
  <2>6. /\ v2[m].kind = "none" /\ v2'[m].kind # "none"
        /\ \A n \in Call!Msgs : n # m => v2'[n] = v2[n]
    BY <1>2, <2>1 DEF Named, Call!Known
  <2>7. Once(v11') /\ \A n \in Call!Msgs : v2'[n].kind = "none" => Absent(v11', n)
    BY <2>2, <2>5, <2>6, InsertOnce
  <2> QED
    BY <2>4, <2>5, <2>7 DEF Follows, Changed
<1>3. CASE Call!Start(m)
  BY <1>1, <1>3 DEF Call!Start
<1>4. CASE Call!Miss(m)
  BY <1>1, <1>4 DEF Call!Miss
<1>5. CASE Call!Touch(m)
  BY <1>1, <1>5 DEF Call!Touch
<1>6. CASE Call!Mark(m)
  BY <1>1, <1>6 DEF Call!Mark
<1>7. CASE Call!CreateCall(m)
  BY <1>1, <1>2, <1>7 DEF Call!CreateCall
<1>8. CASE Call!Remember(m)
  BY <1>1, <1>8 DEF Call!Remember
<1>9. CASE Call!Refused(m)
  BY <1>1, <1>9 DEF Call!Refused
<1>10. ASSUME NEW last \in BOOLEAN, Call!AppendCall(m, last) PROVE Follows
  BY <1>1, <1>2, <1>10 DEF Call!AppendCall
<1> QED
  BY <1>3, <1>4, <1>5, <1>6, <1>7, <1>8, <1>9, <1>10

\* A call that is idle is completed by a mutation that carries no message.
LEMMA IdleFollows ==
  ASSUME Call!CInv, Call!CAssumption, NEW k \in Call!Cards,
         Call!Inserted(k, "idle", Call!NoMsg), UNCHANGED <<v2, v4, v9>>
  PROVE  Follows
<1>1. Call!Item("idle", Call!NoMsg) \in Call!Items
  BY DEF Call!Item, Call!Items
<1>2. Delivery' /\ Call!Order!ONext
  BY <1>1, InsertDelivers
<1>3. /\ v11' = [v11 EXCEPT ![k] = Append(@, Call!Item("idle", Call!NoMsg))]
      /\ v11' \in [Call!Cards -> Seq(Call!Items)]
  BY <1>1, InsertKeeps
<1>4. Once(v11') /\ \A n \in Call!Msgs : v2'[n].kind = "none" => Absent(v11', n)
  BY <1>3, InsertOnce
<1> QED
  BY <1>2, <1>3, <1>4 DEF Follows, Changed

LEMMA CallsStep ==
  ASSUME Call!CInv, Call!CAssumption, Call!CNext
  PROVE  Call!CInv' /\ (Call!Order!ONext \/ UNCHANGED <<v11, Call!Settled, v4, v12>>)
<1>1. Named /\ MaxCalls \in Nat
  BY InvParts DEF Books, Named, Call!CAssumption
<1>2. ASSUME v1' \in [call : 0..MaxCalls, asked : BOOLEAN], UNCHANGED <<v2, v5, v6, v7>>
      PROVE  Named'
  BY <1>1, <1>2 DEF Named, Call!CardsNamed
<1>3. ASSUME Follows, Named'
      PROVE  Call!CInv' /\ (Call!Order!ONext \/ UNCHANGED <<v11, Call!Settled, v4, v12>>)
  BY <1>3, InvPartsNext DEF Follows, Changed, Named, Books
<1>4. ASSUME NEW m \in Call!Msgs,
             \/ Call!Start(m) \/ Call!Miss(m) \/ Call!Touch(m) \/ Call!Mark(m)
             \/ Call!CreateCall(m) \/ Call!Remember(m) \/ Call!Refused(m)
             \/ \E last \in BOOLEAN : Call!AppendCall(m, last)
      PROVE  Follows /\ Named'
  BY <1>1, <1>4, MessageFollows, MessageNamed
<1>5. CASE Call!IdleComplete
  <2>1. v1' = [v1 EXCEPT !.asked = TRUE] /\ v1.call # 0 /\ UNCHANGED <<v2, v4, v5, v6, v7, v9>>
    BY <1>5 DEF Call!IdleComplete, Call!Live
  <2>2. Named'
    BY <1>1, <1>2, <2>1 DEF Named
  <2>3. v1.call \in Call!Cards
    BY <1>1, <2>1 DEF Named, Call!Cards
  <2>4. CASE Call!Inserted(v1.call, "idle", Call!NoMsg)
    BY <1>3, <2>1, <2>2, <2>3, <2>4, IdleFollows
  <2>5. CASE UNCHANGED <<v3, v11, v12>>
    BY <1>3, <2>1, <2>2, <2>5, Stutters, NothingAccepted DEF Follows
  <2> QED
    BY <1>5, <2>4, <2>5 DEF Call!IdleComplete
<1>6. ASSUME NEW k \in Call!Cards, Call!IdleOrphan(k) PROVE Follows /\ Named'
  <2>1. Call!Inserted(k, "idle", Call!NoMsg) /\ UNCHANGED <<v1, v2, v4, v5, v6, v7, v9>>
    BY <1>6 DEF Call!IdleOrphan
  <2> QED
    BY <1>1, <1>2, <2>1, IdleFollows DEF Named
<1>7. CASE Call!Prune
  <2>1. v1' = Call!Swept(v1, v3) /\ UNCHANGED <<v2, v3, v4, v5, v6, v7, v9, v11, v12>>
    BY <1>7 DEF Call!Prune
  <2>2. Named'
    BY <1>1, <1>2, <2>1, SweptIs DEF Named
  <2> QED
    BY <1>3, <2>1, <2>2, Stutters, NothingAccepted DEF Follows
<1>8. CASE Call!ArchiveDead
  <2>1. UNCHANGED <<v1, v2, v5, v6, v7, v11>>
    BY <1>8 DEF Call!ArchiveDead
  <2> QED
    BY <1>1, <1>2, <1>3, <1>8, <2>1, ArchiveKeeps, NothingAccepted DEF Follows, Named
<1>9. ASSUME NEW d \in Deliverers, Call!Claim(d) PROVE Follows /\ Named'
  <2>1. UNCHANGED <<v1, v2, v5, v6, v7, v11>>
    BY <1>9 DEF Call!Claim
  <2> QED
    BY <1>1, <1>2, <1>9, <2>1, ClaimKeeps, NothingAccepted DEF Follows, Named
<1>10. ASSUME NEW d \in Deliverers, NEW r \in {"ok", "lost", "fail", "bad"}, Call!Send(d, r)
       PROVE  Follows /\ Named'
  <2>1. UNCHANGED <<v1, v2, v5, v6, v7, v11>>
    BY <1>10 DEF Call!Send
  <2> QED
    BY <1>1, <1>2, <1>10, <2>1, SendKeeps, NothingAccepted DEF Follows, Named
<1>11. ASSUME NEW d \in Deliverers, NEW dead \in BOOLEAN, Call!Finish(d, dead)
       PROVE  Follows /\ Named'
  <2>1. UNCHANGED <<v2, v5, v6, v7, v11>>
    BY <1>11 DEF Call!Finish
  <2>2. v1' = v1 \/ v1' = Call!Swept(v1, v3')
    BY <1>11 DEF Call!Finish, Call!Completed, Call!Failed
  <2>3. Named'
    BY <1>1, <1>2, <2>1, <2>2, SweptIs DEF Named
  <2> QED
    BY <1>11, <2>1, <2>3, FinishKeeps, NothingAccepted DEF Follows
<1>12. CASE Call!Lapse
  <2>1. UNCHANGED <<v1, v2, v5, v6, v7, v11>>
    BY <1>12 DEF Call!Lapse
  <2> QED
    BY <1>1, <1>2, <1>3, <1>12, <2>1, LapseKeeps, NothingAccepted DEF Follows, Named
<1>13. CASE Call!CCrash
  <2>1. /\ UNCHANGED <<v1, v2, v6, v7, v11>>
        /\ v5' = [m \in Call!Msgs |-> IF v5[m] = "done" THEN "done" ELSE "new"]
    BY <1>13 DEF Call!CCrash
  <2>2. Named'
    BY <1>1, <2>1 DEF Named, Call!CardsNamed
  <2> QED
    BY <1>3, <1>13, <2>1, <2>2, CrashKeeps, NothingAccepted DEF Follows
<1> QED
  BY <1>3, <1>4, <1>5, <1>6, <1>7, <1>8, <1>9, <1>10, <1>11, <1>12, <1>13 DEF Call!CNext

LEMMA CallsInit ==
  ASSUME Call!CAssumption, Call!CInit
  PROVE  Call!CInv /\ Call!OrderStarts
<1>1. /\ v1 = Call!NoCall /\ v2 = [m \in Call!Msgs |-> Call!NoReceipt] /\ v3 = << >>
      /\ v4 = [k \in Call!Cards |-> 0] /\ v5 = [m \in Call!Msgs |-> "new"]
      /\ v6 = [m \in Call!Msgs |-> 0] /\ v7 = 0 /\ v9 = [d \in Deliverers |-> Call!Idle]
      /\ v11 = [k \in Call!Cards |-> << >>] /\ v12 = {}
  BY DEF Call!CInit
<1>2. MaxCalls \in Nat /\ Capacity \in Nat /\ 0 \in 0..MaxCalls
  BY DEF Call!CAssumption
<1>3. \A k : Call!Lane(k) = {}
  BY <1>1 DEF Call!Lane
<1>4. Call!Settled = [k \in Call!Cards |-> 0]
  <2>1. Call!Cardinality({}) = 0
    BY SameSets, FS_EmptySet
  <2>2. \A k \in Call!Cards : Len(v11[k]) = 0
    BY <1>1
  <2>3. ASSUME NEW k \in Call!Cards
        PROVE  Len(v11[k]) - Call!Cardinality(Call!Lane(k)) = 0
    <3>1. Call!Cardinality(Call!Lane(k)) = 0
      BY <1>3, <2>1, Zenon
    <3>2. Len(v11[k]) = 0
      BY <2>2
    <3> DEFINE n == Call!Cardinality(Call!Lane(k))
    <3>3. n = 0
      BY <3>1
    <3> HIDE DEF n
    <3>4. Len(v11[k]) - n = 0
      BY <3>2, <3>3
    <3> QED
      BY <3>4 DEF n
  <2> QED
    BY <2>3, Zenon DEF Call!Settled
<1>5. Call!CTypeOK
  <2>1. v1 \in [call : 0..MaxCalls, asked : BOOLEAN]
    BY <1>1, <1>2 DEF Call!NoCall
  <2>2. v2 \in [Call!Msgs -> [kind : {"none", "append", "create"}, call : 0..MaxCalls]]
    BY <1>1, <1>2 DEF Call!NoReceipt
  <2>3. v9 \in [Deliverers -> [call : 0..MaxCalls, i : Nat, tok : Nat,
                               res : {"none", "ok", "lost", "fail", "bad"}]]
    BY <1>1, <1>2 DEF Call!Idle
  <2>4. v11 \in [Call!Cards -> Seq(Call!Items)] /\ v3 \in Seq(Call!Entries) /\ Len(v3) = 0
    BY <1>1
  <2> QED
    BY <1>1, <1>2, <2>1, <2>2, <2>3, <2>4 DEF Call!CTypeOK
<1>6. Call!CardsNamed
  BY <1>1 DEF Call!CardsNamed, Call!NoReceipt
<1>7. Call!LanesInOrder
  BY <1>1, <1>3, <1>4 DEF Call!LanesInOrder
<1>8. Call!TriedIsFirst /\ Call!DeadAreGone
  BY <1>1 DEF Call!TriedIsFirst, Call!DeadAreGone
<1>9. Call!LeasesHeld
  BY <1>1 DEF Call!LeasesHeld, Call!Idle
<1>10. Call!Unheard /\ Call!MessageOnce
  BY <1>1 DEF Call!Unheard, Call!MessageOnce
<1> QED
  BY <1>1, <1>4, <1>5, <1>6, <1>7, <1>8, <1>9, <1>10
     DEF Call!CInv, Call!OrderStarts, Call!Order!OInit

-----------------------------------------------------------------------------
(* The specification. *)
CallsHold == part = "calls" => Call!CInv

LEMMA CallsInvariance == Spec => []CallsHold
<1>1. Init => CallsHold
  BY CallsInit, BoundsAssumption DEF Init, BoundsAssumption, CallsHold
<1>2. CallsHold /\ [Next]_vars => CallsHold'
  <2> SUFFICES ASSUME CallsHold, [Next]_vars, part' = "calls" PROVE Call!CInv'
    BY DEF CallsHold
  <2>1. CASE Next
    <3>1. part = "calls" /\ Call!CNext
      BY <2>1 DEF Next
    <3> QED
      BY <3>1, CallsStep, BoundsAssumption DEF BoundsAssumption, CallsHold
  <2>2. CASE UNCHANGED vars
    <3>1. part = "calls" /\ UNCHANGED <<v1, v2, v3, v4, v5, v6, v7, v9, v11, v12>>
      BY <2>2 DEF vars, Rest7
    <3>2. Call!CInv
      BY <3>1 DEF CallsHold
    <3>3. Delivery'
      BY <3>1, <3>2, Stutters
    <3>4. Changed'
      BY <3>1, <3>2, NothingAccepted
    <3>5. Named
      BY <3>2, InvParts DEF Books, Named
    <3>6. Named'
      BY <3>1, <3>5 DEF Named, Call!CardsNamed
    <3> QED
      BY <3>3, <3>4, <3>6, InvPartsNext DEF Changed, Named, Books
  <2> QED
    BY <2>1, <2>2
<1> QED
  BY <1>1, <1>2, PTL DEF Spec

\* The journal implements CallOrder: the mutations of a call reach Glass in the order
\* in which they were accepted, and none is dropped but those given up, for any
\* messages, deliverers, calls, capacity and number of failures.
THEOREM CallsKeepOrder == Spec => OrderKept
<1>1. Init => (part = "calls" => Call!OrderStarts)
  BY CallsInit, BoundsAssumption DEF Init, BoundsAssumption
<1>2. CallsHold /\ [Next]_vars => [part = "calls" => Call!OrderStep]_vars
  <2> SUFFICES ASSUME CallsHold, Next, part = "calls" PROVE Call!OrderStep
    OBVIOUS
  <2>1. Call!CInv /\ Call!CNext
    BY DEF CallsHold, Next
  <2>2. Call!Order!ONext \/ UNCHANGED <<v11, Call!Settled, v4, v12>>
    BY <2>1, CallsStep, BoundsAssumption DEF BoundsAssumption
  <2> QED
    BY <2>2 DEF Call!OrderStep
<1> QED
  BY <1>1, <1>2, CallsInvariance, PTL DEF Spec, OrderKept

\* A message changes a call once, however often it comes again.
THEOREM MessagesOnce == Spec => []MessageOnce
<1>1. CallsHold => MessageOnce
  BY DEF CallsHold, MessageOnce, Call!CInv
<1> QED
  BY <1>1, CallsInvariance, PTL
============================================================================
