-------------------------- MODULE InterfaceProofs --------------------------
(***************************************************************************)
(* Proofs about Interface for any events, contacts, file lengths, numbers  *)
(* of files and of faults: the durable offset vouches for every event      *)
(* before it, what was scanned is held in memory until it is settled, and  *)
(* an attested stop loses no input, each but for what an equal line before *)
(* the offset passes over in a new file.  All follow from one chain: an    *)
(* event before a position in a file is settled or passed over, or its     *)
(* record is in hand at an earlier place, and the records in hand are      *)
(* worked off in that order.                                               *)
(***************************************************************************)
EXTENDS Interface, MaintenanceProofs, SequenceTheorems, FiniteSetTheorems

Frames == [kind: {"event", "snapshot", "removed"}, events: Seq(Events)]
InboxRecord == [id: Nat, end: Nat, frame: Frames, prefix: Seq(Frames)]
Inboxes == [id: Nat, lines: Seq(Frames)]
Cursors == [id: Nat, off: Nat, prefix: Seq(Frames)]
Scans == [id: Nat, off: Nat]

\* The events that are settled or were passed over, and the records between the
\* scan and the durable offset, in the order in which the main loop comes to them
Settlement == {e \in Events : Settled(e) \/ e \in skipped}
InHand == batch \o queue

\* The types of the inbox
ITypeOK ==
    /\ file \in Inboxes /\ file.id > 0 /\ cursor \in Cursors /\ scan \in Scans
    /\ batch \in Seq(InboxRecord) /\ queue \in Seq(InboxRecord)
    /\ taken \in [Events -> Nat] /\ text \in [Events -> Bodies]
    /\ dropped \subseteq Events /\ skipped \subseteq Events
    /\ telling \subseteq Mids \X Contacts

\* The lines begin with p.
Begins(lines, p) == Len(p) <= Len(lines) /\ \A n \in 1..Len(p) : p[n] = lines[n]

\* The events of the lines before off are in S.
Covers(S, lines, off) ==
    off <= Len(lines) /\ \A n \in 1..off : Range(lines[n].events) \subseteq S

\* The offset c comes with the lines it was committed for, and their events are
\* in S; so are those of the file it stands for now, which need not begin so.
Vouched(S, F, c) ==
    /\ c.off = Len(c.prefix) /\ c.id <= F.id
    /\ Covers(S, c.prefix, c.off)
    /\ c.id = F.id => Covers(S, F.lines, c.off)

\* The events of the frame f are in S or among the first m records of s.
Within(S, s, m, f) == \A e \in Range(f.events) :
    e \in S \/ \E j \in 1..m : e \in Range(s[j].frame.events)

\* A record is the last line of its prefix, in the file F or an earlier one.
RecordFits(F, r) ==
    /\ r.end > 0 /\ Len(r.prefix) = r.end /\ r.frame = r.prefix[r.end] /\ r.id <= F.id
    /\ r.id = F.id => Begins(F.lines, r.prefix)

\* What lies before a record is in S, or among the records and not behind it.
Chained(S, F, s) ==
    \A m \in 1..Len(s) :
        /\ RecordFits(F, s[m])
        /\ \A n \in 1..s[m].end : Within(S, s, m, s[m].prefix[n])

\* What lies before the scan is in S or among the records.
Scanned(S, F, s, sc) ==
    /\ sc.id <= F.id
    /\ sc.id = F.id => /\ sc.off <= Len(F.lines)
                       /\ \A n \in 1..sc.off : Within(S, s, Len(s), F.lines[n])

\* The main loop has settled the events of the first record up to its place.
StepFollows ==
    /\ step \in [at: {"idle", "event", "remember"}, i: Nat]
    /\ step.at = "idle" => step = AtRest /\ batch = <<>>
    /\ step.at # "idle" =>
        /\ batch # <<>> /\ step.i > 0
        /\ \A k \in 1..Len(Head1.frame.events) :
                k < step.i \/ (step.at = "remember" /\ k = step.i) =>
                    Head1.frame.events[k] \in Settlement
    /\ step.at = "remember" => step.i <= Len(Head1.frame.events)

\* What is remembered was settled.
SeenSettled == seen \in Seq(Settlement)

\* What the coordinator has of an event came from here.
Accepted(d, e) == Present(d, e) \/ d.receipts[e].ttl > 0
AcceptedTaken == \A e \in Events : Accepted(doc, e) => taken[e] > 0

\* A manager turn is whole here: no root is left claimed.
NoClaims(d) == \A q \in QueueIds : d.items[q].status # "claimed"

\* What lies before the durable offset, before a record and before the scan
Chain == /\ Vouched(Settlement, file, cursor)
         /\ Chained(Settlement, file, InHand)
         /\ Scanned(Settlement, file, InHand, scan)

IInv == /\ Inv(doc) /\ ITypeOK /\ StepFollows /\ SeenSettled /\ AcceptedTaken
        /\ NoClaims(doc) /\ Chain

-----------------------------------------------------------------------------
(* The chain, for any settled events S, inbox F and records s               *)

\* The elements of a sequence, by their position
LEMMA SeqTyped ==
  ASSUME NEW T, NEW s \in Seq(T)
  PROVE  /\ DOMAIN s = 1..Len(s) /\ Len(s) \in Nat
         /\ \A i \in 1..Len(s) : s[i] \in T
BY ElementOfSeq, LenProperties

\* More is settled.
LEMMA MoreSettled ==
  ASSUME NEW S, NEW T, S \subseteq T, NEW F \in Inboxes, NEW s
  PROVE  /\ Chained(S, F, s) => Chained(T, F, s)
         /\ \A c : Vouched(S, F, c) => Vouched(T, F, c)
         /\ \A sc : Scanned(S, F, s, sc) => Scanned(T, F, s, sc)
<1>1. \A m, f : Within(S, s, m, f) => Within(T, s, m, f)
  BY DEF Within
<1>2. Chained(S, F, s) => Chained(T, F, s)
  BY <1>1 DEF Chained
<1>3. \A sc : Scanned(S, F, s, sc) => Scanned(T, F, s, sc)
  BY <1>1 DEF Scanned
<1> QED
  BY <1>2, <1>3 DEF Vouched, Covers

\* The file grows: what was a beginning of it still is.
LEMMA FileGrows ==
  ASSUME NEW S, NEW F \in Inboxes, NEW G \in Inboxes, G.id = F.id,
         NEW s \in Seq(InboxRecord), Len(F.lines) <= Len(G.lines),
         \A n \in 1..Len(F.lines) : G.lines[n] = F.lines[n]
  PROVE  /\ Chained(S, F, s) => Chained(S, G, s)
         /\ \A c \in Cursors : Vouched(S, F, c) => Vouched(S, G, c)
         /\ \A sc \in Scans : Scanned(S, F, s, sc) => Scanned(S, G, s, sc)
<1>1. Len(F.lines) \in Nat /\ Len(G.lines) \in Nat
  BY SeqTyped DEF Inboxes
<1>2. ASSUME NEW p, Len(p) \in Nat, Begins(F.lines, p) PROVE Begins(G.lines, p)
  BY <1>1, <1>2 DEF Begins
<1>3. Chained(S, F, s) => Chained(S, G, s)
  <2>1. ASSUME NEW r \in InboxRecord, RecordFits(F, r) PROVE RecordFits(G, r)
    <3>1. Len(r.prefix) \in Nat
      BY SeqTyped DEF InboxRecord
    <3> QED
      BY <1>2, <2>1, <3>1 DEF RecordFits
  <2> QED
    BY <2>1, SeqTyped DEF Chained
<1>4. ASSUME NEW c \in Cursors, Vouched(S, F, c) PROVE Vouched(S, G, c)
  <2>1. c.off \in Nat
    BY DEF Cursors
  <2>2. Covers(S, F.lines, c.off) => Covers(S, G.lines, c.off)
    BY <1>1, <2>1 DEF Covers
  <2> QED
    BY <1>4, <2>2 DEF Vouched
<1>5. ASSUME NEW sc \in Scans, Scanned(S, F, s, sc) PROVE Scanned(S, G, s, sc)
  <2>1. sc.off \in Nat
    BY DEF Scans
  <2>2. \A n \in 1..sc.off : sc.off <= Len(F.lines) => n \in 1..Len(F.lines)
    BY <1>1, <2>1
  <2> QED
    BY <1>1, <1>5, <2>1, <2>2 DEF Scanned
<1> QED
  BY <1>3, <1>4, <1>5

\* The file is replaced: nothing that is in hand claims to be of the new one.
LEMMA FileReplaced ==
  ASSUME NEW S, NEW F \in Inboxes, NEW G \in Inboxes, F.id < G.id, NEW s \in Seq(InboxRecord)
  PROVE  /\ Chained(S, F, s) => Chained(S, G, s)
         /\ \A c \in Cursors : Vouched(S, F, c) => Vouched(S, G, c)
         /\ \A sc \in Scans : Scanned(S, F, s, sc) => Scanned(S, G, s, sc)
<1>1. F.id \in Nat /\ G.id \in Nat
  BY DEF Inboxes
<1>2. \A r \in InboxRecord : RecordFits(F, r) => RecordFits(G, r)
  BY <1>1 DEF RecordFits, InboxRecord
<1>3. Chained(S, F, s) => Chained(S, G, s)
  BY <1>2, SeqTyped DEF Chained
<1>4. \A c \in Cursors : Vouched(S, F, c) => Vouched(S, G, c)
  BY <1>1 DEF Vouched, Cursors
<1>5. \A sc \in Scans : Scanned(S, F, s, sc) => Scanned(S, G, s, sc)
  BY <1>1 DEF Scanned, Scans
<1> QED
  BY <1>3, <1>4, <1>5

\* The first record is worked off.
LEMMA FirstDone ==
  ASSUME NEW S, NEW F \in Inboxes, NEW s \in Seq(InboxRecord), s # <<>>,
         Range(s[1].frame.events) \subseteq S, Chained(S, F, s)
  PROVE  /\ Chained(S, F, Tail(s))
         /\ \A sc : Scanned(S, F, s, sc) => Scanned(S, F, Tail(s), sc)
         /\ Vouched(S, F, [id |-> s[1].id, off |-> s[1].end, prefix |-> s[1].prefix])
<1> DEFINE t == Tail(s)
<1>1. /\ t \in Seq(InboxRecord) /\ Len(t) = Len(s) - 1 /\ Len(s) \in Nat \ {0}
      /\ \A i \in 1..Len(s) - 1 : t[i] = s[i + 1]
  BY HeadTailProperties, EmptySeq
<1> HIDE DEF t
<1>2. ASSUME NEW m \in 1..Len(s), NEW f, Within(S, s, m, f) PROVE Within(S, t, m - 1, f)
  <2> SUFFICES ASSUME NEW e \in Range(f.events), e \notin S
               PROVE  \E j \in 1..m - 1 : e \in Range(t[j].frame.events)
    BY DEF Within
  <2>1. PICK j \in 1..m : e \in Range(s[j].frame.events)
    BY <1>2 DEF Within
  <2>2. j # 1
    BY <2>1
  <2>3. j - 1 \in 1..m - 1 /\ j - 1 \in 1..Len(s) - 1 /\ (j - 1) + 1 = j
    BY <1>1, <2>1, <2>2
  <2> QED
    BY <1>1, <2>1, <2>3
<1>3. Chained(S, F, t)
  <2> SUFFICES ASSUME NEW m \in 1..Len(t)
               PROVE  /\ RecordFits(F, t[m])
                      /\ \A n \in 1..t[m].end : Within(S, t, m, t[m].prefix[n])
    BY DEF Chained
  <2>1. m + 1 \in 1..Len(s) /\ (m + 1) - 1 = m /\ t[m] = s[m + 1]
    BY <1>1
  <2> QED
    BY <1>2, <2>1 DEF Chained
<1>4. \A sc : Scanned(S, F, s, sc) => Scanned(S, F, t, sc)
  <2>1. Len(s) \in 1..Len(s) /\ Len(s) - 1 = Len(t)
    BY <1>1
  <2> QED
    BY <1>2, <2>1 DEF Scanned
<1>5. Vouched(S, F, [id |-> s[1].id, off |-> s[1].end, prefix |-> s[1].prefix])
  <2>1. 1 \in 1..Len(s)
    BY <1>1
  <2>2. RecordFits(F, s[1]) /\ \A n \in 1..s[1].end : Within(S, s, 1, s[1].prefix[n])
    BY <2>1 DEF Chained
  <2>3. \A f : Within(S, s, 1, f) => Range(f.events) \subseteq S
    BY DEF Within
  <2>4. s[1].end \in Nat
    <3>1. s[1] \in InboxRecord
      BY <2>1, ElementOfSeq
    <3> QED
      BY <3>1 DEF InboxRecord
  <2>5. Covers(S, s[1].prefix, s[1].end)
    BY <2>2, <2>3, <2>4 DEF RecordFits, Covers
  <2>6. s[1].id = F.id => Covers(S, F.lines, s[1].end)
    BY <2>2, <2>4, <2>5 DEF RecordFits, Covers, Begins
  <2> QED
    BY <2>2, <2>5, <2>6 DEF RecordFits, Vouched
<1> QED
  BY <1>3, <1>4, <1>5 DEF t

\* Records are added for the lines behind n0, before which all is settled or in hand.
LEMMA MoreRead ==
  ASSUME NEW S, NEW F \in Inboxes, NEW s \in Seq(InboxRecord), Chained(S, F, s),
         NEW n0 \in 0..Len(F.lines), \A n \in 1..n0 : Within(S, s, Len(s), F.lines[n]),
         NEW rs \in Seq(InboxRecord), Len(rs) = Len(F.lines) - n0,
         \A n \in 1..Len(rs) :
            rs[n] = [id |-> F.id, end |-> n0 + n, frame |-> F.lines[n0 + n],
                     prefix |-> SubSeq(F.lines, 1, n0 + n)]
  PROVE  /\ Chained(S, F, s \o rs)
         /\ Scanned(S, F, s \o rs, [id |-> F.id, off |-> Len(F.lines)])
<1> DEFINE u == s \o rs
           k == Len(s)
<1>1. /\ k \in Nat /\ Len(rs) \in Nat /\ Len(F.lines) \in Nat /\ n0 \in Nat /\ F.id \in Nat
      /\ \A n \in 1..Len(F.lines) : F.lines[n] \in Frames
  BY SeqTyped DEF Inboxes
<1> DEFINE Line(x) == [id |-> F.id, end |-> n0 + x, frame |-> F.lines[n0 + x],
                       prefix |-> SubSeq(F.lines, 1, n0 + x)]
<1>0. ASSUME NEW x \in 1..Len(rs)
      PROVE  /\ rs[x].id = F.id /\ rs[x].end = n0 + x /\ rs[x].frame = F.lines[n0 + x]
             /\ rs[x].prefix = SubSeq(F.lines, 1, n0 + x)
  <2>1. \A y \in 1..Len(rs) : rs[y] = Line(y)
    OBVIOUS
  <2>2. /\ Line(x).id = F.id /\ Line(x).end = n0 + x /\ Line(x).frame = F.lines[n0 + x]
        /\ Line(x).prefix = SubSeq(F.lines, 1, n0 + x)
    OBVIOUS
  <2> HIDE DEF Line
  <2>3. rs[x] = Line(x)
    BY ONLY <2>1, x \in 1..Len(rs)
  <2> QED
    BY ONLY <2>2, <2>3
<1> HIDE DEF Line
<1>2. /\ Len(u) = k + Len(rs) /\ \A i \in 1..k : u[i] = s[i]
      /\ \A i \in 1..Len(rs) : u[k + i] = rs[i]
  <2>1. /\ Len(u) = Len(s) + Len(rs)
        /\ \A i \in 1..Len(s) + Len(rs) : u[i] = IF i <= Len(s) THEN s[i] ELSE rs[i - Len(s)]
    BY ConcatProperties
  <2>2. \A i \in 1..k : i \in 1..k + Len(rs) /\ i <= k
    BY <1>1
  <2>3. \A i \in 1..Len(rs) : k + i \in 1..k + Len(rs) /\ ~(k + i <= k) /\ (k + i) - k = i
    BY <1>1
  <2> QED
    BY <2>1, <2>2, <2>3
<1> HIDE DEF u
<1>3. ASSUME NEW m \in 0..k, NEW f, Within(S, s, m, f), NEW x \in Nat, m <= x
      PROVE  Within(S, u, x, f)
  <2>1. \A j \in 1..m : j \in 1..x /\ u[j] = s[j]
    BY <1>1, <1>2, <1>3
  <2> QED
    BY <1>3, <2>1 DEF Within
<1>4. ASSUME NEW x \in 0..Len(rs), NEW n \in 1..n0 + x
      PROVE  Within(S, u, k + x, F.lines[n])
  <2>1. CASE n <= n0
    <3>1. n \in 1..n0 /\ k \in 0..k /\ k + x \in Nat /\ k <= k + x
      BY <1>1, <2>1
    <3>2. Within(S, s, k, F.lines[n])
      BY <3>1
    <3> QED
      BY <1>3, <3>1, <3>2
  <2>2. CASE ~(n <= n0)
    <3>1. n \in Int /\ n <= n0 + x /\ x \in Nat /\ x <= Len(rs)
      BY <1>1
    <3>0. n - n0 \in 1..Len(rs) /\ n0 + (n - n0) = n /\ k + (n - n0) \in 1..k + x
      BY <1>1, <2>2, <3>1
    <3>2. u[k + (n - n0)] = rs[n - n0] /\ rs[n - n0].frame = F.lines[n0 + (n - n0)]
      BY <1>0, <1>2, <3>0
    <3>3. u[k + (n - n0)].frame = F.lines[n]
      BY <3>0, <3>2
    <3> QED
      BY <3>0, <3>3 DEF Within
  <2> QED
    BY <2>1, <2>2
<1>5. ASSUME NEW x \in 1..Len(rs)
      PROVE  /\ RecordFits(F, rs[x])
             /\ \A n \in 1..rs[x].end : Within(S, u, k + x, rs[x].prefix[n])
  <2> DEFINE p == SubSeq(F.lines, 1, n0 + x)
  <2>1. n0 + x \in 1..Len(F.lines) /\ x \in 0..Len(rs)
    BY <1>1
  <2>2. Len(p) = n0 + x /\ \A n \in 1..n0 + x : p[n] = F.lines[n]
    <3>1. \A n \in 1..n0 + x : F.lines[n] \in Frames /\ 1 + n - 1 = n
      BY <1>1, <2>1
    <3>2. 1 \in Int /\ n0 + x \in Int /\ 1 <= n0 + x /\ n0 + x - 1 + 1 = n0 + x
      BY <1>1, <2>1
    <3>3. /\ Len(p) = IF 1 <= n0 + x THEN n0 + x - 1 + 1 ELSE 0
          /\ \A n \in 1..n0 + x - 1 + 1 : p[n] = F.lines[1 + n - 1]
      BY <3>1, <3>2, SubSeqProperties
    <3> QED
      BY <3>1, <3>2, <3>3
  <2>3. rs[x].id = F.id /\ rs[x].end = n0 + x /\ rs[x].frame = F.lines[n0 + x] /\ rs[x].prefix = p
    BY <1>0
  <2> HIDE DEF p
  <2>4. RecordFits(F, rs[x])
    BY <1>1, <2>1, <2>2, <2>3 DEF RecordFits, Begins
  <2>5. \A n \in 1..n0 + x : Within(S, u, k + x, p[n])
    BY <1>4, <2>1, <2>2
  <2> QED
    BY <2>3, <2>4, <2>5
<1>6. Chained(S, F, u)
  <2> SUFFICES ASSUME NEW m \in 1..Len(u)
               PROVE  /\ RecordFits(F, u[m])
                      /\ \A n \in 1..u[m].end : Within(S, u, m, u[m].prefix[n])
    BY DEF Chained
  <2>1. CASE m <= k
    <3>1. m \in 1..k /\ m \in 0..k /\ m \in Nat /\ u[m] = s[m]
      BY <1>1, <1>2, <2>1
    <3> QED
      BY <1>3, <3>1 DEF Chained
  <2>2. CASE ~(m <= k)
    <3>1. m - k \in 1..Len(rs) /\ k + (m - k) = m
      BY <1>1, <1>2, <2>2
    <3>2. u[m] = rs[m - k]
      BY <1>2, <3>1
    <3> QED
      BY <1>5, <3>1, <3>2
  <2> QED
    BY <2>1, <2>2
<1>7. Scanned(S, F, u, [id |-> F.id, off |-> Len(F.lines)])
  <2>1. Len(rs) \in 0..Len(rs)
    BY <1>1
  <2>2. n0 + Len(rs) = Len(F.lines) /\ k + Len(rs) = Len(u)
    BY <1>1, <1>2
  <2>3. \A n \in 1..Len(F.lines) : Within(S, u, Len(u), F.lines[n])
    BY <1>4, <2>1, <2>2
  <2> QED
    BY <1>1, <2>3 DEF Scanned
<1> QED
  BY <1>6, <1>7 DEF u

-----------------------------------------------------------------------------
(* The records in hand                                                      *)

\* Working off the first record, returning a batch, and reading more, are each
\* one step on batch \o queue.
LEMMA Hands ==
  ASSUME NEW b \in Seq(InboxRecord), NEW q \in Seq(InboxRecord)
  PROVE  /\ b \o q \in Seq(InboxRecord) /\ <<>> \o q = q /\ q \o <<>> = q
         /\ \A r \in Seq(InboxRecord) : b \o (q \o r) = (b \o q) \o r
         /\ b # <<>> => b \o q # <<>> /\ (b \o q)[1] = b[1] /\ Tail(b \o q) = Tail(b) \o q
<1>1. b \o q \in Seq(InboxRecord) /\ <<>> \o q = q /\ q \o <<>> = q
  BY ConcatProperties, ConcatEmptySeq
<1>2. ASSUME NEW r \in Seq(InboxRecord) PROVE b \o (q \o r) = (b \o q) \o r
  BY ConcatAssociative
<1>3. ASSUME b # <<>>
      PROVE  b \o q # <<>> /\ (b \o q)[1] = b[1] /\ Tail(b \o q) = Tail(b) \o q
  <2> DEFINE u == b \o q
             t == Tail(b)
  <2>1. /\ Len(b) \in Nat \ {0} /\ Len(q) \in Nat /\ Len(u) = Len(b) + Len(q)
        /\ \A i \in 1..Len(b) + Len(q) : u[i] = IF i <= Len(b) THEN b[i] ELSE q[i - Len(b)]
    BY <1>3, EmptySeq, LenProperties, ConcatProperties
  <2>2. u # <<>> /\ u \in Seq(InboxRecord)
    BY <1>1, <2>1, EmptySeq
  <2>3. 1 \in 1..Len(b) + Len(q) /\ 1 <= Len(b)
    BY <2>1
  <2>4. u[1] = b[1]
    BY <2>1, <2>3
  <2>5. /\ t \in Seq(InboxRecord) /\ Len(t) = Len(b) - 1
        /\ \A i \in 1..Len(t) : t[i] = b[i + 1]
    BY <1>3, HeadTailProperties
  <2>6. /\ Tail(u) \in Seq(InboxRecord) /\ Len(Tail(u)) = Len(u) - 1
        /\ \A i \in 1..Len(Tail(u)) : Tail(u)[i] = u[i + 1]
    BY <2>2, HeadTailProperties
  <2> HIDE DEF t, u
  <2>7. /\ t \o q \in Seq(InboxRecord) /\ Len(t \o q) = Len(t) + Len(q)
        /\ \A i \in 1..Len(t) + Len(q) : (t \o q)[i] = IF i <= Len(t) THEN t[i] ELSE q[i - Len(t)]
    BY <2>5, ConcatProperties
  <2>8. Len(Tail(u)) = Len(t \o q)
    BY <2>1, <2>5, <2>6, <2>7
  <2>9. ASSUME NEW i \in 1..Len(Tail(u)) PROVE Tail(u)[i] = (t \o q)[i]
    <3>1. i + 1 \in 1..Len(b) + Len(q) /\ i \in 1..Len(t) + Len(q)
      BY <2>1, <2>5, <2>6
    <3>2. i <= Len(t) => i + 1 <= Len(b) /\ i \in 1..Len(t)
      BY <2>1, <2>5
    <3>3. ~(i <= Len(t)) => ~(i + 1 <= Len(b)) /\ (i + 1) - Len(b) = i - Len(t)
      BY <2>1, <2>5
    <3> QED
      BY <2>1, <2>5, <2>6, <2>7, <3>1, <3>2, <3>3
  <2>10. Tail(u) = t \o q
    BY <2>6, <2>7, <2>8, <2>9, SeqEqual
  <2> QED
    BY <2>2, <2>4, <2>10 DEF t, u
<1> QED
  BY <1>1, <1>2, <1>3

\* The batch is a part of what is in hand, and so is the queue.
LEMMA HandParts ==
  ASSUME NEW b \in Seq(InboxRecord), NEW q \in Seq(InboxRecord)
  PROVE  /\ \A j \in 1..Len(b \o q) :
                \/ \E m \in DOMAIN b : (b \o q)[j] = b[m]
                \/ \E m \in DOMAIN q : (b \o q)[j] = q[m]
         /\ Len(<<>> \o q) = Len(q) /\ \A m \in DOMAIN q : (<<>> \o q)[m] = q[m]
<1>1. /\ Len(b) \in Nat /\ DOMAIN b = 1..Len(b) /\ Len(q) \in Nat /\ DOMAIN q = 1..Len(q)
      /\ Len(b \o q) = Len(b) + Len(q)
      /\ \A i \in 1..Len(b) + Len(q) :
            (b \o q)[i] = IF i <= Len(b) THEN b[i] ELSE q[i - Len(b)]
  BY LenProperties, ConcatProperties
<1>2. ASSUME NEW j \in 1..Len(b \o q)
      PROVE  \/ \E m \in DOMAIN b : (b \o q)[j] = b[m]
             \/ \E m \in DOMAIN q : (b \o q)[j] = q[m]
  <2>1. CASE j <= Len(b)
    <3>1. j \in DOMAIN b /\ j \in 1..Len(b) + Len(q)
      BY <1>1, <2>1
    <3> QED
      BY <1>1, <2>1, <3>1
  <2>2. CASE ~(j <= Len(b))
    <3>1. j - Len(b) \in DOMAIN q /\ j \in 1..Len(b) + Len(q)
      BY <1>1, <2>2
    <3> QED
      BY <1>1, <2>2, <3>1
  <2> QED
    BY <2>1, <2>2
<1> QED
  BY <1>2, ConcatEmptySeq

\* The events of a file are finitely many.
LEMMA FiniteEvents ==
  ASSUME NEW F \in Inboxes, NEW E,
         E = {e \in Events : \E n \in DOMAIN F.lines : e \in Range(F.lines[n].events)}
  PROVE  IsFiniteSet(E)
<1>1. /\ Len(F.lines) \in Nat /\ DOMAIN F.lines = 1..Len(F.lines)
      /\ \A n \in 1..Len(F.lines) : F.lines[n].events \in Seq(Events)
  <2>1. /\ Len(F.lines) \in Nat /\ DOMAIN F.lines = 1..Len(F.lines)
        /\ \A n \in 1..Len(F.lines) : F.lines[n] \in Frames
    BY SeqTyped DEF Inboxes
  <2> QED
    BY <2>1 DEF Frames
<1>2. ASSUME NEW n \in 1..Len(F.lines) PROVE IsFiniteSet(Range(F.lines[n].events))
  <2> DEFINE es == F.lines[n].events
  <2>1. es \in Seq(Events)
    BY <1>1
  <2> HIDE DEF es
  <2>2. Len(es) \in Nat /\ DOMAIN es = 1..Len(es) /\ es \in [1..Len(es) -> Events]
    BY <2>1, LenProperties
  <2>3. es \in Surjection(1..Len(es), Range(es))
    BY <2>2 DEF Surjection, Range
  <2>4. IsFiniteSet(1..Len(es))
    BY <2>2, FS_Interval
  <2> QED
    BY <2>3, <2>4, FS_Surjection DEF es
<1> DEFINE g == [n \in 1..Len(F.lines) |-> Range(F.lines[n].events)]
           T == {Range(F.lines[n].events) : n \in 1..Len(F.lines)}
<1>3. g \in Surjection(1..Len(F.lines), T)
  <2>1. g \in [1..Len(F.lines) -> T]
    OBVIOUS
  <2>2. \A t \in T : \E n \in 1..Len(F.lines) : g[n] = t
    OBVIOUS
  <2> QED
    BY <2>1, <2>2, Zenon DEF Surjection
<1>4. IsFiniteSet(1..Len(F.lines))
  BY <1>1, FS_Interval
<1>5. IsFiniteSet(T)
  BY <1>3, <1>4, FS_Surjection
<1>6. IsFiniteSet(UNION T)
  BY <1>2, <1>5, FS_UNION
<1>7. E \subseteq UNION T
  BY <1>1
<1> QED
  BY <1>6, <1>7, FS_Subset

-----------------------------------------------------------------------------
(* What the steps of get_unread_events have in common                       *)

\* What is settled stays settled.
LEMMA SettledStays ==
  ASSUME ITypeOK, ITypeOK', dropped \subseteq dropped', skipped' = skipped,
         \A e \in Events : taken[e] > 0 => taken'[e] > 0
  PROVE  Settlement \subseteq Settlement'
BY DEF Settlement, Settled

\* The chain is about the files, what is in hand and what is settled.
LEMMA ChainKept ==
  ASSUME ITypeOK, Chain, Settlement \subseteq Settlement',
         file' = file, cursor' = cursor, scan' = scan, InHand' = InHand
  PROVE  Chain'
<1>1. file \in Inboxes
  BY DEF ITypeOK
<1>2. /\ Vouched(Settlement', file, cursor)
      /\ Chained(Settlement', file, InHand)
      /\ Scanned(Settlement', file, InHand, scan)
  BY <1>1, MoreSettled DEF Chain
<1> QED
  BY <1>2 DEF Chain

\* Where the main loop is, it has a record, and at an event it has that event.
LEMMA AtWork ==
  ASSUME IInv, step.at # "idle"
  PROVE  /\ batch # <<>> /\ Head1 \in InboxRecord /\ Head1.frame.events \in Seq(Events)
         /\ Len(Head1.frame.events) \in Nat /\ step.i \in Nat \ {0}
         /\ step.at \in {"event", "remember"}
         /\ step.i <= Len(Head1.frame.events) => Event \in Events
<1>1. batch # <<>> /\ step.i > 0 /\ step \in [at: {"idle", "event", "remember"}, i: Nat]
  BY DEF IInv, StepFollows
<1>2. batch \in Seq(InboxRecord)
  BY DEF IInv, ITypeOK
<1>3. Len(batch) \in Nat \ {0}
  BY <1>1, <1>2, EmptySeq
<1>4. 1 \in 1..Len(batch)
  BY <1>3
<1>5. Head1 \in InboxRecord
  BY <1>2, <1>4, ElementOfSeq DEF Head1
<1>6. Head1.frame.events \in Seq(Events)
  BY <1>5 DEF InboxRecord, Frames
<1>7. Len(Head1.frame.events) \in Nat
  BY <1>6, LenProperties
<1>8. step.i \in Nat \ {0} /\ step.at \in {"event", "remember"}
  BY <1>1
<1>9. ASSUME step.i <= Len(Head1.frame.events) PROVE Event \in Events
  <2>1. step.i \in 1..Len(Head1.frame.events)
    BY <1>7, <1>8, <1>9
  <2> QED
    BY <1>6, <2>1, ElementOfSeq DEF Event
<1> QED
  BY <1>1, <1>5, <1>6, <1>7, <1>8, <1>9

\* The main loop goes on to the next event once this one is settled.
LEMMA GoesOn ==
  ASSUME IInv, step.at # "idle", step.i <= Len(Head1.frame.events), batch' = batch,
         Settlement \subseteq Settlement', Event \in Settlement',
         NextEvent \/ step' = [step EXCEPT !.at = "remember"]
  PROVE  StepFollows'
<1>1. /\ batch # <<>> /\ step.i \in Nat \ {0} /\ Len(Head1.frame.events) \in Nat
      /\ step \in [at: {"idle", "event", "remember"}, i: Nat]
  BY AtWork DEF IInv, StepFollows
<1>2. Head1' = Head1
  BY DEF Head1
<1>3. \A k \in 1..Len(Head1.frame.events) :
        k < step.i => Head1.frame.events[k] \in Settlement
  BY DEF IInv, StepFollows
<1>4. Head1.frame.events[step.i] \in Settlement'
  BY DEF Event
<1>5. \A k \in 1..Len(Head1.frame.events) :
        k <= step.i => Head1.frame.events[k] \in Settlement'
  BY <1>1, <1>3, <1>4
<1>6. CASE NextEvent
  <2>1. step' = [at |-> "event", i |-> step.i + 1]
    BY <1>1, <1>6 DEF NextEvent
  <2>2. \A k \in 1..Len(Head1.frame.events) : k < step.i + 1 => k <= step.i
    BY <1>1
  <2> QED
    BY <1>1, <1>2, <1>5, <2>1, <2>2 DEF StepFollows
<1>7. CASE step' = [step EXCEPT !.at = "remember"]
  <2>1. step' = [at |-> "remember", i |-> step.i]
    BY <1>1, <1>7
  <2>2. \A k \in 1..Len(Head1.frame.events) : k < step.i \/ k = step.i => k <= step.i
    BY <1>1
  <2> QED
    BY <1>1, <1>2, <1>5, <2>1, <2>2 DEF StepFollows
<1> QED
  BY <1>6, <1>7

\* _remember_processed keeps to what is settled.
LEMMA RememberedSettled ==
  ASSUME NEW S, seen \in Seq(S), NEW e \in S
  PROVE  Remembered(e) \in Seq(S)
<1> DEFINE all == IF Contains(seen, e) THEN seen ELSE Append(seen, e)
           from == IF Len(all) > SeenCap THEN Len(all) - SeenCap + 1 ELSE 1
<1>1. all \in Seq(S)
  BY AppendProperties
<1> HIDE DEF all
<1>2. Len(all) \in Nat /\ from \in Nat \ {0} /\ \A i \in 1..Len(all) : all[i] \in S
  BY <1>1, SeqTyped, InboxAssumption DEF InboxAssumption
<1> HIDE DEF from
<1>3. from \in Int /\ Len(all) \in Int /\ \A i \in from..Len(all) : all[i] \in S
  BY <1>2
<1>4. SubSeq(all, from, Len(all)) \in Seq(S)
  BY <1>3, SubSeqProperties
<1> QED
  BY <1>4 DEF Remembered, all, from

-----------------------------------------------------------------------------
(* What the coordinator comes to know, and when it may be stopped           *)

\* _prune accepts nothing and raises no safe_to_stop.
LEMMA PruneAccepts ==
  ASSUME Inv(doc), NoClaims(doc), NEW d, d = Prune(doc)
  PROVE  /\ Inv(d) /\ ClaimsAreLeased(d) /\ NoClaims(d) /\ (d.safe => doc.safe)
         /\ \A e \in Events : Accepted(d, e) => Accepted(doc, e)
<1> DEFINE c == CancelExpiredDrain(doc)
<1>1. doc \in Document
  BY DEF Inv
<1>2. /\ Inv(c) /\ c.items = doc.items /\ c.receipts = doc.receipts
      /\ c.safe => doc.safe
  BY <1>1, CancelExpiredInv DEF CancelExpiredDrain, Document
<1>3. c \in Document
  BY <1>2 DEF Inv
<1> HIDE DEF c
<1>4. d.receipts = PruneReceipts(c.receipts) /\ (d.safe => c.safe)
  BY <1>3 DEF Prune, Document, c
<1>5. \A e \in Events : e \in QueueIds /\ e \in IngressIds \cup ContIds
  BY DEF Events, QueueIds
<1>6. \A e \in Events : Present(d, e) <=> Present(doc, e)
  BY <1>5, PruneKeeps DEF Present
<1>7. \A e \in Events : d.receipts[e].ttl > 0 => doc.receipts[e].ttl > 0
  BY <1>2, <1>3, <1>4, <1>5, PruneReceiptsKeep
<1>8. NoClaims(d)
  BY PruneKeeps DEF NoClaims
<1> QED
  BY <1>2, <1>4, <1>6, <1>7, <1>8, PruneInv DEF Accepted

\* enqueue_ingress_root accepts the identity it is given, which was accepted
\* before or enters the queue, and no other.
LEMMA IngressAccepts ==
  ASSUME NEW d, Inv(d), NoClaims(d), NEW q \in Events, NEW c \in Contacts,
         NEW b \in Bodies, EnqueueIngress(d, q, c, b)
  PROVE  /\ Inv(doc') /\ NoClaims(doc') /\ (doc'.safe => d.safe)
         /\ Accepted(d, q) \/ Present(doc', q)
         /\ \A e \in Events \ {q} : Accepted(doc', e) => Accepted(d, e)
<1> DEFINE f == Append2Queue(d, q, c, b, FALSE, d.epoch)
           g == Receipted(f, q, c, b)
           h == [g EXCEPT !.safe = FALSE]
<1>1. /\ d \in Document /\ d.epoch \in Nat /\ q \in QueueIds /\ q \in IngressIds
      /\ q \in IngressIds \cup ContIds /\ FALSE \in BOOLEAN
  BY DEF Inv, Document, QueueIds, Events
<1>2. Inv(doc')
  BY <1>1, EnqueueIngressInv
<1>3. \A e \in Events \ {q} : Present(doc', e) => Present(d, e)
  <2>1. Grown(d, doc', {q})
    BY <1>1, EnqueueIngressGrown
  <2> QED
    BY <2>1 DEF Grown, Present, Events, QueueIds
<1>4. CASE d.receipts[q].ttl > 0
  <2>1. doc' = d
    BY <1>4 DEF EnqueueIngress
  <2> QED
    BY <1>2, <1>4, <2>1 DEF Accepted
<1>5. CASE ~(d.receipts[q].ttl > 0) /\ Present(d, q)
  <2>1. doc' = Receipted(d, q, c, b)
    BY <1>5 DEF EnqueueIngress, Present
  <2>2. WithReceipt(d, doc', q, c, b)
    BY <1>1, <2>1, ReceiptType
  <2> QED
    BY <1>2, <1>3, <1>5, <2>2 DEF WithReceipt, Accepted, Events, NoClaims
<1>6. CASE ~(d.receipts[q].ttl > 0) /\ ~Present(d, q)
  <2>1. doc' = h \/ doc' = EnsureNotice(h, c)
    BY <1>6 DEF EnqueueIngress, Present
  <2>2. Appended(d, f, q, c, b, FALSE, d.epoch)
    BY <1>1, AppendType
  <2>3. f \in Document
    BY <2>2 DEF Appended
  <2> HIDE DEF f
  <2>4. WithReceipt(f, g, q, c, b)
    BY <1>1, <2>3, ReceiptType
  <2>5. g \in Document
    BY <2>4 DEF WithReceipt
  <2> HIDE DEF g
  <2>6. h \in Document /\ h.safe = FALSE /\ h.items = g.items /\ h.receipts = g.receipts
    BY <2>5 DEF Document
  <2> HIDE DEF h
  <2>7. /\ EnsureNotice(h, c).safe = FALSE /\ EnsureNotice(h, c).items = h.items
        /\ EnsureNotice(h, c).receipts = h.receipts
    BY <2>6 DEF EnsureNotice, Document
  <2>8. doc'.safe = FALSE /\ doc'.items = f.items /\ doc'.receipts = g.receipts
    BY <2>1, <2>4, <2>6, <2>7 DEF WithReceipt
  <2>9. Present(doc', q)
    BY <2>2, <2>8 DEF Appended, Present
  <2>10. \A e \in Events \ {q} : doc'.receipts[e] = d.receipts[e]
    BY <2>2, <2>4, <2>8 DEF Appended, WithReceipt, Events
  <2>11. NoClaims(doc')
    BY <2>2, <2>8 DEF Appended, NoClaims
  <2> QED
    BY <1>2, <1>3, <2>8, <2>9, <2>10, <2>11 DEF Accepted
<1> QED
  BY <1>4, <1>5, <1>6

\* A turn of the dispatcher, the updater and the notices accept nothing, and
\* none of them says that the runtime may be stopped.
OthersAccept(d) ==
    /\ Inv(doc') /\ NoClaims(doc') /\ (doc'.safe => d.safe)
    /\ \A e \in Events : Accepted(doc', e) => Accepted(d, e)

\* What keeps the receipts and adds no entry accepts nothing.
LEMMA AcceptsNothing ==
  ASSUME NEW d, NEW f, f.receipts = d.receipts,
         \A q \in QueueIds : Present(f, q) => Present(d, q)
  PROVE  \A e \in Events : Accepted(f, e) => Accepted(d, e)
BY DEF Accepted, Events, QueueIds

LEMMA UpdateAccepts ==
  ASSUME NEW d, Inv(d), NoClaims(d), Update(d) PROVE OthersAccept(d)
<1>1. d \in Document /\ d.mid \in Mids \cup {None}
  BY DEF Inv, Document
<1>2. Inv(doc')
  <2>1. Updater(d)
    BY <1>1 DEF Update, Updater
  <2> QED
    BY <2>1, UpdaterInv
<1>3. doc'.items = d.items /\ doc'.receipts = d.receipts /\ (doc'.safe => d.safe)
  BY <1>1 DEF Update, RequestDrain, CancelDrain, Document
<1> QED
  BY <1>2, <1>3, AcceptsNothing DEF OthersAccept, Present, NoClaims

LEMMA NoticesAccept ==
  ASSUME NEW d, Inv(d), NoClaims(d),
         ClaimNotices(d) \/ \E n \in Mids \X Contacts, b \in BOOLEAN : FinishNotice(d, n, b)
  PROVE  OthersAccept(d)
<1>1. d \in Document
  BY DEF Inv
<1>2. Inv(doc')
  BY NoticeActionsInv
<1>3. doc'.items = d.items /\ doc'.receipts = d.receipts /\ doc'.safe = d.safe
  BY <1>1 DEF ClaimNotices, FinishNotice, Document
<1> QED
  BY <1>2, <1>3, AcceptsNothing DEF OthersAccept, Present, NoClaims

\* A turn claims a pending root while available, and completes it.
LEMMA TurnAccepts ==
  ASSUME NEW d, Inv(d), NoClaims(d), Turn(d) PROVE OthersAccept(d)
<1>1. d \in Document /\ d.items \in [QueueIds -> Item]
  BY DEF Inv, Document
<1>2. CASE Poll(d)
  BY <1>2 DEF Poll, OthersAccept
<1>3. ASSUME NEW q \in Queued(d), NEW g \in Grants(d, {q}), d.phase = "available",
             CompleteRoots(ClaimItems(d, {q}, g), {<<q, g[q]>>})
      PROVE  OthersAccept(d)
  <2> DEFINE c == ClaimItems(d, {q}, g)
             A == {<<q, g[q]>>}
  <2>1. q \in QueueIds /\ d.items[q].status = "pending"
    BY <1>1 DEF Queued, NoClaims, Item
  <2>2. Inv(c)
    BY <1>3, <2>1, ClaimInv
  <2>3. /\ c.receipts = d.receipts /\ c.safe = FALSE
        /\ c.items[q].status = "claimed" /\ c.items[q].lease = g[q]
        /\ \A r \in QueueIds \ {q} : c.items[r] = d.items[r]
    BY <1>1, <2>1 DEF ClaimItems, Document, Item
  <2>4. CompleteRoots(c, A)
    BY <1>3
  <2> HIDE DEF c
  <2>5. c \in Document
    BY <2>2 DEF Inv
  <2>6. Inv(doc')
    BY <2>2, <2>4, SettleRootsInv
  <2>7. doc'.receipts = c.receipts /\ doc'.safe = c.safe
    BY <2>4, <2>5 DEF CompleteRoots, Document
  <2>8. q \in Held(c, A)
    BY <2>1, <2>3 DEF Held, Claimed
  <2>9. ~Present(doc', q)
    BY <2>4, <2>5, <2>8, CompleteTakesHeld
  <2>10. ASSUME NEW r \in QueueIds \ {q} PROVE doc'.items[r].status = d.items[r].status
    <3>1. r \notin Held(c, A)
      BY <2>3 DEF Held
    <3> QED
      BY <2>3, <2>4, <2>5, <3>1, CompleteTakesHeld
  <2>11. \A r \in QueueIds : Present(doc', r) => Present(d, r)
    BY <2>9, <2>10 DEF Present
  <2>12. NoClaims(doc')
    BY <2>9, <2>10 DEF Present, NoClaims
  <2> QED
    BY <2>3, <2>6, <2>7, <2>11, <2>12, AcceptsNothing DEF OthersAccept
<1> QED
  BY <1>2, <1>3 DEF Turn

-----------------------------------------------------------------------------
(* Every step keeps the invariant                                           *)

\* The coordinator's part of the invariant, when what was taken stays taken
Coordinated ==
    /\ Inv(doc') /\ NoClaims(doc')
    /\ \A e \in Events : Accepted(doc', e) => Accepted(doc, e)

\* A step between the coordinator and the main loop leaves the inbox alone.
LEMMA Undisturbed ==
  ASSUME IInv, Coordinated, text' \in [Events -> Bodies], telling' \subseteq Mids \X Contacts,
         UNCHANGED <<file, cursor, scan, batch, queue, step, seen, taken, dropped, skipped>>
  PROVE  IInv'
<1>1. ITypeOK'
  BY DEF IInv, ITypeOK
<1>2. Settlement' = Settlement /\ InHand' = InHand /\ Head1' = Head1
  BY DEF Settlement, Settled, InHand, Head1
<1>3. Chain'
  BY <1>2, ChainKept DEF IInv
<1>4. StepFollows'
  BY <1>2 DEF IInv, StepFollows
<1>5. SeenSettled'
  BY <1>2 DEF IInv, SeenSettled
<1>6. AcceptedTaken'
  BY DEF IInv, AcceptedTaken, Coordinated
<1> QED
  BY <1>1, <1>3, <1>4, <1>5, <1>6 DEF IInv, Coordinated

\* Another step leaves the document alone, and what was taken.
LEMMA DocAlone ==
  ASSUME IInv, UNCHANGED <<doc, taken>>
  PROVE  /\ Coordinated /\ AcceptedTaken' /\ Inv(doc') /\ NoClaims(doc')
         /\ \A e \in Events : taken[e] > 0 => taken'[e] > 0
BY DEF IInv, Coordinated, AcceptedTaken

\* The coordinator's own steps
LEMMA CoordinatorStep ==
  ASSUME IInv, NEW d, d = Prune(doc),
         Attest(d) \/ TellStart(d) \/ Tell(d) \/ Turn(d) \/ Update(d)
  PROVE  IInv'
<1>1. /\ Inv(doc) /\ NoClaims(doc) /\ text \in [Events -> Bodies]
      /\ telling \subseteq Mids \X Contacts
  BY DEF IInv, ITypeOK
<1>2. /\ Inv(d) /\ ClaimsAreLeased(d) /\ NoClaims(d)
      /\ \A e \in Events : Accepted(d, e) => Accepted(doc, e)
  BY <1>1, PruneAccepts
<1>3. ASSUME OthersAccept(d) PROVE Coordinated
  BY <1>2, <1>3 DEF OthersAccept, Coordinated
<1>4. CASE Attest(d)
  <2>1. Acknowledge(d, d.epoch, InboxQuiescent)
    BY <1>4 DEF Attest
  <2>2. InboxQuiescent \in BOOLEAN
    BY DEF InboxQuiescent
  <2>3. Inv(doc')
    BY <1>2, <2>1, <2>2, AcknowledgeInv
  <2>4. doc'.items = d.items /\ doc'.receipts = d.receipts
    BY <1>2, <2>1 DEF Acknowledge, Inv, Document
  <2>5. Coordinated
    BY <1>2, <2>3, <2>4 DEF Coordinated, Accepted, Present, NoClaims
  <2> QED
    BY <1>1, <1>4, <2>5, Undisturbed DEF Attest, memory, durable
<1>5. CASE TellStart(d)
  <2>1. OthersAccept(d)
    BY <1>2, <1>5, NoticesAccept DEF TellStart
  <2>2. telling' \subseteq Mids \X Contacts
    BY <1>2, <1>5 DEF TellStart, Pending, Inv, Document
  <2> QED
    BY <1>1, <1>3, <1>5, <2>1, <2>2, Undisturbed DEF TellStart, durable
<1>6. CASE Tell(d)
  <2>1. ASSUME NEW n \in telling, FinishNotice(d, n, TRUE) \/ FinishNotice(d, n, FALSE)
        PROVE  Coordinated
    BY <1>1, <1>2, <1>3, <2>1, NoticesAccept
  <2>2. Coordinated /\ telling' \subseteq Mids \X Contacts
    BY <1>1, <1>6, <2>1 DEF Tell
  <2> QED
    BY <1>1, <1>6, <2>2, Undisturbed DEF Tell, durable
<1>7. CASE Turn(d)
  <2>1. OthersAccept(d)
    BY <1>2, <1>7, TurnAccepts
  <2> QED
    BY <1>1, <1>3, <1>7, <2>1, Undisturbed DEF Turn, memory, durable
<1>8. CASE Update(d)
  <2>1. OthersAccept(d)
    BY <1>2, <1>8, UpdateAccepts
  <2> QED
    BY <1>1, <1>3, <1>8, <2>1, Undisturbed DEF Update, memory, durable
<1> QED
  BY <1>4, <1>5, <1>6, <1>7, <1>8

\* The thread starts or stops, a download changes, the rooms are discovered.
LEMMA AsideStep ==
  ASSUME IInv, ListenerEnds \/ Listen \/ DownloadChanges \/ RoomRefresh
  PROVE  IInv'
<1>1. text \in [Events -> Bodies] /\ telling \subseteq Mids \X Contacts
  BY DEF IInv, ITypeOK
<1>2. UNCHANGED <<doc, file, cursor, scan, batch, queue, step, seen, taken, dropped, skipped>>
  BY DEF ListenerEnds, Listen, DownloadChanges, RoomRefresh, memory, durable
<1>3. text' \in [Events -> Bodies] /\ telling' \subseteq Mids \X Contacts
  BY <1>1 DEF ListenerEnds, Listen, DownloadChanges, RoomRefresh, memory
<1> QED
  BY <1>2, <1>3, DocAlone, Undisturbed

\* What the files say, when only they and what is in hand change
LEMMA FilesStep ==
  ASSUME IInv, ITypeOK', StepFollows', Chain', UNCHANGED <<doc, seen, taken, dropped>>,
         skipped \subseteq skipped'
  PROVE  IInv'
<1>1. Settlement \subseteq Settlement'
  BY DEF Settlement, Settled
<1>2. SeenSettled'
  BY <1>1, SeqMonotonic DEF IInv, SeenSettled
<1> QED
  BY <1>2, DocAlone DEF IInv

\* The daemon appends a line.
LEMMA AppendStep ==
  ASSUME IInv, NEW f \in Frames, Append2Inbox(f)
  PROVE  IInv'
<1>1. /\ file \in Inboxes /\ cursor \in Cursors /\ scan \in Scans /\ file.id > 0
      /\ batch \in Seq(InboxRecord) /\ queue \in Seq(InboxRecord)
  BY DEF IInv, ITypeOK
<1>2. file.lines \in Seq(Frames) /\ file.id \in Nat
  BY <1>1 DEF Inboxes
<1> DEFINE ls == Append(file.lines, f)
<1>3. /\ ls \in Seq(Frames) /\ Len(ls) = Len(file.lines) + 1
      /\ \A n \in 1..Len(file.lines) : ls[n] = file.lines[n]
      /\ Len(file.lines) \in Nat
  BY <1>2, AppendProperties, LenProperties
<1>4. file' = [id |-> file.id, lines |-> ls]
  BY <1>1 DEF Append2Inbox, Inboxes
<1> HIDE DEF ls
<1>5. file' \in Inboxes /\ file'.id = file.id /\ file'.lines = ls
  BY <1>2, <1>3, <1>4 DEF Inboxes
<1>6. InHand \in Seq(InboxRecord)
  BY <1>1, Hands DEF InHand
<1>7. /\ Vouched(Settlement, file', cursor)
      /\ Chained(Settlement, file', InHand)
      /\ Scanned(Settlement, file', InHand, scan)
  <2>1. Len(file.lines) <= Len(file'.lines)
    BY <1>3, <1>5
  <2> QED
    BY <1>1, <1>3, <1>5, <1>6, <2>1, FileGrows DEF IInv, Chain
<1>8. UNCHANGED <<doc, cursor, scan, queue, batch, step, seen, telling, text, taken, dropped, skipped>>
  BY DEF Append2Inbox, memory
<1>9. Settlement' = Settlement /\ InHand' = InHand /\ Head1' = Head1
  BY <1>8 DEF Settlement, Settled, InHand, Head1
<1>10. Chain'
  BY <1>7, <1>8, <1>9 DEF Chain
<1>11. ITypeOK'
  BY <1>1, <1>5, <1>8 DEF IInv, ITypeOK
<1>12. StepFollows'
  BY <1>8, <1>9 DEF IInv, StepFollows
<1> QED
  BY <1>8, <1>10, <1>11, <1>12, FilesStep

\* The file is replaced while what is in hand stays.
LEMMA NewFile ==
  ASSUME IInv, file' \in Inboxes, file'.id = file.id + 1,
         UNCHANGED <<doc, cursor, scan, queue, batch, step, seen, telling, text, taken, dropped, skipped>>
  PROVE  IInv'
<1>1. /\ file \in Inboxes /\ cursor \in Cursors /\ scan \in Scans /\ file.id > 0
      /\ batch \in Seq(InboxRecord) /\ queue \in Seq(InboxRecord) /\ file.id \in Nat
  BY DEF IInv, ITypeOK, Inboxes
<1>2. file.id < file'.id /\ file'.id > 0
  BY <1>1
<1>3. InHand \in Seq(InboxRecord)
  BY <1>1, Hands DEF InHand
<1>4. /\ Vouched(Settlement, file', cursor)
      /\ Chained(Settlement, file', InHand)
      /\ Scanned(Settlement, file', InHand, scan)
  BY <1>1, <1>2, <1>3, FileReplaced DEF IInv, Chain
<1>5. Settlement' = Settlement /\ InHand' = InHand /\ Head1' = Head1
  BY DEF Settlement, Settled, InHand, Head1
<1>6. Chain'
  BY <1>4, <1>5 DEF Chain
<1>7. ITypeOK'
  BY <1>2 DEF IInv, ITypeOK
<1>8. StepFollows'
  BY <1>5 DEF IInv, StepFollows
<1> QED
  BY <1>6, <1>7, <1>8, FilesStep

\* The daemon appends a line or begins a new file.
LEMMA DaemonStep ==
  ASSUME IInv, Daemon PROVE IInv'
<1>1. file \in Inboxes /\ file.id \in Nat
  BY DEF IInv, ITypeOK, Inboxes
<1>2. ASSUME NEW e \in Events PROVE [kind |-> "event", events |-> <<e>>] \in Frames
  BY DEF Frames
<1>3. [kind |-> "removed", events |-> <<>>] \in Frames
  BY EmptySeq DEF Frames
<1>4. ASSUME Rotate PROVE IInv'
  <2> DEFINE E == {e \in Events : InFile(e)}
  <2>1. IsFiniteSet(E)
    BY <1>1, FiniteEvents DEF InFile
  <2> HIDE DEF E
  <2>2. Cardinality(E) \in Nat
    BY <2>1, FS_CardinalityType
  <2>3. PICK s \in SetToSeqs(E) :
            \/ file' = [id |-> file.id + 1, lines |-> <<>>]
            \/ file' = [id |-> file.id + 1, lines |-> <<[kind |-> "snapshot", events |-> s]>>]
    <3>1. PICK s \in SetToSeqs({e \in Events : InFile(e)}) :
            \E lines \in {<<>>, <<[kind |-> "snapshot", events |-> s]>>} :
                file' = [id |-> file.id + 1, lines |-> lines]
      BY <1>4 DEF Rotate
    <3> QED
      BY <3>1 DEF E
  <2>4. s \in [1..Cardinality(E) -> E]
    BY DEF SetToSeqs
  <2>5. E \subseteq Events
    BY DEF E
  <2>6. s \in Seq(Events)
    <3>1. s \in [1..Cardinality(E) -> Events]
      BY <2>4, <2>5
    <3> QED
      BY <2>2, <3>1, SeqDef
  <2>7. [kind |-> "snapshot", events |-> s] \in Frames
    BY <2>6 DEF Frames
  <2>8. /\ <<>> \in Seq(Frames)
        /\ <<[kind |-> "snapshot", events |-> s]>> \in Seq(Frames)
    BY <2>7, EmptySeq
  <2>9. file' \in Inboxes /\ file'.id = file.id + 1
    <3>1. PICK ls \in Seq(Frames) : file' = [id |-> file.id + 1, lines |-> ls]
      BY <2>3, <2>8, Zenon
    <3>2. file.id + 1 \in Nat
      BY <1>1
    <3> QED
      BY <3>1, <3>2 DEF Inboxes
  <2> QED
    BY <1>4, <2>9, NewFile DEF Rotate, memory
<1> QED
  BY <1>2, <1>3, <1>4, AppendStep DEF Daemon

\* Where a new process would resume, all that lies before is settled or passed
\* over: the file is the one of the durable offset, or the lines of another one
\* that differ from the committed ones are those that its equal line hides.
LEMMA Resumes ==
  ASSUME IInv, Continues(cursor)
  PROVE  /\ cursor.off \in 0..Len(file.lines)
         /\ Covers(Settlement \cup Overlooked, file.lines, cursor.off)
         /\ Vouched(Settlement \cup Overlooked, file, [cursor EXCEPT !.id = file.id])
<1> DEFINE S == Settlement \cup Overlooked
<1>1. /\ file \in Inboxes /\ cursor \in Cursors /\ Vouched(Settlement, file, cursor)
      /\ cursor.off <= Len(file.lines)
  BY DEF IInv, ITypeOK, Chain, Continues
<1>2. /\ cursor.off \in Nat /\ file.id \in Nat /\ file.lines \in Seq(Frames)
  BY <1>1 DEF Inboxes, Cursors
<1>3. Len(file.lines) \in Nat /\ \A n \in 1..Len(file.lines) : file.lines[n] \in Frames
  BY <1>2, SeqTyped
<1>4. cursor.off = Len(cursor.prefix) /\ Covers(S, cursor.prefix, cursor.off)
  BY <1>1 DEF Vouched, Covers
<1>5. Covers(S, file.lines, cursor.off)
  <2>1. CASE cursor.id = file.id
    BY <1>1, <2>1 DEF Vouched, Covers
  <2>2. CASE /\ cursor.id # file.id /\ cursor.off > 0
             /\ Anchor(file.lines[cursor.off]) = Anchor(cursor.prefix[cursor.off])
    <3> SUFFICES ASSUME NEW n \in 1..cursor.off, NEW e \in Range(file.lines[n].events)
                 PROVE  e \in S
      BY <1>1 DEF Covers
    <3>1. CASE file.lines[n] = cursor.prefix[n]
      BY <1>4, <3>1 DEF Covers
    <3>2. CASE file.lines[n] # cursor.prefix[n]
      <4>1. n \in 1..Len(file.lines) /\ cursor.off \in 1..Len(file.lines)
        BY <1>1, <1>2, <1>3, <2>2
      <4>2. file.lines[n].events \in Seq(Events)
        BY <1>3, <4>1 DEF Frames
      <4>3. e \in Events
        BY <4>2, SeqTyped DEF Range
      <4>4. e \in Overlooked
        BY <2>2, <3>2, <4>1, <4>3 DEF Overlooked
      <4> QED
        BY <4>4
    <3> QED
      BY <3>1, <3>2
  <2> QED
    BY <2>1, <2>2 DEF Continues
<1>6. Vouched(S, file, [cursor EXCEPT !.id = file.id])
  <2> DEFINE c == [cursor EXCEPT !.id = file.id]
  <2>1. c.id = file.id /\ c.off = cursor.off /\ c.prefix = cursor.prefix
    BY <1>1 DEF Cursors
  <2> HIDE DEF c, S
  <2>2. Vouched(S, file, c)
    BY <1>2, <1>4, <1>5, <2>1 DEF Vouched
  <2> QED
    BY <2>2 DEF c
<1> QED
  BY <1>1, <1>2, <1>3, <1>5, <1>6

\* A function on 1..k is a sequence of length k.
LEMMA SeqOfFunction ==
  ASSUME NEW S, NEW k \in Nat, NEW s \in [1..k -> S]
  PROVE  s \in Seq(S) /\ Len(s) = k
<1>1. s \in Seq(S)
  BY SeqDef
<1>2. DOMAIN s = 1..Len(s) /\ Len(s) \in Nat
  BY <1>1, LenProperties
<1>3. DOMAIN s = 1..k
  OBVIOUS
<1> QED
  BY <1>2, <1>3

\* The records made of the lines behind n0
LEMMA RecordsMade ==
  ASSUME NEW F \in Inboxes, NEW n0 \in 0..Len(F.lines), NEW rs,
         rs = [n \in 1..Len(F.lines) - n0 |->
                [id |-> F.id, end |-> n0 + n, frame |-> F.lines[n0 + n],
                 prefix |-> SubSeq(F.lines, 1, n0 + n)]]
  PROVE  /\ rs \in Seq(InboxRecord) /\ Len(rs) = Len(F.lines) - n0
         /\ \A n \in 1..Len(rs) :
                rs[n] = [id |-> F.id, end |-> n0 + n, frame |-> F.lines[n0 + n],
                         prefix |-> SubSeq(F.lines, 1, n0 + n)]
<1> DEFINE k == Len(F.lines) - n0
           Line(n) == [id |-> F.id, end |-> n0 + n, frame |-> F.lines[n0 + n],
                       prefix |-> SubSeq(F.lines, 1, n0 + n)]
<1>1. /\ F.lines \in Seq(Frames) /\ F.id \in Nat
  BY DEF Inboxes
<1>2. Len(F.lines) \in Nat /\ \A n \in 1..Len(F.lines) : F.lines[n] \in Frames
  BY <1>1, SeqTyped
<1>3. k \in Nat /\ n0 \in Nat
  BY <1>2
<1>4. ASSUME NEW n \in 1..k PROVE Line(n) \in InboxRecord
  <2>1. n0 + n \in 1..Len(F.lines) /\ n0 + n \in Nat
    BY <1>2
  <2>2. F.lines[n0 + n] \in Frames
    BY <1>2, <2>1
  <2>3. \A i \in 1..n0 + n : F.lines[i] \in Frames
    BY <1>2, <2>1
  <2>4. 1 \in Int /\ n0 + n \in Int
    BY <2>1
  <2>5. SubSeq(F.lines, 1, n0 + n) \in Seq(Frames)
    BY <2>3, <2>4, SubSeqProperties
  <2> QED
    BY <1>1, <2>1, <2>2, <2>5 DEF InboxRecord
<1>5. rs = [n \in 1..k |-> Line(n)]
  OBVIOUS
<1> HIDE DEF Line, k
<1>6. rs \in [1..k -> InboxRecord]
  BY <1>4, <1>5
<1>7. rs \in Seq(InboxRecord) /\ Len(rs) = k
  BY <1>3, <1>6, SeqOfFunction
<1>8. \A n \in 1..Len(rs) : rs[n] = Line(n)
  BY <1>5, <1>7
<1> QED
  BY <1>7, <1>8 DEF Line, k

\* The listener reads the lines behind its scan, or behind the durable offset.
LEMMA ListenerStep ==
  ASSUME IInv, ListenerPass PROVE IInv'
<1> DEFINE S == Settlement'
           same == scan.id = file.id /\ scan.off <= Len(file.lines)
           n0 == IF same THEN scan.off ELSE ResumeOffset
           rs == [n \in 1..Len(file.lines) - n0 |->
                    [id |-> file.id, end |-> n0 + n, frame |-> file.lines[n0 + n],
                     prefix |-> SubSeq(file.lines, 1, n0 + n)]]
           sc == [id |-> file.id, off |-> Len(file.lines)]
<1>1. /\ file \in Inboxes /\ cursor \in Cursors /\ scan \in Scans
      /\ batch \in Seq(InboxRecord) /\ queue \in Seq(InboxRecord)
  BY DEF IInv, ITypeOK
<1>0. /\ UNCHANGED <<doc, batch, step, telling, file, seen, text, taken, dropped>>
      /\ skipped' = IF same THEN skipped ELSE skipped \cup Overlooked
  BY DEF ListenerPass, ReadRecords
<1>16. /\ Settlement \subseteq S /\ Head1' = Head1 /\ skipped \subseteq skipped'
       /\ ~same => Settlement \cup Overlooked \subseteq S
  BY <1>0 DEF Settlement, Settled, Head1, Overlooked
<1> HIDE DEF S
<1>17. /\ Chained(S, file, InHand) /\ Scanned(S, file, InHand, scan)
       /\ Vouched(S, file, cursor)
  BY <1>1, <1>16, MoreSettled DEF IInv, Chain
<1>18. ASSUME ~same, Continues(cursor)
       PROVE  /\ cursor.off \in 0..Len(file.lines) /\ Covers(S, file.lines, cursor.off)
              /\ Vouched(S, file, [cursor EXCEPT !.id = file.id])
  BY <1>1, <1>16, <1>18, Resumes, MoreSettled DEF Covers
<1>2. Len(file.lines) \in Nat /\ file.id \in Nat
  BY <1>1, LenProperties DEF Inboxes
<1>3. InHand \in Seq(InboxRecord)
  BY <1>1, Hands DEF InHand
<1>4. /\ n0 \in 0..Len(file.lines)
      /\ \A n \in 1..n0 : Within(S, InHand, Len(InHand), file.lines[n])
  <2>1. CASE same
    BY <1>1, <1>2, <1>17, <2>1 DEF Scanned, Scans
  <2>2. CASE ~same /\ Continues(cursor)
    <3>1. cursor.off \in 0..Len(file.lines) /\ Covers(S, file.lines, cursor.off)
      BY <1>18, <2>2
    <3>2. n0 = cursor.off
      BY <2>2 DEF ResumeOffset
    <3> QED
      BY <3>1, <3>2 DEF Within, Covers
  <2>3. CASE ~same /\ ~Continues(cursor)
    <3>1. n0 = 0
      BY <2>3 DEF ResumeOffset
    <3> QED
      BY <1>2, <3>1
  <2> QED
    BY <2>1, <2>2, <2>3
<1>5. /\ scan' = sc /\ queue' = queue \o rs
      /\ \/ cursor' = cursor
         \/ cursor' = [cursor EXCEPT !.id = file.id] /\ ~same /\ Continues(cursor)
  BY DEF ListenerPass, ReadRecords
<1> HIDE DEF n0, same
<1>6. /\ rs \in Seq(InboxRecord) /\ Len(rs) = Len(file.lines) - n0
      /\ \A n \in 1..Len(rs) :
            rs[n] = [id |-> file.id, end |-> n0 + n, frame |-> file.lines[n0 + n],
                     prefix |-> SubSeq(file.lines, 1, n0 + n)]
  BY <1>1, <1>4, RecordsMade
<1> HIDE DEF rs
<1>7. /\ Chained(S, file, InHand \o rs)
      /\ Scanned(S, file, InHand \o rs, sc)
  BY <1>1, <1>3, <1>4, <1>6, <1>17, MoreRead
<1>8. InHand' = InHand \o rs /\ queue' \in Seq(InboxRecord)
  <2>1. batch' = batch
    BY DEF ListenerPass
  <2>2. batch \in Seq(InboxRecord) /\ queue \in Seq(InboxRecord) /\ rs \in Seq(InboxRecord)
    BY <1>1, <1>6
  <2>3. batch \o (queue \o rs) = (batch \o queue) \o rs
    BY ONLY <2>2, ConcatAssociative
  <2>4. queue \o rs \in Seq(InboxRecord)
    BY ONLY <2>2, ConcatProperties
  <2> QED
    BY <1>5, <2>1, <2>3, <2>4 DEF InHand
<1>9. Vouched(S, file, cursor') /\ cursor' \in Cursors
  <2>1. CASE cursor' = cursor
    BY <1>1, <1>17, <2>1
  <2>2. CASE cursor' = [cursor EXCEPT !.id = file.id] /\ ~same /\ Continues(cursor)
    BY <1>1, <1>2, <1>18, <2>2 DEF Cursors
  <2> QED
    BY <1>5, <2>1, <2>2
<1>12. Chain'
  BY <1>0, <1>5, <1>7, <1>8, <1>9 DEF Chain, S
<1>13. sc \in Scans
  BY <1>2 DEF Scans
<1>14. ITypeOK'
  <2>1. skipped' \subseteq Events
    BY <1>0 DEF IInv, ITypeOK, Overlooked
  <2> QED
    BY <1>0, <1>5, <1>8, <1>9, <1>13, <2>1 DEF IInv, ITypeOK
<1>15. StepFollows'
  BY <1>0, <1>16 DEF IInv, StepFollows, S
<1> QED
  BY <1>0, <1>12, <1>14, <1>15, <1>16, FilesStep

\* The process dies: nothing is in hand or scanned, and the next one resumes.
LEMMA CrashStep ==
  ASSUME IInv, Crash PROVE IInv'
<1>1. /\ file \in Inboxes /\ cursor \in Cursors /\ file.id > 0 /\ file.id \in Nat
      /\ file.lines \in Seq(Frames) /\ Vouched(Settlement, file, cursor)
  BY DEF IInv, ITypeOK, Chain, Inboxes
<1>2. /\ UNCHANGED <<doc, cursor, seen, text, taken, dropped, skipped>> /\ telling' = {}
      /\ scan' = NoScan /\ queue' = <<>> /\ batch' = <<>> /\ step' = AtRest
  BY DEF Crash
<1>3. \/ file' = file
      \/ file' \in Inboxes /\ file'.id = file.id + 1
  <2>1. ASSUME NEW n \in 0..Len(file.lines),
               file' = [id |-> file.id + 1, lines |-> SubSeq(file.lines, 1, n)]
        PROVE  file' \in Inboxes /\ file'.id = file.id + 1
    <3>1. Len(file.lines) \in Nat /\ \A i \in 1..Len(file.lines) : file.lines[i] \in Frames
      BY <1>1, SeqTyped
    <3>2. 1 \in Int /\ n \in Int /\ \A i \in 1..n : file.lines[i] \in Frames
      BY <3>1
    <3>3. SubSeq(file.lines, 1, n) \in Seq(Frames)
      BY <3>2, SubSeqProperties
    <3> QED
      BY <1>1, <2>1, <3>3 DEF Inboxes
  <2> QED
    BY <2>1 DEF Crash
<1>4. file' \in Inboxes /\ file'.id \in Nat /\ file'.id > 0
  BY <1>1, <1>3
<1>5. Settlement' = Settlement
  BY <1>2 DEF Settlement, Settled
<1>6. Vouched(Settlement, file', cursor)
  <2>1. <<>> \in Seq(InboxRecord)
    BY EmptySeq
  <2>2. CASE file' \in Inboxes /\ file'.id = file.id + 1
    <3>1. file.id < file'.id
      BY <1>1, <2>2
    <3> QED
      BY <1>1, <2>1, <2>2, <3>1, FileReplaced
  <2> QED
    BY <1>1, <1>3, <2>2
<1>7. InHand' = <<>> /\ <<>> \in Seq(InboxRecord) /\ Len(<<>>) = 0
  BY <1>2, EmptySeq, ConcatEmptySeq DEF InHand
<1>8. /\ Chained(Settlement, file', <<>>)
      /\ Scanned(Settlement, file', <<>>, NoScan)
  BY <1>4, <1>7 DEF Chained, Scanned, NoScan
<1>9. Chain'
  BY <1>2, <1>5, <1>6, <1>7, <1>8 DEF Chain
<1>10. ITypeOK'
  <2>1. NoScan \in Scans
    BY DEF NoScan, Scans
  <2> QED
    BY <1>2, <1>4, <1>7, <2>1 DEF IInv, ITypeOK
<1>11. StepFollows'
  BY <1>2 DEF StepFollows, AtRest
<1> QED
  BY <1>2, <1>9, <1>10, <1>11, FilesStep

\* The main loop drains what the listener has queued.
LEMMA DrainStep ==
  ASSUME IInv, DrainRecords PROVE IInv'
<1>1. /\ batch \in Seq(InboxRecord) /\ queue \in Seq(InboxRecord) /\ queue # <<>>
      /\ step = AtRest
  BY DEF IInv, ITypeOK, DrainRecords
<1>2. batch = <<>>
  BY <1>1 DEF IInv, StepFollows, AtRest
<1>3. /\ batch' = queue /\ queue' = <<>> /\ step' = [AtRest EXCEPT !.at = "event", !.i = 1]
      /\ UNCHANGED <<doc, scan, telling, file, cursor, seen, text, taken, dropped, skipped>>
  BY <1>1 DEF DrainRecords, Begin
<1>4. InHand' = InHand
  BY <1>1, <1>2, <1>3, ConcatEmptySeq DEF InHand
<1>5. Settlement' = Settlement
  BY <1>3 DEF Settlement, Settled
<1>6. Chain'
  BY <1>3, <1>4, <1>5, ChainKept DEF IInv
<1>7. <<>> \in Seq(InboxRecord)
  BY EmptySeq
<1>8. ITypeOK'
  BY <1>1, <1>3, <1>7 DEF IInv, ITypeOK
<1>9. StepFollows'
  <2>1. step' = [at |-> "event", i |-> 1]
    BY <1>3 DEF AtRest
  <2> QED
    BY <1>1, <1>3, <2>1 DEF StepFollows
<1> QED
  BY <1>3, <1>6, <1>8, <1>9, FilesStep

\* A batch that is retried goes back ahead of the newer records.
LEMMA RetryStep ==
  ASSUME IInv, Coordinated, Retry,
         UNCHANGED <<scan, telling, file, cursor, seen, text, taken, dropped, skipped>>
  PROVE  IInv'
<1>1. batch \in Seq(InboxRecord) /\ queue \in Seq(InboxRecord)
  BY DEF IInv, ITypeOK
<1>2. batch' = <<>> /\ queue' = batch \o queue /\ step' = AtRest
  BY DEF Retry, RetrySuffix
<1>3. batch \o queue \in Seq(InboxRecord) /\ <<>> \o (batch \o queue) = batch \o queue
  BY <1>1, ConcatProperties, ConcatEmptySeq
<1>4. InHand' = InHand
  BY <1>2, <1>3 DEF InHand
<1>5. Settlement' = Settlement
  BY DEF Settlement, Settled
<1>6. Chain'
  BY <1>4, <1>5, ChainKept DEF IInv
<1>7. <<>> \in Seq(InboxRecord)
  BY EmptySeq
<1>8. ITypeOK'
  BY <1>2, <1>3, <1>7 DEF IInv, ITypeOK
<1>9. StepFollows'
  BY <1>2 DEF StepFollows, AtRest
<1>10. SeenSettled' /\ AcceptedTaken'
  BY <1>5 DEF IInv, SeenSettled, AcceptedTaken, Coordinated
<1> QED
  BY <1>6, <1>8, <1>9, <1>10 DEF IInv, Coordinated

\* The main loop is done with an event, which is settled.
LEMMA EventStep ==
  ASSUME IInv, step.at # "idle", step.i <= Len(Head1.frame.events), Event \in Settlement',
         NextEvent \/ step' = [step EXCEPT !.at = "remember"],
         Inv(doc'), NoClaims(doc'), AcceptedTaken',
         taken' \in [Events -> Nat], dropped' \subseteq Events, dropped \subseteq dropped',
         \A e \in Events : taken[e] > 0 => taken'[e] > 0,
         seen' = seen \/ seen' = Remembered(Event),
         UNCHANGED <<file, cursor, scan, queue, batch, telling, text, skipped>>
  PROVE  IInv'
<1>1. ITypeOK'
  BY DEF IInv, ITypeOK
<1>2. Settlement \subseteq Settlement'
  BY <1>1, SettledStays DEF IInv
<1>3. InHand' = InHand
  BY DEF InHand
<1>4. Chain'
  BY <1>2, <1>3, ChainKept DEF IInv
<1>5. StepFollows'
  BY <1>2, GoesOn
<1>6. seen \in Seq(Settlement')
  BY <1>2, SeqMonotonic DEF IInv, SeenSettled
<1>7. SeenSettled'
  <2>1. Remembered(Event) \in Seq(Settlement')
    BY <1>6, RememberedSettled
  <2> QED
    BY <1>6, <2>1 DEF SeenSettled
<1> QED
  BY <1>1, <1>4, <1>5, <1>7 DEF IInv

\* Where the main loop is at an event, what it can say of it
LEMMA AtOne ==
  ASSUME IInv, AtEvent
  PROVE  /\ step.at # "idle" /\ step.i <= Len(Head1.frame.events) /\ Event \in Events
         /\ taken \in [Events -> Nat] /\ dropped \subseteq Events
         /\ text[Event] \in Bodies
BY AtWork DEF AtEvent, IInv, ITypeOK

\* The early returns of process_incoming_event
LEMMA ProcessStep ==
  ASSUME IInv, ProcessKnown \/ ProcessUnroutable \/ ProcessRaises \/ BookkeepingRaises
  PROVE  IInv'
<1>1. AtEvent
  BY DEF ProcessKnown, ProcessUnroutable, ProcessRaises, BookkeepingRaises, New
<1>2. /\ step.at # "idle" /\ step.i <= Len(Head1.frame.events) /\ Event \in Events
      /\ taken \in [Events -> Nat] /\ dropped \subseteq Events
  BY <1>1, AtOne
<1>3. CASE ProcessKnown
  <2>1. UNCHANGED <<doc, taken, dropped, skipped>>
    BY <1>3 DEF ProcessKnown
  <2>2. seen \in Seq(Settlement) /\ Contains(seen, Event)
    BY <1>3 DEF IInv, SeenSettled, ProcessKnown
  <2>3. Event \in Settlement
    BY <2>2, SeqTyped DEF Contains
  <2>4. Event \in Settlement'
    BY <2>1, <2>3 DEF Settlement, Settled
  <2>5. Inv(doc') /\ NoClaims(doc') /\ AcceptedTaken'
    BY <2>1, DocAlone
  <2> QED
    BY <1>2, <1>3, <2>1, <2>4, <2>5, EventStep DEF ProcessKnown
<1>4. CASE ProcessUnroutable \/ ProcessRaises
  <2>1. /\ UNCHANGED <<doc, taken>> /\ dropped' = dropped \cup {Event} /\ NextEvent
        /\ UNCHANGED <<file, cursor, scan, queue, batch, telling, text, skipped>>
        /\ seen' = seen \/ seen' = Remembered(Event)
    BY <1>4 DEF ProcessUnroutable, ProcessRaises
  <2>2. Event \in Settlement'
    BY <1>2, <2>1 DEF Settlement, Settled
  <2>3. Inv(doc') /\ NoClaims(doc') /\ AcceptedTaken'
    BY <2>1, DocAlone
  <2>4. dropped' \subseteq Events /\ dropped \subseteq dropped'
    BY <1>2, <2>1
  <2>5. taken' = taken
    BY <2>1
  <2> QED
    BY <1>2, <2>1, <2>2, <2>3, <2>4, <2>5, EventStep
<1>5. CASE BookkeepingRaises
  BY <1>5, DocAlone, RetryStep DEF BookkeepingRaises
<1> QED
  BY <1>3, <1>4, <1>5

\* enqueue_ingress_root takes the event, or knows it and has taken it before.
LEMMA HandOverStep ==
  ASSUME IInv, NEW d, d = Prune(doc), HandOver(d) PROVE IInv'
<1>1. AtEvent
  BY DEF HandOver, New
<1>2. /\ step.at # "idle" /\ step.i <= Len(Head1.frame.events) /\ Event \in Events
      /\ taken \in [Events -> Nat] /\ dropped \subseteq Events /\ text[Event] \in Bodies
  BY <1>1, AtOne
<1>3. /\ Inv(d) /\ NoClaims(d)
      /\ \A e \in Events : Accepted(d, e) => Accepted(doc, e)
  BY PruneAccepts DEF IInv
<1>4. Sender \in Contacts
  BY InboxAssumption DEF InboxAssumption, Sender
<1> DEFINE ev == Event
<1>5. EnqueueIngress(d, ev, Sender, text[ev])
  BY DEF HandOver
<1>6. /\ Inv(doc') /\ NoClaims(doc')
      /\ Accepted(d, ev) \/ Present(doc', ev)
      /\ \A e \in Events \ {ev} : Accepted(doc', e) => Accepted(d, e)
  BY <1>2, <1>3, <1>4, <1>5, IngressAccepts
<1>7. taken' = [taken EXCEPT ![ev] = IF ~Present(d, ev) /\ Present(doc', ev) THEN @ + 1 ELSE @]
  BY DEF HandOver, Present
<1> HIDE DEF ev
<1>8. /\ taken' \in [Events -> Nat]
      /\ \A e \in Events : taken[e] > 0 => taken'[e] > 0
      /\ ~Present(d, ev) /\ Present(doc', ev) => taken'[ev] > 0
  BY <1>2, <1>7 DEF ev
<1>9. \A e \in Events : Accepted(d, e) => taken'[e] > 0
  BY <1>3, <1>8 DEF IInv, AcceptedTaken
<1>10. taken'[ev] > 0
  BY <1>2, <1>6, <1>8, <1>9 DEF ev, Accepted
<1>11. AcceptedTaken'
  BY <1>6, <1>9, <1>10 DEF AcceptedTaken
<1>12. /\ UNCHANGED <<file, cursor, scan, queue, batch, telling, text, seen, dropped, skipped>>
       /\ step' = [step EXCEPT !.at = "remember"]
  BY DEF HandOver
<1>13. Event \in Settlement'
  BY <1>2, <1>10 DEF Settlement, Settled, ev
<1>14. dropped' \subseteq Events /\ dropped \subseteq dropped'
  BY <1>2, <1>12
<1> QED
  BY <1>2, <1>6, <1>8, <1>11, <1>12, <1>13, <1>14, EventStep

\* It refuses or fails, or the event is handed over and remembered, or not.
LEMMA OtherStep ==
  ASSUME IInv, NEW d, d = Prune(doc), HandOverFails(d) \/ Remember PROVE IInv'
<1>1. CASE HandOverFails(d)
  <2>1. Coordinated
    BY <1>1, PruneAccepts DEF HandOverFails, Coordinated, IInv
  <2> QED
    BY <1>1, <2>1, RetryStep DEF HandOverFails
<1>2. CASE Remember
  <2>1. /\ step.at = "remember"
        /\ UNCHANGED <<doc, scan, telling, file, cursor, text, taken, dropped, skipped>>
        /\ \/ seen' = Remembered(Event) /\ NextEvent /\ UNCHANGED <<queue, batch>>
           \/ Retry /\ UNCHANGED seen
    BY <1>2 DEF Remember
  <2>2. CASE Retry /\ UNCHANGED seen
    BY <2>1, <2>2, DocAlone, RetryStep
  <2>3. CASE seen' = Remembered(Event) /\ NextEvent /\ UNCHANGED <<queue, batch>>
    <3>1. step.i <= Len(Head1.frame.events) /\ step.i \in 1..Len(Head1.frame.events)
      BY <2>1, AtWork DEF IInv, StepFollows
    <3>2. Event \in Settlement
      BY <2>1, <3>1 DEF IInv, StepFollows, Event
    <3>3. Event \in Settlement'
      BY <2>1, <3>2 DEF Settlement, Settled
    <3>4. Inv(doc') /\ NoClaims(doc') /\ AcceptedTaken'
      BY <2>1, DocAlone
    <3>5. taken' \in [Events -> Nat] /\ dropped' \subseteq Events
      BY <2>1 DEF IInv, ITypeOK
    <3> QED
      BY <2>1, <2>3, <3>1, <3>3, <3>4, <3>5, EventStep
  <2> QED
    BY <2>1, <2>2, <2>3
<1> QED
  BY <1>1, <1>2

\* The record whose events are all settled is committed, and its place becomes
\* the durable offset, unless that is further on in the same file.
LEMMA CommitStep ==
  ASSUME IInv, Commit PROVE IInv'
<1>1. /\ step.at = "event" /\ step.i > Len(Head1.frame.events)
      /\ cursor' = Committed(Head1) /\ Begin(Tail(batch))
      /\ UNCHANGED <<doc, scan, queue, telling, file, seen, text, taken, dropped, skipped>>
  BY DEF Commit
<1>2. /\ batch # <<>> /\ Head1 \in InboxRecord /\ Head1.frame.events \in Seq(Events)
      /\ Len(Head1.frame.events) \in Nat /\ step.i \in Nat \ {0}
  BY <1>1, AtWork
<1>3. /\ batch \in Seq(InboxRecord) /\ queue \in Seq(InboxRecord) /\ cursor \in Cursors
      /\ file \in Inboxes /\ Chained(Settlement, file, InHand)
      /\ Scanned(Settlement, file, InHand, scan) /\ Vouched(Settlement, file, cursor)
  BY DEF IInv, ITypeOK, Chain
<1>4. Range(Head1.frame.events) \subseteq Settlement
  <2>1. \A k \in 1..Len(Head1.frame.events) : Head1.frame.events[k] \in Settlement
    BY <1>1, <1>2 DEF IInv, StepFollows
  <2>2. DOMAIN Head1.frame.events = 1..Len(Head1.frame.events)
    BY <1>2, LenProperties
  <2> QED
    BY <2>1, <2>2 DEF Range
<1>5. /\ InHand \in Seq(InboxRecord) /\ InHand # <<>> /\ InHand[1] = Head1
      /\ Tail(InHand) = Tail(batch) \o queue
  BY <1>2, <1>3, Hands DEF InHand, Head1
<1>6. /\ Chained(Settlement, file, Tail(InHand))
      /\ Scanned(Settlement, file, Tail(InHand), scan)
      /\ Vouched(Settlement, file, [id |-> Head1.id, off |-> Head1.end, prefix |-> Head1.prefix])
  BY <1>3, <1>4, <1>5, FirstDone
<1>7. batch' = Tail(batch) /\ Tail(batch) \in Seq(InboxRecord)
  BY <1>1, <1>2, <1>3, HeadTailProperties DEF Begin
<1>8. Vouched(Settlement, file, cursor') /\ cursor' \in Cursors
  BY <1>1, <1>2, <1>3, <1>6 DEF Committed, InboxRecord, Cursors
<1>9. Settlement' = Settlement /\ InHand' = Tail(InHand)
  BY <1>1, <1>5, <1>7 DEF Settlement, Settled, InHand
<1>10. Chain'
  BY <1>1, <1>6, <1>8, <1>9 DEF Chain
<1>11. ITypeOK'
  BY <1>1, <1>7, <1>8 DEF IInv, ITypeOK
<1>12. StepFollows'
  <2>1. CASE Tail(batch) = <<>>
    BY <1>1, <1>7, <2>1 DEF Begin, StepFollows, AtRest
  <2>2. CASE Tail(batch) # <<>>
    <3>1. step' = [at |-> "event", i |-> 1]
      BY <1>1, <2>2 DEF Begin, AtRest
    <3> QED
      BY <1>7, <2>2, <3>1 DEF StepFollows
  <2> QED
    BY <2>1, <2>2
<1> QED
  BY <1>1, <1>10, <1>11, <1>12, FilesStep

\* One step of the inbox, whichever it is.
LEMMA INextInv ==
  ASSUME IInv, INext PROVE IInv'
<1> DEFINE p == Prune(doc)
<1>1. PICK d : d = p
  OBVIOUS
<1> HIDE DEF p
<1>2. \/ Daemon \/ ListenerPass \/ ListenerEnds \/ Listen
      \/ GetUnread(d) \/ Attest(d) \/ TellStart(d) \/ Tell(d)
      \/ Turn(d) \/ Update(d) \/ DownloadChanges \/ RoomRefresh
      \/ Crash
  BY <1>1 DEF INext, p
<1>3. d = Prune(doc)
  BY <1>1 DEF p
<1>4. CASE GetUnread(d)
  BY <1>3, <1>4, DrainStep, ProcessStep, HandOverStep, OtherStep, CommitStep DEF GetUnread
<1> QED
  BY <1>2, <1>3, <1>4, DaemonStep, ListenerStep, AsideStep, CoordinatorStep, CrashStep

\* The inbox starts empty, before any drain.
LEMMA IInitInv ==
  ASSUME IInit PROVE IInv
<1>1. Inv(doc) /\ doc = DefaultState
  BY InitInv DEF IInit
<1>2. /\ \A q \in QueueIds : doc.items[q] = NoItem
      /\ \A q \in IngressIds \cup ContIds : doc.receipts[q] = NoReceipt
  BY <1>1 DEF DefaultState
<1>3. NoClaims(doc) /\ AcceptedTaken
  BY <1>2 DEF NoClaims, AcceptedTaken, Accepted, Present, NoItem, NoReceipt, Events, QueueIds
<1>4. /\ <<>> \in Seq(InboxRecord) /\ <<>> \in Seq(Frames) /\ <<>> \in Seq(Settlement)
      /\ Len(<<>>) = 0 /\ <<>> \o <<>> = <<>>
  BY EmptySeq, ConcatEmptySeq
<1>5. Plain \in Bodies
  BY InboxAssumption DEF InboxAssumption, Plain
<1>6. /\ file = [id |-> 1, lines |-> <<>>] /\ cursor = [id |-> 0, off |-> 0, prefix |-> <<>>]
      /\ scan = [id |-> 0, off |-> 0] /\ queue = <<>> /\ batch = <<>>
      /\ step = [at |-> "idle", i |-> 0] /\ step = AtRest /\ seen = <<>>
      /\ telling = {} /\ dropped = {} /\ skipped = {}
      /\ text = [e \in Events |-> Plain] /\ taken = [e \in Events |-> 0]
  BY DEF IInit, NoCursor, NoScan, AtRest
<1>7. ITypeOK
  <2>1. file \in Inboxes /\ file.id > 0 /\ cursor \in Cursors /\ scan \in Scans
    BY <1>4, <1>6 DEF Inboxes, Cursors, Scans
  <2> QED
    BY <1>4, <1>5, <1>6, <2>1 DEF ITypeOK
<1>8. StepFollows /\ SeenSettled
  BY <1>4, <1>6 DEF StepFollows, SeenSettled
<1>9. Chain
  <2>1. InHand = <<>>
    BY <1>4, <1>6 DEF InHand
  <2>2. Vouched(Settlement, file, cursor)
    BY <1>4, <1>6 DEF Vouched, Covers
  <2>3. Chained(Settlement, file, <<>>)
    BY <1>4 DEF Chained
  <2>4. Scanned(Settlement, file, <<>>, scan)
    BY <1>6 DEF Scanned
  <2> QED
    BY <2>1, <2>2, <2>3, <2>4 DEF Chain
<1> QED
  BY <1>1, <1>3, <1>7, <1>8, <1>9 DEF IInv

\* Nothing happens.
LEMMA IStutterInv ==
  ASSUME IInv, UNCHANGED ivars PROVE IInv'
<1>1. UNCHANGED <<doc, file, cursor, scan, batch, queue, step, seen, taken, dropped, skipped,
                  text, telling>>
  BY DEF ivars, memory, durable
<1>2. text \in [Events -> Bodies] /\ telling \subseteq Mids \X Contacts
  BY DEF IInv, ITypeOK
<1> QED
  BY <1>1, <1>2, DocAlone, Undisturbed

\* The inductive invariant of the inbox: the types, what the main loop has
\* settled, and the chain from the durable offset through the records in hand
\* to the scan, through every interleaving of the daemon, the listener thread
\* and the main loop with crashes, retries, rotations and restores.
THEOREM InboxInvariance == ISpec => []IInv
<1>1. IInit => IInv
  BY IInitInv
<1>2. IInv /\ [INext]_ivars => IInv'
  BY INextInv, IStutterInv
<1> QED
  BY <1>1, <1>2, PTL DEF ISpec

-----------------------------------------------------------------------------
(* What it comes to                                                         *)

\* The durable offset vouches for every event before it.
LEMMA VouchesNow == ASSUME IInv PROVE OffsetVouches
<1>1. CASE Continues(cursor)
  BY <1>1, Resumes DEF OffsetVouches, ResumeOffset, Settlement, Covers, PassedOver
<1>2. CASE ~Continues(cursor)
  <2>1. ResumeOffset = 0
    BY <1>2 DEF ResumeOffset
  <2> QED
    BY <2>1 DEF OffsetVouches
<1> QED
  BY <1>1, <1>2

\* Wherever a crash, a retry, a rotation or a restored file leaves the inbox,
\* the offset at which a new process resumes has only settled events before it.
THEOREM OffsetIsVouched == ISpec => []OffsetVouches
BY InboxInvariance, VouchesNow, PTL

\* Each event the listener has scanned is settled or its record is in memory.
LEMMA HeldNow == ASSUME IInv PROVE ScannedIsHeld
<1>1. batch \in Seq(InboxRecord) /\ queue \in Seq(InboxRecord)
  BY DEF IInv, ITypeOK
<1> SUFFICES ASSUME scan.id = file.id, NEW n \in 1..scan.off,
                    NEW e \in Range(file.lines[n].events), ~Settled(e), e \notin skipped
             PROVE  \E s \in {queue, batch} : \E m \in DOMAIN s : e \in Range(s[m].frame.events)
  BY DEF ScannedIsHeld
<1>2. Within(Settlement, InHand, Len(InHand), file.lines[n])
  BY DEF IInv, Chain, Scanned
<1>3. PICK j \in 1..Len(InHand) : e \in Range(InHand[j].frame.events)
  BY <1>2 DEF Within, Settlement
<1>4. \/ \E m \in DOMAIN batch : InHand[j] = batch[m]
      \/ \E m \in DOMAIN queue : InHand[j] = queue[m]
  BY <1>1, HandParts DEF InHand
<1> QED
  BY <1>3, <1>4

\* The process forgets nothing it has scanned while it lives.
THEOREM NothingScannedIsLost == ISpec => []ScannedIsHeld
BY InboxInvariance, HeldNow, PTL

\* Only the attestation says that the runtime may be stopped.
LEMMA OnlyAttested ==
  ASSUME IInv, INext, ~doc.safe, doc'.safe PROVE Attest(Prune(doc))
<1> DEFINE p == Prune(doc)
<1>1. PICK d : d = p
  OBVIOUS
<1> HIDE DEF p
<1>2. /\ Inv(d) /\ NoClaims(d) /\ (d.safe => doc.safe)
  BY <1>1, PruneAccepts DEF p, IInv
<1>3. CASE UNCHANGED doc \/ doc' = d
  BY <1>2, <1>3
<1>4. CASE \/ Daemon \/ ListenerPass \/ ListenerEnds \/ Listen
           \/ DownloadChanges \/ RoomRefresh \/ Crash
  BY <1>3, <1>4 DEF Daemon, Append2Inbox, Rotate, ListenerPass, ListenerEnds, Listen,
                    DownloadChanges, RoomRefresh, Crash
<1>5. CASE GetUnread(d)
  <2>1. CASE HandOver(d)
    <3>1. Sender \in Contacts
      BY InboxAssumption DEF InboxAssumption, Sender
    <3>2. Event \in Events /\ text[Event] \in Bodies
      BY <2>1, AtOne DEF HandOver, New
    <3>3. EnqueueIngress(d, Event, Sender, text[Event])
      BY <2>1 DEF HandOver
    <3> QED
      BY <1>2, <3>1, <3>2, <3>3, IngressAccepts
  <2>2. CASE UNCHANGED doc \/ doc' = d
    BY <1>3, <2>2
  <2> QED
    BY <1>5, <2>1, <2>2 DEF GetUnread, DrainRecords, ProcessKnown, ProcessUnroutable,
         BookkeepingRaises, ProcessRaises, HandOverFails, Remember, Commit
<1>6. CASE TellStart(d)
  BY <1>2, <1>6, NoticesAccept DEF TellStart, OthersAccept
<1>7. CASE Tell(d)
  <2>1. PICK n \in telling : FinishNotice(d, n, TRUE) \/ FinishNotice(d, n, FALSE)
    BY <1>7 DEF Tell
  <2>2. n \in Mids \X Contacts
    BY DEF IInv, ITypeOK
  <2> QED
    BY <1>2, <2>1, <2>2, NoticesAccept DEF OthersAccept
<1>8. CASE Turn(d)
  BY <1>2, <1>8, TurnAccepts DEF OthersAccept
<1>9. CASE Update(d)
  BY <1>2, <1>9, UpdateAccepts DEF OthersAccept
<1>10. CASE Attest(d)
  BY <1>1, <1>10 DEF p
<1>11. \/ Daemon \/ ListenerPass \/ ListenerEnds \/ Listen
       \/ GetUnread(d) \/ Attest(d) \/ TellStart(d) \/ Tell(d)
       \/ Turn(d) \/ Update(d) \/ DownloadChanges \/ RoomRefresh
       \/ Crash
  BY <1>1 DEF INext, p
<1> QED
  BY <1>4, <1>5, <1>6, <1>7, <1>8, <1>9, <1>10, <1>11

\* At the attestation every record in memory is a line of the present file,
\* before the offset where a new process resumes or behind it.
StopKept ==
    ~doc.safe /\ doc'.safe =>
        \A n \in DOMAIN queue : \A e \in Range(queue[n].frame.events) :
            \/ Settled(e) \/ PassedOver(e)
            \/ \E m \in ResumeOffset + 1..Len(file.lines) :
                    e \in Range(file.lines[m].events)

LEMMA StopStep ==
  ASSUME IInv, [INext]_ivars PROVE StopKept
<1> SUFFICES ASSUME ~doc.safe, doc'.safe,
                    NEW n \in DOMAIN queue, NEW e \in Range(queue[n].frame.events),
                    ~Settled(e), ~PassedOver(e)
             PROVE  \E m \in ResumeOffset + 1..Len(file.lines) : e \in Range(file.lines[m].events)
  BY DEF StopKept
<1>1. INext
  BY DEF ivars
<1>2. Attest(Prune(doc))
  BY <1>1, OnlyAttested
<1>3. step = AtRest
  BY <1>2 DEF Attest
<1>4. /\ batch = <<>> /\ queue \in Seq(InboxRecord) /\ file \in Inboxes /\ cursor \in Cursors
      /\ Chained(Settlement, file, InHand)
  BY <1>3 DEF IInv, StepFollows, AtRest, ITypeOK, Chain
<1>5. InHand = queue /\ n \in 1..Len(queue) /\ queue[n] \in InboxRecord
  BY <1>4, ConcatEmptySeq, SeqTyped DEF InHand
<1>6. InboxQuiescent
  <2>1. Prune(doc) \in Document
    BY PruneInv DEF IInv, Inv
  <2> QED
    BY <1>2, <2>1 DEF Attest, Acknowledge, Document
<1>7. queue[n].id = file.id /\ queue[n].end <= Len(file.lines)
  BY <1>6 DEF InboxQuiescent
<1>8. RecordFits(file, queue[n])
  BY <1>4, <1>5 DEF Chained
<1> DEFINE m == queue[n].end
<1>9. m > 0 /\ m \in Nat /\ m <= Len(file.lines) /\ Len(file.lines) \in Nat
  BY <1>4, <1>5, <1>7, <1>8, LenProperties DEF RecordFits, InboxRecord, Inboxes
<1>10. queue[n].frame = file.lines[m]
  <2>1. m \in 1..m
    BY <1>9
  <2> QED
    BY <1>7, <1>8, <2>1 DEF RecordFits, Begins
<1> HIDE DEF m
<1>11. e \in Range(file.lines[m].events)
  BY <1>10
<1>12. ResumeOffset \in Nat
  BY <1>4 DEF ResumeOffset, Cursors
<1>13. CASE m <= ResumeOffset
  <2>1. m \in 1..ResumeOffset
    BY <1>9, <1>12, <1>13
  <2> QED
    BY <1>11, <2>1, VouchesNow DEF OffsetVouches
<1>14. CASE ~(m <= ResumeOffset)
  <2>1. m \in ResumeOffset + 1..Len(file.lines)
    BY <1>9, <1>12, <1>14
  <2> QED
    BY <1>11, <2>1
<1> QED
  BY <1>13, <1>14

\* The runtime attests that it may be stopped only while that loses no input.
THEOREM StopLosesNothing == ISpec => StopKeepsInput
<1>1. IInv /\ [INext]_ivars => [StopKept]_ivars
  BY StopStep
<1>2. ISpec => [][StopKept]_ivars
  BY <1>1, InboxInvariance, PTL DEF ISpec
<1> QED
  BY <1>2 DEF StopKept, StopKeepsInput
=============================================================================
