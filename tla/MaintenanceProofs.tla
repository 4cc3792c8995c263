------------------------- MODULE MaintenanceProofs -------------------------
(***************************************************************************)
(* Proofs about Maintenance for any contacts, queue, leases and time limits. *)
(* Inv is the inductive invariant: every transaction is Prune followed by  *)
(* a change, so each lemma takes a document that satisfies Inv (and, once  *)
(* pruned, ClaimsAreLeased) and shows that the changed one does.           *)
(***************************************************************************)
EXTENDS Maintenance, TLAPS

Inv(d) == /\ d \in Document
          /\ FenceIn(d) /\ QuiescentIn(d) /\ NoTurnIn(d) /\ OwnerIn(d)
          /\ BookkeepingIn(d) /\ ReceiptIn(d)

\* After _prune every claimed entry is backed by a live lease.
ClaimsAreLeased(d) ==
    \A q \in QueueIds : d.items[q].status = "claimed" =>
        \E l \in Leases : l = d.items[q].lease /\ d.leases[l].live

\* The powers of two in _retry_backoff_seconds are integers.
LEMMA PowerOfTwo == ASSUME NEW n \in Nat PROVE 2 ^ n \in Int
OBVIOUS

\* _retry_backoff_seconds returns an integer number of time units.
LEMMA BackoffType == ASSUME NEW n \in Nat PROVE RetryBackoff(n + 1) \in Int
<1>1. Smaller(n, MaxDoublings) \in Nat
  BY BoundsAssumption DEF Smaller
<1>2. 2 ^ Smaller(n, MaxDoublings) \in Int
  BY <1>1, PowerOfTwo
<1>3. RetryDelay * 2 ^ Smaller(n, MaxDoublings) \in Int
  BY <1>2, BoundsAssumption
<1>4. n + 1 - 1 = n
  OBVIOUS
<1> QED
  BY <1>3, <1>4, BoundsAssumption DEF RetryBackoff, Smaller

\* The default document of _default_state satisfies the invariant.
LEMMA InitInv == Inv(DefaultState)
<1>1. DefaultState \in Document
  BY BoundsAssumption, IdsAssumption
  DEF DefaultState, Document, NoLease, Lease, NoItem, Item, NoReceipt, Receipt,
      NoNotice, Notice, Phases, ActivePhases, Outcomes, NoDeadline
<1>2. /\ DefaultState.phase = "available" /\ DefaultState.epoch = 0
      /\ DefaultState.safe = FALSE
      /\ \A l \in Leases : DefaultState.leases[l] = NoLease
      /\ \A q \in QueueIds : DefaultState.items[q] = NoItem
      /\ \A q \in IngressIds \cup ContIds : DefaultState.receipts[q] = NoReceipt
  BY DEF DefaultState
<1>3. FenceIn(DefaultState) /\ QuiescentIn(DefaultState) /\ NoTurnIn(DefaultState)
  BY <1>2 DEF FenceIn, QuiescentIn, NoTurnIn
<1>4. OwnerIn(DefaultState) /\ BookkeepingIn(DefaultState) /\ ReceiptIn(DefaultState)
  BY <1>2 DEF OwnerIn, BookkeepingIn, ReceiptIn, NoItem, NoLease, NoReceipt
<1> QED
  BY <1>1, <1>3, <1>4 DEF Inv

\* Giving up a claim touches the claim alone.
LEMMA UnclaimedType ==
  ASSUME NEW i \in Item
  PROVE  /\ Unclaimed(i) \in Item
         /\ Unclaimed(i).status = "pending" /\ Unclaimed(i).lease = None
         /\ Unclaimed(i).contact = i.contact /\ Unclaimed(i).body = i.body
         /\ Unclaimed(i).cont = i.cont /\ Unclaimed(i).epoch = i.epoch
         /\ Unclaimed(i).dated = i.dated
<1>1. 0 \in 0..ClaimTTL
  BY BoundsAssumption
<1>2. Unclaimed(i) \in Item
  BY <1>1 DEF Item, Unclaimed
<1> QED
  BY <1>2 DEF Item, Unclaimed

\* The types of the parts _prune replaces.
LEMMA PruneParts ==
  ASSUME NEW d, d \in Document
  PROVE  /\ PruneLeases(d.leases) \in [Leases -> Lease]
         /\ \A ls \in [Leases -> Lease] : PruneItems(d.items, ls) \in [QueueIds -> Item]
         /\ PruneReceipts(d.receipts) \in [IngressIds \cup ContIds -> Receipt]
         /\ PruneNotices(d.notices) \in [Mids \X Contacts -> Notice]
<1>1. PruneLeases(d.leases) \in [Leases -> Lease]
  BY BoundsAssumption DEF PruneLeases, Document, Lease, NoLease
<1>2. ASSUME NEW ls \in [Leases -> Lease]
      PROVE  PruneItems(d.items, ls) \in [QueueIds -> Item]
  <2>1. d.items \in [QueueIds -> Item]
    BY DEF Document
  <2> QED
    BY <2>1, UnclaimedType DEF PruneItems
<1>3. PruneReceipts(d.receipts) \in [IngressIds \cup ContIds -> Receipt]
  <2>1. d.receipts \in [IngressIds \cup ContIds -> Receipt]
    BY DEF Document
  <2>2. NoReceipt \in Receipt
    BY BoundsAssumption DEF NoReceipt, Receipt
  <2>3. ASSUME NEW rs \in [IngressIds \cup ContIds -> Receipt], NEW kind
        PROVE  DropOldest(rs, kind) \in [IngressIds \cup ContIds -> Receipt]
    BY <2>2 DEF DropOldest
  <2>4. [q \in DOMAIN d.receipts |->
            IF d.receipts[q].ttl = 0 THEN NoReceipt ELSE d.receipts[q]]
          \in [IngressIds \cup ContIds -> Receipt]
    BY <2>1, <2>2
  <2> QED
    BY <2>3, <2>4 DEF PruneReceipts
<1>4. PruneNotices(d.notices) \in [Mids \X Contacts -> Notice]
  <2>1. d.notices \in [Mids \X Contacts -> Notice]
    BY DEF Document
  <2>2. NoNotice \in Notice
    BY BoundsAssumption DEF NoNotice, Notice
  <2>3. ASSUME NEW n \in Notice, NEW S
        PROVE  Returned(n) \in Notice /\ [n EXCEPT !.ahead = n.ahead \ S] \in Notice
    <3>1. 0 \in 0..NoticeTTL
      BY BoundsAssumption
    <3>2. n.ahead \ S \in SUBSET (Mids \X Contacts)
      BY DEF Notice
    <3>3. Returned(n) \in Notice
      BY <3>1 DEF Returned, Notice
    <3>4. [n EXCEPT !.ahead = n.ahead \ S] \in Notice
      BY <3>2 DEF Notice
    <3> QED
      BY <3>3, <3>4
  <2> QED
    BY <2>1, <2>2, <2>3 DEF PruneNotices
<1> QED
  BY <1>1, <1>2, <1>3, <1>4

\* An expired drain that is given up leaves the invariant intact.
LEMMA CancelExpiredInv ==
  ASSUME NEW d, Inv(d) PROVE Inv(CancelExpiredDrain(d))
<1> SUFFICES ASSUME NEW e, e = [d EXCEPT !.phase = "available", !.safe = FALSE,
                                         !.outcome = "deadline_expired"]
             PROVE  Inv(e)
  BY DEF CancelExpiredDrain
<1>1. e \in Document
  BY DEF Inv, Document, Phases, Outcomes
<1>2. /\ e.phase = "available" /\ e.safe = FALSE /\ e.epoch = d.epoch
      /\ e.leases = d.leases /\ e.items = d.items /\ e.receipts = d.receipts
  BY DEF Inv, Document
<1> QED
  BY <1>1, <1>2 DEF Inv, FenceIn, QuiescentIn, NoTurnIn, OwnerIn, BookkeepingIn, ReceiptIn

\* What _prune does to a lease and to an entry of the queue.
LEMMA PrunePointwise ==
  ASSUME NEW d, Inv(d), NEW ls, ls = PruneLeases(d.leases),
         NEW is, is = PruneItems(d.items, ls)
  PROVE  /\ \A l \in Leases : /\ ls[l].live => d.leases[l].live /\ ls[l] = d.leases[l]
                              /\ ls[l].epoch <= d.epoch
         /\ \A q \in QueueIds :
                /\ is[q].status = "absent" <=> d.items[q].status = "absent"
                /\ is[q].status = "claimed" => d.items[q].status = "claimed"
                /\ is[q].contact = d.items[q].contact /\ is[q].body = d.items[q].body
                /\ is[q].cont = d.items[q].cont /\ is[q].epoch = d.items[q].epoch
                /\ is[q].lease # None => is[q].lease = d.items[q].lease
                /\ is[q].lease # None <=> is[q].status = "claimed"
                /\ is[q].status = "claimed" =>
                        \E l \in Leases : l = is[q].lease /\ ls[l].live
<1>1. /\ d.epoch \in Nat
      /\ d.leases \in [Leases -> Lease] /\ d.items \in [QueueIds -> Item]
  BY DEF Inv, Document
<1>2. ASSUME NEW l \in Leases
      PROVE  /\ ls[l].live => d.leases[l].live /\ ls[l] = d.leases[l]
             /\ ls[l].epoch <= d.epoch
  BY <1>1 DEF PruneLeases, NoLease, Inv, BookkeepingIn
<1>3. ASSUME NEW q \in QueueIds
      PROVE  /\ is[q].status = "absent" <=> d.items[q].status = "absent"
             /\ is[q].status = "claimed" => d.items[q].status = "claimed"
             /\ is[q].contact = d.items[q].contact /\ is[q].body = d.items[q].body
             /\ is[q].cont = d.items[q].cont /\ is[q].epoch = d.items[q].epoch
             /\ is[q].lease # None => is[q].lease = d.items[q].lease
             /\ is[q].lease # None <=> is[q].status = "claimed"
             /\ is[q].status = "claimed" =>
                        \E l \in Leases : l = is[q].lease /\ ls[l].live
  <2>1. d.items[q] \in Item
    BY <1>1
  <2>2. d.items[q].lease # None <=> d.items[q].status = "claimed"
    BY DEF Inv, BookkeepingIn
  <2>3. CASE is[q] = d.items[q] /\ ~(d.items[q].status = "claimed" /\
            ~\E l \in Leases : l = d.items[q].lease /\ ls[l].live /\ d.items[q].claim > 0)
    BY <2>2, <2>3
  <2>4. CASE is[q] = Unclaimed(d.items[q]) /\ d.items[q].status = "claimed"
    BY <2>1, <2>4, UnclaimedType
  <2> QED
    BY <2>3, <2>4 DEF PruneItems
<1> QED
  BY <1>2, <1>3

\* Pruning receipts never changes one that is kept.
LEMMA PruneReceiptsKeep ==
  ASSUME NEW d, d \in Document, NEW q \in IngressIds \cup ContIds,
         PruneReceipts(d.receipts)[q].ttl > 0
  PROVE  PruneReceipts(d.receipts)[q] = d.receipts[q]
<1>1. d.receipts \in [IngressIds \cup ContIds -> Receipt]
  BY DEF Document
<1>2. ASSUME NEW rs, DOMAIN rs = IngressIds \cup ContIds, NEW kind
      PROVE  /\ DOMAIN DropOldest(rs, kind) = IngressIds \cup ContIds
             /\ DropOldest(rs, kind)[q] \in {NoReceipt, rs[q]}
  BY <1>2 DEF DropOldest
<1> DEFINE u == [r \in DOMAIN d.receipts |->
                    IF d.receipts[r].ttl = 0 THEN NoReceipt ELSE d.receipts[r]]
<1>3. DOMAIN u = IngressIds \cup ContIds /\ u[q] \in {NoReceipt, d.receipts[q]}
  BY <1>1
<1> HIDE DEF u
<1>4. PruneReceipts(d.receipts)[q] \in {NoReceipt, d.receipts[q]}
  <2>1. DropOldest(u, ContIds)[q] \in {NoReceipt, d.receipts[q]}
    BY <1>2, <1>3
  <2>2. DropOldest(DropOldest(u, ContIds), IngressIds)[q] \in {NoReceipt, d.receipts[q]}
    BY <1>2, <1>3, <2>1
  <2> QED
    BY <2>2 DEF PruneReceipts, u
<1>5. NoReceipt.ttl = 0
  BY DEF NoReceipt
<1> QED
  BY <1>4, <1>5

\* _prune keeps the invariant and leaves no claim without a live lease.
LEMMA PruneInv ==
  ASSUME NEW d0, Inv(d0)
  PROVE  Inv(Prune(d0)) /\ ClaimsAreLeased(Prune(d0))
<1> DEFINE dd == CancelExpiredDrain(d0)
           lls == PruneLeases(dd.leases)
<1> SUFFICES ASSUME NEW d, d = dd, NEW ls, ls = lls,
                    NEW is, is = PruneItems(d.items, ls), NEW busy \in BOOLEAN,
                    busy = \E l \in Leases : ls[l].live,
                    NEW e, e = [d EXCEPT !.leases = ls, !.items = is,
                                !.receipts = PruneReceipts(d.receipts),
                                !.notices = PruneNotices(d.notices),
                                !.safe = d.safe /\ d.phase = "draining" /\ ~busy]
             PROVE  Inv(e) /\ ClaimsAreLeased(e)
  BY DEF Prune
<1>1. Inv(d) /\ ls = PruneLeases(d.leases)
  BY CancelExpiredInv
<1> HIDE DEF dd, lls
<1>2. d \in Document
  BY <1>1 DEF Inv
<1>3. /\ e.phase = d.phase /\ e.epoch = d.epoch /\ e.leases = ls /\ e.items = is
      /\ e.receipts = PruneReceipts(d.receipts)
      /\ e.safe = (d.safe /\ d.phase = "draining" /\ ~busy)
  BY <1>2 DEF Document
<1>4. e \in Document
  <2>1. /\ ls \in [Leases -> Lease] /\ is \in [QueueIds -> Item]
        /\ PruneReceipts(d.receipts) \in [IngressIds \cup ContIds -> Receipt]
        /\ PruneNotices(d.notices) \in [Mids \X Contacts -> Notice]
    BY <1>1, <1>2, PruneParts
  <2>2. (d.safe /\ d.phase = "draining" /\ ~busy) \in BOOLEAN
    OBVIOUS
  <2> QED
    BY <1>2, <2>1, <2>2 DEF Document
<1>5. /\ \A l \in Leases : /\ ls[l].live => d.leases[l].live /\ ls[l] = d.leases[l]
                           /\ ls[l].epoch <= d.epoch
      /\ \A q \in QueueIds :
                /\ is[q].status = "absent" <=> d.items[q].status = "absent"
                /\ is[q].status = "claimed" => d.items[q].status = "claimed"
                /\ is[q].contact = d.items[q].contact /\ is[q].body = d.items[q].body
                /\ is[q].cont = d.items[q].cont /\ is[q].epoch = d.items[q].epoch
                /\ is[q].lease # None => is[q].lease = d.items[q].lease
                /\ is[q].lease # None <=> is[q].status = "claimed"
                /\ is[q].status = "claimed" =>
                        \E l \in Leases : l = is[q].lease /\ ls[l].live
  BY <1>1, PrunePointwise
<1>6. FenceIn(e)
  BY <1>1, <1>3, <1>5 DEF Inv, FenceIn
<1>7. NoTurnIn(e) /\ OwnerIn(e)
  BY <1>1, <1>3, <1>5 DEF Inv, NoTurnIn, OwnerIn
<1>8. BookkeepingIn(e)
  BY <1>1, <1>3, <1>5 DEF Inv, BookkeepingIn
<1>9. QuiescentIn(e)
  <2> SUFFICES ASSUME e.safe PROVE QuiescentIn(e)
    BY DEF QuiescentIn
  <2>1. d.safe /\ d.phase = "draining" /\ \A l \in Leases : ~ls[l].live
    BY <1>3
  <2>2. ASSUME NEW q \in QueueIds
        PROVE  is[q].status # "claimed" /\ (is[q].status = "pending" => ~is[q].cont)
    <3>1. d.items[q].status # "claimed" /\ (d.items[q].status = "pending" => ~d.items[q].cont)
      BY <1>1, <2>1 DEF Inv, QuiescentIn
    <3>2. d.items[q] \in Item /\ is[q] \in Item
      BY <1>2, <1>3, <1>4 DEF Document
    <3>3. is[q].status = "pending" => d.items[q].status = "pending"
      BY <1>5, <3>1, <3>2 DEF Item
    <3> QED
      BY <1>5, <3>1, <3>3
  <2> QED
    BY <1>3, <2>1, <2>2 DEF QuiescentIn
<1>10. ReceiptIn(e)
  BY <1>1, <1>2, <1>3, <1>5, PruneReceiptsKeep DEF Inv, ReceiptIn, QueueIds
<1> QED
  BY <1>3, <1>4, <1>5, <1>6, <1>7, <1>8, <1>9, <1>10 DEF Inv, ClaimsAreLeased

-----------------------------------------------------------------------------
(* The changes transactions are built from *)

\* A new lease is within the fence when its epoch is.
LEMMA NewLeaseInv ==
  ASSUME NEW d, Inv(d), NEW l \in Leases, NEW n \in Nat, n <= d.epoch,
         d.phase # "available" => n < d.epoch
  PROVE  Inv(NewLease(d, l, n))
<1> SUFFICES ASSUME NEW e, e = NewLease(d, l, n) PROVE Inv(e)
  OBVIOUS
<1>1. d \in Document /\ d.leases \in [Leases -> Lease]
  BY DEF Inv, Document
<1>2. [live |-> TRUE, epoch |-> n, ttl |-> LeaseTTL] \in Lease
  BY BoundsAssumption DEF Lease
<1>3. e \in Document
  BY <1>1, <1>2 DEF NewLease, Document
<1>4. /\ e.phase = d.phase /\ e.epoch = d.epoch /\ e.safe = FALSE
      /\ e.items = d.items /\ e.receipts = d.receipts
  BY <1>1 DEF NewLease, Document
<1>5. \A k \in Leases : e.leases[k] = d.leases[k] \/ e.leases[k].epoch = n
  BY <1>1 DEF NewLease, Document
<1> QED
  BY <1>3, <1>4, <1>5
  DEF Inv, FenceIn, QuiescentIn, NoTurnIn, OwnerIn, BookkeepingIn, ReceiptIn

\* Dropping leases, with nothing else changed, keeps the invariant.
LEMMA DropLeaseInv ==
  ASSUME NEW d, Inv(d), NEW l \in Leases
  PROVE  Inv(DropLease(d, l))
<1> SUFFICES ASSUME NEW e, e = DropLease(d, l) PROVE Inv(e)
  OBVIOUS
<1>1. d \in Document /\ d.leases \in [Leases -> Lease] /\ d.epoch \in Nat
  BY DEF Inv, Document
<1>2. NoLease \in Lease /\ NoLease.live = FALSE /\ NoLease.epoch = 0
  BY BoundsAssumption DEF Lease, NoLease
<1>3. e \in Document
  BY <1>1, <1>2 DEF DropLease, Document
<1>4. /\ e.phase = d.phase /\ e.epoch = d.epoch /\ e.safe = d.safe
      /\ e.items = d.items /\ e.receipts = d.receipts
  BY <1>1 DEF DropLease, Document
<1>5. \A k \in Leases : e.leases[k] = d.leases[k] \/ e.leases[k] = NoLease
  BY <1>1 DEF DropLease, Document
<1>6. FenceIn(e) /\ QuiescentIn(e) /\ BookkeepingIn(e)
  BY <1>1, <1>2, <1>4, <1>5 DEF Inv, FenceIn, QuiescentIn, BookkeepingIn
<1> QED
  BY <1>3, <1>4, <1>6 DEF Inv, NoTurnIn, OwnerIn, ReceiptIn

\* _ensure_notice and the other changes to notices leave the rest alone.
LEMMA NoticesInv ==
  ASSUME NEW d, Inv(d), NEW ns \in [Mids \X Contacts -> Notice]
  PROVE  Inv([d EXCEPT !.notices = ns])
<1> SUFFICES ASSUME NEW e, e = [d EXCEPT !.notices = ns] PROVE Inv(e)
  OBVIOUS
<1>1. d \in Document
  BY DEF Inv
<1>2. e \in Document
  BY <1>1 DEF Document
<1>3. /\ e.phase = d.phase /\ e.epoch = d.epoch /\ e.safe = d.safe
      /\ e.leases = d.leases /\ e.items = d.items /\ e.receipts = d.receipts
  BY <1>1 DEF Document
<1> QED
  BY <1>2, <1>3
  DEF Inv, FenceIn, QuiescentIn, NoTurnIn, OwnerIn, BookkeepingIn, ReceiptIn

\* _ensure_notice
LEMMA EnsureNoticeInv ==
  ASSUME NEW d, Inv(d), NEW c \in Contacts
  PROVE  Inv(EnsureNotice(d, c))
<1>1. d \in Document /\ d.notices \in [Mids \X Contacts -> Notice]
  BY DEF Inv, Document
<1> DEFINE n == [status |-> "pending", ttl |-> 0,
                 ahead |-> {x \in DOMAIN d.notices : d.notices[x].status # "absent"}]
<1>2. n \in Notice
  BY <1>1, BoundsAssumption DEF Notice
<1> HIDE DEF n
<1>3. ASSUME d.mid \in Mids
      PROVE  Inv([d EXCEPT !.notices = [d.notices EXCEPT ![<<d.mid, c>>] = n]])
  <2>1. [d.notices EXCEPT ![<<d.mid, c>>] = n] \in [Mids \X Contacts -> Notice]
    BY <1>1, <1>2
  <2> QED
    BY <2>1, NoticesInv
<1>4. CASE d.mid \in Mids /\ d.notices[<<d.mid, c>>].status = "absent"
  <2>1. EnsureNotice(d, c) = [d EXCEPT !.notices = [d.notices EXCEPT ![<<d.mid, c>>] = n]]
    BY <1>4 DEF EnsureNotice, n
  <2> QED
    BY <1>3, <1>4, <2>1
<1>5. CASE ~(d.mid \in Mids /\ d.notices[<<d.mid, c>>].status = "absent")
  BY <1>5 DEF EnsureNotice
<1> QED
  BY <1>4, <1>5

\* safe_to_stop may always be revoked.
LEMMA UnsafeInv ==
  ASSUME NEW d, Inv(d) PROVE Inv([d EXCEPT !.safe = FALSE])
<1> SUFFICES ASSUME NEW e, e = [d EXCEPT !.safe = FALSE] PROVE Inv(e)
  OBVIOUS
<1>1. d \in Document
  BY DEF Inv
<1>2. e \in Document
  BY <1>1 DEF Document
<1>3. /\ e.phase = d.phase /\ e.epoch = d.epoch /\ e.safe = FALSE
      /\ e.leases = d.leases /\ e.items = d.items /\ e.receipts = d.receipts
  BY <1>1 DEF Document
<1> QED
  BY <1>2, <1>3
  DEF Inv, FenceIn, QuiescentIn, NoTurnIn, OwnerIn, BookkeepingIn, ReceiptIn

\* e is d with a pending entry added at q.
Appended(d, e, q, c, b, cont, n) ==
    /\ e \in Document
    /\ e.phase = d.phase /\ e.epoch = d.epoch /\ e.safe = d.safe
    /\ e.leases = d.leases /\ e.receipts = d.receipts
    /\ \A r \in QueueIds \ {q} : e.items[r] = d.items[r]
    /\ e.items[q].status = "pending" /\ e.items[q].lease = None
    /\ e.items[q].contact = c /\ e.items[q].body = b
    /\ e.items[q].cont = cont /\ e.items[q].epoch = n

\* e is d with a receipt written at q.
WithReceipt(d, e, q, c, b) ==
    /\ e \in Document
    /\ e.phase = d.phase /\ e.epoch = d.epoch /\ e.safe = d.safe
    /\ e.leases = d.leases /\ e.items = d.items
    /\ \A r \in (IngressIds \cup ContIds) \ {q} : e.receipts[r] = d.receipts[r]
    /\ e.receipts[q].contact = c /\ e.receipts[q].body = b

\* The entry that root_queue.append adds.
LEMMA AppendType ==
  ASSUME NEW d, d \in Document, NEW q \in QueueIds, NEW c \in Contacts, NEW b \in Bodies,
         NEW cont \in BOOLEAN, NEW n \in Nat
  PROVE  Appended(d, Append2Queue(d, q, c, b, cont, n), q, c, b, cont, n)
<1> DEFINE dt == IF q \in RootIds THEN 0 ELSE ReceiptTTL
           i == [status |-> "pending", contact |-> c, body |-> b, cont |-> cont,
                 epoch |-> n, lease |-> None, claim |-> 0, attempts |-> 0,
                 wait |-> 0, dated |-> dt, ahead |-> Queued(d)]
<1> SUFFICES ASSUME NEW e, e = Append2Queue(d, q, c, b, cont, n)
             PROVE  Appended(d, e, q, c, b, cont, n)
  OBVIOUS
<1>1. d.items \in [QueueIds -> Item]
  BY DEF Document
<1>2. i \in Item
  <2>1. dt \in 0..ReceiptTTL /\ 0 \in 0..ClaimTTL /\ 0 \in Nat /\ 0 \in Int
    BY BoundsAssumption
  <2>2. Queued(d) \in SUBSET QueueIds
    BY DEF Queued
  <2> HIDE DEF dt
  <2> QED
    BY <2>1, <2>2 DEF Item
<1>3. /\ i.status = "pending" /\ i.lease = None /\ i.contact = c /\ i.body = b
      /\ i.cont = cont /\ i.epoch = n
  OBVIOUS
<1>4. e = [d EXCEPT !.items = [d.items EXCEPT ![q] = i]]
  BY DEF Append2Queue
<1> HIDE DEF i
<1>5. [d.items EXCEPT ![q] = i] \in [QueueIds -> Item]
  BY <1>1, <1>2
<1>6. e \in Document
  BY <1>4, <1>5 DEF Document
<1>7. /\ e.phase = d.phase /\ e.epoch = d.epoch /\ e.safe = d.safe
      /\ e.leases = d.leases /\ e.receipts = d.receipts
      /\ e.items[q] = i /\ \A r \in QueueIds \ {q} : e.items[r] = d.items[r]
  BY <1>1, <1>4 DEF Document
<1> QED
  BY <1>3, <1>6, <1>7 DEF Appended

\* The receipt of an entry.
LEMMA ReceiptType ==
  ASSUME NEW d, d \in Document, NEW q \in IngressIds \cup ContIds,
         NEW c \in Contacts, NEW b \in Bodies
  PROVE  WithReceipt(d, Receipted(d, q, c, b), q, c, b)
<1> DEFINE t == d.items[q].dated
           r0 == [contact |-> c, body |-> b, ttl |-> t]
<1> SUFFICES ASSUME NEW e, e = Receipted(d, q, c, b) PROVE WithReceipt(d, e, q, c, b)
  OBVIOUS
<1>1. /\ d.receipts \in [IngressIds \cup ContIds -> Receipt]
      /\ d.items \in [QueueIds -> Item]
  BY DEF Document
<1>2. t \in 0..ReceiptTTL
  BY <1>1 DEF Item, QueueIds
<1> HIDE DEF t
<1>3. r0 \in Receipt /\ r0.contact = c /\ r0.body = b
  BY <1>2 DEF Receipt
<1>4. e = [d EXCEPT !.receipts = [d.receipts EXCEPT ![q] = r0]]
  BY DEF Receipted, t
<1> HIDE DEF r0
<1>5. [d.receipts EXCEPT ![q] = r0] \in [IngressIds \cup ContIds -> Receipt]
  BY <1>1, <1>3
<1>6. e \in Document
  BY <1>4, <1>5 DEF Document
<1>7. /\ e.phase = d.phase /\ e.epoch = d.epoch /\ e.safe = d.safe
      /\ e.leases = d.leases /\ e.items = d.items
      /\ e.receipts[q] = r0
      /\ \A r \in (IngressIds \cup ContIds) \ {q} : e.receipts[r] = d.receipts[r]
  BY <1>1, <1>4 DEF Document
<1> QED
  BY <1>3, <1>6, <1>7 DEF WithReceipt

\* enqueue_root of a root that is not admitted.
LEMMA AppendRootInv ==
  ASSUME NEW d, Inv(d), NEW q \in RootIds, NEW c \in Contacts, NEW b \in Bodies
  PROVE  Inv(Append2Queue(d, q, c, b, FALSE, d.epoch))
<1> DEFINE f == Append2Queue(d, q, c, b, FALSE, d.epoch)
<1>1. d \in Document /\ d.epoch \in Nat
  BY DEF Inv, Document
<1>2. q \in QueueIds /\ q \notin IngressIds \cup ContIds
  BY IdsAssumption DEF QueueIds
<1>3. Appended(d, f, q, c, b, FALSE, d.epoch)
  BY <1>1, <1>2, AppendType
<1> SUFFICES ASSUME NEW e, e = f PROVE Inv(e)
  OBVIOUS
<1> HIDE DEF f
<1>4. FenceIn(e) /\ BookkeepingIn(e)
  BY <1>1, <1>3 DEF Appended, Inv, FenceIn, BookkeepingIn
<1>5. QuiescentIn(e)
  BY <1>3 DEF Appended, Inv, QuiescentIn
<1>6. NoTurnIn(e) /\ OwnerIn(e)
  BY <1>3 DEF Appended, Inv, NoTurnIn, OwnerIn
<1>7. ReceiptIn(e)
  BY <1>2, <1>3 DEF Appended, Inv, ReceiptIn, QueueIds
<1> QED
  BY <1>3, <1>4, <1>5, <1>6, <1>7 DEF Inv, Appended

\* A receipt for an entry that is already queued.
LEMMA ReceiptInv ==
  ASSUME NEW d, Inv(d), NEW q \in IngressIds \cup ContIds,
         NEW c \in Contacts, NEW b \in Bodies,
         d.items[q].contact = c, d.items[q].body = b
  PROVE  Inv(Receipted(d, q, c, b))
<1> SUFFICES ASSUME NEW e, e = Receipted(d, q, c, b) PROVE Inv(e)
  OBVIOUS
<1>1. WithReceipt(d, e, q, c, b)
  BY ReceiptType DEF Inv
<1>2. ReceiptIn(e)
  BY <1>1 DEF Inv, ReceiptIn, WithReceipt
<1> QED
  BY <1>1, <1>2
  DEF Inv, FenceIn, QuiescentIn, NoTurnIn, OwnerIn, BookkeepingIn, WithReceipt

\* An entry and its receipt, with safe_to_stop revoked: the new entry of
\* enqueue_ingress_root, and of enqueue_continuation within the fence.
LEMMA AppendReceiptedInv ==
  ASSUME NEW d, Inv(d), NEW q \in IngressIds \cup ContIds, NEW c \in Contacts,
         NEW b \in Bodies, NEW cont \in BOOLEAN, NEW n \in Nat, n <= d.epoch,
         d.phase # "available" /\ cont => n < d.epoch
  PROVE  LET e == Receipted(Append2Queue(d, q, c, b, cont, n), q, c, b)
         IN  e \in Document /\ Inv([e EXCEPT !.safe = FALSE])
<1> DEFINE f == Append2Queue(d, q, c, b, cont, n)
           g == Receipted(f, q, c, b)
<1>1. d \in Document /\ d.epoch \in Nat /\ q \in QueueIds
  BY DEF Inv, Document, QueueIds
<1>2. Appended(d, f, q, c, b, cont, n)
  BY <1>1, AppendType
<1> HIDE DEF f
<1>3. WithReceipt(f, g, q, c, b)
  BY <1>2, ReceiptType DEF Appended
<1> SUFFICES ASSUME NEW h, h = g, NEW e, e = [h EXCEPT !.safe = FALSE]
             PROVE  h \in Document /\ Inv(e)
  BY DEF f
<1> HIDE DEF g
<1>4. h \in Document
  BY <1>3 DEF WithReceipt
<1>5. /\ e \in Document /\ e.phase = h.phase /\ e.epoch = h.epoch /\ e.safe = FALSE
      /\ e.leases = h.leases /\ e.items = h.items /\ e.receipts = h.receipts
  BY <1>4 DEF Document
<1>6. /\ e.phase = d.phase /\ e.epoch = d.epoch /\ e.leases = d.leases
      /\ \A r \in QueueIds \ {q} : e.items[r] = d.items[r]
      /\ e.items[q].status = "pending" /\ e.items[q].lease = None
      /\ e.items[q].contact = c /\ e.items[q].body = b
      /\ e.items[q].cont = cont /\ e.items[q].epoch = n
      /\ \A r \in (IngressIds \cup ContIds) \ {q} : e.receipts[r] = d.receipts[r]
      /\ e.receipts[q].contact = c /\ e.receipts[q].body = b
  BY <1>2, <1>3, <1>5 DEF Appended, WithReceipt
<1>7. FenceIn(e) /\ BookkeepingIn(e)
  BY <1>1, <1>6 DEF Inv, FenceIn, BookkeepingIn
<1>8. QuiescentIn(e) /\ NoTurnIn(e) /\ OwnerIn(e)
  BY <1>5, <1>6 DEF Inv, QuiescentIn, NoTurnIn, OwnerIn
<1>9. ReceiptIn(e)
  BY <1>6 DEF Inv, ReceiptIn, QueueIds
<1> QED
  BY <1>4, <1>5, <1>7, <1>8, <1>9 DEF Inv

\* _claim_root_item for pending entries: the phase admits claims, and while
\* draining only entries of an older epoch are claimed.
LEMMA ClaimInv ==
  ASSUME NEW d, Inv(d), NEW K \in SUBSET QueueIds, NEW g \in Grants(d, K),
         d.phase \in {"available", "draining"},
         \A q \in K : /\ d.items[q].status = "pending"
                      /\ d.phase = "draining" => d.items[q].cont
  PROVE  Inv(ClaimItems(d, K, g))
<1>1. /\ d \in Document /\ d.epoch \in Nat /\ d.leases \in [Leases -> Lease]
      /\ d.items \in [QueueIds -> Item] /\ d.safe \in BOOLEAN
  BY DEF Inv, Document
<1>2. /\ g \in [K -> Leases] /\ \A q, r \in K : g[q] = g[r] => q = r
      /\ \A q \in K : \A r \in QueueIds : d.items[r].lease # g[q]
  BY DEF Grants, FreshLeases
<1>3. ASSUME NEW q \in K
      PROVE  /\ AdmittedEpoch(d, q) \in Nat /\ AdmittedEpoch(d, q) <= d.epoch
             /\ d.phase # "available" => AdmittedEpoch(d, q) < d.epoch
  <2>1. d.items[q] \in Item /\ q \in QueueIds
    BY <1>1
  <2>2. d.items[q].epoch \in Nat /\ d.items[q].epoch <= d.epoch
    BY <2>1 DEF Item, Inv, BookkeepingIn
  <2>3. d.phase # "available" => d.items[q].cont /\ d.items[q].epoch < d.epoch
    BY <2>1 DEF Inv, FenceIn
  <2> QED
    BY <1>1, <2>2, <2>3 DEF AdmittedEpoch
<1> DEFINE nl(l) == [live |-> TRUE, ttl |-> LeaseTTL,
                     epoch |-> AdmittedEpoch(d, CHOOSE q \in K : g[q] = l)]
           ni(q) == [d.items[q] EXCEPT !.status = "claimed", !.lease = g[q],
                                       !.claim = ClaimTTL]
           ls == [l \in Leases |-> IF \E q \in K : g[q] = l THEN nl(l) ELSE d.leases[l]]
           is == [q \in QueueIds |-> IF q \in K THEN ni(q) ELSE d.items[q]]
           sf == d.safe /\ K = {}
<1>4. ASSUME NEW l \in Leases, \E q \in K : g[q] = l
      PROVE  /\ nl(l) \in Lease /\ nl(l).epoch <= d.epoch
             /\ d.phase # "available" => nl(l).epoch < d.epoch
  <2>1. PICK q \in K : q = CHOOSE r \in K : g[r] = l
    BY <1>4
  <2>2. /\ AdmittedEpoch(d, q) \in Nat /\ AdmittedEpoch(d, q) <= d.epoch
        /\ d.phase # "available" => AdmittedEpoch(d, q) < d.epoch
    BY <1>3
  <2>3. LeaseTTL \in 0..LeaseTTL
    BY BoundsAssumption
  <2> QED
    BY <2>1, <2>2, <2>3 DEF Lease
<1>5. ASSUME NEW q \in K
      PROVE  /\ ni(q) \in Item /\ ni(q).status = "claimed" /\ ni(q).lease = g[q]
             /\ ni(q).contact = d.items[q].contact /\ ni(q).body = d.items[q].body
             /\ ni(q).cont = d.items[q].cont /\ ni(q).epoch = d.items[q].epoch
  <2>1. d.items[q] \in Item /\ g[q] \in Leases /\ ClaimTTL \in 0..ClaimTTL
    BY <1>1, <1>2, BoundsAssumption
  <2>2. ni(q) \in Item
    BY <2>1 DEF Item
  <2> QED
    BY <2>1, <2>2 DEF Item
<1> SUFFICES ASSUME NEW e, e = [d EXCEPT !.leases = ls, !.items = is, !.safe = sf]
             PROVE  Inv(e)
  BY DEF ClaimItems
<1>6. /\ ls \in [Leases -> Lease]
      /\ \A l \in Leases : ls[l] = d.leases[l] \/
            /\ ls[l].epoch <= d.epoch
            /\ d.phase # "available" => ls[l].epoch < d.epoch
      /\ K = {} => ls = d.leases
  <2> HIDE DEF nl
  <2> QED
    BY <1>1, <1>4
<1>7. /\ is \in [QueueIds -> Item] /\ sf \in BOOLEAN
      /\ \A q \in QueueIds \ K : is[q] = d.items[q]
      /\ \A q \in K : /\ is[q].status = "claimed" /\ is[q].lease = g[q]
                      /\ is[q].contact = d.items[q].contact /\ is[q].body = d.items[q].body
                      /\ is[q].cont = d.items[q].cont /\ is[q].epoch = d.items[q].epoch
  <2> HIDE DEF ni
  <2> QED
    BY <1>1, <1>5
<1>8. sf => d.safe /\ K = {}
  OBVIOUS
<1> HIDE DEF nl, ni, ls, is, sf
<1>9. e \in Document
  BY <1>1, <1>6, <1>7 DEF Document
<1>10. /\ e.phase = d.phase /\ e.epoch = d.epoch /\ e.safe = sf
       /\ e.leases = ls /\ e.items = is /\ e.receipts = d.receipts
  BY <1>1 DEF Document
<1>11. FenceIn(e)
  BY <1>6, <1>7, <1>10 DEF Inv, FenceIn
<1>12. BookkeepingIn(e)
  <2>1. \A q \in QueueIds : is[q].lease # None <=> is[q].status = "claimed"
    BY <1>2, <1>7, IdsAssumption DEF Inv, BookkeepingIn
  <2> QED
    BY <1>6, <1>7, <1>10, <2>1 DEF Inv, BookkeepingIn
<1>13. QuiescentIn(e)
  BY <1>6, <1>7, <1>8, <1>10 DEF Inv, QuiescentIn
<1>14. NoTurnIn(e) /\ ReceiptIn(e)
  BY <1>7, <1>10 DEF Inv, NoTurnIn, ReceiptIn, QueueIds
<1>15. OwnerIn(e)
  BY <1>2, <1>7, <1>10 DEF Inv, OwnerIn
<1> QED
  BY <1>9, <1>11, <1>12, <1>13, <1>14, <1>15 DEF Inv

\* The parts of an entry that giving up a claim leaves alone
Same(i, j) == /\ i.contact = j.contact /\ i.body = j.body
              /\ i.cont = j.cont /\ i.epoch = j.epoch

\* e is d with some leases gone, some claims given back and some entries gone.
SettledIn(d, e) ==
    /\ e \in Document
    /\ e.phase = d.phase /\ e.epoch = d.epoch /\ e.safe = d.safe
    /\ e.receipts = d.receipts
    /\ \A l \in Leases : e.leases[l] = d.leases[l] \/ e.leases[l] = NoLease
    /\ \A q \in QueueIds :
            \/ e.items[q] = NoItem
            \/ /\ d.items[q].status = "claimed" /\ e.items[q].status = "pending"
               /\ e.items[q].lease = None /\ Same(e.items[q], d.items[q])
            \/ /\ e.items[q].status = d.items[q].status
               /\ e.items[q].lease = d.items[q].lease /\ Same(e.items[q], d.items[q])

\* Settling claims keeps the invariant.
LEMMA SettleInv ==
  ASSUME NEW d, Inv(d), NEW e, SettledIn(d, e)
  PROVE  Inv(e)
<1>1. d \in Document /\ d.epoch \in Nat
  BY DEF Inv, Document
<1>2. /\ NoLease.live = FALSE /\ NoLease.epoch = 0
      /\ NoItem.status = "absent" /\ NoItem.lease = None /\ NoItem.epoch = 0
      /\ NoItem.cont = FALSE
  BY DEF NoLease, NoItem
<1>3. FenceIn(e)
  BY <1>1, <1>2 DEF Inv, FenceIn, SettledIn, Same
<1>4. BookkeepingIn(e)
  BY <1>1, <1>2 DEF Inv, BookkeepingIn, SettledIn, Same
<1>5. QuiescentIn(e)
  BY <1>2 DEF Inv, QuiescentIn, SettledIn, Same
<1>6. NoTurnIn(e) /\ OwnerIn(e)
  BY <1>2 DEF Inv, NoTurnIn, OwnerIn, SettledIn
<1>7. ReceiptIn(e)
  BY <1>2 DEF Inv, ReceiptIn, QueueIds, SettledIn, Same
<1> QED
  BY <1>3, <1>4, <1>5, <1>6, <1>7 DEF Inv, SettledIn

-----------------------------------------------------------------------------
(* The transactions, each on a pruned document d *)

\* request_drain, cancel_drain and transition: the fence is raised over leases
\* no newer than the epoch, and updating is entered only from quiescence.
LEMMA UpdaterInv ==
  ASSUME NEW d, Inv(d), Updater(d)
  PROVE  Inv(doc')
<1>1. /\ d \in Document /\ d.epoch \in Nat /\ d.phase \in Phases
      /\ d.leases \in [Leases -> Lease] /\ d.items \in [QueueIds -> Item]
  BY DEF Inv, Document
<1>2. ASSUME NEW m, NEW secs \in Deadlines \cup {NoDeadline}, RequestDrain(d, m, secs),
             d.phase \notin ActivePhases
      PROVE  Inv(doc')
  <2> SUFFICES ASSUME NEW e, m \in Mids,
                      e = [d EXCEPT !.epoch = d.epoch + 1, !.phase = "draining",
                                    !.mid = m, !.deadline = secs, !.safe = FALSE,
                                    !.outcome = ""]
               PROVE  Inv(e)
    BY <1>2 DEF RequestDrain, FreshMids
  <2>1. e \in Document
    <3>1. /\ secs \in Nat \cup {NoDeadline} /\ d.epoch + 1 \in Nat
          /\ "draining" \in Phases /\ "" \in Outcomes
      BY <1>1, BoundsAssumption DEF Phases, ActivePhases, Outcomes
    <3> QED
      BY <1>1, <3>1 DEF Document
  <2>2. /\ e.phase = "draining" /\ e.epoch = d.epoch + 1 /\ e.safe = FALSE
        /\ e.leases = d.leases /\ e.items = d.items /\ e.receipts = d.receipts
    BY <1>1 DEF Document
  <2>3. /\ \A l \in Leases : d.leases[l].epoch \in Nat /\ d.leases[l].epoch <= d.epoch
        /\ \A q \in QueueIds : d.items[q].epoch \in Nat /\ d.items[q].epoch <= d.epoch
    BY <1>1 DEF Inv, BookkeepingIn, Lease, Item
  <2>4. FenceIn(e) /\ BookkeepingIn(e)
    BY <1>1, <2>2, <2>3 DEF FenceIn, BookkeepingIn, Inv
  <2> QED
    BY <2>1, <2>2, <2>4 DEF Inv, QuiescentIn, NoTurnIn, OwnerIn, ReceiptIn
<1>3. ASSUME NEW m, NEW secs, RequestDrain(d, m, secs), d.phase \in ActivePhases
      PROVE  Inv(doc')
  BY <1>3 DEF RequestDrain
<1>4. ASSUME NEW p \in Phases, NEW o \in Outcomes,
             d.phase = "available" => p = "available",
             p \in {"updating", "validating"} =>
                \A q \in QueueIds : d.items[q].status # "claimed"
      PROVE  Inv([d EXCEPT !.phase = p, !.safe = FALSE, !.outcome = o])
  <2> SUFFICES ASSUME NEW e, e = [d EXCEPT !.phase = p, !.safe = FALSE, !.outcome = o]
               PROVE  Inv(e)
    OBVIOUS
  <2>1. e \in Document
    BY <1>1, <1>4 DEF Document
  <2>2. /\ e.phase = p /\ e.epoch = d.epoch /\ e.safe = FALSE
        /\ e.leases = d.leases /\ e.items = d.items /\ e.receipts = d.receipts
    BY <1>1, <1>4 DEF Document
  <2>3. FenceIn(e) /\ NoTurnIn(e) /\ BookkeepingIn(e)
    BY <1>4, <2>2 DEF Inv, FenceIn, NoTurnIn, BookkeepingIn
  <2> QED
    BY <2>1, <2>2, <2>3 DEF Inv, QuiescentIn, OwnerIn, ReceiptIn
<1>5. ASSUME NEW m, CancelDrain(d, m) PROVE Inv(doc')
  <2>1. CASE doc' = d
    BY <2>1
  <2>2. CASE doc' = [d EXCEPT !.phase = "available", !.safe = FALSE,
                              !.outcome = "cancelled"]
    <3>1. /\ "available" \in Phases /\ "cancelled" \in Outcomes
          /\ "available" \notin {"updating", "validating"}
      BY DEF Phases, Outcomes
    <3> QED
      BY <1>4, <2>2, <3>1
  <2> QED
    BY <1>5, <2>1, <2>2 DEF CancelDrain
<1>6. ASSUME NEW m, NEW p \in Phases, Transition(d, p, m) PROVE Inv(doc')
  <2>1. CASE doc' = d
    BY <2>1
  <2>2. CASE doc' # d
    <3> DEFINE o == IF p # "available" THEN d.outcome
                    ELSE CASE d.phase = "rolling_back" -> "rolled_back"
                           [] d.phase = "draining" -> "cancelled"
                           [] OTHER -> "updated"
    <3>1. /\ p \in Allowed[d.phase] /\ (p = "updating" => d.safe)
          /\ doc' = [d EXCEPT !.phase = p, !.safe = FALSE, !.outcome = o]
      BY <1>6, <2>2 DEF Transition, Permitted
    <3>2. o \in Outcomes
      BY <1>1 DEF Document, Outcomes
    <3> HIDE DEF o
    <3>3. d.phase # "available"
      BY <3>1 DEF Allowed
    <3>4. p = "validating" => d.phase = "updating"
      BY <1>1, <3>1 DEF Allowed, Phases, ActivePhases
    <3>5. p \in {"updating", "validating"} =>
            \A q \in QueueIds : d.items[q].status # "claimed"
      BY <3>1, <3>4 DEF Inv, QuiescentIn, NoTurnIn
    <3> QED
      BY <1>4, <3>1, <3>2, <3>3, <3>5
  <2> QED
    BY <2>1, <2>2
<1> QED
  BY <1>2, <1>3, <1>5, <1>6 DEF Updater

\* enqueue_root
LEMMA EnqueueRootInv ==
  ASSUME NEW d, Inv(d), NEW q \in RootIds, NEW c \in Contacts, NEW b \in Bodies,
         NEW admit, EnqueueRoot(d, q, c, b, admit)
  PROVE  Inv(doc')
<1> DEFINE f == Append2Queue(d, q, c, b, FALSE, d.epoch)
<1>1. d \in Document /\ d.epoch \in Nat /\ q \in QueueIds
  BY DEF Inv, Document, QueueIds
<1>2. Inv(f)
  BY AppendRootInv
<1>3. Appended(d, f, q, c, b, FALSE, d.epoch)
  BY <1>1, AppendType
<1>4. CASE doc' = EnsureNotice(f, c)
  BY <1>2, <1>4, EnsureNoticeInv
<1>5. CASE doc' = f
  BY <1>2, <1>5
<1>6. CASE d.phase = "available" /\ \E g \in Grants(d, {q}) : doc' = ClaimItems(f, {q}, g)
  <2>1. PICK g \in Grants(d, {q}) : doc' = ClaimItems(f, {q}, g)
    BY <1>6
  <2> HIDE DEF f
  <2>2. g \in Grants(f, {q})
    BY <1>3, IdsAssumption DEF Grants, FreshLeases, Appended
  <2>3. f.phase = "available" /\ f.items[q].status = "pending"
    BY <1>3, <1>6 DEF Appended
  <2> QED
    BY <1>1, <1>2, <2>1, <2>2, <2>3, ClaimInv
<1> QED
  BY <1>4, <1>5, <1>6 DEF EnqueueRoot

\* enqueue_ingress_root
LEMMA EnqueueIngressInv ==
  ASSUME NEW d, Inv(d), NEW q \in IngressIds, NEW c \in Contacts, NEW b \in Bodies,
         EnqueueIngress(d, q, c, b)
  PROVE  Inv(doc')
<1> DEFINE f == [Receipted(Append2Queue(d, q, c, b, FALSE, d.epoch), q, c, b)
                    EXCEPT !.safe = FALSE]
<1>1. d.epoch \in Nat /\ d.epoch <= d.epoch /\ FALSE \in BOOLEAN
  BY DEF Inv, Document
<1>2. Inv(f)
  BY <1>1, AppendReceiptedInv, Zenon
<1>3. CASE doc' = d
  BY <1>3
<1>4. CASE doc' = Receipted(d, q, c, b) /\ d.items[q].contact = c /\ d.items[q].body = b
  BY <1>4, ReceiptInv
<1>5. CASE doc' = f \/ doc' = EnsureNotice(f, c)
  BY <1>2, <1>5, EnsureNoticeInv
<1> QED
  BY <1>3, <1>4, <1>5 DEF EnqueueIngress, SameMessage

\* enqueue_continuation: the entry inherits the epoch of a live lease, which
\* is within the fence.
LEMMA EnqueueContinuationInv ==
  ASSUME NEW d, Inv(d), NEW q \in ContIds, NEW c \in Contacts, NEW b \in Bodies,
         NEW l \in Leases, EnqueueContinuation(d, q, c, b, l)
  PROVE  Inv(doc')
<1> DEFINE n == d.leases[l].epoch
           f == [Receipted(Append2Queue(d, q, c, b, TRUE, n), q, c, b)
                    EXCEPT !.safe = FALSE]
<1>1. d.epoch \in Nat /\ n \in Nat /\ n <= d.epoch
  BY DEF Inv, Document, BookkeepingIn, Lease
<1>2. CASE d.leases[l].live /\ doc' = DropLease(f, l)
  <2>1. d.phase # "available" => n < d.epoch
    BY <1>2 DEF Inv, FenceIn
  <2>2. Inv(f)
    <3> HIDE DEF n
    <3> QED
      BY <1>1, <2>1, AppendReceiptedInv
  <2> HIDE DEF f
  <2> QED
    BY <1>2, <2>2, DropLeaseInv
<1>3. CASE doc' = d
  BY <1>3
<1>4. CASE doc' = Receipted(d, q, c, b) /\ d.items[q].contact = c /\ d.items[q].body = b
  BY <1>4, ReceiptInv
<1> QED
  BY <1>2, <1>3, <1>4 DEF EnqueueContinuation, SameMessage

\* claim_pending_roots
LEMMA ClaimPendingRootsInv ==
  ASSUME NEW d, Inv(d), NEW excluded, NEW limit, ClaimPendingRoots(d, excluded, limit)
  PROVE  Inv(doc')
<1> DEFINE K == ToClaim(d, excluded, limit)
<1>1. PICK g \in Grants(d, K) : doc' = ClaimItems(d, K, g)
  BY DEF ClaimPendingRoots
<1>2. K \subseteq Claimable(d, excluded)
  BY DEF ToClaim
<1> HIDE DEF K
<1>3. /\ K \in SUBSET QueueIds
      /\ \A q \in K : /\ d.items[q].status = "pending"
                      /\ d.phase = "draining" => d.items[q].cont
                      /\ d.phase \in {"available", "draining"}
  BY <1>2 DEF Claimable
<1>4. CASE d.phase \in {"available", "draining"}
  BY <1>1, <1>3, <1>4, ClaimInv
<1>5. CASE K = {}
  <2>1. d \in Document /\ d.leases \in [Leases -> Lease] /\ d.items \in [QueueIds -> Item]
        /\ d.safe \in BOOLEAN
    BY DEF Inv, Document
  <2>2. /\ ClaimItems(d, K, g).leases = d.leases /\ ClaimItems(d, K, g).items = d.items
        /\ ClaimItems(d, K, g).safe = d.safe
    BY <1>5, <2>1 DEF ClaimItems, Document
  <2>3. ClaimItems(d, K, g) = d
    BY <1>5, <2>1 DEF ClaimItems, Document
  <2> QED
    BY <1>1, <2>3
<1> QED
  BY <1>3, <1>4, <1>5

\* The heartbeats of a set of leases
LEMMA RenewInv ==
  ASSUME NEW d, Inv(d), NEW L
  PROVE  /\ Inv(Renew(d, L))
         /\ \A l \in Leases : Renew(d, L).leases[l].live = d.leases[l].live
         /\ \A q \in QueueIds : Renew(d, L).items[q].cont = d.items[q].cont
<1>1. /\ d \in Document /\ d.leases \in [Leases -> Lease]
      /\ d.items \in [QueueIds -> Item]
  BY DEF Inv, Document
<1> DEFINE nl(l) == [d.leases[l] EXCEPT !.ttl = LeaseTTL]
           ls == [l \in Leases |->
                    IF l \in L /\ d.leases[l].live THEN nl(l) ELSE d.leases[l]]
           ni(q) == [d.items[q] EXCEPT !.claim = ClaimTTL]
           is == [q \in QueueIds |-> IF d.items[q].lease \in L THEN ni(q) ELSE d.items[q]]
<1> SUFFICES ASSUME NEW e, e = [d EXCEPT !.leases = ls, !.items = is]
             PROVE  /\ Inv(e)
                    /\ \A l \in Leases : e.leases[l].live = d.leases[l].live
                    /\ \A q \in QueueIds : e.items[q].cont = d.items[q].cont
  BY DEF Renew
<1>2. LeaseTTL \in 0..LeaseTTL /\ ClaimTTL \in 0..ClaimTTL
  BY BoundsAssumption
<1>3. ASSUME NEW l \in Leases
      PROVE  nl(l) \in Lease /\ nl(l).live = d.leases[l].live /\ nl(l).epoch = d.leases[l].epoch
  <2>1. d.leases[l] \in Lease
    BY <1>1
  <2> QED
    BY <1>2, <2>1 DEF Lease
<1> HIDE DEF nl
<1>4. /\ ls \in [Leases -> Lease]
      /\ \A k \in Leases : ls[k].live = d.leases[k].live /\ ls[k].epoch = d.leases[k].epoch
  BY <1>1, <1>3
<1>5. ASSUME NEW q \in QueueIds
      PROVE  /\ ni(q) \in Item /\ ni(q).status = d.items[q].status
             /\ ni(q).lease = d.items[q].lease
             /\ ni(q).contact = d.items[q].contact /\ ni(q).body = d.items[q].body
             /\ ni(q).cont = d.items[q].cont /\ ni(q).epoch = d.items[q].epoch
  <2>1. d.items[q] \in Item
    BY <1>1
  <2>2. ni(q) \in Item
    BY <1>2, <2>1 DEF Item
  <2> QED
    BY <2>1, <2>2 DEF Item
<1> HIDE DEF ni
<1>6. /\ is \in [QueueIds -> Item]
      /\ \A q \in QueueIds :
            /\ is[q].status = d.items[q].status /\ is[q].lease = d.items[q].lease
            /\ is[q].contact = d.items[q].contact /\ is[q].body = d.items[q].body
            /\ is[q].cont = d.items[q].cont /\ is[q].epoch = d.items[q].epoch
  BY <1>1, <1>5
<1> HIDE DEF ls, is
<1>7. e \in Document
  BY <1>1, <1>4, <1>6 DEF Document
<1>8. /\ e.phase = d.phase /\ e.epoch = d.epoch /\ e.safe = d.safe
      /\ e.leases = ls /\ e.items = is /\ e.receipts = d.receipts
  BY <1>1 DEF Document
<1>9. FenceIn(e) /\ QuiescentIn(e)
  BY <1>4, <1>6, <1>8 DEF Inv, FenceIn, QuiescentIn
<1>10. BookkeepingIn(e) /\ NoTurnIn(e) /\ OwnerIn(e)
  BY <1>4, <1>6, <1>8 DEF Inv, BookkeepingIn, NoTurnIn, OwnerIn
<1>11. ReceiptIn(e)
  BY <1>6, <1>8 DEF Inv, ReceiptIn, QueueIds
<1> QED
  BY <1>4, <1>6, <1>7, <1>8, <1>9, <1>10, <1>11 DEF Inv

\* heartbeat is the renewal of one lease.
LEMMA HeartbeatIsRenewal ==
  ASSUME NEW d, Inv(d), NEW l \in Leases, Heartbeat(d, l)
  PROVE  doc' = d \/ doc' = Renew(d, {l})
<1>1. /\ d.leases \in [Leases -> Lease] /\ d.items \in [QueueIds -> Item]
  BY DEF Inv, Document
<1>2. CASE d.leases[l].live
  <2> DEFINE nl == [d.leases[l] EXCEPT !.ttl = LeaseTTL]
             ls == [d.leases EXCEPT ![l] = nl]
             ms == [k \in Leases |-> IF k \in {l} /\ d.leases[k].live
                                     THEN [d.leases[k] EXCEPT !.ttl = LeaseTTL]
                                     ELSE d.leases[k]]
             is == [q \in QueueIds |-> IF d.items[q].lease = l
                                       THEN [d.items[q] EXCEPT !.claim = ClaimTTL]
                                       ELSE d.items[q]]
             js == [q \in QueueIds |-> IF d.items[q].lease \in {l}
                                       THEN [d.items[q] EXCEPT !.claim = ClaimTTL]
                                       ELSE d.items[q]]
  <2>1. ls = ms
    BY <1>1, <1>2
  <2>2. is = js
    OBVIOUS
  <2>3. doc' = [d EXCEPT !.leases = ls, !.items = is]
    BY <1>1, <1>2 DEF Heartbeat
  <2>4. Renew(d, {l}) = [d EXCEPT !.leases = ms, !.items = js]
    BY DEF Renew
  <2> QED
    BY <2>1, <2>2, <2>3, <2>4
<1> QED
  BY <1>2 DEF Heartbeat

\* heartbeat renews one lease.
LEMMA HeartbeatInv ==
  ASSUME NEW d, Inv(d), NEW l \in Leases, Heartbeat(d, l)
  PROVE  Inv(doc')
BY HeartbeatIsRenewal, RenewInv

\* acquire_activity and adopt_prefence_activity
LEMMA AcquireInv ==
  ASSUME NEW d, Inv(d), NEW l \in Leases, Acquire(d, l)
  PROVE  Inv(doc')
<1>1. d.epoch \in Nat /\ d.leases \in [Leases -> Lease]
  BY DEF Inv, Document
<1>2. ASSUME NEW parent \in Leases \cup {None}, AcquireActivity(d, parent, l)
      PROVE  Inv(doc')
  <2>1. CASE d.phase = "available"
    BY <1>1, <1>2, <2>1, NewLeaseInv DEF AcquireActivity
  <2>2. CASE d.phase # "available" /\ \E p \in Leases : /\ p = parent /\ d.leases[p].live
                                                        /\ d.leases[p].epoch < d.epoch
    <3>1. PICK p \in Leases : p = parent /\ d.leases[p].epoch < d.epoch
      BY <2>2
    <3>2. d.leases[p].epoch \in Nat
      BY <1>1 DEF Lease
    <3>3. doc' = NewLease(d, l, d.leases[p].epoch)
      BY <1>2, <2>2, <3>1 DEF AcquireActivity
    <3> QED
      BY <1>1, <3>1, <3>2, <3>3, NewLeaseInv
  <2> QED
    BY <1>2, <2>1, <2>2 DEF AcquireActivity
<1>3. ASSUME NEW prefence, AdoptPrefence(d, l, prefence)
      PROVE  Inv(doc')
  <2>1. CASE d.phase = "available"
    BY <1>1, <1>3, <2>1, NewLeaseInv DEF AdoptPrefence, PriorEpoch
  <2>2. CASE d.phase # "available"
    <3>1. d.epoch > 0
      BY <2>2 DEF Inv, BookkeepingIn
    <3>2. doc' = d \/ doc' = NewLease(d, l, d.epoch - 1)
      BY <1>3, <2>2, <3>1 DEF AdoptPrefence, PriorEpoch
    <3>3. d.epoch - 1 \in Nat /\ d.epoch - 1 <= d.epoch /\ d.epoch - 1 < d.epoch
      BY <1>1, <3>1
    <3> QED
      BY <3>2, <3>3, NewLeaseInv
  <2> QED
    BY <2>1, <2>2
<1> QED
  BY <1>2, <1>3 DEF Acquire

\* complete_roots, retry_roots and defer_roots
LEMMA SettleRoots ==
  ASSUME NEW d, Inv(d), NEW A,
         CompleteRoots(d, A) \/ RetryRoots(d, A) \/ DeferRoots(d, A)
  PROVE  SettledIn(d, doc')
<1>1. /\ d \in Document /\ d.leases \in [Leases -> Lease]
      /\ d.items \in [QueueIds -> Item]
  BY DEF Inv, Document
<1>2. /\ DropHeldLeases(d, A) \in [Leases -> Lease]
      /\ \A l \in Leases : \/ DropHeldLeases(d, A)[l] = d.leases[l]
                           \/ DropHeldLeases(d, A)[l] = NoLease
  BY <1>1, BoundsAssumption DEF DropHeldLeases, Lease, NoLease
<1>3. \A q \in Held(d, A) : d.items[q].status = "claimed" /\ q \in QueueIds
  BY DEF Held, Claimed
<1>4. ASSUME NEW is \in [QueueIds -> Item],
             \A q \in QueueIds :
                \/ is[q] = NoItem
                \/ /\ d.items[q].status = "claimed" /\ is[q].status = "pending"
                   /\ is[q].lease = None /\ Same(is[q], d.items[q])
                \/ /\ is[q].status = d.items[q].status /\ is[q].lease = d.items[q].lease
                   /\ Same(is[q], d.items[q])
      PROVE  SettledIn(d, [d EXCEPT !.leases = DropHeldLeases(d, A), !.items = is])
  <2> SUFFICES ASSUME NEW e, e = [d EXCEPT !.leases = DropHeldLeases(d, A), !.items = is]
               PROVE  SettledIn(d, e)
    OBVIOUS
  <2>1. e \in Document
    BY <1>1, <1>2 DEF Document
  <2>2. /\ e.phase = d.phase /\ e.epoch = d.epoch /\ e.safe = d.safe
        /\ e.leases = DropHeldLeases(d, A) /\ e.items = is /\ e.receipts = d.receipts
    BY <1>1 DEF Document
  <2> QED
    BY <1>2, <1>4, <2>1, <2>2 DEF SettledIn
<1>5. ASSUME CompleteRoots(d, A) PROVE SettledIn(d, doc')
  <2> DEFINE cut(q) == [d.items[q] EXCEPT !.ahead = d.items[q].ahead \ Held(d, A)]
             is == [q \in QueueIds |-> IF q \in Held(d, A) THEN NoItem ELSE cut(q)]
  <2>1. NoItem \in Item
    BY BoundsAssumption DEF NoItem, Item
  <2>2. ASSUME NEW q \in QueueIds
        PROVE  /\ cut(q) \in Item /\ cut(q).status = d.items[q].status
               /\ cut(q).lease = d.items[q].lease /\ Same(cut(q), d.items[q])
    <3>1. d.items[q] \in Item
      BY <1>1
    <3>2. d.items[q].ahead \ Held(d, A) \in SUBSET QueueIds
      BY <3>1 DEF Item
    <3>3. cut(q) \in Item
      BY <3>1, <3>2 DEF Item
    <3> QED
      BY <3>1, <3>3 DEF Item, Same
  <2> HIDE DEF cut
  <2>3. is \in [QueueIds -> Item]
    BY <2>1, <2>2
  <2>4. \A q \in QueueIds :
            \/ is[q] = NoItem
            \/ /\ is[q].status = d.items[q].status /\ is[q].lease = d.items[q].lease
               /\ Same(is[q], d.items[q])
    BY <2>2
  <2>5. doc' = [d EXCEPT !.leases = DropHeldLeases(d, A), !.items = is]
    BY <1>5 DEF CompleteRoots, cut
  <2> HIDE DEF is
  <2> QED
    BY <1>4, <2>3, <2>4, <2>5
<1>6. ASSUME RetryRoots(d, A) PROVE SettledIn(d, doc')
  <2> DEFINE back(q) == [Unclaimed(d.items[q]) EXCEPT
                            !.attempts = Smaller(d.items[q].attempts, MaxDoublings) + 1,
                            !.wait = RetryBackoff(d.items[q].attempts + 1)]
             is == [q \in QueueIds |-> IF q \notin Held(d, A) THEN d.items[q] ELSE back(q)]
  <2>1. ASSUME NEW q \in QueueIds
        PROVE  /\ back(q) \in Item /\ back(q).status = "pending"
               /\ back(q).lease = None /\ Same(back(q), d.items[q])
    <3>1. d.items[q] \in Item /\ d.items[q].attempts \in Nat
      BY <1>1 DEF Item
    <3>2. /\ Smaller(d.items[q].attempts, MaxDoublings) + 1 \in Nat
          /\ RetryBackoff(d.items[q].attempts + 1) \in Int
      BY <3>1, BackoffType, BoundsAssumption DEF Smaller
    <3> DEFINE u == Unclaimed(d.items[q])
    <3>3. /\ u \in Item /\ u.status = "pending" /\ u.lease = None /\ Same(u, d.items[q])
      BY <3>1, UnclaimedType DEF Same
    <3> HIDE DEF u
    <3>4. /\ back(q) \in Item /\ back(q).status = u.status /\ back(q).lease = u.lease
          /\ Same(back(q), u)
      <4>1. back(q) = [u EXCEPT !.attempts = Smaller(d.items[q].attempts, MaxDoublings) + 1,
                                !.wait = RetryBackoff(d.items[q].attempts + 1)]
        BY DEF u
      <4> HIDE DEF back
      <4>2. back(q) \in Item
        BY <3>2, <3>3, <4>1 DEF Item
      <4> QED
        BY <3>3, <4>1, <4>2 DEF Item, Same
    <3> QED
      BY <3>3, <3>4 DEF Same
  <2> HIDE DEF back
  <2>2. is \in [QueueIds -> Item]
    BY <1>1, <2>1
  <2>3. \A q \in QueueIds :
            \/ /\ d.items[q].status = "claimed" /\ is[q].status = "pending"
               /\ is[q].lease = None /\ Same(is[q], d.items[q])
            \/ /\ is[q].status = d.items[q].status /\ is[q].lease = d.items[q].lease
               /\ Same(is[q], d.items[q])
    BY <1>3, <2>1 DEF Same
  <2>4. doc' = [d EXCEPT !.leases = DropHeldLeases(d, A), !.items = is]
    BY <1>6 DEF RetryRoots, back
  <2> HIDE DEF is
  <2> QED
    BY <1>4, <2>2, <2>3, <2>4
<1>7. ASSUME DeferRoots(d, A) PROVE SettledIn(d, doc')
  <2> DEFINE is == [q \in QueueIds |->
                        IF q \in Held(d, A) THEN Unclaimed(d.items[q]) ELSE d.items[q]]
  <2>1. is \in [QueueIds -> Item]
    BY <1>1, UnclaimedType
  <2>2. \A q \in QueueIds :
            \/ /\ d.items[q].status = "claimed" /\ is[q].status = "pending"
               /\ is[q].lease = None /\ Same(is[q], d.items[q])
            \/ /\ is[q].status = d.items[q].status /\ is[q].lease = d.items[q].lease
               /\ Same(is[q], d.items[q])
    BY <1>1, <1>3, UnclaimedType DEF Same
  <2>3. doc' = [d EXCEPT !.leases = DropHeldLeases(d, A), !.items = is]
    BY <1>7 DEF DeferRoots
  <2> HIDE DEF is
  <2> QED
    BY <1>4, <2>1, <2>2, <2>3
<1> QED
  BY <1>5, <1>6, <1>7

\* complete_roots, retry_roots and defer_roots
LEMMA SettleRootsInv ==
  ASSUME NEW d, Inv(d), NEW A,
         CompleteRoots(d, A) \/ RetryRoots(d, A) \/ DeferRoots(d, A)
  PROVE  Inv(doc')
BY SettleRoots, SettleInv

\* claim_notices and finish_notice
LEMMA NoticeActionsInv ==
  ASSUME NEW d, Inv(d),
         ClaimNotices(d) \/ \E n \in Mids \X Contacts, dlv \in BOOLEAN : FinishNotice(d, n, dlv)
  PROVE  Inv(doc')
<1>1. d \in Document /\ d.notices \in [Mids \X Contacts -> Notice]
  BY DEF Inv, Document
<1>2. 0 \in 0..NoticeTTL /\ NoticeTTL \in 0..NoticeTTL
  BY BoundsAssumption
<1>3. ASSUME NEW n \in Notice, NEW s \in {"pending", "claimed", "delivered"},
             NEW t \in 0..NoticeTTL
      PROVE  [n EXCEPT !.status = s, !.ttl = t] \in Notice
  BY DEF Notice
<1>4. ASSUME ClaimNotices(d) PROVE Inv(doc')
  <2> DEFINE ns == [n \in DOMAIN d.notices |->
                        IF d.notices[n].status = "pending"
                        THEN [d.notices[n] EXCEPT !.status = "claimed", !.ttl = NoticeTTL]
                        ELSE d.notices[n]]
  <2>1. ns \in [Mids \X Contacts -> Notice]
    BY <1>1, <1>2, <1>3
  <2>2. doc' = [d EXCEPT !.notices = ns]
    BY <1>4 DEF ClaimNotices
  <2> HIDE DEF ns
  <2> QED
    BY <2>1, <2>2, NoticesInv
<1>5. ASSUME NEW n \in Mids \X Contacts, NEW dlv \in BOOLEAN, FinishNotice(d, n, dlv)
      PROVE  Inv(doc')
  <2> DEFINE s == IF dlv THEN "delivered" ELSE "pending"
             nn == [d.notices[n] EXCEPT !.status = s, !.ttl = 0]
             ns == [d.notices EXCEPT ![n] = nn]
  <2>1. CASE doc' = d
    BY <2>1
  <2>2. CASE doc' # d
    <3>1. doc' = [d EXCEPT !.notices[n].status = s, !.notices[n].ttl = 0]
      BY <1>5, <2>2 DEF FinishNotice
    <3>2. doc' = [d EXCEPT !.notices = ns]
      BY <1>1, <3>1 DEF Document, Notice
    <3>3. nn \in Notice
      BY <1>1, <1>2, <1>3
    <3> HIDE DEF nn
    <3>4. ns \in [Mids \X Contacts -> Notice]
      BY <1>1, <3>3
    <3> HIDE DEF ns
    <3> QED
      BY <3>2, <3>4, NoticesInv
  <2> QED
    BY <2>1, <2>2
<1> QED
  BY <1>4, <1>5

\* acknowledge_runtime_quiescent: on a pruned document no lease means no claim.
LEMMA AcknowledgeInv ==
  ASSUME NEW d, Inv(d), ClaimsAreLeased(d), NEW n, NEW secured \in BOOLEAN,
         Acknowledge(d, n, secured)
  PROVE  Inv(doc')
<1> DEFINE sf == /\ d.phase = "draining" /\ d.epoch = n /\ LiveLeases(d) = {}
                 /\ PendingContinuations(d) = {} /\ secured
<1>1. d \in Document
  BY DEF Inv
<1> SUFFICES ASSUME NEW e, e = [d EXCEPT !.safe = sf] PROVE Inv(e)
  BY DEF Acknowledge, Quiescent
<1>2. sf \in BOOLEAN
  OBVIOUS
<1>3. sf => /\ d.phase = "draining" /\ \A l \in Leases : ~d.leases[l].live
            /\ \A q \in QueueIds : d.items[q].status = "pending" => ~d.items[q].cont
  BY DEF LiveLeases, PendingContinuations
<1> HIDE DEF sf
<1>4. e \in Document
  BY <1>1, <1>2 DEF Document
<1>5. /\ e.phase = d.phase /\ e.epoch = d.epoch /\ e.safe = sf
      /\ e.leases = d.leases /\ e.items = d.items /\ e.receipts = d.receipts
  BY <1>1 DEF Document
<1>6. QuiescentIn(e)
  BY <1>3, <1>5 DEF QuiescentIn, ClaimsAreLeased
<1> QED
  BY <1>4, <1>5, <1>6 DEF Inv, FenceIn, NoTurnIn, OwnerIn, BookkeepingIn, ReceiptIn

\* The passing of time lowers countdowns and nothing else.
LEMMA AgeInv ==
  ASSUME NEW d, Inv(d)
  PROVE  /\ Inv(Age(d))
         /\ \A l \in Leases : Age(d).leases[l].live = d.leases[l].live
         /\ \A q \in QueueIds : Age(d).items[q].cont = d.items[q].cont
<1>1. /\ d \in Document /\ d.leases \in [Leases -> Lease] /\ d.items \in [QueueIds -> Item]
      /\ d.receipts \in [IngressIds \cup ContIds -> Receipt]
      /\ d.notices \in [Mids \X Contacts -> Notice]
      /\ d.deadline \in Nat \cup {NoDeadline}
  BY DEF Inv, Document
<1>2. \A n \in Nat : \A t \in 0..n : Less(t) \in 0..n /\ (Less(t) > 0 => t > 0)
  BY DEF Less
<1>3. /\ \A t \in Int : Less(t) \in Int
      /\ Less(d.deadline) \in Nat \cup {NoDeadline}
  BY <1>1 DEF Less, NoDeadline
<1>4. LeaseTTL \in Nat /\ ClaimTTL \in Nat /\ ReceiptTTL \in Nat /\ NoticeTTL \in Nat
  BY BoundsAssumption
<1> DEFINE nl(l) == [d.leases[l] EXCEPT !.ttl = Less(d.leases[l].ttl)]
           ni(q) == [d.items[q] EXCEPT !.claim = Less(d.items[q].claim),
                                       !.wait = Less(d.items[q].wait),
                                       !.dated = Less(d.items[q].dated)]
           nr(q) == [d.receipts[q] EXCEPT !.ttl = Less(d.receipts[q].ttl)]
           nn(n) == [d.notices[n] EXCEPT !.ttl = Less(d.notices[n].ttl)]
           ls == [l \in Leases |-> nl(l)]
           is == [q \in QueueIds |-> ni(q)]
           rs == [q \in DOMAIN d.receipts |-> nr(q)]
           ns == [n \in DOMAIN d.notices |-> nn(n)]
<1>5. ASSUME NEW l \in Leases
      PROVE  /\ nl(l) \in Lease /\ nl(l).live = d.leases[l].live
             /\ nl(l).epoch = d.leases[l].epoch
  <2>1. d.leases[l] \in Lease /\ Less(d.leases[l].ttl) \in 0..LeaseTTL
    BY <1>1, <1>2, <1>4 DEF Lease
  <2> QED
    BY <2>1 DEF Lease
<1>6. ASSUME NEW q \in QueueIds
      PROVE  /\ ni(q) \in Item /\ ni(q).status = d.items[q].status
             /\ ni(q).lease = d.items[q].lease /\ Same(ni(q), d.items[q])
  <2>1. /\ d.items[q] \in Item /\ Less(d.items[q].claim) \in 0..ClaimTTL
        /\ Less(d.items[q].wait) \in Int /\ Less(d.items[q].dated) \in 0..ReceiptTTL
    BY <1>1, <1>2, <1>3, <1>4 DEF Item
  <2>2. ni(q) \in Item
    BY <2>1 DEF Item
  <2> QED
    BY <2>1, <2>2 DEF Item, Same
<1>7. ASSUME NEW q \in IngressIds \cup ContIds
      PROVE  /\ nr(q) \in Receipt /\ (nr(q).ttl > 0 => d.receipts[q].ttl > 0)
             /\ nr(q).contact = d.receipts[q].contact /\ nr(q).body = d.receipts[q].body
  <2>1. /\ d.receipts[q] \in Receipt /\ Less(d.receipts[q].ttl) \in 0..ReceiptTTL
        /\ Less(d.receipts[q].ttl) > 0 => d.receipts[q].ttl > 0
    BY <1>1, <1>2, <1>4 DEF Receipt
  <2> QED
    BY <2>1 DEF Receipt
<1>8. ASSUME NEW n \in Mids \X Contacts
      PROVE  nn(n) \in Notice
  <2>1. d.notices[n] \in Notice /\ Less(d.notices[n].ttl) \in 0..NoticeTTL
    BY <1>1, <1>2, <1>4 DEF Notice
  <2> QED
    BY <2>1 DEF Notice
<1> SUFFICES ASSUME NEW e,
                    e = [d EXCEPT !.deadline = Less(d.deadline), !.leases = ls,
                                  !.items = is, !.receipts = rs, !.notices = ns]
             PROVE  /\ Inv(e)
                    /\ \A l \in Leases : e.leases[l].live = d.leases[l].live
                    /\ \A q \in QueueIds : e.items[q].cont = d.items[q].cont
  BY DEF Age
<1> HIDE DEF nl, ni, nr, nn
<1>9. /\ ls \in [Leases -> Lease] /\ is \in [QueueIds -> Item]
      /\ rs \in [IngressIds \cup ContIds -> Receipt]
      /\ ns \in [Mids \X Contacts -> Notice]
  BY <1>1, <1>5, <1>6, <1>7, <1>8
<1>10. /\ \A l \in Leases : ls[l].live = d.leases[l].live /\ ls[l].epoch = d.leases[l].epoch
       /\ \A q \in QueueIds : /\ is[q].status = d.items[q].status
                              /\ is[q].lease = d.items[q].lease /\ Same(is[q], d.items[q])
       /\ \A q \in IngressIds \cup ContIds :
            /\ rs[q].ttl > 0 => d.receipts[q].ttl > 0
            /\ rs[q].contact = d.receipts[q].contact /\ rs[q].body = d.receipts[q].body
  BY <1>1, <1>5, <1>6, <1>7
<1> HIDE DEF ls, is, rs, ns
<1>11. e \in Document
  BY <1>1, <1>3, <1>9 DEF Document
<1>12. /\ e.phase = d.phase /\ e.epoch = d.epoch /\ e.safe = d.safe
       /\ e.leases = ls /\ e.items = is /\ e.receipts = rs
  BY <1>1 DEF Document
<1>13. FenceIn(e) /\ QuiescentIn(e)
  BY <1>10, <1>12 DEF Inv, FenceIn, QuiescentIn, Same
<1>14. BookkeepingIn(e) /\ NoTurnIn(e) /\ OwnerIn(e)
  BY <1>10, <1>12 DEF Inv, BookkeepingIn, NoTurnIn, OwnerIn, Same
<1>15. ReceiptIn(e)
  BY <1>10, <1>12 DEF Inv, ReceiptIn, QueueIds, Same
<1> QED
  BY <1>10, <1>11, <1>12, <1>13, <1>14, <1>15 DEF Inv, Same

-----------------------------------------------------------------------------
(* The theorems *)

\* Every transaction of MaintenanceCoordinator and every tick keeps Inv.
LEMMA NextInv ==
  ASSUME Inv(doc), [Next]_doc PROVE Inv(doc)'
<1> SUFFICES Inv(doc')
  BY DEF Inv, FenceIn, QuiescentIn, NoTurnIn, OwnerIn, BookkeepingIn, ReceiptIn
<1>1. CASE UNCHANGED doc
  BY <1>1
<1>2. CASE Tick
  BY <1>2, AgeInv DEF Tick
<1>3. CASE Transaction
  <2> SUFFICES ASSUME NEW d, Inv(d), ClaimsAreLeased(d), Updater(d) \/ Runtime(d)
               PROVE  Inv(doc')
    BY <1>3, PruneInv DEF Transaction
  <2>1. CASE Updater(d)
    BY <2>1, UpdaterInv
  <2>2. CASE Runtime(d)
    <3>1. ASSUME NEW c \in Contacts, NEW b \in Bodies, NEW q \in RootIds, NEW admit \in BOOLEAN,
                 EnqueueRoot(d, q, c, b, admit)
          PROVE  Inv(doc')
      BY <3>1, EnqueueRootInv
    <3>2. ASSUME NEW c \in Contacts, NEW b \in Bodies, NEW q \in IngressIds,
                 EnqueueIngress(d, q, c, b)
          PROVE  Inv(doc')
      BY <3>2, EnqueueIngressInv
    <3>3. ASSUME NEW c \in Contacts, NEW b \in Bodies, NEW q \in ContIds, NEW l \in Leases,
                 EnqueueContinuation(d, q, c, b, l)
          PROVE  Inv(doc')
      BY <3>3, EnqueueContinuationInv
    <3>4. ASSUME NEW x, NEW n, ClaimPendingRoots(d, x, n) PROVE Inv(doc')
      BY <3>4, ClaimPendingRootsInv
    <3>5. ASSUME NEW l \in LiveLeases(d), Heartbeat(d, l) \/ Release(d, l) PROVE Inv(doc')
      BY <3>5, HeartbeatInv, DropLeaseInv DEF Release, LiveLeases
    <3>6. ASSUME NEW l \in FreshLeases(d), Acquire(d, l) PROVE Inv(doc')
      BY <3>6, AcquireInv DEF FreshLeases
    <3>7. ASSUME NEW A, CompleteRoots(d, A) \/ RetryRoots(d, A) \/ DeferRoots(d, A)
          PROVE  Inv(doc')
      BY <3>7, SettleRootsInv
    <3>8. CASE ClaimNotices(d) \/ \E n \in Mids \X Contacts, dlv \in BOOLEAN : FinishNotice(d, n, dlv)
      BY <3>8, NoticeActionsInv
    <3>9. ASSUME NEW n, NEW secured \in BOOLEAN, Acknowledge(d, n, secured) PROVE Inv(doc')
      BY <3>9, AcknowledgeInv
    <3>10. CASE Poll(d)
      BY <3>10 DEF Poll
    <3> QED
      BY <2>2, <3>1, <3>2, <3>3, <3>4, <3>5, <3>6, <3>7, <3>8, <3>9, <3>10 DEF Runtime
  <2> QED
    BY <2>1, <2>2
<1> QED
  BY <1>1, <1>2, <1>3 DEF Next

\* The inductive invariant holds in every reachable document.
THEOREM Invariance == Spec => []Inv(doc)
<1>1. Init => Inv(doc)
  BY InitInv DEF Init
<1>2. Inv(doc) /\ [Next]_doc => Inv(doc)'
  BY NextInv
<1> QED
  BY <1>1, <1>2, PTL DEF Spec

\* For any constants, the document of MaintenanceCoordinator keeps its shape.
THEOREM TypeCorrect == Spec => []TypeOK
<1>1. Inv(doc) => TypeOK
  BY DEF Inv, TypeOK
<1> QED
  BY <1>1, Invariance, PTL

\* For any constants, no lease and no queued continuation is newer than the
\* fence of request_drain.
THEOREM Fenced == Spec => []FenceHolds
<1>1. Inv(doc) => FenceHolds
  BY DEF Inv, FenceHolds
<1> QED
  BY <1>1, Invariance, PTL

\* For any constants, safe_to_stop is true only in a quiescent document.
THEOREM SafeIsQuiescent == Spec => []SafeMeansQuiescent
<1>1. Inv(doc) => SafeMeansQuiescent
  BY DEF Inv, SafeMeansQuiescent
<1> QED
  BY <1>1, Invariance, PTL

\* For any constants, no root is claimed while the code is being replaced.
THEOREM UpdateIsExclusive == Spec => []NoTurnDuringUpdate
<1>1. Inv(doc) => NoTurnDuringUpdate
  BY DEF Inv, NoTurnDuringUpdate
<1> QED
  BY <1>1, Invariance, PTL

\* For any constants, a lease backs the claim of at most one root.
THEOREM LeasesAreExclusive == Spec => []LeaseOwnsOneRoot
<1>1. Inv(doc) => LeaseOwnsOneRoot
  BY DEF Inv, LeaseOwnsOneRoot
<1> QED
  BY <1>1, Invariance, PTL

\* For any constants, a receipt agrees with the entry it was issued for.
THEOREM ReceiptsAgree == Spec => []ReceiptAgrees
<1>1. Inv(doc) => ReceiptAgrees
  BY DEF Inv, ReceiptAgrees
<1> QED
  BY <1>1, Invariance, PTL

-----------------------------------------------------------------------------
(* What a transaction does to the queue *)

Present(d, q) == d.items[q].status # "absent"

\* e has the entries of d, each for the contact and at the place it had in d,
\* and may have new ones in Q, behind all there were.
Grown(d, e, Q) ==
    \A q \in QueueIds :
        /\ Present(d, q) => /\ Present(e, q)
                            /\ e.items[q].contact = d.items[q].contact
                            /\ e.items[q].ahead = d.items[q].ahead
        /\ ~Present(d, q) /\ Present(e, q) => q \in Q /\ e.items[q].ahead = Queued(d)

\* The entries are as they were.
LEMMA GrownBySame ==
  ASSUME NEW d, NEW e, NEW Q, e.items = d.items PROVE Grown(d, e, Q)
BY DEF Grown, Present

\* The entries are rewritten, each with its status, contact and place.
LEMMA GrownByParts ==
  ASSUME NEW d, d \in Document, NEW Q, NEW e, NEW is, e.items = is,
         \A q \in QueueIds : /\ is[q].status = "absent" <=> d.items[q].status = "absent"
                             /\ is[q].contact = d.items[q].contact
                             /\ is[q].ahead = d.items[q].ahead
  PROVE  Grown(d, e, Q)
BY DEF Grown, Present

\* _prune: a lease that is left is the one there was, and so is a claim; no
\* entry goes.
LEMMA PruneKeeps ==
  ASSUME NEW d0, Inv(d0), NEW d, d = Prune(d0)
  PROVE  /\ \A l \in Leases : d.leases[l].live => /\ d0.leases[l].live
                                                 /\ d.leases[l] = d0.leases[l]
         /\ \A q \in QueueIds :
                /\ d.items[q].status = "absent" <=> d0.items[q].status = "absent"
                /\ d.items[q].status = "claimed" =>
                        /\ d0.items[q].status = "claimed"
                        /\ d.items[q].lease = d0.items[q].lease
                /\ d.items[q].cont = d0.items[q].cont
         /\ d.epoch = d0.epoch
         /\ d.phase \in {d0.phase, "available"}
         /\ d.safe => d0.safe
         /\ Grown(d0, d, {})
<1> DEFINE dc == CancelExpiredDrain(d0)
<1>1. d0 \in Document /\ Inv(dc)
  BY CancelExpiredInv DEF Inv
<1>2. /\ dc.leases = d0.leases /\ dc.items = d0.items /\ dc.epoch = d0.epoch
      /\ dc.phase \in {d0.phase, "available"} /\ (dc.safe => d0.safe)
  BY <1>1 DEF CancelExpiredDrain, Document
<1>3. dc \in Document
  BY <1>1 DEF Inv
<1> DEFINE ls == PruneLeases(dc.leases)
           is == PruneItems(dc.items, ls)
<1>4. /\ d.leases = ls /\ d.items = is /\ d.phase = dc.phase /\ d.epoch = dc.epoch
      /\ d.safe => dc.safe
  BY <1>3 DEF Prune, Document
<1> HIDE DEF dc
<1>5. /\ \A l \in Leases : ls[l].live => dc.leases[l].live /\ ls[l] = dc.leases[l]
      /\ \A q \in QueueIds :
            /\ is[q].status = "absent" <=> dc.items[q].status = "absent"
            /\ is[q].status = "claimed" => dc.items[q].status = "claimed"
            /\ is[q].contact = dc.items[q].contact
            /\ is[q].cont = dc.items[q].cont
            /\ is[q].lease # None => is[q].lease = dc.items[q].lease
            /\ is[q].lease # None <=> is[q].status = "claimed"
  BY <1>1, PrunePointwise
<1>6. \A q \in QueueIds : is[q].ahead = dc.items[q].ahead
  <2>1. dc.items \in [QueueIds -> Item]
    BY <1>3 DEF Document
  <2>2. ASSUME NEW i \in Item PROVE Unclaimed(i).ahead = i.ahead
    BY DEF Unclaimed, Item
  <2> HIDE DEF ls
  <2> QED
    BY <2>1, <2>2 DEF PruneItems
<1> HIDE DEF ls, is
<1>7. Grown(d0, d, {})
  BY <1>1, <1>2, <1>4, <1>5, <1>6, GrownByParts
<1> QED
  BY <1>2, <1>4, <1>5, <1>7

\* request_drain, cancel_drain and transition do not touch the queue.
LEMMA UpdaterGrown ==
  ASSUME NEW d, d \in Document, Updater(d)
  PROVE  doc'.items = d.items /\ doc'.leases = d.leases
BY DEF Updater, RequestDrain, CancelDrain, Transition, Document

\* root_queue.append
LEMMA AppendGrown ==
  ASSUME NEW d, d \in Document, NEW q \in QueueIds, ~Present(d, q),
         NEW c, NEW b, NEW k, NEW n
  PROVE  Grown(d, Append2Queue(d, q, c, b, k, n), {q})
<1>1. d.items \in [QueueIds -> Item]
  BY DEF Document
<1> SUFFICES ASSUME NEW e, e = Append2Queue(d, q, c, b, k, n) PROVE Grown(d, e, {q})
  OBVIOUS
<1>2. /\ e.items[q].status = "pending" /\ e.items[q].ahead = Queued(d)
      /\ \A r \in QueueIds \ {q} : e.items[r] = d.items[r]
  BY <1>1 DEF Append2Queue, Document
<1> QED
  BY <1>2 DEF Grown, Present

\* A claim is on an entry that was there: of the claimed entries, each has the
\* contact it had.
LEMMA ClaimGrown ==
  ASSUME NEW d, d \in Document, NEW K \in SUBSET QueueIds, NEW g \in [K -> Leases],
         \A q \in K : d.items[q].status = "pending"
  PROVE  /\ Grown(d, ClaimItems(d, K, g), {})
         /\ \A q \in QueueIds :
                /\ ClaimItems(d, K, g).items[q].contact = d.items[q].contact
                /\ ClaimItems(d, K, g).items[q].status =
                        IF q \in K THEN "claimed" ELSE d.items[q].status
<1> DEFINE ni(q) == [d.items[q] EXCEPT !.status = "claimed", !.lease = g[q],
                                       !.claim = ClaimTTL]
           is == [q \in QueueIds |-> IF q \in K THEN ni(q) ELSE d.items[q]]
<1>1. d.items \in [QueueIds -> Item]
  BY DEF Document
<1>2. ASSUME NEW q \in QueueIds
      PROVE  /\ ni(q).status = "claimed" /\ ni(q).contact = d.items[q].contact
             /\ ni(q).ahead = d.items[q].ahead
  BY <1>1 DEF Item
<1>3. ClaimItems(d, K, g).items = is
  BY DEF ClaimItems, Document
<1> HIDE DEF ni
<1>4. \A q \in QueueIds : /\ is[q].status = IF q \in K THEN "claimed" ELSE d.items[q].status
                          /\ is[q].contact = d.items[q].contact
                          /\ is[q].ahead = d.items[q].ahead
  BY <1>2
<1> HIDE DEF is
<1>5. \A q \in QueueIds : is[q].status = "absent" <=> d.items[q].status = "absent"
  BY <1>4
<1>6. Grown(d, ClaimItems(d, K, g), {})
  BY <1>3, <1>4, <1>5, GrownByParts
<1> QED
  BY <1>3, <1>4, <1>6

\* enqueue_root
LEMMA EnqueueRootGrown ==
  ASSUME NEW d, Inv(d), NEW q \in RootIds, NEW c \in Contacts, NEW b \in Bodies,
         NEW admit, EnqueueRoot(d, q, c, b, admit)
  PROVE  /\ Grown(d, doc', {q}) /\ ~Present(d, q) /\ Present(doc', q)
         /\ doc'.items[q].contact = c
         /\ doc'.items[q].status = "claimed" => d.phase = "available"
<1> DEFINE f == Append2Queue(d, q, c, b, FALSE, d.epoch)
<1>1. d \in Document /\ d.epoch \in Nat /\ q \in QueueIds /\ ~Present(d, q)
  BY DEF Inv, Document, QueueIds, EnqueueRoot, Present
<1>2. Appended(d, f, q, c, b, FALSE, d.epoch) /\ Grown(d, f, {q})
  BY <1>1, AppendType, AppendGrown
<1>3. Grown(d, EnsureNotice(f, c), {q}) /\ EnsureNotice(f, c).items = f.items
  BY <1>2 DEF EnsureNotice, Appended, Document, Grown, Present
<1>4. CASE doc' = EnsureNotice(f, c) \/ doc' = f
  BY <1>1, <1>2, <1>3, <1>4 DEF Appended, Present
<1>5. CASE d.phase = "available" /\ \E g \in Grants(d, {q}) : doc' = ClaimItems(f, {q}, g)
  <2>1. PICK g \in Grants(d, {q}) : doc' = ClaimItems(f, {q}, g)
    BY <1>5
  <2> HIDE DEF f
  <2>2. g \in [{q} -> Leases] /\ f \in Document /\ f.items[q].status = "pending"
    BY <1>2, <2>1 DEF Grants, FreshLeases, Appended
  <2>3. Grown(f, doc', {}) /\ doc'.items[q].contact = c /\ doc'.items[q].status = "claimed"
    <3> DEFINE K == {q}
    <3>1. K \in SUBSET QueueIds /\ g \in [K -> Leases] /\ f \in Document
      BY <1>1, <2>2
    <3>2. \A r \in K : f.items[r].status = "pending"
      BY <2>2
    <3>3. doc' = ClaimItems(f, K, g) /\ q \in K
      BY <2>1
    <3> HIDE DEF K
    <3>4. /\ Grown(f, ClaimItems(f, K, g), {})
          /\ \A r \in QueueIds :
                /\ ClaimItems(f, K, g).items[r].contact = f.items[r].contact
                /\ ClaimItems(f, K, g).items[r].status =
                        IF r \in K THEN "claimed" ELSE f.items[r].status
      BY ONLY <3>1, <3>2, ClaimGrown
    <3> QED
      BY <1>1, <1>2, <3>3, <3>4 DEF Appended
  <2> QED
    BY <1>1, <1>2, <1>5, <2>3 DEF Grown, Present
<1> QED
  BY <1>4, <1>5, <1>1, <1>2, <1>3 DEF EnqueueRoot, Appended

\* enqueue_ingress_root
LEMMA EnqueueIngressGrown ==
  ASSUME NEW d, Inv(d), NEW q \in IngressIds, NEW c \in Contacts, NEW b \in Bodies,
         EnqueueIngress(d, q, c, b)
  PROVE  Grown(d, doc', {q})
<1> DEFINE f == Append2Queue(d, q, c, b, FALSE, d.epoch)
           g == Receipted(f, q, c, b)
           h == [g EXCEPT !.safe = FALSE]
<1>1. /\ d \in Document /\ d.epoch \in Nat /\ q \in QueueIds
      /\ q \in IngressIds \cup ContIds /\ FALSE \in BOOLEAN
  BY DEF Inv, Document, QueueIds
<1>2. Receipted(d, q, c, b).items = d.items
  BY <1>1, ReceiptType DEF WithReceipt
<1>3. CASE doc'.items = d.items
  BY <1>3, GrownBySame
<1>4. CASE ~Present(d, q) /\ (doc' = h \/ doc' = EnsureNotice(h, c))
  <2>1. f \in Document /\ Grown(d, f, {q})
    <3>1. f \in Document
      <4>1. Appended(d, f, q, c, b, FALSE, d.epoch)
        BY <1>1, AppendType
      <4> QED
        BY <4>1 DEF Appended
    <3>2. Grown(d, f, {q})
      BY <1>1, <1>4, AppendGrown
    <3> QED
      BY <3>1, <3>2
  <2> HIDE DEF f
  <2>2. g \in Document /\ g.items = f.items
    BY <1>1, <2>1, ReceiptType DEF WithReceipt
  <2> HIDE DEF g
  <2>3. h \in Document /\ h.items = f.items
    BY <2>2 DEF Document
  <2> HIDE DEF h
  <2>4. EnsureNotice(h, c).items = f.items
    BY <2>3 DEF EnsureNotice, Document
  <2> QED
    BY <1>4, <2>1, <2>3, <2>4 DEF Grown, Present
<1> QED
  BY <1>2, <1>3, <1>4 DEF EnqueueIngress, Present

\* enqueue_continuation; without a live lease there is no new entry.
LEMMA EnqueueContinuationGrown ==
  ASSUME NEW d, Inv(d), NEW q \in ContIds, NEW c \in Contacts, NEW b \in Bodies,
         NEW l \in Leases, EnqueueContinuation(d, q, c, b, l)
  PROVE  /\ Grown(d, doc', {q})
         /\ ~d.leases[l].live => doc'.items = d.items /\ doc'.leases = d.leases
<1> DEFINE n == d.leases[l].epoch
           f == Append2Queue(d, q, c, b, TRUE, n)
           g == Receipted(f, q, c, b)
           h == [g EXCEPT !.safe = FALSE]
<1>1. /\ d \in Document /\ n \in Nat /\ q \in QueueIds
      /\ q \in IngressIds \cup ContIds /\ TRUE \in BOOLEAN
  BY DEF Inv, Document, QueueIds, Lease
<1> HIDE DEF n
<1>2. Receipted(d, q, c, b).items = d.items /\ Receipted(d, q, c, b).leases = d.leases
  BY <1>1, ReceiptType DEF WithReceipt
<1>3. CASE doc'.items = d.items /\ doc'.leases = d.leases
  BY <1>3, GrownBySame
<1>4. CASE ~Present(d, q) /\ d.leases[l].live /\ doc' = DropLease(h, l)
  <2>1. f \in Document /\ Grown(d, f, {q})
    <3>1. f \in Document
      <4>1. Appended(d, f, q, c, b, TRUE, n)
        BY <1>1, AppendType
      <4> QED
        BY <4>1 DEF Appended
    <3>2. Grown(d, f, {q})
      BY <1>1, <1>4, AppendGrown
    <3> QED
      BY <3>1, <3>2
  <2> HIDE DEF f
  <2>2. g \in Document /\ g.items = f.items
    BY <1>1, <2>1, ReceiptType DEF WithReceipt
  <2> HIDE DEF g
  <2>3. h \in Document /\ h.items = f.items
    BY <2>2 DEF Document
  <2> HIDE DEF h
  <2>4. DropLease(h, l).items = f.items
    BY <2>3 DEF DropLease, Document
  <2> QED
    BY <1>4, <2>1, <2>4 DEF Grown, Present
<1> QED
  BY <1>2, <1>3, <1>4 DEF EnqueueContinuation, Present, n

\* claim_pending_roots
LEMMA ClaimPendingGrown ==
  ASSUME NEW d, d \in Document, NEW excluded, NEW limit, ClaimPendingRoots(d, excluded, limit)
  PROVE  /\ Grown(d, doc', {})
         /\ \A q \in QueueIds :
                /\ doc'.items[q].contact = d.items[q].contact
                /\ doc'.items[q].status =
                    IF q \in ToClaim(d, excluded, limit) THEN "claimed" ELSE d.items[q].status
<1> DEFINE K == ToClaim(d, excluded, limit)
<1>1. PICK g \in Grants(d, K) : doc' = ClaimItems(d, K, g)
  BY DEF ClaimPendingRoots
<1>2. K \in SUBSET QueueIds /\ \A q \in K : d.items[q].status = "pending"
  BY DEF ToClaim, Claimable
<1> HIDE DEF K
<1>3. g \in [K -> Leases]
  BY <1>1 DEF Grants, FreshLeases
<1>4. /\ Grown(d, ClaimItems(d, K, g), {})
      /\ \A q \in QueueIds :
                /\ ClaimItems(d, K, g).items[q].contact = d.items[q].contact
                /\ ClaimItems(d, K, g).items[q].status =
                        IF q \in K THEN "claimed" ELSE d.items[q].status
  BY <1>2, <1>3, ClaimGrown
<1> QED
  BY <1>1, <1>4 DEF K

\* Only the claims of the queue are touched by heartbeats, and only countdowns
\* by the passing of time.
LEMMA RenewGrown ==
  ASSUME NEW d, d \in Document, NEW L
  PROVE  /\ Grown(d, Renew(d, L), {})
         /\ \A q \in QueueIds : Renew(d, L).items[q].status = d.items[q].status
<1> DEFINE ni(q) == [d.items[q] EXCEPT !.claim = ClaimTTL]
           is == [q \in QueueIds |-> IF d.items[q].lease \in L THEN ni(q) ELSE d.items[q]]
<1>1. d.items \in [QueueIds -> Item]
  BY DEF Document
<1>2. ASSUME NEW q \in QueueIds
      PROVE  /\ ni(q).status = d.items[q].status /\ ni(q).contact = d.items[q].contact
             /\ ni(q).ahead = d.items[q].ahead
  BY <1>1 DEF Item
<1>3. Renew(d, L).items = is
  BY DEF Renew, Document
<1> HIDE DEF ni
<1>4. \A q \in QueueIds : /\ is[q].status = d.items[q].status
                          /\ is[q].contact = d.items[q].contact
                          /\ is[q].ahead = d.items[q].ahead
  BY <1>2
<1> HIDE DEF is
<1> QED
  BY <1>3, <1>4, GrownByParts

\* heartbeat touches claims only.
LEMMA HeartbeatGrown ==
  ASSUME NEW d, Inv(d), NEW l \in Leases, Heartbeat(d, l)
  PROVE  Grown(d, doc', {})
<1>1. d \in Document /\ Grown(d, Renew(d, {l}), {}) /\ Grown(d, d, {})
  BY RenewGrown, GrownBySame DEF Inv
<1> QED
  BY <1>1, HeartbeatIsRenewal

\* Time takes no entry.
LEMMA AgeGrown ==
  ASSUME NEW d, d \in Document
  PROVE  /\ Grown(d, Age(d), {})
         /\ \A q \in QueueIds : Age(d).items[q].status = d.items[q].status
<1> DEFINE ni(q) == [d.items[q] EXCEPT !.claim = Less(d.items[q].claim),
                                       !.wait = Less(d.items[q].wait),
                                       !.dated = Less(d.items[q].dated)]
           is == [q \in QueueIds |-> ni(q)]
<1>1. d.items \in [QueueIds -> Item]
  BY DEF Document
<1>2. ASSUME NEW q \in QueueIds
      PROVE  /\ ni(q).status = d.items[q].status /\ ni(q).contact = d.items[q].contact
             /\ ni(q).ahead = d.items[q].ahead
  BY <1>1 DEF Item
<1>3. Age(d).items = is
  BY DEF Age, Document
<1> HIDE DEF ni
<1>4. \A q \in QueueIds : /\ is[q].status = d.items[q].status
                          /\ is[q].contact = d.items[q].contact
                          /\ is[q].ahead = d.items[q].ahead
  BY <1>2
<1> HIDE DEF is
<1> QED
  BY <1>3, <1>4, GrownByParts

\* acquire_activity, adopt_prefence_activity and release: leases only
LEMMA ActivityGrown ==
  ASSUME NEW d, d \in Document, NEW l,
         \/ Release(d, l) \/ Acquire(d, l) \/ \E x : AcquireActivity(d, x, l)
  PROVE  doc'.items = d.items
<1>1. \A k, n : NewLease(d, k, n).items = d.items /\ DropLease(d, k).items = d.items
  BY DEF NewLease, DropLease, Document
<1> QED
  BY <1>1 DEF Release, Acquire, AcquireActivity, AdoptPrefence

\* claim_notices, finish_notice, the attestation and a poll
LEMMA OthersGrown ==
  ASSUME NEW d, d \in Document,
         \/ ClaimNotices(d) \/ Poll(d)
         \/ \E n, dlv : FinishNotice(d, n, dlv) \/ Acknowledge(d, n, dlv)
  PROVE  doc'.items = d.items /\ doc'.leases = d.leases
BY DEF ClaimNotices, FinishNotice, Acknowledge, Poll, Document

\* retry_roots and defer_roots give claims back and take no entry.
LEMMA GivenBackGrown ==
  ASSUME NEW d, d \in Document, NEW A, RetryRoots(d, A) \/ DeferRoots(d, A)
  PROVE  Grown(d, doc', {})
<1>1. d.items \in [QueueIds -> Item] /\ \A q \in Held(d, A) : d.items[q].status # "absent"
  BY DEF Document, Held, Claimed
<1> DEFINE u(q) == Unclaimed(d.items[q])
           back(q) == [u(q) EXCEPT
                         !.attempts = Smaller(d.items[q].attempts, MaxDoublings) + 1,
                         !.wait = RetryBackoff(d.items[q].attempts + 1)]
<1>2. ASSUME NEW q \in QueueIds
      PROVE  /\ u(q) \in Item /\ u(q).status = "pending"
             /\ u(q).contact = d.items[q].contact /\ u(q).ahead = d.items[q].ahead
  <2>1. d.items[q] \in Item
    BY <1>1
  <2> QED
    BY <2>1, UnclaimedType DEF Unclaimed, Item
<1>3. ASSUME NEW q \in QueueIds
      PROVE  /\ back(q).status = "pending" /\ back(q).contact = d.items[q].contact
             /\ back(q).ahead = d.items[q].ahead
  <2> HIDE DEF u
  <2> QED
    BY <1>2 DEF Item
<1>4. \A q \in QueueIds : \/ doc'.items[q] = d.items[q]
                          \/ q \in Held(d, A) /\ doc'.items[q] \in {u(q), back(q)}
  <2>1. CASE RetryRoots(d, A)
    <3>1. doc'.items = [q \in QueueIds |-> IF q \notin Held(d, A) THEN d.items[q] ELSE back(q)]
      BY <2>1 DEF RetryRoots, Document
    <3> QED
      BY <3>1
  <2>2. CASE DeferRoots(d, A)
    <3>1. doc'.items = [q \in QueueIds |-> IF q \in Held(d, A) THEN u(q) ELSE d.items[q]]
      BY <2>2 DEF DeferRoots, Document
    <3> QED
      BY <3>1
  <2> QED
    BY <2>1, <2>2
<1> HIDE DEF u, back
<1> QED
  BY <1>1, <1>2, <1>3, <1>4 DEF Grown, Present

\* complete_roots takes the entries that are still held under the admission.
LEMMA CompleteTakesHeld ==
  ASSUME NEW d, d \in Document, NEW A, CompleteRoots(d, A)
  PROVE  /\ \A q \in Held(d, A) : ~Present(doc', q)
         /\ \A q \in QueueIds \ Held(d, A) :
                /\ doc'.items[q].status = d.items[q].status
                /\ doc'.items[q].contact = d.items[q].contact
                /\ doc'.items[q].ahead = d.items[q].ahead \ Held(d, A)
         /\ doc'.leases = DropHeldLeases(d, A)
<1>1. d.items \in [QueueIds -> Item] /\ Held(d, A) \subseteq QueueIds
  BY DEF Document, Held, Claimed
<1> DEFINE cut(q) == [d.items[q] EXCEPT !.ahead = d.items[q].ahead \ Held(d, A)]
<1>2. ASSUME NEW q \in QueueIds
      PROVE  /\ cut(q).status = d.items[q].status /\ cut(q).contact = d.items[q].contact
             /\ cut(q).ahead = d.items[q].ahead \ Held(d, A)
  BY <1>1 DEF Item
<1>3. /\ doc'.leases = DropHeldLeases(d, A)
      /\ \A q \in QueueIds : doc'.items[q] = IF q \in Held(d, A) THEN NoItem ELSE cut(q)
  BY DEF CompleteRoots, Document
<1> HIDE DEF cut
<1> QED
  BY <1>1, <1>2, <1>3 DEF Present, NoItem

\* Of two entries of the queue one is ahead of the other.
TotalIn(d) ==
    \A q, r \in QueueIds : Present(d, q) /\ Present(d, r) /\ q # r =>
        q \in d.items[r].ahead \/ r \in d.items[q].ahead

\* One new entry at the end keeps the queue in an order.
LEMMA GrownTotal ==
  ASSUME NEW d, TotalIn(d), NEW e, NEW Q, Grown(d, e, Q), \A x, y \in Q : x = y
  PROVE  TotalIn(e)
<1> SUFFICES ASSUME NEW q \in QueueIds, NEW r \in QueueIds,
                    Present(e, q), Present(e, r), q # r
             PROVE  q \in e.items[r].ahead \/ r \in e.items[q].ahead
  BY DEF TotalIn
<1>1. CASE Present(d, q) /\ Present(d, r)
  BY <1>1 DEF Grown, TotalIn
<1>2. CASE Present(d, q) /\ ~Present(d, r)
  BY <1>2 DEF Grown, Queued, Present
<1>3. CASE ~Present(d, q) /\ Present(d, r)
  BY <1>3 DEF Grown, Queued, Present
<1>4. CASE ~Present(d, q) /\ ~Present(d, r)
  BY <1>4 DEF Grown
<1> QED
  BY <1>1, <1>2, <1>3, <1>4

\* So does taking entries out.
LEMMA CompleteTotal ==
  ASSUME NEW d, d \in Document, TotalIn(d), NEW A, CompleteRoots(d, A)
  PROVE  TotalIn(doc')
<1> SUFFICES ASSUME NEW q \in QueueIds, NEW r \in QueueIds,
                    Present(doc', q), Present(doc', r), q # r
             PROVE  q \in doc'.items[r].ahead \/ r \in doc'.items[q].ahead
  BY DEF TotalIn
<1>1. q \notin Held(d, A) /\ r \notin Held(d, A)
  BY CompleteTakesHeld
<1>2. /\ doc'.items[q].ahead = d.items[q].ahead \ Held(d, A) /\ Present(d, q)
      /\ doc'.items[r].ahead = d.items[r].ahead \ Held(d, A) /\ Present(d, r)
  BY <1>1, CompleteTakesHeld DEF Present
<1> QED
  BY <1>1, <1>2 DEF TotalIn

-----------------------------------------------------------------------------
(* No accepted root is lost *)

\* RootKept, for a change of d to e
KeptIn(d, e) ==
    \A q \in QueueIds : Present(d, q) /\ ~Present(e, q) =>
        /\ d.items[q].status = "claimed"
        /\ \E l \in Leases : /\ d.items[q].lease = l /\ d.leases[l].live
                             /\ ~e.leases[l].live

\* A queue that grows has lost nothing.
LEMMA GrownKept == ASSUME NEW d, NEW e, NEW Q, Grown(d, e, Q) PROVE KeptIn(d, e)
BY DEF Grown, KeptIn

\* A completed admission was claimed under a lease that _prune has found live.
LEMMA CompleteKept ==
  ASSUME NEW d, d \in Document, ClaimsAreLeased(d), NEW A, CompleteRoots(d, A)
  PROVE  KeptIn(d, doc')
<1> SUFFICES ASSUME NEW q \in QueueIds, Present(d, q), ~Present(doc', q)
             PROVE  /\ d.items[q].status = "claimed"
                    /\ \E l \in Leases : /\ d.items[q].lease = l /\ d.leases[l].live
                                         /\ ~doc'.leases[l].live
  BY DEF KeptIn
<1>1. q \in Held(d, A) /\ doc'.leases = DropHeldLeases(d, A)
  BY CompleteTakesHeld DEF Present
<1>2. d.items[q].status = "claimed"
  BY <1>1 DEF Held, Claimed
<1>3. PICK l \in Leases : l = d.items[q].lease /\ d.leases[l].live
  BY <1>2 DEF ClaimsAreLeased
<1>4. ~doc'.leases[l].live
  BY <1>1, <1>3 DEF DropHeldLeases, NoLease
<1> QED
  BY <1>2, <1>3, <1>4

\* Every transaction, on the pruned document
LEMMA TransactionKept ==
  ASSUME NEW d, Inv(d), ClaimsAreLeased(d), Updater(d) \/ Runtime(d)
  PROVE  KeptIn(d, doc')
<1>1. d \in Document
  BY DEF Inv
<1>2. CASE Updater(d)
  BY <1>1, <1>2, UpdaterGrown, GrownBySame, GrownKept
<1>3. CASE Runtime(d)
  <2>1. ASSUME NEW c \in Contacts, NEW b \in Bodies, NEW q \in RootIds, NEW admit \in BOOLEAN,
               EnqueueRoot(d, q, c, b, admit)
        PROVE  KeptIn(d, doc')
    BY <2>1, EnqueueRootGrown, GrownKept
  <2>2. ASSUME NEW c \in Contacts, NEW b \in Bodies, NEW q \in IngressIds,
               EnqueueIngress(d, q, c, b)
        PROVE  KeptIn(d, doc')
    BY <2>2, EnqueueIngressGrown, GrownKept
  <2>3. ASSUME NEW c \in Contacts, NEW b \in Bodies, NEW q \in ContIds, NEW l \in Leases,
               EnqueueContinuation(d, q, c, b, l)
        PROVE  KeptIn(d, doc')
    BY <2>3, EnqueueContinuationGrown, GrownKept
  <2>4. ASSUME NEW x, NEW n, ClaimPendingRoots(d, x, n) PROVE KeptIn(d, doc')
    BY <1>1, <2>4, ClaimPendingGrown, GrownKept
  <2>5. ASSUME NEW l \in LiveLeases(d), Heartbeat(d, l) PROVE KeptIn(d, doc')
    BY <2>5, HeartbeatGrown, GrownKept DEF LiveLeases
  <2>6. ASSUME NEW l, Release(d, l) \/ Acquire(d, l) PROVE KeptIn(d, doc')
    BY <1>1, <2>6, ActivityGrown, GrownBySame, GrownKept
  <2>7. ASSUME NEW A, CompleteRoots(d, A) PROVE KeptIn(d, doc')
    BY <1>1, <2>7, CompleteKept
  <2>8. ASSUME NEW A, RetryRoots(d, A) \/ DeferRoots(d, A) PROVE KeptIn(d, doc')
    BY <1>1, <2>8, GivenBackGrown, GrownKept
  <2>9. ASSUME ClaimNotices(d) \/ Poll(d)
               \/ \E n, x : FinishNotice(d, n, x) \/ Acknowledge(d, n, x)
        PROVE  KeptIn(d, doc')
    BY <1>1, <2>9, OthersGrown, GrownBySame, GrownKept
  <2> QED
    BY <1>3, <2>1, <2>2, <2>3, <2>4, <2>5, <2>6, <2>7, <2>8, <2>9 DEF Runtime
<1> QED
  BY <1>2, <1>3

\* For any constants, whatever the drains, the expired leases and the lost
\* claims: an accepted root leaves the queue only when the admission that owns
\* it under a live lease completes it, and that lease goes with it.
THEOREM AcceptedRootsStay == Spec => AcceptedRootKept
<1>1. Inv(doc) /\ [Next]_doc => [RootKept]_doc
  <2> SUFFICES ASSUME Inv(doc), Next PROVE RootKept
    BY DEF AcceptedRootKept
  <2>1. CASE Tick
    <3>1. Grown(doc, doc', {})
      BY <2>1, AgeGrown DEF Tick, Inv
    <3> QED
      BY <3>1 DEF RootKept, Grown, Present
  <2>2. CASE Transaction
    <3> SUFFICES ASSUME NEW d, d = Prune(doc), Updater(d) \/ Runtime(d)
                 PROVE  RootKept
      BY <2>2 DEF Transaction
    <3>1. Inv(d) /\ ClaimsAreLeased(d)
      BY PruneInv
    <3>2. KeptIn(d, doc')
      BY <3>1, TransactionKept
    <3> QED
      BY <3>2, PruneKeeps DEF RootKept, KeptIn, Present
  <2> QED
    BY <2>1, <2>2 DEF Next
<1> QED
  BY <1>1, Invariance, PTL DEF Spec, AcceptedRootKept
=============================================================================
