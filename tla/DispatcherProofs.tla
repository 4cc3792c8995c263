-------------------------- MODULE DispatcherProofs --------------------------
(***************************************************************************)
(* Proofs about Dispatcher for any contacts, roots, leases, time limits    *)
(* and number of faults: the document keeps the invariant of               *)
(* MaintenanceProofs under the running Stemcell; no root is in two hands;  *)
(* a popped batch is one admission; and safe_to_stop means that no thread  *)
(* of the dispatcher holds one.  DInv is the inductive invariant.          *)
(***************************************************************************)
EXTENDS Dispatcher, MaintenanceProofs, FiniteSetTheorems

Admissions == QueueIds \X (Leases \cup {None})
Stages == {"none", "new", "lost", "loop", "run", "ok", "failed", "settled", "replay"}

\* The types the proofs need
DTypeOK ==
    /\ pending \in [Contacts -> SUBSET Admissions]
    /\ injected \in [Contacts -> SUBSET Admissions]
    /\ batch \in [Contacts -> SUBSET Admissions]
    /\ stage \in [Contacts -> Stages]
    /\ live \subseteq Contacts /\ running \subseteq Contacts
    /\ overflow \subseteq Admissions
    /\ main \in [at: {"idle", "submit", "status", "inbox"}, epoch: Nat]

\* A contact is in _running exactly while it has a thread, and where that
\* thread is says which of its containers may hold an admission.
PlacedAt(st) ==
    \A c \in Contacts :
        /\ st[c] = "none" <=> c \notin running
        /\ pending[c] # {} => st[c] \in {"new", "lost", "loop"}
        /\ batch[c] # {} => st[c] \in {"run", "ok", "failed", "settled"}
        /\ injected[c] # {} => st[c] = "run"
        /\ c \in live => st[c] = "run"
Placed == PlacedAt(stage)

\* A queue id is in one hand, under one lease.
Owned ==
    /\ \A c, e \in Contacts : \A a \in Held4(c), b \in Held4(e) :
            a[1] = b[1] => a = b /\ c = e
    /\ \A a \in overflow, c \in Contacts : \A b \in Held4(c) : a[1] # b[1]
    /\ \A a, b \in overflow : a = b

\* The entry of a held admission is in the queue and of the holder's contact,
\* or the root is done and never comes back.
Backed ==
    /\ \A c \in Contacts : \A a \in Held4(c) :
        IF Present(doc, a[1]) THEN doc.items[a[1]].contact = c ELSE a[1] \in handled
    /\ \A a \in overflow :
        IF Present(doc, a[1]) THEN doc.items[a[1]].contact \in running
        ELSE a[1] \in handled

\* A thread finds one admission to pop, and a turn is not handed one it has.
OneEach ==
    \A c \in Contacts : /\ \A a, b \in pending[c] : a = b
                        /\ injected[c] \cap batch[c] = {}

\* Nothing is claimed, leased or due to be: the state the attestation reads.
QuietIn(d) ==
    /\ \A l \in Leases : ~d.leases[l].live
    /\ \A q \in QueueIds : /\ d.items[q].status # "claimed"
                           /\ d.items[q].status = "pending" => ~d.items[q].cont
\* The drain the main loop read the status of is still on.
Attested == doc.epoch = main.epoch /\ doc.phase = "draining"
Attesting ==
    /\ main.epoch <= doc.epoch
    /\ main.at \in {"status", "inbox"} /\ Attested => QuietIn(doc)
    /\ main.at = "inbox" /\ Attested => running = {} /\ overflow = {}

Stoppable(d) == d.safe \/ d.phase \in {"updating", "validating"}
Stopped == Stoppable(doc) => running = {} /\ overflow = {}

DInv ==
    /\ Inv(doc) /\ TotalIn(doc)
    /\ DTypeOK /\ Placed /\ Owned /\ Backed /\ OneEach /\ Attesting /\ Stopped

-----------------------------------------------------------------------------
(* Changes of the document that neither grant safe_to_stop nor raise a fence *)
(* that was on before                                                        *)

\* e is d after such a change: no entry goes but those in gone, none comes back
\* that a turn has completed, and a drain that is on was on before.
Calm(d, e, gone) ==
    /\ Inv(e) /\ TotalIn(e)
    /\ d.epoch <= e.epoch
    /\ e.epoch = d.epoch /\ e.phase = "draining" => d.phase = "draining"
    /\ Stoppable(e) => Stoppable(d)
    /\ \A q \in QueueIds :
        /\ Present(d, q) /\ ~Present(e, q) => q \in gone
        /\ Present(d, q) /\ Present(e, q) => e.items[q].contact = d.items[q].contact
        /\ ~Present(d, q) /\ Present(e, q) => q \notin handled

\* A drain that found the document quiet finds it so again.
Quietens(d, e) ==
    e.epoch = d.epoch /\ e.phase = "draining" /\ QuietIn(d) => QuietIn(e)

\* Two calm changes are one.
LEMMA CalmTwice ==
  ASSUME NEW d, NEW e, NEW f, NEW G, Inv(d), Calm(d, e, {}), Calm(e, f, G)
  PROVE  /\ Calm(d, f, G)
         /\ Quietens(d, e) /\ Quietens(e, f) => Quietens(d, f)
<1>1. d.epoch \in Nat /\ e.epoch \in Nat /\ f.epoch \in Nat
  BY DEF Inv, Calm, Document
<1>2. d.epoch <= f.epoch /\ (f.epoch = d.epoch => e.epoch = d.epoch)
  BY <1>1 DEF Calm
<1> QED
  BY <1>2 DEF Calm, Quietens

\* A change that leaves the phase, the epoch and safe_to_stop alone
LEMMA CalmByParts ==
  ASSUME NEW d, Inv(d), TotalIn(d), NEW e, Inv(e), NEW Q, Grown(d, e, Q),
         \A x, y \in Q : x = y, Q \cap handled = {},
         e.phase = d.phase, e.epoch = d.epoch, e.safe => d.safe
  PROVE  Calm(d, e, {})
<1>1. TotalIn(e)
  BY GrownTotal
<1>2. d.epoch \in Nat
  BY DEF Inv, Document
<1> QED
  BY <1>1, <1>2 DEF Calm, Grown, Stoppable

\* A document with the same leases and entries is calm.
LEMMA CalmSame ==
  ASSUME NEW d, Inv(d), TotalIn(d)
  PROVE  Calm(d, d, {}) /\ Quietens(d, d)
<1>1. Grown(d, d, {})
  BY GrownBySame
<1> QED
  BY <1>1, CalmByParts DEF Quietens

\* _prune is calm: it gives up claims and takes no lease.
LEMMA PruneCalm ==
  ASSUME NEW d0, Inv(d0), TotalIn(d0), NEW d, d = Prune(d0)
  PROVE  /\ Inv(d) /\ TotalIn(d) /\ ClaimsAreLeased(d)
         /\ Calm(d0, d, {}) /\ Quietens(d0, d)
<1>1. Inv(d) /\ ClaimsAreLeased(d)
  BY PruneInv
<1>2. Grown(d0, d, {}) /\ d.epoch = d0.epoch /\ d.phase \in {d0.phase, "available"}
      /\ (d.safe => d0.safe)
  BY PruneKeeps
<1>3. TotalIn(d)
  BY <1>2, GrownTotal
<1>4. Calm(d0, d, {})
  <2>1. d0.epoch \in Nat
    BY DEF Inv, Document
  <2> QED
    BY <1>1, <1>2, <1>3, <2>1 DEF Calm, Grown, Stoppable
<1>5. Quietens(d0, d)
  <2> SUFFICES ASSUME QuietIn(d0) PROVE QuietIn(d)
    BY DEF Quietens
  <2>1. \A l \in Leases : ~d.leases[l].live
    BY PruneKeeps DEF QuietIn
  <2>2. ASSUME NEW q \in QueueIds
        PROVE  d.items[q].status # "claimed" /\ (d.items[q].status = "pending" => ~d.items[q].cont)
    <3>1. d0.items[q] \in Item /\ d.items[q] \in Item
      BY <1>1 DEF Inv, Document
    <3>2. d0.items[q].status # "claimed" /\ (d0.items[q].status = "pending" => ~d0.items[q].cont)
      BY DEF QuietIn
    <3>3. /\ d.items[q].status = "absent" <=> d0.items[q].status = "absent"
          /\ d.items[q].status = "claimed" => d0.items[q].status = "claimed"
          /\ d.items[q].cont = d0.items[q].cont
      BY PruneKeeps
    <3> QED
      BY <3>1, <3>2, <3>3 DEF Item
  <2> QED
    BY <2>1, <2>2 DEF QuietIn
<1> QED
  BY <1>1, <1>3, <1>4, <1>5

\* The host updater: updating is entered from safe_to_stop alone, and a drain
\* that was not on before has an epoch of its own.
LEMMA UpdaterCalm ==
  ASSUME NEW d, Inv(d), TotalIn(d), Updater(d)
  PROVE  Calm(d, doc', {}) /\ Quietens(d, doc')
<1>1. d \in Document /\ d.epoch \in Nat /\ d.phase \in Phases
  BY DEF Inv, Document
<1>2. doc'.items = d.items /\ doc'.leases = d.leases /\ Inv(doc')
  BY <1>1, UpdaterGrown, UpdaterInv
<1>3. TotalIn(doc')
  BY <1>2 DEF TotalIn, Present
<1> DEFINE Onward == /\ d.epoch <= doc'.epoch
                     /\ doc'.epoch = d.epoch /\ doc'.phase = "draining" => d.phase = "draining"
                     /\ Stoppable(doc') => Stoppable(d)
<1>4. Onward
  <2>1. CASE doc' = d
    BY <1>1, <2>1
  <2>2. CASE /\ doc'.epoch = d.epoch /\ doc'.phase \in Phases \ {"draining"}
             /\ doc'.safe = FALSE
             /\ doc'.phase = "updating" => d.safe
             /\ doc'.phase = "validating" => d.phase = "updating"
    BY <1>1, <2>2 DEF Stoppable
  <2>3. ASSUME NEW m, NEW secs, RequestDrain(d, m, secs) PROVE Onward
    <3>1. \/ doc' = d
          \/ doc'.epoch = d.epoch + 1 /\ doc'.phase = "draining" /\ doc'.safe = FALSE
      BY <1>1, <2>3 DEF RequestDrain, Document
    <3> QED
      BY <1>1, <2>1, <3>1 DEF Stoppable
  <2>4. ASSUME NEW m, CancelDrain(d, m) PROVE Onward
    <3>1. \/ doc' = d
          \/ doc'.epoch = d.epoch /\ doc'.phase = "available" /\ doc'.safe = FALSE
      BY <1>1, <2>4 DEF CancelDrain, Document
    <3> QED
      BY <1>1, <2>1, <2>2, <3>1 DEF Phases
  <2>5. ASSUME NEW m, NEW p \in Phases \ {"draining"}, Transition(d, p, m) PROVE Onward
    <3>1. CASE p # d.phase
      <4>1. p = "validating" => d.phase = "updating"
        BY <1>1, <2>5, <3>1 DEF Transition, Permitted, Allowed, Phases, ActivePhases
      <4>2. /\ doc'.epoch = d.epoch /\ doc'.phase = p /\ doc'.safe = FALSE
            /\ p = "updating" => d.safe
        BY <1>1, <2>5, <3>1 DEF Transition, Permitted, Document
      <4> QED
        BY <2>2, <4>1, <4>2
    <3>2. CASE doc' = d
      BY <2>1, <3>2
    <3> QED
      BY <2>5, <3>1, <3>2 DEF Transition
  <2> QED
    BY <2>3, <2>4, <2>5 DEF Updater
<1> QED
  BY <1>2, <1>3, <1>4 DEF Calm, Quietens, QuietIn, Present

\* enqueue_root, of a root that no turn has completed; one that is admitted is
\* admitted to a Stemcell that may not be stopped.
LEMMA EnqueueRootCalm ==
  ASSUME NEW d, Inv(d), TotalIn(d), NEW q \in RootIds, q \notin handled,
         NEW c \in Contacts, NEW b \in Bodies, NEW admit, EnqueueRoot(d, q, c, b, admit)
  PROVE  /\ Calm(d, doc', {}) /\ doc'.epoch = d.epoch
         /\ ~Present(d, q) /\ Present(doc', q) /\ doc'.items[q].contact = c
         /\ doc'.items[q].status = "claimed" => ~Stoppable(doc')
<1>0. (\A x, y \in {q} : x = y) /\ {q} \cap handled = {}
  OBVIOUS
<1> DEFINE f == Append2Queue(d, q, c, b, FALSE, d.epoch)
<1>1. d \in Document /\ d.epoch \in Nat /\ q \in QueueIds
  BY DEF Inv, Document, QueueIds
<1>2. Inv(doc') /\ Grown(d, doc', {q}) /\ ~Present(d, q) /\ Present(doc', q)
      /\ doc'.items[q].contact = c /\ (doc'.items[q].status = "claimed" => d.phase = "available")
  BY EnqueueRootInv, EnqueueRootGrown
<1>3. Appended(d, f, q, c, b, FALSE, d.epoch)
  BY <1>1, AppendType
<1>4. doc'.phase = d.phase /\ doc'.epoch = d.epoch /\ (doc'.safe => d.safe)
  <2> HIDE DEF f
  <2>1. /\ EnsureNotice(f, c).phase = d.phase /\ EnsureNotice(f, c).epoch = d.epoch
        /\ EnsureNotice(f, c).safe = d.safe
    BY <1>3 DEF EnsureNotice, Appended, Document
  <2>2. ASSUME NEW K, NEW g
        PROVE  /\ ClaimItems(f, K, g).phase = d.phase /\ ClaimItems(f, K, g).epoch = d.epoch
               /\ ClaimItems(f, K, g).safe => d.safe
    BY <1>3 DEF ClaimItems, Appended, Document
  <2>3. \/ doc' = EnsureNotice(f, c) \/ doc' = f
        \/ \E g : doc' = ClaimItems(f, {q}, g)
    BY DEF EnqueueRoot, f
  <2> QED
    BY <1>3, <2>1, <2>2, <2>3 DEF Appended
<1>5. Calm(d, doc', {})
  BY <1>0, <1>2, <1>4, CalmByParts
<1>6. doc'.phase = "available" => ~Stoppable(doc')
  BY <1>2 DEF Inv, QuiescentIn, Stoppable
<1> QED
  BY <1>2, <1>4, <1>5, <1>6

\* enqueue_ingress_root
LEMMA EnqueueIngressCalm ==
  ASSUME NEW d, Inv(d), TotalIn(d), NEW q \in IngressIds, q \notin handled,
         NEW c \in Contacts, NEW b \in Bodies, EnqueueIngress(d, q, c, b)
  PROVE  Calm(d, doc', {}) /\ doc'.epoch = d.epoch
<1>0. (\A x, y \in {q} : x = y) /\ {q} \cap handled = {}
  OBVIOUS
<1> DEFINE f == Append2Queue(d, q, c, b, FALSE, d.epoch)
           g == Receipted(f, q, c, b)
           h == [g EXCEPT !.safe = FALSE]
           Frame(e) == e.phase = d.phase /\ e.epoch = d.epoch /\ (e.safe => d.safe)
<1>1. /\ d \in Document /\ d.epoch \in Nat /\ q \in QueueIds
      /\ q \in IngressIds \cup ContIds /\ FALSE \in BOOLEAN
  BY DEF Inv, Document, QueueIds
<1>2. f \in Document /\ Frame(f)
  <2>1. Appended(d, f, q, c, b, FALSE, d.epoch)
    BY <1>1, AppendType
  <2> QED
    BY <2>1 DEF Appended
<1>3. Frame(Receipted(d, q, c, b)) /\ Frame(d)
  BY <1>1, ReceiptType DEF WithReceipt
<1> HIDE DEF f
<1>4. g \in Document /\ Frame(g)
  BY <1>1, <1>2, ReceiptType DEF WithReceipt
<1> HIDE DEF g
<1>5. h \in Document /\ Frame(h)
  BY <1>4 DEF Document
<1> HIDE DEF h
<1>6. Frame(EnsureNotice(h, c))
  BY <1>5 DEF EnsureNotice, Document
<1>7. doc' \in {d, Receipted(d, q, c, b), h, EnsureNotice(h, c)}
  BY DEF EnqueueIngress, f, g, h
<1>8. Frame(doc')
  <2> HIDE DEF Frame
  <2> QED
    BY <1>3, <1>5, <1>6, <1>7
<1>9. Inv(doc') /\ Grown(d, doc', {q})
  BY EnqueueIngressInv, EnqueueIngressGrown
<1> QED
  BY <1>0, <1>8, <1>9, CalmByParts

\* enqueue_continuation: under a quiet drain there is no lease to transfer.
LEMMA EnqueueContinuationCalm ==
  ASSUME NEW d, Inv(d), TotalIn(d), NEW q \in ContIds, q \notin handled,
         NEW c \in Contacts, NEW b \in Bodies, NEW l \in Leases,
         EnqueueContinuation(d, q, c, b, l)
  PROVE  Calm(d, doc', {}) /\ Quietens(d, doc')
<1>0. (\A x, y \in {q} : x = y) /\ {q} \cap handled = {}
  OBVIOUS
<1> DEFINE n == d.leases[l].epoch
           f == Append2Queue(d, q, c, b, TRUE, n)
           g == Receipted(f, q, c, b)
           h == [g EXCEPT !.safe = FALSE]
           Frame(e) == e.phase = d.phase /\ e.epoch = d.epoch /\ (e.safe => d.safe)
<1>1. /\ d \in Document /\ n \in Nat /\ q \in QueueIds
      /\ q \in IngressIds \cup ContIds /\ TRUE \in BOOLEAN
  BY DEF Inv, Document, QueueIds, Lease
<1> HIDE DEF n
<1>2. f \in Document /\ Frame(f)
  <2>1. Appended(d, f, q, c, b, TRUE, n)
    BY <1>1, AppendType
  <2> QED
    BY <2>1 DEF Appended
<1>3. Frame(Receipted(d, q, c, b)) /\ Frame(d)
  BY <1>1, ReceiptType DEF WithReceipt
<1> HIDE DEF f
<1>4. g \in Document /\ Frame(g)
  BY <1>1, <1>2, ReceiptType DEF WithReceipt
<1> HIDE DEF g
<1>5. h \in Document /\ Frame(h)
  BY <1>4 DEF Document
<1> HIDE DEF h
<1>6. Frame(DropLease(h, l))
  BY <1>5 DEF DropLease, Document
<1>7. doc' \in {d, Receipted(d, q, c, b), DropLease(h, l)}
  BY DEF EnqueueContinuation, f, g, h, n
<1>8. Frame(doc')
  <2> HIDE DEF Frame
  <2> QED
    BY <1>3, <1>6, <1>7
<1>9. Inv(doc') /\ Grown(d, doc', {q})
  BY EnqueueContinuationInv, EnqueueContinuationGrown
<1>10. Quietens(d, doc')
  BY EnqueueContinuationGrown DEF Quietens, QuietIn
<1> QED
  BY <1>0, <1>8, <1>9, <1>10, CalmByParts

\* claim_pending_roots: a quiet drain has nothing to claim, and a Stemcell that
\* has just claimed something may not be stopped.
LEMMA ClaimPendingCalm ==
  ASSUME NEW d, Inv(d), TotalIn(d), NEW x, NEW n, ClaimPendingRoots(d, x, n)
  PROVE  /\ Calm(d, doc', {}) /\ Quietens(d, doc') /\ doc'.epoch = d.epoch
         /\ ToClaim(d, x, n) # {} =>
                /\ ~Stoppable(doc')
                /\ ~(doc'.phase = "draining" /\ QuietIn(d))
<1> DEFINE K == ToClaim(d, x, n)
<1>1. d \in Document
  BY DEF Inv
<1>2. K \subseteq Claimable(d, x)
  BY DEF ToClaim
<1>3. /\ \A q \in K : /\ q \in QueueIds /\ d.items[q].status = "pending"
                      /\ d.phase = "draining" => d.items[q].cont
                      /\ d.phase \in {"available", "draining"}
  BY <1>2 DEF Claimable
<1>4. PICK g : doc' = ClaimItems(d, K, g)
  BY DEF ClaimPendingRoots
<1>5. Inv(doc') /\ Grown(d, doc', {})
  BY <1>1, ClaimPendingRootsInv, ClaimPendingGrown
<1> HIDE DEF K
<1>6. /\ doc'.phase = d.phase /\ doc'.epoch = d.epoch
      /\ doc'.safe = (d.safe /\ K = {})
  BY <1>1, <1>4 DEF ClaimItems, Document
<1>7. Calm(d, doc', {})
  <2>1. (doc'.safe => d.safe) /\ (\A y, z \in {} : y = z) /\ {} \cap handled = {}
    BY <1>6
  <2> QED
    BY <1>5, <1>6, <2>1, CalmByParts
<1>8. K # {} => ~Stoppable(doc') /\ ~(d.phase = "draining" /\ QuietIn(d))
  BY <1>3, <1>6 DEF Stoppable, QuietIn
<1>9. K = {} => Quietens(d, doc')
  <2> SUFFICES ASSUME K = {}, QuietIn(d) PROVE QuietIn(doc')
    BY DEF Quietens
  <2>1. d.leases \in [Leases -> Lease] /\ d.items \in [QueueIds -> Item]
    BY <1>1 DEF Document
  <2>2. doc'.leases = d.leases /\ doc'.items = d.items
    BY <1>1, <1>4, <2>1 DEF ClaimItems, Document
  <2> QED
    BY <2>2 DEF QuietIn
<1> QED
  BY <1>6, <1>7, <1>8, <1>9 DEF Quietens, K

\* release, and acquire_activity under a lease of the lineage: a quiet drain has
\* none to show.
LEMMA ActivityCalm ==
  ASSUME NEW d, Inv(d), TotalIn(d), NEW l \in Leases,
         Release(d, l) \/ \E x \in Leases \cup {None} : AcquireActivity(d, x, l)
  PROVE  Calm(d, doc', {}) /\ Quietens(d, doc')
<1>1. d \in Document /\ d.leases \in [Leases -> Lease]
  BY DEF Inv, Document
<1>2. Inv(doc') /\ doc'.items = d.items
  BY <1>1, DropLeaseInv, AcquireInv, ActivityGrown DEF Release, Acquire
<1>3. doc'.phase = d.phase /\ doc'.epoch = d.epoch /\ (doc'.safe => d.safe)
  BY <1>1 DEF Release, DropLease, AcquireActivity, NewLease, Document
<1>4. Grown(d, doc', {}) /\ (\A y, z \in {} : y = z) /\ {} \cap handled = {}
  BY <1>2, GrownBySame
<1>5. Calm(d, doc', {})
  BY <1>2, <1>3, <1>4, CalmByParts
<1>6. Quietens(d, doc')
  <2> SUFFICES ASSUME d.phase = "draining", QuietIn(d) PROVE QuietIn(doc')
    BY <1>3 DEF Quietens
  <2>1. CASE Release(d, l)
    <3>1. \A k \in Leases : doc'.leases[k] \in {d.leases[k], NoLease}
      BY <1>1, <2>1 DEF Release, DropLease, Document
    <3> QED
      BY <1>2, <3>1 DEF QuietIn, NoLease
  <2>2. CASE \E x : AcquireActivity(d, x, l)
    BY <2>2 DEF AcquireActivity, QuietIn
  <2> QED
    BY <2>1, <2>2
<1> QED
  BY <1>5, <1>6

\* A change that only ends leases and claims
LEMMA SettledQuietens ==
  ASSUME NEW d, NEW e, SettledIn(d, e)
  PROVE  Quietens(d, e)
BY DEF SettledIn, Quietens, QuietIn, NoLease, NoItem, Same

\* retry_roots and defer_roots
LEMMA GivenBackCalm ==
  ASSUME NEW d, Inv(d), TotalIn(d), NEW A, RetryRoots(d, A) \/ DeferRoots(d, A)
  PROVE  Calm(d, doc', {}) /\ Quietens(d, doc')
<1>1. SettledIn(d, doc') /\ Inv(doc')
  BY SettleRoots, SettleRootsInv
<1>2. Grown(d, doc', {}) /\ (\A y, z \in {} : y = z) /\ {} \cap handled = {}
  BY GivenBackGrown DEF Inv
<1>3. Calm(d, doc', {})
  BY <1>1, <1>2, CalmByParts DEF SettledIn
<1> QED
  BY <1>1, <1>3, SettledQuietens

\* complete_roots
LEMMA CompleteCalm ==
  ASSUME NEW d, Inv(d), TotalIn(d), NEW A, CompleteRoots(d, A)
  PROVE  Calm(d, doc', {a[1] : a \in A}) /\ Quietens(d, doc')
<1>1. SettledIn(d, doc') /\ Inv(doc')
  BY SettleRoots, SettleRootsInv
<1>2. d \in Document /\ d.epoch \in Nat
  BY DEF Inv, Document
<1>3. TotalIn(doc')
  BY <1>2, CompleteTotal
<1>4. \A q \in Held(d, A) : q \in {a[1] : a \in A}
  BY DEF Held
<1>5. \A q \in QueueIds \ Held(d, A) : /\ doc'.items[q].status = d.items[q].status
                                       /\ doc'.items[q].contact = d.items[q].contact
  BY <1>2, CompleteTakesHeld
<1>6. \A q \in Held(d, A) : ~Present(doc', q)
  BY <1>2, CompleteTakesHeld
<1>7. Calm(d, doc', {a[1] : a \in A})
  BY <1>1, <1>2, <1>3, <1>4, <1>5, <1>6 DEF Calm, SettledIn, Stoppable, Present
<1> QED
  BY <1>1, <1>7, SettledQuietens

\* A unit of time and the heartbeats it brings
LEMMA TimeCalm ==
  ASSUME NEW d, Inv(d), TotalIn(d), NEW L, NEW f, f = Renew(Age(d), L)
  PROVE  Calm(d, f, {}) /\ Quietens(d, f)
<1> DEFINE e == Age(d)
<1>1. d \in Document /\ Inv(e) /\ Inv(f) /\ e \in Document
  BY AgeInv, RenewInv DEF Inv
<1>2. /\ \A l \in Leases : f.leases[l].live = d.leases[l].live
      /\ \A q \in QueueIds : /\ f.items[q].cont = d.items[q].cont
                             /\ f.items[q].status = d.items[q].status
  BY <1>1, AgeInv, RenewInv, AgeGrown, RenewGrown
<1>3. f.phase = d.phase /\ f.epoch = d.epoch /\ f.safe = d.safe
  <2>1. e.phase = d.phase /\ e.epoch = d.epoch /\ e.safe = d.safe
    BY <1>1 DEF Age, Document
  <2> HIDE DEF e
  <2> QED
    BY <1>1, <2>1 DEF Renew, Document, e
<1>4. TotalIn(f)
  <2>1. TotalIn(e)
    BY <1>1, AgeGrown, GrownTotal
  <2> QED
    BY <1>1, <2>1, RenewGrown, GrownTotal
<1>5. Grown(d, e, {}) /\ Grown(e, f, {})
  BY <1>1, AgeGrown, RenewGrown
<1>6. Grown(d, f, {})
  BY <1>5 DEF Grown
<1>7. (\A y, z \in {} : y = z) /\ {} \cap handled = {}
  OBVIOUS
<1>8. Calm(d, f, {})
  BY <1>1, <1>3, <1>6, <1>7, CalmByParts
<1>9. Quietens(d, f)
  BY <1>2 DEF Quietens, QuietIn
<1> QED
  BY <1>8, <1>9

-----------------------------------------------------------------------------
(* Steps of the dispatcher *)

\* What DInv says after a step, in terms of the new values
LEMMA DInvPrimed ==
  ASSUME Inv(doc'), TotalIn(doc'), DTypeOK', Placed', Owned', Backed', OneEach',
         Attesting', Stopped'
  PROVE  DInv'
BY DEF DInv, Inv, FenceIn, QuiescentIn, NoTurnIn, OwnerIn, BookkeepingIn, ReceiptIn,
       TotalIn, Present

\* A step that lets go of admissions, or passes them on within a contact, beside
\* a calm change of the document
LEMMA LettingGo ==
  ASSUME DInv, NEW G, Calm(doc, doc', G), G \subseteq handled', handled \subseteq handled',
         \A c \in Contacts : Held4(c)' \subseteq Held4(c), overflow' \subseteq overflow,
         running' \subseteq running, overflow' = {} \/ running' = running,
         main'.epoch = main.epoch,
         \/ main' = main /\ Quietens(doc, doc')
         \/ main'.at \notin {"status", "inbox"}
  PROVE  /\ Inv(doc') /\ TotalIn(doc')
         /\ Owned' /\ Backed' /\ Attesting' /\ Stopped'
<1>1. Owned'
  BY DEF DInv, Owned
<1>2. Backed'
  <2>1. ASSUME NEW c \in Contacts, NEW a \in Held4(c)'
        PROVE  IF Present(doc', a[1]) THEN doc'.items[a[1]].contact = c ELSE a[1] \in handled'
    <3>1. a \in Held4(c) /\ a[1] \in QueueIds
      BY DEF DInv, DTypeOK, Held4, Admissions
    <3> QED
      BY <3>1 DEF DInv, Backed, Calm
  <2>2. ASSUME NEW a \in overflow'
        PROVE  IF Present(doc', a[1]) THEN doc'.items[a[1]].contact \in running'
               ELSE a[1] \in handled'
    <3>1. a \in overflow /\ a[1] \in QueueIds /\ running' = running
      BY <2>2 DEF DInv, DTypeOK, Admissions
    <3> QED
      BY <3>1 DEF DInv, Backed, Calm
  <2> QED
    BY <2>1, <2>2 DEF Backed, Present
<1>3. Attesting'
  <2>1. doc.epoch \in Nat /\ doc'.epoch \in Nat /\ main.epoch \in Nat
    BY DEF DInv, Inv, Document, Calm, DTypeOK
  <2>2. main.epoch <= doc'.epoch
    BY <2>1 DEF DInv, Attesting, Calm
  <2>3. ASSUME main' = main, Quietens(doc, doc'), main.at \in {"status", "inbox"}, Attested'
        PROVE  QuietIn(doc)' /\ (main.at = "inbox" => running' = {} /\ overflow' = {})
    <3>1. doc.epoch = main.epoch /\ doc.epoch = doc'.epoch /\ doc'.phase = "draining"
          /\ doc.phase = "draining"
      BY <2>1, <2>3 DEF Attested, Calm, DInv, Attesting
    <3>2. QuietIn(doc) /\ (main.at = "inbox" => running = {} /\ overflow = {})
      BY <2>3, <3>1 DEF DInv, Attesting, Attested
    <3>3. QuietIn(doc')
      BY <2>3, <3>1, <3>2 DEF Quietens
    <3> QED
      BY <3>2, <3>3 DEF QuietIn
  <2> QED
    BY <2>2, <2>3 DEF Attesting
<1>4. Stopped'
  BY DEF DInv, Stopped, Calm, Stoppable
<1> QED
  BY <1>1, <1>2, <1>3, <1>4 DEF Calm

\* An entry that is claimed for a contact without a thread is in nobody's hands.
LEMMA NewInNoHands ==
  ASSUME DInv, NEW G, Calm(doc, doc', G), NEW q \in QueueIds, Present(doc', q),
         doc'.items[q].contact \notin running, NEW c \in Contacts, NEW b \in Held4(c)
  PROVE  b[1] # q
<1> SUFFICES ASSUME b[1] = q PROVE FALSE
  OBVIOUS
<1>1. c \in running
  BY DEF DInv, Placed, PlacedAt, Held4
<1>2. Present(doc, q)
  BY DEF DInv, Backed, Calm
<1> QED
  BY <1>1, <1>2 DEF DInv, Backed, Calm

\* _schedule_admissions_locked for contacts without a thread
LEMMA ScheduleStep ==
  ASSUME DInv, Calm(doc, doc', {}), NEW A \in SUBSET Admissions,
         \A a \in A : Present(doc', a[1]) /\ doc'.items[a[1]].contact \notin running,
         \A a, b \in A : doc'.items[a[1]].contact = doc'.items[b[1]].contact => a = b,
         NEW st \in [Contacts -> Stages], PlacedAt(st), NEW at \in {"new", "loop"},
         Schedule(A, st, at),
         overflow = {}, overflow' = {}, injected' = injected, batch' = batch,
         live' = live, handled' = handled,
         A # {} => ~Stoppable(doc'),
         main' \in [at: {"idle", "submit", "status", "inbox"}, epoch: Nat],
         main'.epoch = main.epoch,
         \/ main'.at \notin {"status", "inbox"}
         \/ main' = main /\ Quietens(doc, doc')
            /\ (A # {} /\ QuietIn(doc) => ~Attested')
  PROVE  DInv'
<1> DEFINE of(c) == {a \in A : doc'.items[a[1]].contact = c}
           started == {c \in Contacts : of(c) # {}}
<1>1. /\ pending' = [c \in Contacts |-> pending[c] \cup of(c)]
      /\ running' = running \cup started
      /\ stage' = [c \in Contacts |-> IF c \in started THEN at ELSE st[c]]
  BY DEF Schedule
<1>2. \A a \in A : a[1] \in QueueIds
  BY DEF Admissions
<1>3. \A c \in Contacts : Held4(c)' = Held4(c) \cup of(c)
  BY <1>1 DEF Held4
<1>4. \A a \in A, c \in Contacts : \A b \in Held4(c) : b[1] # a[1]
  BY <1>2, NewInNoHands
<1>5. /\ \A c \in Contacts : c \in started => c \notin running
      /\ A = {} => started = {}
  OBVIOUS
<1>6. DTypeOK'
  <2>1. pending' \in [Contacts -> SUBSET Admissions]
    BY <1>1 DEF DInv, DTypeOK
  <2>2. stage' \in [Contacts -> Stages]
    BY <1>1 DEF Stages
  <2>3. running' \subseteq Contacts
    BY <1>1 DEF DInv, DTypeOK
  <2> QED
    BY <2>1, <2>2, <2>3 DEF DInv, DTypeOK
<1>7. Placed'
  <2> SUFFICES ASSUME NEW c \in Contacts
               PROVE  /\ stage'[c] = "none" <=> c \notin running'
                      /\ pending'[c] # {} => stage'[c] \in {"new", "lost", "loop"}
                      /\ batch[c] # {} => stage'[c] \in {"run", "ok", "failed", "settled"}
                      /\ injected[c] # {} => stage'[c] = "run"
                      /\ c \in live => stage'[c] = "run"
    BY DEF Placed, PlacedAt
  <2>1. CASE c \in started
    <3>1. c \notin running /\ stage[c] = "none"
      BY <1>5, <2>1 DEF DInv, Placed, PlacedAt
    <3>2. batch[c] = {} /\ injected[c] = {} /\ c \notin live
      BY <3>1 DEF DInv, Placed, PlacedAt
    <3>3. stage'[c] = at /\ c \in running'
      BY <1>1, <2>1
    <3> QED
      BY <3>2, <3>3
  <2>2. CASE c \notin started
    <3>1. stage'[c] = st[c] /\ pending'[c] = pending[c] /\ (c \in running' <=> c \in running)
      BY <1>1, <2>2
    <3> QED
      BY <3>1 DEF PlacedAt
  <2> QED
    BY <2>1, <2>2
<1> HIDE DEF of
<1>8. Owned'
  <2> SUFFICES ASSUME NEW c \in Contacts, NEW e \in Contacts,
                      NEW a \in Held4(c)', NEW b \in Held4(e)', a[1] = b[1]
               PROVE  a = b /\ c = e
    BY DEF Owned
  <2>1. CASE a \in Held4(c) /\ b \in Held4(e)
    BY <2>1 DEF DInv, Owned
  <2>2. CASE a \in of(c) /\ b \in of(e)
    BY <2>2 DEF of
  <2>3. CASE a \in of(c) /\ b \in Held4(e)
    BY <1>4, <2>3 DEF of
  <2>4. CASE a \in Held4(c) /\ b \in of(e)
    BY <1>4, <2>4 DEF of
  <2> QED
    BY <1>3, <2>1, <2>2, <2>3, <2>4
<1>9. Backed'
  <2> SUFFICES ASSUME NEW c \in Contacts, NEW a \in Held4(c)'
               PROVE  IF Present(doc', a[1]) THEN doc'.items[a[1]].contact = c
                      ELSE a[1] \in handled
    BY DEF Backed, Present
  <2>1. CASE a \in of(c)
    BY <2>1 DEF of
  <2>2. CASE a \in Held4(c)
    <3>1. a[1] \in QueueIds
      BY <2>2 DEF DInv, DTypeOK, Held4, Admissions
    <3> QED
      BY <2>2, <3>1 DEF DInv, Backed, Calm
  <2> QED
    BY <1>3, <2>1, <2>2
<1>10. OneEach'
  <2> SUFFICES ASSUME NEW c \in Contacts, NEW a \in pending'[c], NEW b \in pending'[c]
               PROVE  a = b
    BY DEF DInv, OneEach
  <2>1. CASE of(c) = {}
    BY <1>1, <2>1 DEF DInv, OneEach
  <2>2. CASE of(c) # {}
    <3>1. pending[c] = {}
      BY <1>5, <2>2 DEF DInv, Placed, PlacedAt
    <3>2. a \in of(c) /\ b \in of(c)
      BY <1>1, <3>1
    <3> QED
      BY <3>2 DEF of
  <2> QED
    BY <2>1, <2>2
<1>11. Attesting' /\ Stopped' /\ Inv(doc') /\ TotalIn(doc')
  <2>1. CASE A = {}
    <3>1. \A c \in Contacts : Held4(c)' \subseteq Held4(c)
      BY <1>3, <2>1 DEF of
    <3>2. running' = running
      BY <1>1, <1>5, <2>1
    <3> QED
      BY <3>1, <3>2, LettingGo
  <2>2. CASE A # {}
    <3>1. Inv(doc') /\ TotalIn(doc')
      BY DEF Calm
    <3>2. Stopped'
      BY <2>2 DEF Stopped, Stoppable
    <3>3. main.epoch <= doc'.epoch
      <4>1. doc.epoch \in Nat /\ doc'.epoch \in Nat /\ main.epoch \in Nat
        BY DEF DInv, Inv, Document, Calm, DTypeOK
      <4> QED
        BY <4>1 DEF DInv, Attesting, Calm
    <3>4. ASSUME main' = main, Quietens(doc, doc'), main.at \in {"status", "inbox"}, Attested'
          PROVE  FALSE
      <4>1. doc.epoch \in Nat /\ doc'.epoch \in Nat /\ main.epoch \in Nat
        BY DEF DInv, Inv, Document, Calm, DTypeOK
      <4>2. Attested
        BY <3>4, <4>1 DEF Attested, Calm, DInv, Attesting
      <4> QED
        BY <2>2, <3>4, <4>2 DEF DInv, Attesting
    <3> QED
      BY <3>1, <3>2, <3>3, <3>4 DEF Attesting
  <2> QED
    BY <2>1, <2>2
<1> QED
  BY <1>6, <1>7, <1>8, <1>9, <1>10, <1>11, DInvPrimed

\* A step that leaves the dispatcher's containers alone
Rests == /\ UNCHANGED <<pending, injected, batch, stage, live, running, overflow>>
         /\ UNCHANGED handled

\* A step that leaves every admission in the hands that have it
LEMMA RestStep ==
  ASSUME DInv, Calm(doc, doc', {}), Rests,
         main' \in [at: {"idle", "submit", "status", "inbox"}, epoch: Nat],
         main'.epoch = main.epoch,
         \/ main' = main /\ Quietens(doc, doc')
         \/ main'.at \notin {"status", "inbox"}
  PROVE  DInv'
<1>1. \A c \in Contacts : Held4(c)' = Held4(c)
  BY DEF Held4, Rests
<1>2. Inv(doc') /\ TotalIn(doc') /\ Owned' /\ Backed' /\ Attesting' /\ Stopped'
  BY <1>1, LettingGo DEF Rests
<1>3. DTypeOK' /\ Placed' /\ OneEach'
  BY DEF DInv, DTypeOK, Placed, PlacedAt, OneEach, Rests
<1> QED
  BY <1>2, <1>3, DInvPrimed

\* replay_maintenance_queue, from a thread or from the main loop
LEMMA ReplayStep ==
  ASSUME DInv, NEW st \in [Contacts -> Stages], PlacedAt(st), Replay(Prune(doc), st),
         main' = main
  PROVE  DInv'
<1> SUFFICES ASSUME NEW d, d = Prune(doc), Replay(d, st) PROVE DInv'
  OBVIOUS
<1>1. /\ Inv(d) /\ TotalIn(d) /\ Calm(doc, d, {}) /\ Quietens(doc, d)
      /\ Inv(doc) /\ TotalIn(doc)
  BY PruneCalm DEF DInv
<1>2. /\ overflow = {} /\ overflow' = {} /\ injected' = injected /\ batch' = batch
      /\ live' = live /\ handled' = handled
  BY DEF Replay, history
<1>3. main' \in [at: {"idle", "submit", "status", "inbox"}, epoch: Nat]
  BY DEF DInv, DTypeOK
<1>4. ASSUME NEW n, ClaimPendingRoots(d, Busy, n),
             NEW K, K = {q \in QueueIds : /\ d.items[q].status = "pending"
                                          /\ doc'.items[q].status = "claimed"},
             NEW A, A = {<<q, doc'.items[q].lease>> : q \in K},
             Schedule(A, st, "loop")
      PROVE  DInv'
  <2>1. /\ Calm(d, doc', {}) /\ Quietens(d, doc') /\ doc'.epoch = d.epoch
        /\ ToClaim(d, Busy, n) # {} =>
              ~Stoppable(doc') /\ ~(doc'.phase = "draining" /\ QuietIn(d))
    BY <1>1, <1>4, ClaimPendingCalm
  <2>2. Calm(doc, doc', {}) /\ Quietens(doc, doc')
    BY <1>1, <2>1, CalmTwice
  <2>3. \A q \in QueueIds :
            /\ doc'.items[q].contact = d.items[q].contact
            /\ doc'.items[q].status =
                    IF q \in ToClaim(d, Busy, n) THEN "claimed" ELSE d.items[q].status
    BY <1>1, <1>4, ClaimPendingGrown DEF Inv
  <2>4. K \subseteq ToClaim(d, Busy, n)
    BY <1>4, <2>3
  <2>5. K \subseteq Claimable(d, Busy)
    BY <2>4 DEF ToClaim
  <2>6. \A q \in K : q \in QueueIds /\ Present(doc', q) /\ doc'.items[q].contact \notin running
    BY <1>4, <2>3, <2>5 DEF Claimable, Busy, Present
  <2>7. \A q, r \in K : d.items[q].contact = d.items[r].contact => q = r
    <3> SUFFICES ASSUME NEW q \in K, NEW r \in K, d.items[q].contact = d.items[r].contact,
                        q # r
                 PROVE  FALSE
      OBVIOUS
    <3>1. Present(d, q) /\ Present(d, r) /\ q \in QueueIds /\ r \in QueueIds
      BY <1>4 DEF Present
    <3>2. q \in d.items[r].ahead \/ r \in d.items[q].ahead
      BY <1>1, <3>1 DEF TotalIn
    <3> QED
      BY <2>4, <2>5, <3>2 DEF ToClaim
  <2>8. A \in SUBSET Admissions
    <3>1. doc'.items \in [QueueIds -> Item]
      BY <2>2 DEF Calm, Inv, Document
    <3> QED
      BY <1>4, <2>6, <3>1 DEF Admissions, Item
  <2>9. /\ \A a \in A : Present(doc', a[1]) /\ doc'.items[a[1]].contact \notin running
        /\ \A a, b \in A : doc'.items[a[1]].contact = doc'.items[b[1]].contact => a = b
    BY <1>4, <2>3, <2>6, <2>7
  <2>10. A # {} => K # {}
    BY <1>4
  <2>11. A # {} => ~Stoppable(doc')
    BY <2>1, <2>4, <2>10
  <2>12. A # {} /\ QuietIn(doc) => ~Attested'
    <3> SUFFICES ASSUME A # {}, QuietIn(doc), doc'.phase = "draining", doc'.epoch = main.epoch
                 PROVE  FALSE
      BY DEF Attested
    <3>1. d.phase = "draining" /\ d.epoch = doc'.epoch
      BY <2>1 DEF Calm
    <3>2. doc.epoch = d.epoch
      <4>1. d.epoch \in Nat /\ doc.epoch \in Nat /\ main.epoch \in Nat
        BY <1>1 DEF Inv, Document, DInv, DTypeOK
      <4> QED
        BY <1>1, <3>1, <4>1 DEF Calm, DInv, Attesting
    <3>3. QuietIn(d)
      BY <1>1, <3>1, <3>2 DEF Quietens
    <3> QED
      BY <2>1, <2>4, <2>10, <3>3
  <2> QED
    BY <1>2, <1>3, <1>4, <2>2, <2>8, <2>9, <2>11, <2>12, ScheduleStep
<1>5. CASE stage' = st /\ UNCHANGED <<doc, pending, running, claimedRoots>>
  <2>1. Calm(doc, doc', {}) /\ Quietens(doc, doc')
    BY <1>1, <1>5, CalmSame
  <2>2. \A c \in Contacts : Held4(c)' = Held4(c)
    BY <1>2, <1>5 DEF Held4
  <2>3. Inv(doc') /\ TotalIn(doc') /\ Owned' /\ Backed' /\ Attesting' /\ Stopped'
    BY <1>2, <1>5, <2>1, <2>2, LettingGo
  <2>4. DTypeOK' /\ Placed' /\ OneEach'
    BY <1>2, <1>3, <1>5 DEF DInv, DTypeOK, Placed, PlacedAt, OneEach
  <2> QED
    BY <2>3, <2>4, DInvPrimed
<1> QED
  BY <1>4, <1>5 DEF Replay

\* A step beside a change of the document that is calm, and that the main loop
\* does not attest
LEMMA TakingUp ==
  ASSUME DInv, Calm(doc, doc', {}), NEW q \in RootIds, q \notin handled,
         ~Present(doc, q), Present(doc', q), NEW c \in running, doc'.items[q].contact = c,
         ~Stoppable(doc'), NEW adm \in Admissions, adm[1] = q,
         running' = running, handled' = handled, stage' = stage, batch' = batch, live' = live,
         pending' = pending, overflow = {},
         \/ /\ c \in live /\ injected' = [injected EXCEPT ![c] = @ \cup {adm}]
            /\ overflow' = {}
         \/ injected' = injected /\ overflow' = {adm},
         main' = [main EXCEPT !.at = "submit"]
  PROVE  DInv'
<1>1. c \in Contacts /\ q \in QueueIds
  BY DEF DInv, DTypeOK, QueueIds
<1>2. ASSUME NEW e \in Contacts, NEW a \in Held4(e) PROVE a[1] # q
  BY <1>1, <1>2 DEF DInv, Backed
<1>3. \A e \in Contacts : Held4(e)' \subseteq Held4(e) \cup (IF e = c THEN {adm} ELSE {})
  BY <1>1 DEF Held4, DInv, DTypeOK
<1>4. \A e \in Contacts : Held4(e)' \subseteq Held4(e) \/ overflow' = {}
  BY <1>1 DEF Held4
<1>5. \A a \in overflow' : a = adm
  OBVIOUS
<1>6. DTypeOK'
  BY <1>1 DEF DInv, DTypeOK
<1>7. Placed'
  BY <1>1 DEF DInv, DTypeOK, Placed, PlacedAt
<1>8. Owned'
  <2>1. ASSUME NEW e \in Contacts, NEW f \in Contacts, NEW a \in Held4(e)', NEW b \in Held4(f)',
               a[1] = b[1]
        PROVE  a = b /\ e = f
    <3>1. CASE a \in Held4(e) /\ b \in Held4(f)
      BY <2>1, <3>1 DEF DInv, Owned
    <3>2. CASE a \notin Held4(e)
      <4>1. a = adm /\ e = c
        BY <1>3, <2>1, <3>2
      <4>2. b \notin Held4(f)
        BY <1>2, <2>1, <4>1
      <4> QED
        BY <1>3, <2>1, <4>1, <4>2
    <3>3. CASE b \notin Held4(f)
      <4>1. b = adm /\ f = c
        BY <1>3, <2>1, <3>3
      <4>2. a \notin Held4(e)
        BY <1>2, <2>1, <4>1
      <4> QED
        BY <1>3, <2>1, <4>1, <4>2
    <3> QED
      BY <3>1, <3>2, <3>3
  <2>2. \A a \in overflow', e \in Contacts : \A b \in Held4(e)' : a[1] # b[1]
    BY <1>2, <1>4, <1>5
  <2> QED
    BY <1>5, <2>1, <2>2 DEF Owned
<1>9. Backed'
  <2>1. ASSUME NEW e \in Contacts, NEW a \in Held4(e)'
        PROVE  IF Present(doc', a[1]) THEN doc'.items[a[1]].contact = e ELSE a[1] \in handled
    <3>1. CASE a \in Held4(e)
      <4>1. a[1] \in QueueIds
        BY <3>1 DEF DInv, DTypeOK, Held4, Admissions
      <4> QED
        BY <3>1, <4>1 DEF DInv, Backed, Calm
    <3>2. CASE a = adm /\ e = c
      BY <3>2
    <3> QED
      BY <1>3, <2>1, <3>1, <3>2
  <2>2. ASSUME NEW a \in overflow'
        PROVE  Present(doc', a[1]) /\ doc'.items[a[1]].contact \in running'
    BY <1>5, <2>2
  <2> QED
    BY <2>1, <2>2 DEF Backed, Present
<1>10. OneEach'
  <2>1. adm \notin batch[c]
    BY <1>1, <1>2 DEF Held4
  <2> QED
    BY <1>1, <2>1 DEF DInv, OneEach, DTypeOK
<1>11. Attesting'
  <2>1. doc.epoch \in Nat /\ doc'.epoch \in Nat /\ main.epoch \in Nat
    BY DEF DInv, Inv, Document, Calm, DTypeOK
  <2>2. main'.epoch = main.epoch /\ main'.at = "submit"
    BY DEF DInv, DTypeOK
  <2> QED
    BY <2>1, <2>2 DEF DInv, Attesting, Calm
<1>12. Stopped' /\ Inv(doc') /\ TotalIn(doc')
  BY DEF Stopped, Stoppable, Calm
<1> QED
  BY <1>6, <1>7, <1>8, <1>9, <1>10, <1>11, <1>12, DInvPrimed

\* submit: a root of the main loop is accepted, and admitted to a new thread,
\* to a live turn, or to nobody yet.
LEMMA SubmitStep ==
  ASSUME DInv, NEW q \in RootIds, NEW c \in Contacts, NEW b \in Bodies,
         Submit(Prune(doc), q, c, b)
  PROVE  DInv'
<1> SUFFICES ASSUME NEW d, d = Prune(doc), Submit(d, q, c, b) PROVE DInv'
  OBVIOUS
<1>1. Inv(doc) /\ TotalIn(doc) /\ Inv(d) /\ TotalIn(d) /\ Calm(doc, d, {})
  BY PruneCalm DEF DInv
<1>2. /\ overflow = {} /\ q \notin handled /\ handled' = handled
      /\ batch' = batch /\ live' = live
      /\ EnqueueRoot(d, q, c, b, claimedRoots < MaxActive)
      /\ main' = [main EXCEPT !.at = "submit"]
  BY DEF Submit
<1>3. /\ Calm(d, doc', {})
      /\ ~Present(d, q) /\ Present(doc', q) /\ doc'.items[q].contact = c
      /\ doc'.items[q].status = "claimed" => ~Stoppable(doc')
  BY <1>1, <1>2, EnqueueRootCalm
<1>4. Calm(doc, doc', {})
  BY <1>1, <1>3, CalmTwice
<1>5. main' \in [at: {"idle", "submit", "status", "inbox"}, epoch: Nat]
      /\ main'.epoch = main.epoch /\ main'.at = "submit"
  BY <1>2 DEF DInv, DTypeOK
<1> DEFINE adm == <<q, doc'.items[q].lease>>
<1>6. adm \in Admissions /\ adm[1] = q
  <2>1. q \in QueueIds /\ doc'.items \in [QueueIds -> Item]
    BY <1>3 DEF Calm, Inv, Document, QueueIds
  <2> QED
    BY <2>1 DEF Admissions, Item
<1>7. ~Present(doc, q)
  <2>1. q \in QueueIds
    BY DEF QueueIds
  <2> QED
    BY <1>1, <1>3, <2>1 DEF Calm
<1>8. CASE UNCHANGED <<pending, injected, stage, running, overflow>>
  BY <1>2, <1>4, <1>5, <1>8, RestStep DEF Rests
<1>9. CASE /\ doc'.items[q].status = "claimed" /\ c \notin running
           /\ Schedule({adm}, stage, "new") /\ UNCHANGED <<injected, overflow>>
  <2>1. \A a \in {adm} : Present(doc', a[1]) /\ doc'.items[a[1]].contact \notin running
    BY <1>3, <1>6, <1>9
  <2>2. stage \in [Contacts -> Stages] /\ PlacedAt(stage)
    BY DEF DInv, DTypeOK, Placed
  <2>3. {adm} \in SUBSET Admissions /\ \A x, y \in {adm} : x = y
    BY <1>6
  <2> QED
    BY <1>2, <1>3, <1>4, <1>5, <1>9, <2>1, <2>2, <2>3, ScheduleStep
<1>10. CASE /\ doc'.items[q].status = "claimed" /\ c \in running
            /\ UNCHANGED <<pending, stage, running>>
            /\ \/ /\ c \in live /\ injected' = [injected EXCEPT ![c] = @ \cup {adm}]
                  /\ overflow' = {}
               \/ injected' = injected /\ overflow' = {adm}
  BY <1>2, <1>3, <1>4, <1>6, <1>7, <1>10, TakingUp
<1> QED
  BY <1>2, <1>8, <1>9, <1>10 DEF Submit

\* A step of one thread, or of submit's end, that passes admissions on or lets
\* them go
LEMMA PassingOn ==
  ASSUME DInv, NEW G, Calm(doc, doc', G), Quietens(doc, doc'), G \subseteq handled',
         handled \subseteq handled', DTypeOK', Placed', OneEach',
         \A c \in Contacts : Held4(c)' \subseteq Held4(c), overflow' \subseteq overflow,
         running' \subseteq running, overflow' = {} \/ running' = running,
         main' = main \/ main' = [main EXCEPT !.at = "idle"]
  PROVE  DInv'
<1>1. main'.epoch = main.epoch /\ (main' = main \/ main'.at \notin {"status", "inbox"})
  BY DEF DInv, DTypeOK
<1>2. Inv(doc') /\ TotalIn(doc') /\ Owned' /\ Backed' /\ Attesting' /\ Stopped'
  BY <1>1, LettingGo
<1> QED
  BY <1>2, DInvPrimed

\* The steps of a contact's thread that leave the document alone
LEMMA ThreadStep ==
  ASSUME DInv, NEW c \in Contacts,
         \/ PopPending(c) \/ OpenInjection(c) \/ CloseInjection(c)
         \/ RunnerEnds(c) \/ ReleaseClaimed(c) \/ HeartbeatDies(c)
  PROVE  DInv'
<1>1. Calm(doc, doc', {}) /\ Quietens(doc, doc')
  <2>1. doc' = doc
    BY DEF PopPending, OpenInjection, CloseInjection, RunnerEnds, ReleaseClaimed, HeartbeatDies
  <2> QED
    BY <2>1, CalmSame DEF DInv
<1>2. main' = main /\ overflow' = overflow /\ handled' = handled
  BY DEF PopPending, OpenInjection, CloseInjection, RunnerEnds, ReleaseClaimed, HeartbeatDies,
         history
<1>3. /\ pending \in [Contacts -> SUBSET Admissions] /\ injected \in [Contacts -> SUBSET Admissions]
      /\ batch \in [Contacts -> SUBSET Admissions] /\ stage \in [Contacts -> Stages]
      /\ c \in Contacts
  BY DEF DInv, DTypeOK
<1> DEFINE Fits == /\ DTypeOK' /\ Placed' /\ OneEach' /\ running' \subseteq running
                   /\ \A x \in Contacts : Held4(x)' \subseteq Held4(x)
                   /\ overflow' = {} \/ running' = running
<1>4. Fits
  <2>1. CASE PopPending(c)
    <3>1. pending' = [pending EXCEPT ![c] = {}] /\ injected' = injected /\ live' = live
          /\ overflow = {} /\ stage[c] = "loop"
      BY <2>1 DEF PopPending, Pop
    <3>2. batch[c] = {} /\ injected[c] = {} /\ c \notin live /\ c \in running
      BY <3>1 DEF DInv, Placed, PlacedAt
    <3>3. \/ /\ pending[c] # {} /\ batch' = [batch EXCEPT ![c] = pending[c]]
             /\ stage' = [stage EXCEPT ![c] = "run"] /\ running' = running
          \/ /\ pending[c] = {} /\ batch' = batch
             /\ stage' = [stage EXCEPT ![c] = "none"] /\ running' = running \ {c}
      BY <2>1 DEF PopPending
    <3>4. DTypeOK'
      BY <1>2, <1>3, <3>1, <3>3 DEF DInv, DTypeOK, Stages
    <3>5. Placed'
      BY <1>3, <3>1, <3>2, <3>3 DEF DInv, Placed, PlacedAt
    <3>6. OneEach'
      BY <1>3, <3>1, <3>2, <3>3 DEF DInv, OneEach
    <3>7. \A x \in Contacts : Held4(x)' \subseteq Held4(x)
      BY <1>3, <3>1, <3>2, <3>3 DEF Held4
    <3> QED
      BY <1>2, <3>1, <3>3, <3>4, <3>5, <3>6, <3>7
  <2>2. CASE OpenInjection(c) \/ CloseInjection(c) \/ HeartbeatDies(c)
    BY <1>2, <2>2 DEF DInv, DTypeOK, Placed, PlacedAt, OneEach, Held4, OpenInjection,
                      CloseInjection, HeartbeatDies, history
  <2>3. CASE RunnerEnds(c)
    <3>1. /\ pending' = pending /\ live' = live /\ running' = running
          /\ injected' = [injected EXCEPT ![c] = {}]
          /\ batch' = [batch EXCEPT ![c] = batch[c] \cup injected[c]]
          /\ overflow = {} /\ stage[c] = "run" /\ c \notin live
          /\ \/ stage' = [stage EXCEPT ![c] = "ok"]
             \/ stage' = [stage EXCEPT ![c] = "failed"]
      BY <2>3 DEF RunnerEnds, Settled
    <3>2. pending[c] = {} /\ c \in running
      BY <3>1 DEF DInv, Placed, PlacedAt
    <3>3. DTypeOK'
      BY <1>2, <1>3, <3>1 DEF DInv, DTypeOK, Stages
    <3>4. Placed'
      BY <1>3, <3>1, <3>2 DEF DInv, Placed, PlacedAt
    <3>5. OneEach'
      BY <1>3, <3>1 DEF DInv, OneEach
    <3>6. \A x \in Contacts : Held4(x)' \subseteq Held4(x)
      BY <1>3, <3>1 DEF Held4
    <3> QED
      BY <1>2, <3>1, <3>3, <3>4, <3>5, <3>6
  <2>4. CASE ReleaseClaimed(c)
    <3>1. /\ pending' = pending /\ live' = live /\ running' = running /\ injected' = injected
          /\ batch' = [batch EXCEPT ![c] = {}]
          /\ overflow = {} /\ stage[c] = "settled"
          /\ stage' = [stage EXCEPT ![c] = "replay"]
      BY <2>4 DEF ReleaseClaimed
    <3>2. pending[c] = {} /\ injected[c] = {} /\ c \in running /\ c \notin live
      BY <3>1 DEF DInv, Placed, PlacedAt
    <3>3. DTypeOK'
      BY <1>2, <1>3, <3>1 DEF DInv, DTypeOK, Stages
    <3>4. Placed'
      BY <1>3, <3>1, <3>2 DEF DInv, Placed, PlacedAt
    <3>5. OneEach'
      BY <1>3, <3>1 DEF DInv, OneEach
    <3>6. \A x \in Contacts : Held4(x)' \subseteq Held4(x)
      BY <1>3, <3>1 DEF Held4
    <3> QED
      BY <1>2, <3>1, <3>3, <3>4, <3>5, <3>6
  <2> QED
    BY <2>1, <2>2, <2>3, <2>4
<1> QED
  BY <1>1, <1>2, <1>4, PassingOn

\* complete_roots and retry_roots at the end of a turn: what is gone from the
\* queue has been completed.
LEMMA SettleStep ==
  ASSUME DInv, NEW c \in Contacts, Complete(Prune(doc), c) \/ Retry(Prune(doc), c)
  PROVE  DInv'
<1> SUFFICES ASSUME NEW d, d = Prune(doc), Complete(d, c) \/ Retry(d, c) PROVE DInv'
  OBVIOUS
<1>1. /\ Inv(doc) /\ TotalIn(doc) /\ Inv(d) /\ TotalIn(d)
      /\ Calm(doc, d, {}) /\ Quietens(doc, d)
  BY PruneCalm DEF DInv
<1>2. /\ main' = main /\ overflow' = overflow /\ pending' = pending /\ injected' = injected
      /\ live' = live
  BY DEF Complete, Retry
<1>3. /\ batch \in [Contacts -> SUBSET Admissions] /\ stage \in [Contacts -> Stages]
      /\ stage[c] \in {"ok", "failed"}
  BY DEF DInv, DTypeOK, Complete, Retry
<1>4. pending[c] = {} /\ injected[c] = {} /\ c \in running /\ c \notin live
  BY <1>3 DEF DInv, Placed, PlacedAt
<1>5. CASE doc' = doc /\ handled' = handled /\ batch' = batch /\ running' = running
           /\ stage' = [stage EXCEPT ![c] = "failed"]
  <2>1. DTypeOK' /\ Placed' /\ OneEach'
    BY <1>2, <1>3, <1>4, <1>5 DEF DInv, DTypeOK, Placed, PlacedAt, OneEach, Stages
  <2>2. \A x \in Contacts : Held4(x)' \subseteq Held4(x)
    BY <1>2, <1>5 DEF Held4
  <2> QED
    BY <1>1, <1>2, <1>5, <2>1, <2>2, CalmSame, PassingOn
<1>6. CASE doc' = doc /\ handled' = handled /\ overflow = {}
           /\ batch' = [batch EXCEPT ![c] = {}] /\ running' = running \ {c}
           /\ stage' = [stage EXCEPT ![c] = "none"]
  <2>1. DTypeOK' /\ Placed' /\ OneEach'
    BY <1>2, <1>3, <1>4, <1>6 DEF DInv, DTypeOK, Placed, PlacedAt, OneEach, Stages
  <2>2. \A x \in Contacts : Held4(x)' \subseteq Held4(x)
    BY <1>2, <1>3, <1>6 DEF Held4
  <2> QED
    BY <1>1, <1>2, <1>6, <2>1, <2>2, CalmSame, PassingOn
<1>7. CASE stage' = [stage EXCEPT ![c] = "settled"] /\ batch' = batch /\ running' = running
           /\ \/ RetryRoots(d, batch[c]) /\ handled' = handled
              \/ CompleteRoots(d, batch[c]) /\ handled' = handled \cup {a[1] : a \in batch[c]}
  <2>1. DTypeOK' /\ Placed' /\ OneEach'
    BY <1>2, <1>3, <1>4, <1>7 DEF DInv, DTypeOK, Placed, PlacedAt, OneEach, Stages
  <2>2. \A x \in Contacts : Held4(x)' \subseteq Held4(x)
    BY <1>2, <1>7 DEF Held4
  <2>3. CASE RetryRoots(d, batch[c]) /\ handled' = handled
    <3>1. Calm(d, doc', {}) /\ Quietens(d, doc')
      BY <1>1, <2>3, GivenBackCalm
    <3>2. Calm(doc, doc', {}) /\ Quietens(doc, doc')
      BY <1>1, <3>1, CalmTwice
    <3> QED
      BY <1>2, <1>7, <2>1, <2>2, <2>3, <3>2, PassingOn
  <2>4. CASE CompleteRoots(d, batch[c]) /\ handled' = handled \cup {a[1] : a \in batch[c]}
    <3> DEFINE G == {a[1] : a \in batch[c]}
    <3>1. Calm(d, doc', G) /\ Quietens(d, doc')
      BY <1>1, <2>4, CompleteCalm
    <3>2. Calm(doc, doc', G) /\ Quietens(doc, doc')
      BY <1>1, <3>1, CalmTwice
    <3>3. G \subseteq handled' /\ handled \subseteq handled'
      BY <2>4
    <3> HIDE DEF G
    <3> QED
      BY <1>2, <1>7, <2>1, <2>2, <3>2, <3>3, PassingOn
  <2> QED
    BY <1>7, <2>3, <2>4
<1> QED
  BY <1>5, <1>6, <1>7 DEF Complete, Retry

\* The rest of submit: a refused admission is deferred, and the threads start.
LEMMA SubmitEndsStep ==
  ASSUME DInv, DeferOverflow(Prune(doc)) \/ SubmitReturns
  PROVE  DInv'
<1>1. CASE DeferOverflow(Prune(doc))
  <2> SUFFICES ASSUME NEW d, d = Prune(doc), DeferOverflow(d) PROVE DInv'
    BY <1>1
  <2>1. /\ Inv(doc) /\ TotalIn(doc) /\ Inv(d) /\ TotalIn(d)
        /\ Calm(doc, d, {}) /\ Quietens(doc, d)
    BY PruneCalm DEF DInv
  <2>2. Calm(d, doc', {}) /\ Quietens(d, doc')
    BY <2>1, GivenBackCalm DEF DeferOverflow
  <2>3. Calm(doc, doc', {}) /\ Quietens(doc, doc')
    BY <2>1, <2>2, CalmTwice
  <2>4. DTypeOK' /\ Placed' /\ OneEach'
    BY DEF DInv, DTypeOK, Placed, PlacedAt, OneEach, DeferOverflow
  <2>5. /\ \A c \in Contacts : Held4(c)' \subseteq Held4(c)
        /\ running' = running /\ overflow' = {} /\ handled' = handled /\ main' = main
    BY DEF Held4, DeferOverflow, history
  <2> QED
    BY <2>3, <2>4, <2>5, PassingOn
<1>2. CASE SubmitReturns
  <2>1. /\ pending' = pending /\ injected' = injected /\ batch' = batch /\ live' = live
        /\ doc' = doc /\ running' = running /\ overflow' = {} /\ handled' = handled
        /\ main' = [main EXCEPT !.at = "idle"]
        /\ \E at \in {"loop", "lost"} :
              stage' = [c \in Contacts |-> IF stage[c] = "new" THEN at ELSE stage[c]]
    BY <1>2 DEF SubmitReturns, NewThreads
  <2>2. DTypeOK'
    BY <2>1 DEF DInv, DTypeOK, Stages
  <2>3. Placed'
    BY <2>1 DEF DInv, Placed, PlacedAt
  <2>4. OneEach' /\ \A c \in Contacts : Held4(c)' \subseteq Held4(c)
    BY <2>1 DEF DInv, OneEach, Held4
  <2>5. Calm(doc, doc', {}) /\ Quietens(doc, doc')
    BY <2>1, CalmSame DEF DInv
  <2> QED
    BY <2>1, <2>2, <2>3, <2>4, <2>5, PassingOn
<1> QED
  BY <1>1, <1>2

\* The three places that replay the durable queue
LEMMA ReplaysStep ==
  ASSUME DInv,
         \/ \E c \in Contacts : TurnReplay(Prune(doc), c) \/ ExitReplay(Prune(doc), c)
         \/ TickReplay(Prune(doc))
  PROVE  DInv'
<1> SUFFICES ASSUME NEW d, d = Prune(doc),
                    \/ \E c \in Contacts : TurnReplay(d, c) \/ ExitReplay(d, c)
                    \/ TickReplay(d)
             PROVE  DInv'
  OBVIOUS
<1>1. stage \in [Contacts -> Stages] /\ PlacedAt(stage)
  BY DEF DInv, DTypeOK, Placed
<1>2. Calm(doc, doc, {}) /\ Quietens(doc, doc)
  BY CalmSame DEF DInv
<1>3. CASE Replay(d, stage) /\ main' = main
  BY <1>1, <1>3, ReplayStep
<1>4. ASSUME NEW c \in Contacts, TurnReplay(d, c) PROVE DInv'
  <2> DEFINE st == [stage EXCEPT ![c] = "loop"]
  <2>1. stage[c] = "replay"
    BY <1>4 DEF TurnReplay
  <2>2. st \in [Contacts -> Stages] /\ PlacedAt(st)
    BY <1>1, <2>1 DEF PlacedAt, Stages
  <2>3. CASE Replay(d, st) /\ main' = main
    <3> HIDE DEF st
    <3> QED
      BY <2>2, <2>3, ReplayStep
  <2>4. CASE /\ doc' = doc /\ overflow = {} /\ overflow' = overflow /\ main' = main
             /\ running' = running \ {c} /\ stage' = [stage EXCEPT ![c] = "none"]
             /\ UNCHANGED <<pending, injected, batch, live, handled>>
    <3>1. batch[c] = {} /\ injected[c] = {} /\ pending[c] = {} /\ c \notin live
      BY <1>1, <2>1 DEF PlacedAt
    <3>2. DTypeOK' /\ Placed' /\ OneEach'
      BY <1>1, <2>4, <3>1 DEF DInv, DTypeOK, Placed, PlacedAt, OneEach, Stages
    <3>3. \A x \in Contacts : Held4(x)' \subseteq Held4(x)
      BY <2>4 DEF Held4
    <3> QED
      BY <1>2, <2>4, <3>2, <3>3, PassingOn
  <2> QED
    BY <1>4, <2>3, <2>4 DEF TurnReplay
<1>5. CASE UNCHANGED <<doc, main>> /\ Rests
  <2>1. main' \in [at: {"idle", "submit", "status", "inbox"}, epoch: Nat]
        /\ main'.epoch = main.epoch
    BY <1>5 DEF DInv, DTypeOK
  <2>2. Calm(doc, doc', {}) /\ Quietens(doc, doc')
    BY <1>2, <1>5
  <2> QED
    BY <1>5, <2>1, <2>2, RestStep
<1>6. ASSUME NEW c \in Contacts, ExitReplay(d, c) PROVE DInv'
  BY <1>3, <1>5, <1>6 DEF ExitReplay, Rests
<1> QED
  BY <1>3, <1>4, <1>6 DEF TickReplay

\* A step after which no thread holds anything
LEMMA EmptyHands ==
  ASSUME DInv, Inv(doc'), TotalIn(doc'), doc.epoch <= doc'.epoch,
         pending' = Nothing, injected' = Nothing, batch' = Nothing,
         stage' = [c \in Contacts |-> "none"], live' = {}, running' = {}, overflow' = {},
         main' = [main EXCEPT !.at = "idle"]
  PROVE  DInv'
<1>1. DTypeOK' /\ Placed' /\ OneEach'
  BY DEF DInv, DTypeOK, Placed, PlacedAt, OneEach, Nothing, Stages
<1>2. \A c \in Contacts : Held4(c)' = {}
  BY DEF Held4, Nothing
<1>3. Owned' /\ Backed' /\ Stopped'
  BY <1>2 DEF Owned, Backed, Stopped
<1>4. Attesting'
  <2>1. doc.epoch \in Nat /\ doc'.epoch \in Nat /\ main.epoch \in Nat
        /\ main'.at = "idle" /\ main'.epoch = main.epoch
    BY DEF DInv, Inv, Document, DTypeOK
  <2> QED
    BY <2>1 DEF DInv, Attesting
<1> QED
  BY <1>1, <1>3, <1>4, DInvPrimed

\* With no contact in _running and nothing to defer, nothing is held.
LEMMA IdleIsEmpty ==
  ASSUME DInv, running = {}
  PROVE  /\ pending = Nothing /\ injected = Nothing /\ batch = Nothing
         /\ stage = [c \in Contacts |-> "none"] /\ live = {}
<1>1. \A c \in Contacts : stage[c] = "none"
  BY DEF DInv, Placed, PlacedAt
<1>2. \A c \in Contacts : pending[c] = {} /\ injected[c] = {} /\ batch[c] = {} /\ c \notin live
  BY <1>1 DEF DInv, Placed, PlacedAt
<1> QED
  BY <1>1, <1>2 DEF DInv, DTypeOK, Nothing

\* The process dies.
LEMMA CrashStep == ASSUME DInv, Crash PROVE DInv'
<1>1. doc' = doc /\ doc.epoch \in Nat
  BY DEF Crash, DInv, Inv, Document
<1> QED
  BY <1>1, EmptyHands DEF Crash, DInv

\* public_status: the epoch to attest is read from a quiet document.
LEMMA ReadStatusStep == ASSUME DInv, ReadStatus(Prune(doc)) PROVE DInv'
<1> SUFFICES ASSUME NEW d, d = Prune(doc), ReadStatus(d) PROVE DInv'
  OBVIOUS
<1>1. /\ Inv(doc) /\ TotalIn(doc) /\ Inv(d) /\ TotalIn(d) /\ ClaimsAreLeased(d)
      /\ Calm(doc, d, {})
  BY PruneCalm DEF DInv
<1>2. /\ doc' = d /\ main' = [at |-> "status", epoch |-> d.epoch]
      /\ UNCHANGED <<pending, injected, batch, stage, live, running, overflow, handled>>
  BY DEF ReadStatus, Poll, history
<1>3. QuietIn(d)
  <2>1. \A l \in Leases : ~d.leases[l].live
    BY DEF ReadStatus, Quiescent, LiveLeases
  <2>2. \A q \in QueueIds : d.items[q].status = "pending" => ~d.items[q].cont
    BY DEF ReadStatus, Quiescent, PendingContinuations
  <2>3. \A q \in QueueIds : d.items[q].status # "claimed"
    BY <1>1, <2>1 DEF ClaimsAreLeased
  <2> QED
    BY <2>1, <2>2, <2>3 DEF QuietIn
<1>4. d.epoch \in Nat
  BY <1>1 DEF Inv, Document
<1>5. DTypeOK' /\ Placed' /\ OneEach' /\ Owned'
  BY <1>2, <1>4 DEF DInv, DTypeOK, Placed, PlacedAt, OneEach, Owned, Held4
<1>6. Backed'
  <2>1. ASSUME NEW c \in Contacts, NEW a \in Held4(c)'
        PROVE  IF Present(d, a[1]) THEN d.items[a[1]].contact = c ELSE a[1] \in handled
    <3>1. a \in Held4(c) /\ a[1] \in QueueIds
      BY <1>2, <2>1 DEF DInv, DTypeOK, Held4, Admissions
    <3> QED
      BY <1>1, <3>1 DEF DInv, Backed, Calm
  <2>2. overflow' = {}
    BY <1>2 DEF ReadStatus
  <2> QED
    BY <1>2, <2>1, <2>2 DEF Backed, Present
<1>7. Attesting'
  BY <1>2, <1>3, <1>4 DEF Attesting, QuietIn
<1>8. Stopped'
  BY <1>1, <1>2 DEF DInv, Stopped, Stoppable, Calm
<1> QED
  BY <1>1, <1>2, <1>5, <1>6, <1>7, <1>8, DInvPrimed

\* wait_for_idle(timeout=0): _running is empty when it says so.
LEMMA CheckIdleStep == ASSUME DInv, CheckIdle PROVE DInv'
<1>1. /\ doc' = doc /\ overflow = {}
      /\ UNCHANGED <<pending, injected, batch, stage, live, running, overflow, handled>>
      /\ main' = [main EXCEPT !.at = IF Idle THEN "inbox" ELSE "idle"]
  BY DEF CheckIdle, history
<1>2. main.at = "status"
  BY DEF CheckIdle
<1>3. DTypeOK' /\ Placed' /\ OneEach' /\ Owned'
  BY <1>1 DEF DInv, DTypeOK, Placed, PlacedAt, OneEach, Owned, Held4
<1>4. Backed' /\ Stopped'
  BY <1>1 DEF DInv, Backed, Stopped, Held4
<1>5. Attesting'
  <2>1. main'.epoch = main.epoch /\ main'.at \in {"idle", "inbox"}
        /\ (main'.at = "inbox" => running = {})
    BY <1>1 DEF DInv, DTypeOK, Idle
  <2> QED
    BY <1>1, <1>2, <2>1 DEF DInv, Attesting, Attested, QuietIn
<1> QED
  BY <1>1, <1>3, <1>4, <1>5, DInvPrimed DEF DInv

\* acknowledge_runtime_quiescent: safe_to_stop is granted to the drain whose
\* status was read, and since then _running was found empty.
LEMMA AttestStep ==
  ASSUME DInv, NEW secured \in BOOLEAN, Attest(Prune(doc), secured) PROVE DInv'
<1> SUFFICES ASSUME NEW d, d = Prune(doc), Attest(d, secured) PROVE DInv'
  OBVIOUS
<1>1. /\ Inv(doc) /\ TotalIn(doc) /\ Inv(d) /\ TotalIn(d) /\ ClaimsAreLeased(d)
      /\ Calm(doc, d, {})
  BY PruneCalm DEF DInv
<1>2. /\ Acknowledge(d, main.epoch, secured) /\ main.at = "inbox"
      /\ main' = [main EXCEPT !.at = "idle"] /\ Rests
  BY DEF Attest, Rests, history
<1>3. Inv(doc') /\ doc'.items = d.items
  BY <1>1, <1>2, AcknowledgeInv, OthersGrown DEF Inv
<1>4. /\ doc'.phase = d.phase /\ doc'.epoch = d.epoch /\ d.epoch \in Nat /\ doc.epoch \in Nat
      /\ doc'.safe => d.phase = "draining" /\ d.epoch = main.epoch
  BY <1>1, <1>2 DEF Acknowledge, Inv, Document
<1>5. TotalIn(doc')
  BY <1>1, <1>3 DEF TotalIn, Present
<1>6. CASE doc'.safe
  <2>1. doc.phase = "draining" /\ doc.epoch = main.epoch
    BY <1>1, <1>4, <1>6 DEF Calm, DInv, Attesting, DTypeOK
  <2>2. running = {} /\ overflow = {}
    BY <1>2, <2>1 DEF DInv, Attesting, Attested
  <2>3. doc.epoch <= doc'.epoch
    BY <1>1, <1>4 DEF Calm
  <2> QED
    BY <1>2, <1>3, <1>5, <2>2, <2>3, IdleIsEmpty, EmptyHands DEF Rests
<1>7. CASE ~doc'.safe
  <2>1. Grown(d, doc', {}) /\ (\A y, z \in {} : y = z) /\ {} \cap handled = {}
    BY <1>3, GrownBySame
  <2>2. Calm(d, doc', {})
    BY <1>1, <1>3, <1>4, <1>7, <2>1, CalmByParts
  <2>3. Calm(doc, doc', {})
    BY <1>1, <2>2, CalmTwice
  <2>4. /\ main' \in [at: {"idle", "submit", "status", "inbox"}, epoch: Nat]
        /\ main'.epoch = main.epoch /\ main'.at \notin {"status", "inbox"}
    BY <1>2 DEF DInv, DTypeOK
  <2> QED
    BY <1>2, <2>3, <2>4, RestStep
<1> QED
  BY <1>6, <1>7

\* What workers, handlers of the main loop, the host updater and time do to the
\* document
LEMMA OutsideStep ==
  ASSUME DInv, workers \subseteq Leases,
         \/ \E c \in Contacts : StartWorker(Prune(doc), c)
         \/ \E l \in workers : WorkerEnds(Prune(doc), l)
         \/ \E c \in Contacts, b \in Bodies, l \in workers, q \in ContIds :
                WorkerResult(Prune(doc), l, q, c, b)
         \/ \E c \in Contacts, b \in Bodies, q \in IngressIds :
                Ingress(Prune(doc), q, c, b)
         \/ Update(Prune(doc))
         \/ TimePasses
  PROVE  DInv'
<1> SUFFICES ASSUME NEW d, d = Prune(doc),
                    \/ \E c \in Contacts : StartWorker(d, c)
                    \/ \E l \in workers : WorkerEnds(d, l)
                    \/ \E c \in Contacts, b \in Bodies, l \in workers, q \in ContIds :
                           WorkerResult(d, l, q, c, b)
                    \/ \E c \in Contacts, b \in Bodies, q \in IngressIds : Ingress(d, q, c, b)
                    \/ Update(d)
                    \/ TimePasses
             PROVE  DInv'
  OBVIOUS
<1>1. /\ Inv(doc) /\ TotalIn(doc) /\ Inv(d) /\ TotalIn(d)
      /\ Calm(doc, d, {}) /\ Quietens(doc, d)
  BY PruneCalm DEF DInv
<1>2. /\ Rests /\ main' = main /\ main'.epoch = main.epoch
      /\ main' \in [at: {"idle", "submit", "status", "inbox"}, epoch: Nat]
  BY DEF StartWorker, WorkerEnds, WorkerResult, Ingress, Update, TimePasses,
         dispatch, history, Rests, DInv, DTypeOK
<1>3. ASSUME Calm(doc, doc', {}), Quietens(doc, doc') \/ main.at \notin {"status", "inbox"}
      PROVE  DInv'
  BY <1>2, <1>3, RestStep
<1>4. ASSUME Calm(d, doc', {}), Quietens(d, doc') \/ main.at \notin {"status", "inbox"}
      PROVE  DInv'
  BY <1>1, <1>3, <1>4, CalmTwice
<1>5. ASSUME NEW c \in Contacts, StartWorker(d, c) PROVE DInv'
  <2>1. PICK a \in batch[c], l \in FreshLeases(d) : AcquireActivity(d, a[2], l)
    BY <1>5 DEF StartWorker
  <2>2. a[2] \in Leases \cup {None} /\ l \in Leases
    BY <2>1 DEF DInv, DTypeOK, Admissions, FreshLeases
  <2> QED
    BY <1>1, <1>4, <2>1, <2>2, ActivityCalm
<1>6. ASSUME NEW l \in workers, WorkerEnds(d, l) PROVE DInv'
  <2>1. l \in Leases /\ Release(d, l)
    BY <1>6 DEF WorkerEnds
  <2> QED
    BY <1>1, <1>4, <2>1, ActivityCalm
<1>7. ASSUME NEW c \in Contacts, NEW b \in Bodies, NEW l \in workers, NEW q \in ContIds,
             WorkerResult(d, l, q, c, b)
      PROVE  DInv'
  <2>1. l \in Leases /\ q \notin handled /\ EnqueueContinuation(d, q, c, b, l)
    BY <1>7 DEF WorkerResult
  <2> QED
    BY <1>1, <1>4, <2>1, EnqueueContinuationCalm
<1>8. ASSUME NEW c \in Contacts, NEW b \in Bodies, NEW q \in IngressIds, Ingress(d, q, c, b)
      PROVE  DInv'
  <2>1. q \notin handled /\ EnqueueIngress(d, q, c, b) /\ main.at = "idle"
    BY <1>8 DEF Ingress
  <2> QED
    BY <1>1, <1>4, <2>1, EnqueueIngressCalm
<1>9. CASE Update(d)
  BY <1>1, <1>4, <1>9, UpdaterCalm DEF Update
<1>10. CASE TimePasses
  <2>1. doc' = Renew(Age(doc), Beating)
    BY <1>10 DEF TimePasses
  <2> QED
    BY <1>1, <1>3, <2>1, TimeCalm
<1> QED
  BY <1>5, <1>6, <1>7, <1>8, <1>9, <1>10

-----------------------------------------------------------------------------
(* The invariant of the running Stemcell *)

\* The first state: nothing runs.
LEMMA DInitInv == DInit => DInv /\ workers \subseteq Leases
<1> SUFFICES ASSUME DInit PROVE DInv /\ workers \subseteq Leases
  OBVIOUS
<1>1. Inv(doc) /\ doc.epoch = 0 /\ ~doc.safe /\ doc.phase = "available"
      /\ \A q \in QueueIds : ~Present(doc, q)
  BY InitInv DEF DInit, Init, DefaultState, Present, NoItem
<1>2. TotalIn(doc)
  BY <1>1 DEF TotalIn
<1>3. DTypeOK /\ Placed /\ OneEach
  BY DEF DInit, DTypeOK, Placed, PlacedAt, OneEach, Nothing, Stages
<1>4. \A c \in Contacts : Held4(c) = {}
  BY DEF DInit, Held4, Nothing
<1>5. Owned /\ Backed /\ Stopped
  BY <1>4 DEF DInit, Owned, Backed, Stopped
<1>6. Attesting
  BY <1>1 DEF DInit, Attesting
<1>7. workers \subseteq Leases
  BY DEF DInit
<1> QED
  BY <1>1, <1>2, <1>3, <1>5, <1>6, <1>7 DEF DInv

\* Workers are started under lease ids.
LEMMA WorkersStep == workers \subseteq Leases /\ [DNext]_vars => (workers \subseteq Leases)'
<1> SUFFICES ASSUME workers \subseteq Leases, [DNext]_vars PROVE workers' \subseteq Leases
  OBVIOUS
<1>1. ASSUME NEW c \in Contacts, StartWorker(Prune(doc), c) PROVE workers' \subseteq Leases
  BY <1>1 DEF StartWorker, FreshLeases
<1>2. ASSUME NEW l, WorkerEnds(Prune(doc), l) PROVE workers' \subseteq Leases
  BY <1>2 DEF WorkerEnds
<1>3. ASSUME NEW l, NEW q, NEW c, NEW b, WorkerResult(Prune(doc), l, q, c, b)
      PROVE  workers' \subseteq Leases
  BY <1>3 DEF WorkerResult
<1>4. ASSUME NEW d, NEW st, Replay(d, st) PROVE workers' = workers
  BY <1>4 DEF Replay
<1>5. ASSUME NEW d, NEW c, Turn(d, c) PROVE workers' = workers
  BY <1>4, <1>5 DEF Turn, PopPending, RunnerEnds, Complete, Retry, ReleaseClaimed, TurnReplay,
                    ExitReplay
<1>6. ASSUME NEW d, MainLoop(d) PROVE workers' = workers
  BY <1>4, <1>6 DEF MainLoop, DeferOverflow, SubmitReturns, TickReplay, ReadStatus, CheckIdle,
                    Attest
<1>7. ASSUME NEW d, NEW q, NEW c, NEW b, Submit(d, q, c, b) \/ Ingress(d, q, c, b)
      PROVE  workers' = workers
  BY <1>7 DEF Submit, Ingress
<1> QED
  BY <1>1, <1>2, <1>3, <1>5, <1>6, <1>7
     DEF DNext, Arrivals, OpenInjection, CloseInjection, HeartbeatDies, Update, TimePasses,
         Crash, vars

\* A step of the dispatcher keeps its invariant.
LEMMA DNextInv == DInv /\ workers \subseteq Leases /\ [DNext]_vars => DInv'
<1> SUFFICES ASSUME DInv, workers \subseteq Leases, [DNext]_vars PROVE DInv'
  OBVIOUS
<1>1. CASE UNCHANGED vars
  <2>1. Calm(doc, doc', {}) /\ Quietens(doc, doc')
    BY <1>1, CalmSame DEF DInv, vars
  <2>2. Rests /\ main' = main
    BY <1>1 DEF vars, dispatch, history, Rests
  <2>3. main' \in [at: {"idle", "submit", "status", "inbox"}, epoch: Nat]
    BY <2>2 DEF DInv, DTypeOK
  <2> QED
    BY <2>1, <2>2, <2>3, RestStep
<1>2. ASSUME NEW c \in Contacts, Turn(Prune(doc), c) PROVE DInv'
  BY <1>2, ThreadStep, SettleStep, ReplaysStep DEF Turn
<1>3. ASSUME NEW c \in Contacts, OpenInjection(c) \/ CloseInjection(c) \/ HeartbeatDies(c)
      PROVE  DInv'
  BY <1>3, ThreadStep
<1>4. ASSUME MainLoop(Prune(doc)) PROVE DInv'
  BY <1>4, SubmitEndsStep, ReplaysStep, ReadStatusStep, CheckIdleStep, AttestStep
     DEF MainLoop
<1>5. ASSUME NEW c \in Contacts, NEW b \in Bodies, NEW q \in RootIds,
             Submit(Prune(doc), q, c, b)
      PROVE  DInv'
  BY <1>5, SubmitStep
<1>6. ASSUME Crash PROVE DInv'
  BY <1>6, CrashStep
<1> QED
  BY <1>1, <1>2, <1>3, <1>4, <1>5, <1>6, OutsideStep DEF DNext, Arrivals

\* A queue id under one lease is one admission, and what is pending is one.
LEMMA DInvMeans == DInv => StopBoundary /\ OneHolder /\ OneBatch
<1> SUFFICES ASSUME DInv PROVE StopBoundary /\ OneHolder /\ OneBatch
  OBVIOUS
<1>1. StopBoundary
  <2> SUFFICES ASSUME Stoppable(doc) PROVE running = {} /\ AllHeld = {}
    BY DEF StopBoundary, Stoppable
  <2>1. running = {} /\ overflow = {}
    BY DEF DInv, Stopped
  <2>2. \A c \in Contacts : Held4(c) = {}
    BY <2>1, IdleIsEmpty DEF Held4, Nothing
  <2> QED
    BY <2>1, <2>2 DEF AllHeld
<1>2. OneHolder
  <2>1. \A a, b \in AllHeld : a[1] = b[1] => a = b
    BY DEF DInv, Owned, AllHeld
  <2>2. \A c \in Contacts : pending[c] = {} \/ (injected[c] = {} /\ batch[c] = {})
    BY DEF DInv, Placed, PlacedAt
  <2>3. \A c, e \in Contacts : Held4(c) \cap Held4(e) # {} => c = e
    BY DEF DInv, Owned
  <2> QED
    BY <2>1, <2>2, <2>3 DEF DInv, OneEach, OneHolder
<1>3. OneBatch
  <2> SUFFICES ASSUME NEW c \in Contacts
               PROVE  Cardinality(pending[c]) <= 1 /\ (injected[c] # {} => stage[c] = "run")
    BY DEF OneBatch
  <2>1. CASE pending[c] = {}
    BY <2>1, FS_EmptySet DEF DInv, Placed, PlacedAt
  <2>2. CASE pending[c] # {}
    <3>1. PICK a : pending[c] = {a}
      BY <2>2 DEF DInv, OneEach
    <3>2. Cardinality(pending[c]) = 1
      BY <3>1, FS_Singleton
    <3> QED
      BY <3>2 DEF DInv, Placed, PlacedAt
  <2> QED
    BY <2>1, <2>2
<1> QED
  BY <1>1, <1>2, <1>3

\* For any constants, the running Stemcell keeps DInv.
THEOREM DInvariance == DSpec => []DInv
<1> DEFINE I == DInv /\ workers \subseteq Leases
<1>1. DInit => I
  BY DInitInv
<1>2. I /\ [DNext]_vars => I'
  BY DNextInv, WorkersStep
<1>3. I => DInv
  OBVIOUS
<1> QED
  BY <1>1, <1>2, <1>3, PTL DEF DSpec

\* For any constants, whenever public_status says safe_to_stop, or the update is
\* past it, no thread of ManagerDispatcher is alive or holds an admission: the
\* three separate reads of _maintenance_runtime_tick amount to one.
THEOREM StopIsIdle == DSpec => []StopBoundary
<1> QED
  BY DInvMeans, DInvariance, PTL

\* For any constants, submit, the replays, injection, deferral, settling and
\* restarts never put one root in two hands, or in one under two leases.
THEOREM RootsHaveOneHolder == DSpec => []OneHolder
<1> QED
  BY DInvMeans, DInvariance, PTL

\* For any constants, _run_contact pops one admission at a time and takes what
\* was injected before it leaves its turn.
THEOREM BatchesAreSingle == DSpec => []OneBatch
<1> QED
  BY DInvMeans, DInvariance, PTL

\* For any constants, the fence, the quiescence safe_to_stop vouches for, the
\* standstill of an update and the ownership of leases, which Invariance proves
\* of the coordinator called in any order, hold of the Stemcell that calls it.
THEOREM RunningKeepsFence ==
  DSpec => [](FenceHolds /\ SafeMeansQuiescent /\ NoTurnDuringUpdate /\ LeaseOwnsOneRoot)
<1>1. DInv => FenceHolds /\ SafeMeansQuiescent /\ NoTurnDuringUpdate /\ LeaseOwnsOneRoot
  BY DEF DInv, Inv, FenceHolds, SafeMeansQuiescent, NoTurnDuringUpdate, LeaseOwnsOneRoot
<1> QED
  BY <1>1, DInvariance, PTL
=============================================================================
