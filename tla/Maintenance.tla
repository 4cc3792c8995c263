---------------------------- MODULE Maintenance ----------------------------
(***************************************************************************)
(* The maintenance coordinator of core/maintenance.py: one JSON document,  *)
(* replaced atomically under one cross-process lock, through which the     *)
(* host updater and the running Stemcell agree on when it is safe to stop. *)
(* Every public method is one call of _transaction: read the document,     *)
(* prune it, mutate it, write it back.  A method that raises writes        *)
(* nothing, so it has no step here.                                        *)
(*                                                                         *)
(* The document is the single variable doc.  A time stamp of the code is   *)
(* kept as the time left until it: an expiry that has passed is 0, and     *)
(* Tick lowers every countdown by one.  A uuid is an id that nothing in    *)
(* the document refers to.  Message bodies are members of Bodies: the code *)
(* only ever compares the fingerprint of (contact, body).                  *)
(***************************************************************************)
EXTENDS Integers, FiniteSets

CONSTANTS
    Contacts,           \* contact ids
    Bodies,             \* manager contexts, told apart by their fingerprint
    RootIds,            \* queue ids of plain roots (uuid)
    IngressIds,         \* queue ids derived from a durable ingress identity
    ContIds,            \* queue ids of continuations
    Leases,             \* lease ids (uuid)
    Mids,               \* maintenance ids
    None,               \* the empty string where an id is expected
    LeaseTTL,           \* LEASE_TTL_SECONDS
    ClaimTTL,           \* ROOT_CLAIM_TTL_SECONDS
    NoticeTTL,          \* NOTICE_CLAIM_TTL_SECONDS
    ReceiptTTL,         \* INGRESS_ / CONTINUATION_RECEIPT_TTL_SECONDS
    Deadlines,          \* deadline_seconds an updater may ask for
    MaxReceipts,        \* MAX_INGRESS_RECEIPTS, MAX_CONTINUATION_RECEIPTS
    MaxDelivered,       \* MAX_DELIVERED_NOTICES
    RetryDelay,         \* delay of retry_roots
    BackoffCap,         \* RETRY_BACKOFF_CAP_SECONDS
    MaxDoublings,       \* RETRY_BACKOFF_MAX_DOUBLINGS
    MaxEpoch            \* bound on the number of drains (model checking only)

QueueIds == RootIds \cup IngressIds \cup ContIds

ActivePhases == {"draining", "updating", "validating", "rolling_back"}
Phases == {"available"} \cup ActivePhases
Outcomes == {"", "cancelled", "deadline_expired", "updated", "rolled_back"}
NoDeadline == -1

ASSUME BoundsAssumption ==
    /\ LeaseTTL \in Nat \ {0} /\ ClaimTTL \in Nat \ {0}
    /\ NoticeTTL \in Nat \ {0} /\ ReceiptTTL \in Nat \ {0}
    /\ Deadlines \subseteq Nat /\ MaxReceipts \in Nat
    /\ MaxDelivered \in Nat \ {0}
    /\ RetryDelay \in Nat /\ BackoffCap \in Nat /\ MaxDoublings \in Nat
    /\ MaxEpoch \in Nat

ASSUME IdsAssumption ==
    /\ None \notin Leases /\ None \notin Mids /\ None \notin Contacts
    /\ None \notin Bodies
    /\ RootIds \cap IngressIds = {} /\ RootIds \cap ContIds = {}
    /\ IngressIds \cap ContIds = {}

VARIABLE doc

-----------------------------------------------------------------------------
(* The shape of the document *)

Lease == [live: BOOLEAN, epoch: Nat, ttl: 0..LeaseTTL]
NoLease == [live |-> FALSE, epoch |-> 0, ttl |-> 0]

\* A root_queue entry.  The code keeps a list; "ahead" is the set of ids still
\* in front of the entry, which is all that list order is used for, and
\* "dated" the time left to a receipt dated at the entry's enqueued_at.
Item == [status: {"absent", "pending", "claimed"},
         contact: Contacts \cup {None}, body: Bodies \cup {None},
         cont: BOOLEAN, epoch: Nat, lease: Leases \cup {None},
         claim: 0..ClaimTTL, attempts: Nat, wait: Int, dated: 0..ReceiptTTL,
         ahead: SUBSET QueueIds]
NoItem == [status |-> "absent", contact |-> None, body |-> None,
           cont |-> FALSE, epoch |-> 0, lease |-> None, claim |-> 0,
           attempts |-> 0, wait |-> 0, dated |-> 0, ahead |-> {}]

Receipt == [contact: Contacts \cup {None}, body: Bodies \cup {None},
            ttl: 0..ReceiptTTL]
NoReceipt == [contact |-> None, body |-> None, ttl |-> 0]

Notice == [status: {"absent", "pending", "claimed", "delivered"},
           ttl: 0..NoticeTTL, ahead: SUBSET (Mids \X Contacts)]
NoNotice == [status |-> "absent", ttl |-> 0, ahead |-> {}]
Returned(n) == [n EXCEPT !.status = "pending", !.ttl = 0]

Document == [phase: Phases, epoch: Nat, mid: Mids \cup {None},
             deadline: Nat \cup {NoDeadline}, safe: BOOLEAN,
             outcome: Outcomes,
             leases: [Leases -> Lease], items: [QueueIds -> Item],
             receipts: [IngressIds \cup ContIds -> Receipt],
             notices: [Mids \X Contacts -> Notice]]

\* _default_state
DefaultState ==
    [phase |-> "available", epoch |-> 0, mid |-> None,
     deadline |-> NoDeadline, safe |-> FALSE, outcome |-> "",
     leases |-> [l \in Leases |-> NoLease],
     items |-> [q \in QueueIds |-> NoItem],
     receipts |-> [q \in IngressIds \cup ContIds |-> NoReceipt],
     notices |-> [n \in Mids \X Contacts |-> NoNotice]]

LiveLeases(d) == {l \in Leases : d.leases[l].live}
Queued(d) == {q \in QueueIds : d.items[q].status # "absent"}
Claimed(d) == {q \in QueueIds : d.items[q].status = "claimed"}
PendingContinuations(d) ==
    {q \in QueueIds : d.items[q].status = "pending" /\ d.items[q].cont}
FreshLeases(d) ==
    {l \in Leases : ~d.leases[l].live /\ \A q \in QueueIds : d.items[q].lease # l}
FreshMids(d) ==
    {m \in Mids \ {d.mid} : \A c \in Contacts : d.notices[<<m, c>>].status = "absent"}

-----------------------------------------------------------------------------
(* _prune, which every transaction runs before its own change *)

\* Mutant: the outcome is written to the phase.
CancelExpiredDrainPhase(d) ==
    IF d.phase = "draining" /\ d.deadline = 0
    THEN [d EXCEPT !.phase = "deadline_expired", !.safe = FALSE] ELSE d

\* _cancel_expired_drain
CancelExpiredDrain(d) ==
    IF d.phase = "draining" /\ d.deadline = 0
    THEN [d EXCEPT !.phase = "available", !.safe = FALSE,
                   !.outcome = "deadline_expired"]
    ELSE d

\* What a root_queue entry becomes when its claim is given up.
Unclaimed(i) == [i EXCEPT !.status = "pending", !.lease = None, !.claim = 0]

\* Receipts past their time are dropped, then the oldest one over the limit
\* (of two accepted in the same unit of time, either).
\* One transaction adds at most one receipt of each kind.
DropOldest(rs, kind) ==
    LET kept == {q \in kind : rs[q].ttl > 0}
        oldest == CHOOSE q \in kept : \A r \in kept : rs[q].ttl <= rs[r].ttl
    IN  [q \in DOMAIN rs |->
            IF q \in kind /\ Cardinality(kept) > MaxReceipts /\ q = oldest
            THEN NoReceipt ELSE rs[q]]
PruneReceipts(rs) ==
    LET unexpired == [q \in DOMAIN rs |->
                        IF rs[q].ttl = 0 THEN NoReceipt ELSE rs[q]]
    IN  DropOldest(DropOldest(unexpired, ContIds), IngressIds)

\* An expired notice claim is returned; over MaxDelivered, the delivered
\* notice that was appended first is forgotten.  One transaction delivers at
\* most one.
Forgotten(ns) ==
    LET delivered == {n \in DOMAIN ns : ns[n].status = "delivered"} IN
    {n \in delivered : /\ Cardinality(delivered) > MaxDelivered
                       /\ ns[n].ahead \cap delivered = {}}
PruneNotices(ns) ==
    [n \in DOMAIN ns |->
        IF ns[n].status = "claimed" /\ ns[n].ttl = 0 THEN Returned(ns[n])
        ELSE IF n \in Forgotten(ns) THEN NoNotice
        ELSE [ns[n] EXCEPT !.ahead = ns[n].ahead \ Forgotten(ns)]]

PruneLeases(ls) == [l \in Leases |-> IF ls[l].ttl = 0 THEN NoLease ELSE ls[l]]

\* Mutant: an entry whose claim is lost is dropped.
PruneItemsDrops(is, ls) ==
    [q \in QueueIds |->
        IF is[q].status = "claimed" /\ \A l \in Leases : l = is[q].lease => ~ls[l].live
        THEN NoItem ELSE is[q]]

\* An entry stays claimed while its lease lives and its claim has time left.
PruneItems(is, ls) ==
    [q \in QueueIds |->
        IF /\ is[q].status = "claimed"
           /\ ~(\E l \in Leases : l = is[q].lease /\ ls[l].live /\ is[q].claim > 0)
        THEN Unclaimed(is[q]) ELSE is[q]]

Prune(doc0) ==
    LET d == CancelExpiredDrain(doc0)
        ls == PruneLeases(d.leases)
        busy == \E l \in Leases : ls[l].live
    IN  [d EXCEPT !.leases = ls,
                  !.items = PruneItems(d.items, ls),
                  !.receipts = PruneReceipts(d.receipts),
                  !.notices = PruneNotices(d.notices),
                  !.safe = d.safe /\ d.phase = "draining" /\ ~busy]

-----------------------------------------------------------------------------
(* Changes a transaction makes to the pruned document d *)

\* _new_lease
NewLease(d, l, e) ==
    [d EXCEPT !.leases[l] = [live |-> TRUE, epoch |-> e, ttl |-> LeaseTTL],
              !.safe = FALSE]

DropLease(d, l) == [d EXCEPT !.leases[l] = NoLease]

\* root_queue.append of a pending entry
Append2Queue(d, q, c, b, cont, e) ==
    [d EXCEPT !.items[q] =
        [status |-> "pending", contact |-> c, body |-> b, cont |-> cont,
         epoch |-> e, lease |-> None, claim |-> 0, attempts |-> 0,
         wait |-> 0, dated |-> IF q \in RootIds THEN 0 ELSE ReceiptTTL,
         ahead |-> Queued(d)]]

\* Mutant: an accepted entry gets no receipt.
ReceiptedNever(d, q, c, b) == d

\* The receipt of entry q, dated when the entry was enqueued
Receipted(d, q, c, b) ==
    [d EXCEPT !.receipts[q] = [contact |-> c, body |-> b, ttl |-> d.items[q].dated]]

\* _ensure_notice: one notice per maintenance operation and contact
EnsureNotice(d, c) ==
    IF d.mid \in Mids /\ d.notices[<<d.mid, c>>].status = "absent"
    THEN [d EXCEPT !.notices[<<d.mid, c>>] =
            [status |-> "pending", ttl |-> 0,
             ahead |-> {n \in DOMAIN d.notices : d.notices[n].status # "absent"}]]
    ELSE d

\* _claim_root_item for the entries K at once, g[q] the lease of entry q.
\* A continuation keeps the epoch its lineage was admitted in.
AdmittedEpoch(d, q) == IF d.items[q].cont THEN d.items[q].epoch ELSE d.epoch
ClaimItems(d, K, g) ==
    [d EXCEPT
        !.leases = [l \in Leases |->
            IF \E q \in K : g[q] = l
            THEN [live |-> TRUE, ttl |-> LeaseTTL,
                  epoch |-> AdmittedEpoch(d, CHOOSE q \in K : g[q] = l)]
            ELSE d.leases[l]],
        !.items = [q \in QueueIds |->
            IF q \in K
            THEN [d.items[q] EXCEPT !.status = "claimed", !.lease = g[q],
                                    !.claim = ClaimTTL]
            ELSE d.items[q]],
        !.safe = d.safe /\ K = {}]

\* Mutant: a lease id that is not a fresh uuid.
GrantsAnyLease(d, K) == [K -> Leases]

\* The ways to give each entry of K a lease of its own
Grants(d, K) == {g \in [K -> FreshLeases(d)] :
                    \A q, r \in K : g[q] = g[r] => q = r}

\* The entries of the admissions A, a set of <<queue id, lease id>>, that are
\* still claimed under that admission: a claim that was lost does not match.
Held(d, A) == {q \in Claimed(d) : <<q, d.items[q].lease>> \in A}
DropHeldLeases(d, A) ==
    [l \in Leases |-> IF \E q \in Held(d, A) : d.items[q].lease = l
                      THEN NoLease ELSE d.leases[l]]

\* _retry_backoff_seconds
Smaller(a, b) == IF a < b THEN a ELSE b
RetryBackoff(attempts) ==
    Smaller(RetryDelay * 2 ^ Smaller(attempts - 1, MaxDoublings), BackoffCap)

-----------------------------------------------------------------------------
(* The transactions.  d is the pruned document, the state mutate is given. *)

Init == doc = DefaultState

\* Mutants: continuations are not waited for; roots behind the fence are.
QuiescentIfNoLease(d) == LiveLeases(d) = {}
QuiescentIfQueueEmpty(d) == LiveLeases(d) = {} /\ Queued(d) = {}

\* active_count = 0, of public_status and of acknowledge_runtime_quiescent
Quiescent(d) == LiveLeases(d) = {} /\ PendingContinuations(d) = {}

\* request_drain.  During an active phase it returns (same id, or no id);
\* a new drain is given, or draws, an id that no earlier one had.
RequestDrain(d, m, secs) ==
    IF d.phase \in ActivePhases
    THEN m \in {d.mid, None} /\ doc' = d
    ELSE /\ d.epoch < MaxEpoch
         /\ m \in FreshMids(d)
         /\ doc' = [d EXCEPT !.epoch = d.epoch + 1, !.phase = "draining",
                             !.mid = m, !.deadline = secs, !.safe = FALSE,
                             !.outcome = ""]

CancelDrain(d, m) ==
    doc' = IF d.phase = "draining" /\ m \in {d.mid, None}
           THEN [d EXCEPT !.phase = "available", !.safe = FALSE,
                          !.outcome = "cancelled"]
           ELSE d

Allowed == [draining |-> {"updating", "available", "rolling_back"},
            updating |-> {"validating", "rolling_back"},
            validating |-> {"available", "rolling_back"},
            rolling_back |-> {"available"},
            available |-> {}]

\* Mutant: safe_to_stop is not consulted.
PermittedUnchecked(d, p) == p \in Allowed[d.phase]

Permitted(d, p) == p \in Allowed[d.phase] /\ (p = "updating" => d.safe)

\* transition.  A refused transition raises and writes nothing.
Transition(d, p, m) ==
    /\ m \in {d.mid, None}
    /\ \/ p = d.phase /\ doc' = d
       \/ /\ p # d.phase
          /\ Permitted(d, p)
          /\ doc' = [d EXCEPT !.phase = p, !.safe = FALSE,
                              !.outcome = IF p # "available" THEN d.outcome
                                ELSE CASE d.phase = "rolling_back" -> "rolled_back"
                                       [] d.phase = "draining" -> "cancelled"
                                       [] OTHER -> "updated"]

\* enqueue_root: admitted at once when available and the caller has capacity
EnqueueRoot(d, q, c, b, admit) ==
    LET e == Append2Queue(d, q, c, b, FALSE, d.epoch)
    IN  /\ d.items[q].status = "absent"
        /\ \/ d.phase # "available" /\ doc' = EnsureNotice(e, c)
           \/ d.phase = "available" /\ ~admit /\ doc' = e
           \/ /\ d.phase = "available" /\ admit
              /\ \E g \in Grants(d, {q}) : doc' = ClaimItems(e, {q}, g)

\* The fingerprint comparison, with an entry or a receipt
SameMessage(rec, c, b) == rec.contact = c /\ rec.body = b

\* Mutant: a redelivered record renews its receipt.
EnqueueIngressRenews(d, q, c, b) ==
    IF d.items[q].status # "absent" THEN doc' = Receipted(d, q, c, b)
    ELSE LET e == Receipted(Append2Queue(d, q, c, b, FALSE, d.epoch), q, c, b)
         IN  doc' = IF d.phase = "available" THEN e ELSE EnsureNotice(e, c)

\* enqueue_ingress_root.  A receipt or an entry with another contact or body
\* raises; a known identity is accepted without a second entry.
EnqueueIngress(d, q, c, b) ==
    IF d.receipts[q].ttl > 0
    THEN SameMessage(d.receipts[q], c, b) /\ doc' = d
    ELSE IF d.items[q].status # "absent"
    THEN SameMessage(d.items[q], c, b) /\ doc' = Receipted(d, q, c, b)
    ELSE LET e == Receipted(Append2Queue(d, q, c, b, FALSE, d.epoch), q, c, b)
             f == [e EXCEPT !.safe = FALSE]
         IN  doc' = IF d.phase = "available" THEN f ELSE EnsureNotice(f, c)

\* claim_pending_roots(limit, exclude_contact_ids, unique_contacts=True), the
\* form the dispatcher uses: the first entry of each contact in queue order.
Claimable(d, excluded) ==
    {q \in QueueIds :
        /\ d.items[q].status = "pending" /\ d.items[q].wait = 0
        /\ d.items[q].contact \notin excluded
        /\ d.phase \in {"available", "draining"}
        /\ d.phase = "draining" => d.items[q].cont /\ d.items[q].epoch < d.epoch}
ToClaim(d, excluded, limit) ==
    LET c == Claimable(d, excluded)
        heads == {q \in c : \A r \in c \cap d.items[q].ahead :
                                d.items[r].contact # d.items[q].contact}
    IN  {q \in heads : Cardinality(heads \cap d.items[q].ahead) < limit}
ClaimPendingRoots(d, excluded, limit) ==
    LET K == ToClaim(d, excluded, limit) IN
    \E g \in Grants(d, K) : doc' = ClaimItems(d, K, g)

\* enqueue_continuation: the lease becomes a pending entry of the same epoch
EnqueueContinuation(d, q, c, b, l) ==
    LET e == Receipted(Append2Queue(d, q, c, b, TRUE, d.leases[l].epoch), q, c, b)
    IN  doc' = IF d.receipts[q].ttl > 0 THEN d
               ELSE IF d.items[q].status # "absent"
               THEN IF SameMessage(d.items[q], c, b) THEN Receipted(d, q, c, b) ELSE d
               ELSE IF ~d.leases[l].live THEN d
               ELSE DropLease([e EXCEPT !.safe = FALSE], l)

\* heartbeat of a lease that is still there
Heartbeat(d, l) ==
    doc' = IF ~d.leases[l].live THEN d
           ELSE [d EXCEPT !.leases[l].ttl = LeaseTTL,
                          !.items = [q \in QueueIds |->
                              IF d.items[q].lease = l
                              THEN [d.items[q] EXCEPT !.claim = ClaimTTL]
                              ELSE d.items[q]]]

\* acquire_activity: parent is None or a lease whose token the caller holds
AcquireActivity(d, parent, l) ==
    doc' = IF d.phase = "available" THEN NewLease(d, l, d.epoch)
           ELSE IF \E p \in Leases : /\ p = parent /\ d.leases[p].live
                                     /\ d.leases[p].epoch < d.epoch
           THEN NewLease(d, l, d.leases[parent].epoch)
           ELSE d

\* Mutant: adopted work is dated in the fence's own epoch.
PriorEpochCurrent(d) == d.epoch
PriorEpoch(d) == IF d.epoch > 0 THEN d.epoch - 1 ELSE 0

\* adopt_prefence_activity: prefence iff it started no later than the request
AdoptPrefence(d, l, prefence) ==
    doc' = IF d.phase = "available" THEN NewLease(d, l, d.epoch)
           ELSE IF prefence THEN NewLease(d, l, PriorEpoch(d))
           ELSE d

Release(d, l) == doc' = DropLease(d, l)

CompleteRoots(d, A) ==
    LET K == Held(d, A) IN
    doc' = [d EXCEPT
        !.leases = DropHeldLeases(d, A),
        !.items = [q \in QueueIds |->
            IF q \in K THEN NoItem
            ELSE [d.items[q] EXCEPT !.ahead = d.items[q].ahead \ K]]]

\* retry_roots.  The attempts are counted up to where the backoff stops growing.
RetryRoots(d, A) ==
    doc' = [d EXCEPT
        !.leases = DropHeldLeases(d, A),
        !.items = [q \in QueueIds |->
            IF q \notin Held(d, A) THEN d.items[q]
            ELSE [Unclaimed(d.items[q]) EXCEPT
                    !.attempts = Smaller(d.items[q].attempts, MaxDoublings) + 1,
                    !.wait = RetryBackoff(d.items[q].attempts + 1)]]]

DeferRoots(d, A) ==
    doc' = [d EXCEPT
        !.leases = DropHeldLeases(d, A),
        !.items = [q \in QueueIds |->
            IF q \in Held(d, A) THEN Unclaimed(d.items[q]) ELSE d.items[q]]]

ClaimNotices(d) ==
    doc' = [d EXCEPT !.notices = [n \in DOMAIN d.notices |->
                    IF d.notices[n].status = "pending"
                    THEN [d.notices[n] EXCEPT !.status = "claimed", !.ttl = NoticeTTL]
                    ELSE d.notices[n]]]

\* finish_notice by the claimant (a lost claim does not match its token)
FinishNotice(d, n, delivered) ==
    doc' = IF d.notices[n].status # "claimed" THEN d
           ELSE [d EXCEPT !.notices[n].status =
                                IF delivered THEN "delivered" ELSE "pending",
                          !.notices[n].ttl = 0]

\* acknowledge_runtime_quiescent
Acknowledge(d, e, secured) ==
    doc' = [d EXCEPT !.safe = /\ d.phase = "draining" /\ d.epoch = e
                              /\ Quiescent(d)
                              /\ secured]

\* get_activity, public_status, public_events, and every call that finds
\* nothing to do: only the pruning is written.
Poll(d) == doc' = d

\* One unit of time passes.
Less(n) == IF n > 0 THEN n - 1 ELSE n
Age(d) ==
    [d EXCEPT
        !.deadline = Less(d.deadline),
        !.leases = [l \in Leases |-> [d.leases[l] EXCEPT !.ttl = Less(d.leases[l].ttl)]],
        !.items = [q \in QueueIds |-> [d.items[q] EXCEPT
                        !.claim = Less(d.items[q].claim),
                        !.wait = Less(d.items[q].wait),
                        !.dated = Less(d.items[q].dated)]],
        !.receipts = [q \in DOMAIN d.receipts |->
                        [d.receipts[q] EXCEPT !.ttl = Less(d.receipts[q].ttl)]],
        !.notices = [n \in DOMAIN d.notices |->
                        [d.notices[n] EXCEPT !.ttl = Less(d.notices[n].ttl)]]]
Tick == doc' = Age(doc)

\* A heartbeat of each of the leases L that is still there
Renew(d, L) ==
    [d EXCEPT !.leases = [l \in Leases |->
                    IF l \in L /\ d.leases[l].live
                    THEN [d.leases[l] EXCEPT !.ttl = LeaseTTL] ELSE d.leases[l]],
              !.items = [q \in QueueIds |->
                    IF d.items[q].lease \in L
                    THEN [d.items[q] EXCEPT !.claim = ClaimTTL] ELSE d.items[q]]]

Acquire(d, l) ==
    \/ \E parent \in Leases \cup {None} : AcquireActivity(d, parent, l)
    \/ \E prefence \in BOOLEAN : AdoptPrefence(d, l, prefence)

Updater(d) ==
    \/ \E m \in Mids \cup {None}, secs \in Deadlines \cup {NoDeadline} :
            RequestDrain(d, m, secs)
    \/ \E m \in Mids \cup {None} : CancelDrain(d, m)
    \/ \E m \in Mids \cup {None}, p \in Phases \ {"draining"} : Transition(d, p, m)

Runtime(d) ==
    \/ \E c \in Contacts, b \in Bodies :
        \/ \E q \in RootIds, admit \in BOOLEAN : EnqueueRoot(d, q, c, b, admit)
        \/ \E q \in IngressIds : EnqueueIngress(d, q, c, b)
        \/ \E q \in ContIds, l \in Leases : EnqueueContinuation(d, q, c, b, l)
    \/ \E excluded \in SUBSET Contacts, limit \in 1..Cardinality(Contacts) :
            ClaimPendingRoots(d, excluded, limit)
    \/ \E l \in LiveLeases(d) : Heartbeat(d, l) \/ Release(d, l)
    \/ \E l \in FreshLeases(d) : Acquire(d, l)
    \/ \E q \in Claimed(d) : LET A == {<<q, d.items[q].lease>>} IN
            CompleteRoots(d, A) \/ RetryRoots(d, A) \/ DeferRoots(d, A)
    \/ ClaimNotices(d)
    \/ \E n \in Mids \X Contacts, delivered \in BOOLEAN : FinishNotice(d, n, delivered)
    \/ \E e \in 0..MaxEpoch, secured \in BOOLEAN : Acknowledge(d, e, secured)
    \/ Poll(d)

\* The callers.  A call under a claim or lease that is gone is a Poll.
Transaction == LET d == Prune(doc) IN Updater(d) \/ Runtime(d)

Next == Transaction \/ Tick

Spec == Init /\ [][Next]_doc

-----------------------------------------------------------------------------
(* Properties *)

\* The document keeps its shape through every transaction of
\* MaintenanceCoordinator.
TypeOK == doc \in Document

\* While a fence is raised (any phase but available) every lease and every
\* continuation in the queue belongs to a lineage admitted before that fence:
\* acquire_activity, adopt_prefence_activity and claim_pending_roots let
\* nothing newer through, and no continuation is left that a draining runtime
\* could never claim.
FenceIn(d) ==
    d.phase # "available" =>
        /\ \A l \in Leases : d.leases[l].live => d.leases[l].epoch < d.epoch
        /\ \A q \in QueueIds : d.items[q].status # "absent" /\ d.items[q].cont
                => d.items[q].epoch < d.epoch
FenceHolds == FenceIn(doc)

\* safe_to_stop, as the updater reads it, means quiescent: draining, no lease,
\* no claimed root and no continuation waiting for a manager turn.
QuiescentIn(d) ==
    d.safe => /\ d.phase = "draining"
              /\ \A l \in Leases : ~d.leases[l].live
              /\ \A q \in QueueIds :
                    /\ d.items[q].status # "claimed"
                    /\ d.items[q].status = "pending" => ~d.items[q].cont
SafeMeansQuiescent == QuiescentIn(doc)

\* Past the stop boundary no root is claimed: the update replaces the code
\* only while no manager turn owns a queue entry.
NoTurnIn(d) ==
    d.phase \in {"updating", "validating"} =>
        \A q \in QueueIds : d.items[q].status # "claimed"
NoTurnDuringUpdate == NoTurnIn(doc)

\* Two root_queue entries are never claimed under the same lease, so
\* completing one admission cannot complete another root.
OwnerIn(d) ==
    \A q, r \in QueueIds :
        d.items[q].lease = d.items[r].lease /\ d.items[q].lease # None => q = r
LeaseOwnsOneRoot == OwnerIn(doc)

\* The facts the proofs of the four invariants above rest on: an entry has a
\* lease exactly while it is claimed, nothing is dated after the current
\* epoch, and a raised fence has an epoch of at least 1.
BookkeepingIn(d) ==
    /\ \A q \in QueueIds : d.items[q].lease # None <=> d.items[q].status = "claimed"
    /\ \A l \in Leases : d.leases[l].epoch <= d.epoch
    /\ \A q \in QueueIds : d.items[q].epoch <= d.epoch
    /\ d.phase # "available" => d.epoch > 0

\* A receipt vouches for the entry it was issued for: while both exist they
\* name the same contact and body, so a redelivered ingress record or worker
\* result is recognised and a reused identity is refused.
ReceiptIn(d) ==
    \A q \in IngressIds \cup ContIds :
        d.receipts[q].ttl > 0 /\ d.items[q].status # "absent" =>
            /\ d.receipts[q].contact = d.items[q].contact
            /\ d.receipts[q].body = d.items[q].body
ReceiptAgrees == ReceiptIn(doc)

\* An accepted root leaves the queue only through the claim that is live when
\* it leaves; pruning, drains, cancellations and lost claims keep it.
RootKept ==
    \A q \in QueueIds :
        doc.items[q].status # "absent" /\ doc'.items[q].status = "absent" =>
            /\ doc.items[q].status = "claimed"
            /\ \E l \in Leases : /\ doc.items[q].lease = l /\ doc.leases[l].live
                                 /\ ~doc'.leases[l].live
AcceptedRootKept == [][RootKept]_doc
=============================================================================
