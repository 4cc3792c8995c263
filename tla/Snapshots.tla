----------------------------- MODULE Snapshots -----------------------------
(***************************************************************************)
(* The local snapshot store of core/backup and the three operations that   *)
(* share its lock: creating a snapshot, collecting garbage, and restoring  *)
(* in place, each of which may die between any two file operations.        *)
(*                                                                         *)
(* A file's content stands for its digest, so an object is a content and a *)
(* manifest, which is named by the hash of its body, is its body.  The     *)
(* protected files are 1..NFiles in path order.  The release sequence      *)
(* floor, which restore treats apart, is path 0: its content is its        *)
(* sequence number, 0 when there is no floor.                              *)
(***************************************************************************)
EXTENDS Integers, FiniteSets

CONSTANTS
    NFiles,         \* number of protected files
    Contents,       \* contents a protected file may have
    Absent,         \* the content of a file that does not exist
    Nobody,         \* the holder of a free lock
    MaxFloor,       \* bound on release sequence numbers
    MaxRetain,      \* bound on retain_latest
    MaxManifests,   \* bound on the manifests in the store
    MaxFaults       \* bound on crashes and failed operations

ASSUME SnapshotsAssumption ==
    /\ NFiles \in Nat /\ MaxFloor \in Nat /\ MaxRetain \in Nat
    /\ MaxManifests \in Nat /\ MaxFaults \in Nat
    /\ Nobody \notin {"snap", "gc", "rest"}
    /\ Absent \notin Contents /\ (0..MaxFloor) \cap (Contents \cup {Absent}) = {}

Files == 1..NFiles
Paths == 0..NFiles
Floors == 0..MaxFloor

\* A manifest: the content of every file and of the floor, and the tombstones
Body == [files: [Files -> Contents \cup {Absent}], floor: Floors, tombs: SUBSET Paths]
PathsOf(files, seq) == {f \in Files : files[f] # Absent} \cup (IF seq # 0 THEN {0} ELSE {})
ObjectsOf(m) == ({m.files[f] : f \in Files} \ {Absent}) \cup ({m.floor} \ {0})

Journal == [state: {"none", "APPLYING", "COMMITTED"}, root: Body, next: 0..2 * NFiles + 2]
NoBody == [files |-> [f \in Files |-> Absent], floor |-> 0, tombs |-> {}]

VARIABLES
    tree,       \* the protected files of the instance
    floor,      \* .silicon/release-sequence-floor.json
    objects,    \* objects/sha256: contents
    manifests,  \* manifests: each one with the manifests older than it
    stray,      \* is there a temporary file in objects/.tmp or manifests?
    lock,       \* the holder of .snapshots.lock
    snap,       \* a process in create_local_snapshot
    gc,         \* a process in garbage_collect_referenced_snapshots
    rest,       \* a process in restore_local_snapshot_in_place
    journal,    \* restore-in-place.json
    latest,     \* last-restored-snapshot.json: a set of at most one manifest
    partial,    \* restore temporaries: <<manifest, path, whole?>>
    protected,  \* checkpoints named by the update transaction journals
    dirty,      \* has the instance written since the restore's first operation?
    faults      \* faults so far

store == <<objects, manifests, stray>>
instance == <<tree, floor, dirty>>
restoring == <<rest, journal, latest, partial>>
vars == <<instance, store, lock, snap, gc, restoring, protected, faults>>

Roots == DOMAIN manifests
Intact(m) == ObjectsOf(m) \subseteq objects
IdleSnap == [at |-> "idle", todo |-> {}, body |-> NoBody]
IdleGc == [at |-> "idle", manifests |-> {}, objects |-> {}]
IdleRest == [at |-> "idle", root |-> NoBody, next |-> 0, floor |-> 0]
MayFault == faults < MaxFaults
First(S) == CHOOSE i \in S : \A j \in S : i <= j

Init ==
    /\ tree \in [Files -> Contents \cup {Absent}] /\ floor \in Floors
    /\ objects = {} /\ manifests = [m \in {} |-> {}] /\ stray = FALSE
    /\ lock = Nobody /\ snap = IdleSnap /\ gc = IdleGc /\ rest = IdleRest
    /\ journal = [state |-> "none", root |-> NoBody, next |-> 0]
    /\ latest = {} /\ partial = {} /\ protected = {} /\ dirty = FALSE /\ faults = 0

\* _snapshot_store_lock: taken at the start of each of the three operations
Acquire(who) == lock = Nobody /\ lock' = who

-----------------------------------------------------------------------------
(* create_local_snapshot *)

\* policy.resolve under the lock, and the manifest the caller gives as the
\* previous one, if any.
SnapStart ==
    /\ snap.at = "idle" /\ Acquire("snap") /\ Cardinality(Roots) < MaxManifests
    /\ LET now == PathsOf(tree, floor)
       IN  \E before \in {{}} \cup {PathsOf(m.files, m.floor) : m \in Roots} :
            snap' = [at |-> "copy", todo |-> now,
                     body |-> [NoBody EXCEPT !.tombs = before \ now]]
    /\ UNCHANGED <<instance, store, gc, restoring, protected, faults>>

\* _copy_source_to_object for the next path: the object is in place before the
\* copy returns.
Source(p) == IF p = 0 THEN floor ELSE tree[p]
CopiedTo(body, p) == IF p = 0 THEN [body EXCEPT !.floor = floor]
                     ELSE [body EXCEPT !.files[p] = tree[p]]

Copyable(p) == Source(p) \notin {Absent, 0}
SnapCopy ==
    LET p == First(snap.todo) IN
    /\ snap.at = "copy" /\ snap.todo # {} /\ Copyable(p)
    /\ objects' = objects \cup {Source(p)}
    /\ snap' = [snap EXCEPT !.todo = @ \ {p}, !.body = CopiedTo(@, p)]
    /\ UNCHANGED <<instance, manifests, stray, lock, gc, restoring, protected, faults>>

\* The manifest is written, unless the store has it already.
WithManifest(m) ==
    IF m \in Roots THEN manifests
    ELSE [r \in Roots \cup {m} |-> IF r = m THEN Roots ELSE manifests[r]]
SnapCommit ==
    /\ snap.at = "copy" /\ snap.todo = {}
    /\ manifests' = WithManifest(snap.body)
    /\ snap' = [snap EXCEPT !.at = "verify"]
    /\ UNCHANGED <<instance, objects, stray, lock, gc, restoring, protected, faults>>

\* verify_local_snapshot; the snapshot is returned or the operation raises.
SnapReturn ==
    /\ snap.at = "verify"
    /\ snap' = IdleSnap /\ lock' = Nobody
    /\ UNCHANGED <<instance, store, gc, restoring, protected, faults>>

\* A source that has disappeared, keeps changing or exceeds a limit ends it:
\* the temporary is removed, objects stay.
SnapRaises ==
    /\ snap.at = "copy"
    /\ \/ snap.todo # {} /\ ~Copyable(First(snap.todo)) /\ UNCHANGED faults
       \/ MayFault /\ faults' = faults + 1
    /\ snap' = IdleSnap /\ lock' = Nobody
    /\ UNCHANGED <<instance, store, gc, restoring, protected>>

-----------------------------------------------------------------------------
(* garbage_collect_referenced_snapshots *)

\* discover_protected_snapshot_roots
References ==
    protected \cup latest \cup (IF journal.state = "none" THEN {} ELSE {journal.root})

\* _plan_snapshot_gc_locked: the retain newest manifests and the referenced
\* ones stay, with their objects.
Newest(retain) == {m \in Roots : Cardinality({r \in Roots : m \in manifests[r]}) < retain}
Reachable(M) == UNION {ObjectsOf(m) : m \in M}

\* Mutant: references are not looked up.
KeptNewest(retain) == Newest(retain)
Kept(retain) == Newest(retain) \cup References

\* A missing reference, a retained manifest with a missing object or a stray
\* file refuses every deletion.
GcPlan(retain) ==
    LET kept == Kept(retain) IN
    /\ gc.at = "idle" /\ Acquire("gc")
    /\ References \subseteq Roots /\ (\A m \in kept : Intact(m)) /\ ~stray
    /\ gc' = [at |-> "delete", manifests |-> Roots \ kept,
              objects |-> objects \ Reachable(kept)]
    /\ UNCHANGED <<instance, store, snap, restoring, protected, faults>>

\* _apply_snapshot_gc_plan: all manifests, then all objects
GcManifest(m) ==
    /\ gc.at = "delete" /\ m \in gc.manifests
    /\ manifests' = [r \in Roots \ {m} |-> manifests[r] \ {m}]
    /\ gc' = [gc EXCEPT !.manifests = @ \ {m}]
    /\ UNCHANGED <<instance, objects, stray, lock, snap, restoring, protected, faults>>

\* Mutant: manifests and objects are deleted in any order.
ObjectsTurnAlways == TRUE
ObjectsTurn == gc.manifests = {}
GcObject(o) ==
    /\ gc.at = "delete" /\ ObjectsTurn /\ o \in gc.objects
    /\ objects' = objects \ {o}
    /\ gc' = [gc EXCEPT !.objects = @ \ {o}]
    /\ UNCHANGED <<instance, manifests, stray, lock, snap, restoring, protected, faults>>
GcEnd ==
    /\ gc.at = "delete" /\ gc.manifests = {} /\ gc.objects = {}
    /\ gc' = IdleGc /\ lock' = Nobody
    /\ UNCHANGED <<instance, store, snap, restoring, protected, faults>>

-----------------------------------------------------------------------------
(* restore_local_snapshot_in_place *)

\* The operations of a manifest in the order of the code: p the file of path p,
\* NFiles + 1 + p the tombstone of p.  An index the manifest does not have
\* is passed over, so next_operation keeps its meaning.
Operations(m) == PathsOf(m.files, m.floor) \cup {NFiles + 1 + p : p \in m.tombs}
Left(m, next) == {i \in Operations(m) : i >= next}

\* Preflight, the journal, and _plan_release_sequence_floor_restore.  Another
\* restore that is incomplete has to be resumed first.

\* Mutant: an incomplete restore refuses every other one, itself included.
ResumableNever(m) == journal.state # "APPLYING"
Resumable(m) == journal.state = "APPLYING" => journal.root = m

ResumeAt(m) ==
    IF journal.state = "APPLYING" /\ Left(m, journal.next) # {} THEN journal.next ELSE 0
RestStart(m) ==
    /\ rest.at = "idle" /\ m \in Roots /\ Intact(m) /\ Resumable(m)
    /\ Acquire("rest")
    /\ rest' = [at |-> "apply", root |-> m, next |-> ResumeAt(m),
                floor |-> IF floor > m.floor THEN floor ELSE m.floor]
    /\ journal' = [state |-> "APPLYING", root |-> m, next |-> ResumeAt(m)]
    /\ dirty' = (dirty /\ ResumeAt(m) # 0)
    /\ UNCHANGED <<tree, floor, store, snap, gc, latest, partial, protected, faults>>

Pending == Left(rest.root, rest.next)
Op == First(Pending)
Torn == <<rest.root, Op, FALSE>> \in partial
Whole == <<rest.root, Op, TRUE>> \in partial
NoTemporary == partial \ {<<rest.root, Op, TRUE>>, <<rest.root, Op, FALSE>>}

\* _restore_release_sequence_floor leaves a floor alone that is not lower than
\* the snapshot's.
KeepsFloor == floor >= rest.root.floor
FileTurn == rest.at = "apply" /\ Pending # {} /\ Op <= NFiles /\ ~(Op = 0 /\ KeepsFloor)

\* _restore_manifest_file: a temporary is created, filled and made durable, or
\* one of an earlier attempt is found whole and used again.
RestOpen ==
    /\ FileTurn /\ ~Torn /\ ~Whole
    /\ partial' = partial \cup {<<rest.root, Op, FALSE>>}
    /\ rest' = [rest EXCEPT !.at = "fill"]
    /\ UNCHANGED <<instance, store, lock, snap, gc, journal, latest, protected, faults>>
RestFill ==
    /\ rest.at = "fill"
    /\ partial' = NoTemporary \cup {<<rest.root, Op, TRUE>>}
    /\ rest' = [rest EXCEPT !.at = "replace"]
    /\ UNCHANGED <<instance, store, lock, snap, gc, journal, latest, protected, faults>>
RestReuse ==
    /\ FileTurn /\ Whole
    /\ rest' = [rest EXCEPT !.at = "replace"]
    /\ UNCHANGED <<instance, store, lock, snap, gc, journal, latest, partial, protected, faults>>

\* The temporary replaces the file.
RestReplace ==
    /\ rest.at = "replace"
    /\ IF Op = 0 THEN floor' = rest.root.floor /\ UNCHANGED tree
       ELSE tree' = [tree EXCEPT ![Op] = rest.root.files[Op]] /\ UNCHANGED floor
    /\ partial' = NoTemporary
    /\ rest' = [rest EXCEPT !.at = "record"]
    /\ UNCHANGED <<dirty, store, lock, snap, gc, journal, latest, protected, faults>>

\* A floor that stays, and _restore_manifest_tombstone, which the floor is
\* exempt from
RestKeepFloor ==
    /\ rest.at = "apply" /\ Pending # {} /\ Op = 0 /\ KeepsFloor
    /\ rest' = [rest EXCEPT !.at = "record"]
    /\ UNCHANGED <<instance, store, lock, snap, gc, journal, latest, partial, protected, faults>>

\* Mutant: the floor's own tombstone is carried out.
RestTombstoneFloor ==
    /\ rest.at = "apply" /\ Pending # {} /\ Op > NFiles
    /\ tree' = [f \in Files |-> IF Op = NFiles + 1 + f THEN Absent ELSE tree[f]]
    /\ floor' = IF Op = NFiles + 1 THEN 0 ELSE floor
    /\ rest' = [rest EXCEPT !.at = "record"]
    /\ UNCHANGED <<dirty, store, lock, snap, gc, journal, latest, partial, protected,
                   faults>>

RestTombstone ==
    /\ rest.at = "apply" /\ Pending # {} /\ Op > NFiles
    /\ tree' = [f \in Files |-> IF Op = NFiles + 1 + f THEN Absent ELSE tree[f]]
    /\ rest' = [rest EXCEPT !.at = "record"]
    /\ UNCHANGED <<floor, dirty, store, lock, snap, gc, journal, latest, partial, protected,
                   faults>>

\* next_operation is journaled after the operation.
RestRecord ==
    /\ rest.at = "record"
    /\ rest' = [rest EXCEPT !.at = "apply", !.next = Op + 1]
    /\ journal' = [journal EXCEPT !.next = Op + 1]
    /\ UNCHANGED <<instance, store, lock, snap, gc, latest, partial, protected, faults>>

\* _verify_in_place_restore
Exact(m) == \A f \in Files : /\ m.files[f] # Absent => tree[f] = m.files[f]
                             /\ f \in m.tombs => tree[f] = Absent
RestVerify ==
    /\ rest.at = "apply" /\ Pending = {}
    /\ \/ /\ Exact(rest.root) /\ floor >= rest.floor
          /\ journal' = [journal EXCEPT !.state = "COMMITTED"]
          /\ rest' = [rest EXCEPT !.at = "latest"]
          /\ UNCHANGED lock
       \/ /\ ~(Exact(rest.root) /\ floor >= rest.floor)
          /\ journal' = [journal EXCEPT !.next = 0]
          /\ rest' = IdleRest /\ lock' = Nobody
    /\ UNCHANGED <<instance, store, snap, gc, latest, partial, protected, faults>>
RestLatest ==
    /\ rest.at = "latest"
    /\ latest' = {rest.root}
    /\ rest' = IdleRest /\ lock' = Nobody
    /\ UNCHANGED <<instance, store, snap, gc, journal, partial, protected, faults>>

\* A torn temporary of an earlier attempt, or an error of the file system.
\* The temporary this attempt has written or used is removed.
RestRaises ==
    /\ \/ FileTurn /\ Torn /\ UNCHANGED <<partial, faults>>
       \/ /\ rest.at # "idle" /\ MayFault /\ faults' = faults + 1
          /\ partial' = IF rest.at \in {"fill", "replace"} THEN NoTemporary ELSE partial
    /\ rest' = IdleRest /\ lock' = Nobody
    /\ UNCHANGED <<instance, store, snap, gc, journal, latest, protected>>

-----------------------------------------------------------------------------
(* The surroundings *)

\* The running instance writes a protected file; restore requires it stopped.
Write(f, c) ==
    /\ rest.at = "idle" /\ tree[f] # c
    /\ tree' = [tree EXCEPT ![f] = c] /\ dirty' = TRUE
    /\ UNCHANGED <<floor, store, lock, snap, gc, restoring, protected, faults>>

\* The host updater raises the floor, under _release_floor_lock, which restore
\* holds; names a checkpoint in a transaction journal; and drops a journal.
RaiseFloor ==
    /\ rest.at = "idle" /\ floor < MaxFloor
    /\ floor' = floor + 1
    /\ UNCHANGED <<tree, dirty, store, lock, snap, gc, restoring, protected, faults>>
Protect(m) ==
    /\ m \in Roots /\ lock # "gc" /\ protected = {}
    /\ protected' = {m}
    /\ UNCHANGED <<instance, store, lock, snap, gc, restoring, faults>>
Unprotect ==
    /\ protected # {}
    /\ protected' = {}
    /\ UNCHANGED <<instance, store, lock, snap, gc, restoring, faults>>

\* The floor is lost or put back to none by hand.
LoseFloor ==
    /\ rest.at = "idle" /\ floor > 0 /\ MayFault
    /\ floor' = 0 /\ dirty' = TRUE /\ faults' = faults + 1
    /\ UNCHANGED <<tree, store, lock, snap, gc, restoring, protected>>

\* The process that holds the lock dies; the system frees its lock.  A copy or
\* a manifest under way may leave its temporary; a restore leaves the one it
\* was filling.
Crash ==
    /\ lock # Nobody /\ MayFault /\ faults' = faults + 1
    /\ lock' = Nobody /\ snap' = IdleSnap /\ gc' = IdleGc /\ rest' = IdleRest
    /\ stray' \in {stray, stray \/ snap.at = "copy"}
    /\ UNCHANGED <<instance, objects, manifests, journal, latest, partial, protected>>

Snapshot == SnapStart \/ SnapCopy \/ SnapCommit
            \/ SnapReturn \/ SnapRaises
Collect == (\E retain \in 0..MaxRetain : GcPlan(retain)) \/ GcEnd
           \/ (\E m \in Roots : GcManifest(m)) \/ (\E o \in objects : GcObject(o))
RestSteps == \/ RestOpen \/ RestFill \/ RestReuse \/ RestReplace \/ RestKeepFloor \/ RestTombstone
             \/ RestRecord \/ RestVerify \/ RestLatest
Restore == (\E m \in Roots : RestStart(m)) \/ RestSteps \/ RestRaises
Surroundings == \/ \E f \in Files, c \in Contents \cup {Absent} : Write(f, c)
                \/ RaiseFloor \/ LoseFloor \/ (\E m \in Roots : Protect(m)) \/ Unprotect
Next == Snapshot \/ Collect \/ Restore \/ Surroundings \/ Crash

Spec == Init /\ [][Next]_vars

\* A process in the store runs on (it ends, raises or dies), and the operator
\* repeats an incomplete restore.
Fairness ==
    /\ WF_vars(Snapshot /\ snap.at # "idle")
    /\ WF_vars(Collect /\ gc.at # "idle")
    /\ WF_vars((RestSteps \/ RestRaises) /\ rest.at # "idle")
    /\ SF_vars(journal.state = "APPLYING" /\ \E m \in Roots : RestStart(m))
FairSpec == Spec /\ Fairness

-----------------------------------------------------------------------------
(* Properties *)

\* Every manifest of the store can be restored: all the objects it names are
\* there, between any two file operations of a snapshot or a collection and
\* after a crash at any of them.
ManifestsComplete == \A m \in Roots : Intact(m)

\* Garbage collection never takes a snapshot that an update journal, an
\* incomplete restore or the last restore refers to.
ReferencesKept == References \subseteq Roots

\* No restore, resumed or interrupted as it may be, lowers the release sequence
\* floor.
FloorNeverLowered == [][rest.at # "idle" => floor' >= floor]_vars

\* "calling this function again safely resumes a crash": a restore that has
\* begun is completed when it is called again, after crashes at any point and
\* after the instance has run in between.
RestoreResumes == journal.state = "APPLYING" ~> journal.state = "COMMITTED"

\* What holds of the code: a begun restore is completed when it is called again,
\* unless a crash has left a torn temporary.
TornLeft == rest.at # "fill" /\ \E t \in partial : ~t[3]
ResumesUnlessTorn ==
    journal.state = "APPLYING" ~> journal.state = "COMMITTED" \/ TornLeft
=============================================================================
