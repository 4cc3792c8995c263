-------------------------- MODULE SnapshotsProofs --------------------------
(***************************************************************************)
(* Proofs about Snapshots for any number of files, contents, manifests and *)
(* faults.  Inv is the inductive invariant: the store is complete and the  *)
(* references are kept because the lock admits one operation at a time and *)
(* a collection's two deletion lists stay apart from what it keeps.        *)
(***************************************************************************)
EXTENDS Snapshots, TLAPS

\* The part of the types the argument needs
Shape ==
    /\ tree \in [Files -> Contents \cup {Absent}] /\ floor \in Floors
    /\ snap \in [at: {"idle", "copy", "verify"}, todo: SUBSET Paths, body: Body]
    /\ rest = [at |-> rest.at, root |-> rest.root, next |-> rest.next, floor |-> rest.floor]
    /\ rest.root \in Body
    /\ Roots \subseteq Body
    /\ gc = [at |-> gc.at, manifests |-> gc.manifests, objects |-> gc.objects]

\* _snapshot_store_lock: whoever is in an operation holds the lock.
Exclusive ==
    /\ snap.at # "idle" => lock = "snap"
    /\ gc.at # "idle" => lock = "gc"
    /\ rest.at # "idle" => lock = "rest"

\* A snapshot under way names only objects that are in place.
CopiesInPlace == snap.at # "idle" => ObjectsOf(snap.body) \subseteq objects

\* What a collection is about to delete: no manifest that is referred to, and
\* no object of a manifest that stays.
DeletionsApart ==
    gc.at # "idle" => /\ References \cap gc.manifests = {}
                      /\ \A m \in Roots \ gc.manifests : ObjectsOf(m) \cap gc.objects = {}

\* A restore under way is of a manifest in the store.
RestoresKept == rest.at # "idle" => rest.root \in Roots

\* A restore under way has written its journal, for its manifest.
Journaled ==
    /\ journal = [state |-> journal.state, root |-> journal.root, next |-> journal.next]
    /\ rest.at # "idle" => journal.state # "none" /\ journal.root = rest.root

\* A temporary is made for the floor only when the floor is below it.
FloorRises == rest.at \in {"fill", "replace"} /\ Op = 0 => floor < rest.root.floor

Inv == /\ Shape /\ Exclusive /\ ManifestsComplete /\ CopiesInPlace /\ DeletionsApart
       /\ ReferencesKept /\ RestoresKept /\ Journaled /\ FloorRises

-----------------------------------------------------------------------------

\* An object list of an empty body is empty.
LEMMA NoBodyObjects == NoBody \in Body /\ ObjectsOf(NoBody) = {}
<1>1. NoBody \in Body
  BY SnapshotsAssumption DEF NoBody, Body, Floors, Files, Paths
<1> QED
  BY <1>1 DEF NoBody, ObjectsOf

\* The initial store, empty and idle, satisfies the invariant.
LEMMA InitInv == Init => Inv
<1> SUFFICES ASSUME Init PROVE Inv
  OBVIOUS
<1> USE DEF Init
<1>1. Shape /\ Roots = {}
  BY NoBodyObjects DEF Shape, IdleSnap, IdleGc, IdleRest, Roots
<1>2. Exclusive /\ CopiesInPlace /\ DeletionsApart /\ RestoresKept /\ Journaled
      /\ FloorRises
  BY NoBodyObjects DEF Exclusive, CopiesInPlace, DeletionsApart, RestoresKept, Journaled, FloorRises,
        IdleSnap, IdleGc, IdleRest
<1>3. ManifestsComplete /\ ReferencesKept
  BY <1>1 DEF ManifestsComplete, ReferencesKept, References
<1> QED
  BY <1>1, <1>2, <1>3 DEF Inv

\* Copying a path adds at most its object to what the manifest names.
LEMMA CopiedToObjects ==
  ASSUME NEW b \in Body, NEW p, tree \in [Files -> Contents \cup {Absent}], floor \in Floors
  PROVE  /\ CopiedTo(b, p) \in Body
         /\ ObjectsOf(CopiedTo(b, p)) \subseteq ObjectsOf(b) \cup {Source(p)}
<1>1. CASE p = 0
  BY <1>1 DEF CopiedTo, Source, ObjectsOf, Body
<1>2. CASE p # 0
  <2>1. CopiedTo(b, p) = [b EXCEPT !.files[p] = tree[p]]
    BY <1>2 DEF CopiedTo
  <2>2. CASE p \in Files
    BY <1>2, <2>1, <2>2 DEF Source, ObjectsOf, Body
  <2>3. CASE p \notin Files
    BY <1>2, <2>1, <2>3 DEF Source, ObjectsOf, Body
  <2> QED
    BY <2>2, <2>3
<1> QED
  BY <1>1, <1>2

-----------------------------------------------------------------------------
(* One lemma per part of the invariant *)

\* Every step keeps the shapes.
LEMMA ShapeStep == ASSUME Inv, Next PROVE Shape'
<1> USE DEF Inv, Shape, Roots, store, instance, restoring
<1>1. CASE Snapshot
  <2>1. CASE SnapStart
    <3>1. PathsOf(tree, floor) \subseteq Paths
      BY SnapshotsAssumption DEF PathsOf, Paths, Files
    <3>2. ASSUME NEW m \in Roots
          PROVE  PathsOf(m.files, m.floor) \subseteq Paths
      BY SnapshotsAssumption DEF PathsOf, Paths, Files
    <3>3. PICK before \in {{}} \cup {PathsOf(m.files, m.floor) : m \in Roots} :
            snap' = [at |-> "copy", todo |-> PathsOf(tree, floor),
                     body |-> [NoBody EXCEPT !.tombs = before \ PathsOf(tree, floor)]]
      BY <2>1 DEF SnapStart
    <3>4. [NoBody EXCEPT !.tombs = before \ PathsOf(tree, floor)] \in Body
      BY <3>2, NoBodyObjects DEF Body
    <3> QED
      BY <2>1, <3>1, <3>3, <3>4 DEF SnapStart
  <2>2. CASE SnapCopy
    <3>1. CopiedTo(snap.body, First(snap.todo)) \in Body
      BY CopiedToObjects
    <3> QED
      BY <2>2, <3>1 DEF SnapCopy
  <2>3. CASE SnapCommit
    BY <2>3 DEF SnapCommit, WithManifest
  <2>4. CASE SnapReturn \/ SnapRaises
    BY <2>4, NoBodyObjects DEF SnapReturn, SnapRaises, IdleSnap
  <2> QED
    BY <1>1, <2>1, <2>2, <2>3, <2>4 DEF Snapshot
<1>2. CASE Collect
  BY <1>2 DEF Collect, GcPlan, GcManifest, GcObject, GcEnd, IdleGc, Acquire
<1>3. CASE Restore
  <2>1. CASE \E m \in Roots : RestStart(m)
    BY <2>1 DEF RestStart, Acquire
  <2>2. CASE RestReplace
    BY <2>2 DEF RestReplace, Body
  <2>3. CASE RestOpen \/ RestFill \/ RestReuse \/ RestKeepFloor \/ RestRecord
    BY <2>3 DEF RestOpen, RestFill, RestReuse, RestKeepFloor, RestRecord
  <2>4. CASE RestTombstone
    BY <2>4 DEF RestTombstone
  <2>5. CASE RestVerify \/ RestLatest \/ RestRaises
    BY <2>5, NoBodyObjects DEF RestVerify, RestLatest, RestRaises, IdleRest
  <2> QED
    BY <1>3, <2>1, <2>2, <2>3, <2>4, <2>5 DEF Restore, RestSteps
<1>4. CASE Surroundings
  <2>1. floor' \in Floors
    BY <1>4, SnapshotsAssumption
    DEF Surroundings, Write, RaiseFloor, LoseFloor, Protect, Unprotect, Floors
  <2>2. tree' \in [Files -> Contents \cup {Absent}]
    BY <1>4 DEF Surroundings, Write, RaiseFloor, LoseFloor, Protect, Unprotect
  <2>3. UNCHANGED <<store, snap, gc, rest>>
    BY <1>4 DEF Surroundings, Write, RaiseFloor, LoseFloor, Protect, Unprotect
  <2> QED
    BY <2>1, <2>2, <2>3
<1>5. CASE Crash
  BY <1>5, NoBodyObjects DEF Crash, IdleSnap, IdleGc, IdleRest
<1> QED
  BY <1>1, <1>2, <1>3, <1>4, <1>5 DEF Next

\* Every step keeps the lock with the operation under way.
LEMMA ExclusiveStep == ASSUME Inv, Next PROVE Exclusive'
<1> USE SnapshotsAssumption DEF Inv, Exclusive, store, instance, restoring,
        IdleSnap, IdleGc, IdleRest, Acquire
<1>1. CASE Snapshot
  <2>1. CASE SnapStart
    BY <2>1 DEF SnapStart
  <2>2. CASE SnapCopy
    BY <2>2 DEF SnapCopy
  <2>3. CASE SnapCommit
    BY <2>3 DEF SnapCommit
  <2>4. CASE SnapReturn \/ SnapRaises
    BY <2>4 DEF SnapReturn, SnapRaises
  <2> QED
    BY <1>1, <2>1, <2>2, <2>3, <2>4 DEF Snapshot
<1>2. CASE Collect
  <2>1. CASE \E retain \in 0..MaxRetain : GcPlan(retain)
    BY <2>1 DEF GcPlan
  <2>2. CASE (\E m \in Roots : GcManifest(m)) \/ \E o \in objects : GcObject(o)
    BY <2>2 DEF GcManifest, GcObject
  <2>3. CASE GcEnd
    BY <2>3 DEF GcEnd
  <2> QED
    BY <1>2, <2>1, <2>2, <2>3 DEF Collect
<1>3. CASE Restore
  <2>1. CASE \E m \in Roots : RestStart(m)
    BY <2>1 DEF RestStart
  <2>2. CASE RestOpen \/ RestFill \/ RestReuse \/ RestReplace \/ RestKeepFloor
             \/ RestTombstone \/ RestRecord
    BY <2>2 DEF RestOpen, RestFill, RestReuse, RestReplace, RestKeepFloor, RestTombstone,
        RestRecord, FileTurn
  <2>3. CASE RestVerify \/ RestLatest \/ RestRaises
    BY <2>3 DEF RestVerify, RestLatest, RestRaises, FileTurn
  <2> QED
    BY <1>3, <2>1, <2>2, <2>3 DEF Restore, RestSteps
<1>4. CASE Surroundings
  BY <1>4 DEF Surroundings, Write, RaiseFloor, LoseFloor, Protect, Unprotect
<1>5. CASE Crash
  BY <1>5 DEF Crash
<1> QED
  BY <1>1, <1>2, <1>3, <1>4, <1>5 DEF Next

\* Outside snapshots and collections the store does not change.
LEMMA StoreFrame ==
  ASSUME Restore \/ Surroundings \/ Crash
  PROVE  UNCHANGED <<objects, manifests>>
<1> USE DEF store, instance, restoring
<1>1. CASE Restore
  BY <1>1 DEF Restore, RestSteps, RestStart, RestOpen, RestFill, RestReuse, RestReplace,
        RestKeepFloor, RestTombstone, RestRecord, RestVerify, RestLatest, RestRaises
<1>2. CASE Surroundings
  BY <1>2 DEF Surroundings, Write, RaiseFloor, LoseFloor, Protect, Unprotect
<1>3. CASE Crash
  BY <1>3 DEF Crash
<1> QED
  BY <1>1, <1>2, <1>3

\* A snapshot's objects are in place before its manifest is.
LEMMA CopiesStep == ASSUME Inv, Next PROVE CopiesInPlace'
<1> USE DEF Inv, CopiesInPlace, store, instance, restoring
<1>1. CASE SnapStart
  BY <1>1, NoBodyObjects DEF SnapStart, NoBody, ObjectsOf
<1>2. CASE SnapCopy
  <2>1. ObjectsOf(CopiedTo(snap.body, First(snap.todo)))
            \subseteq ObjectsOf(snap.body) \cup {Source(First(snap.todo))}
    BY CopiedToObjects DEF Shape
  <2>2. snap'.body = CopiedTo(snap.body, First(snap.todo))
    BY <1>2 DEF SnapCopy, Shape
  <2> QED
    BY <1>2, <2>1, <2>2 DEF SnapCopy
<1>3. CASE SnapCommit
  BY <1>3 DEF SnapCommit, Shape
<1>4. CASE SnapReturn \/ SnapRaises
  BY <1>4, NoBodyObjects DEF SnapReturn, SnapRaises, IdleSnap
<1>5. CASE \E retain \in 0..MaxRetain : GcPlan(retain)
  BY <1>5 DEF GcPlan
<1>6. CASE (\E m \in Roots : GcManifest(m)) \/ GcEnd
  BY <1>6 DEF GcManifest, GcEnd
<1>8. CASE Restore \/ Surroundings
  <2>1. UNCHANGED <<objects, snap>>
    BY <1>8, StoreFrame DEF Restore, RestSteps, RestStart, RestOpen, RestFill, RestReuse,
        RestReplace, RestKeepFloor, RestTombstone, RestRecord, RestVerify, RestLatest,
        RestRaises, Surroundings, Write, RaiseFloor, LoseFloor, Protect, Unprotect
  <2> QED
    BY <2>1
<1>9. CASE Crash
  BY <1>9, NoBodyObjects DEF Crash, IdleSnap
<1>7. CASE \E o \in objects : GcObject(o)
  <2>1. lock = "gc" /\ snap.at = "idle"
    BY <1>7, SnapshotsAssumption DEF GcObject, Exclusive
  <2> QED
    BY <1>7, <2>1 DEF GcObject
<1> QED
  BY <1>1, <1>2, <1>3, <1>4, <1>5, <1>6, <1>7, <1>8, <1>9 DEF Next, Snapshot, Collect

\* Every manifest keeps its objects: a new one names objects in place, and a
\* collection deletes objects only when no manifest that is left names them.
LEMMA CompleteStep == ASSUME Inv, Next PROVE ManifestsComplete'
<1> USE DEF Inv, ManifestsComplete, Intact, Roots, store
<1>1. CASE SnapCopy
  BY <1>1 DEF SnapCopy
<1>2. CASE SnapCommit
  <2>1. \A m \in Roots' : m \in Roots \/ m = snap.body
    BY <1>2 DEF SnapCommit, WithManifest
  <2>2. ObjectsOf(snap.body) \subseteq objects /\ objects' = objects
    BY <1>2 DEF SnapCommit, CopiesInPlace
  <2> QED
    BY <2>1, <2>2
<1>3. CASE SnapStart \/ SnapReturn \/ SnapRaises
  BY <1>3 DEF SnapStart, SnapReturn, SnapRaises
<1>4. CASE (\E retain \in 0..MaxRetain : GcPlan(retain)) \/ GcEnd
  BY <1>4 DEF GcPlan, GcEnd
<1>5. ASSUME NEW x \in Roots, GcManifest(x) PROVE ManifestsComplete'
  BY <1>5 DEF GcManifest
<1>6. ASSUME NEW o \in objects, GcObject(o) PROVE ManifestsComplete'
  <2>1. gc.at # "idle" /\ gc.manifests = {} /\ o \in gc.objects
    BY <1>6 DEF GcObject, ObjectsTurn
  <2>2. \A m \in Roots : o \notin ObjectsOf(m)
    BY <2>1 DEF DeletionsApart
  <2> QED
    BY <1>6, <2>2 DEF GcObject
<1>7. CASE Restore \/ Surroundings \/ Crash
  BY <1>7, StoreFrame
<1> QED
  BY <1>1, <1>2, <1>3, <1>4, <1>5, <1>6, <1>7 DEF Next, Snapshot, Collect

\* What the restore journal, the last restore and the updater refer to changes
\* only to manifests of the store, and not during a collection.
LEMMA ReferencesStep ==
  ASSUME Inv, Next
  PROVE  /\ References' \subseteq References \cup Roots
         /\ gc.at # "idle" => References' \subseteq References
<1> USE DEF Inv, References, store, instance, restoring
<1>1. CASE Snapshot
  BY <1>1 DEF Snapshot, SnapStart, SnapCopy, SnapCommit, SnapReturn, SnapRaises
<1>2. CASE Collect
  BY <1>2 DEF Collect, GcPlan, GcManifest, GcObject, GcEnd
<1>3. CASE Restore
  <2>1. gc.at = "idle"
    BY <1>3, SnapshotsAssumption DEF Exclusive, Restore, RestSteps, RestStart, Acquire, FileTurn,
        RestOpen, RestFill, RestReuse, RestReplace, RestKeepFloor, RestTombstone, RestRecord,
        RestVerify, RestLatest, RestRaises
  <2>2. CASE \E m \in Roots : RestStart(m)
    BY <2>1, <2>2 DEF RestStart
  <2>3. CASE RestOpen \/ RestFill \/ RestReuse \/ RestReplace \/ RestKeepFloor
             \/ RestTombstone \/ RestRaises
    BY <2>1, <2>3 DEF RestOpen, RestFill, RestReuse, RestReplace, RestKeepFloor,
        RestTombstone, RestRaises
  <2>4. CASE RestRecord \/ RestVerify
    <3>1. journal'.root = journal.root /\ journal.state # "none"
      BY <2>4 DEF RestRecord, RestVerify, Journaled
    <3> QED
      BY <2>1, <2>4, <3>1 DEF RestRecord, RestVerify
  <2>5. CASE RestLatest
    BY <2>1, <2>5 DEF RestLatest, RestoresKept
  <2> QED
    BY <1>3, <2>2, <2>3, <2>4, <2>5 DEF Restore, RestSteps
<1>4. CASE Surroundings
  <2>1. CASE \E m \in Roots : Protect(m)
    BY <2>1 DEF Protect, Exclusive
  <2> QED
    BY <1>4, <2>1 DEF Surroundings, Write, RaiseFloor, LoseFloor, Unprotect
<1>5. CASE Crash
  BY <1>5 DEF Crash
<1> QED
  BY <1>1, <1>2, <1>3, <1>4, <1>5 DEF Next

\* A collection's deletion lists stay apart from the references and from the
\* objects of the manifests that stay.
LEMMA DeletionsStep == ASSUME Inv, Next PROVE DeletionsApart'
<1> USE DEF Inv, DeletionsApart, Roots
<1>1. ASSUME NEW retain \in 0..MaxRetain, GcPlan(retain) PROVE DeletionsApart'
  <2> DEFINE kept == Kept(retain)
  <2>1. /\ gc'.manifests = Roots \ kept /\ gc'.objects = objects \ Reachable(kept)
        /\ UNCHANGED <<manifests, References>>
    BY <1>1 DEF GcPlan, store, restoring, References
  <2>2. References \subseteq kept
    BY DEF Kept
  <2>3. \A m \in kept : ObjectsOf(m) \subseteq Reachable(kept)
    BY DEF Reachable
  <2> QED
    BY <2>1, <2>2, <2>3
<1>2. ASSUME NEW x \in Roots, GcManifest(x) PROVE DeletionsApart'
  <2>1. /\ gc.at # "idle" /\ Roots' = Roots \ {x} /\ References' \subseteq References
        /\ gc'.manifests = gc.manifests \ {x} /\ gc'.objects = gc.objects
    BY <1>2, ReferencesStep DEF GcManifest, Shape, Next, Collect
  <2> QED
    BY <2>1
<1>3. ASSUME NEW o \in objects, GcObject(o) PROVE DeletionsApart'
  <2>1. /\ gc.at # "idle" /\ UNCHANGED manifests /\ References' \subseteq References
        /\ gc'.manifests = gc.manifests /\ gc'.objects = gc.objects \ {o}
    BY <1>3, ReferencesStep DEF GcObject, Shape, Next, Collect
  <2> QED
    BY <2>1
<1>4. CASE GcEnd \/ Crash
  BY <1>4 DEF GcEnd, Crash, IdleGc
<1>5. CASE Snapshot
  <2>1. gc.at = "idle" /\ UNCHANGED gc
    BY <1>5, SnapshotsAssumption DEF Exclusive, Snapshot, SnapStart, SnapCopy, SnapCommit,
        SnapReturn, SnapRaises, Acquire
  <2> QED
    BY <2>1
<1>6. CASE Restore \/ Surroundings
  <2>1. UNCHANGED <<manifests, gc>>
    BY <1>6, StoreFrame DEF Restore, RestSteps, RestStart, RestOpen, RestFill, RestReuse,
        RestReplace, RestKeepFloor, RestTombstone, RestRecord, RestVerify, RestLatest,
        RestRaises, Surroundings, Write, RaiseFloor, LoseFloor, Protect, Unprotect
  <2> QED
    BY <2>1, ReferencesStep
<1> QED
  BY <1>1, <1>2, <1>3, <1>4, <1>5, <1>6 DEF Next, Collect

\* Only a collection removes a manifest, and it removes none that is referred to.
LEMMA RootsStep ==
  ASSUME Inv, Next, NEW m \in Roots
  PROVE  m \in Roots' \/ (lock = "gc" /\ m \notin References)
<1> USE DEF Roots, store
<1>1. CASE Snapshot
  BY <1>1 DEF Snapshot, SnapStart, SnapCopy, SnapCommit, SnapReturn, SnapRaises, WithManifest
<1>2. ASSUME NEW x \in Roots, GcManifest(x) PROVE m \in Roots' \/ (lock = "gc" /\ m \notin References)
  BY <1>2 DEF Inv, Exclusive, DeletionsApart, GcManifest
<1>3. CASE Collect /\ ~\E x \in Roots : GcManifest(x)
  BY <1>3 DEF Collect, GcPlan, GcObject, GcEnd
<1>4. CASE Restore \/ Surroundings \/ Crash
  BY <1>4, StoreFrame
<1> QED
  BY <1>1, <1>2, <1>3, <1>4 DEF Next

\* No step leaves a reference to a manifest that is gone.
LEMMA KeptStep == ASSUME Inv, Next PROVE ReferencesKept'
<1>1. \A m \in References : m \in Roots /\ m \in Roots'
  BY RootsStep DEF Inv, ReferencesKept
<1>2. CASE gc.at # "idle"
  BY <1>1, <1>2, ReferencesStep DEF ReferencesKept
<1>3. CASE gc.at = "idle"
  <2>1. Roots \subseteq Roots'
    <3>1. ~\E x \in Roots : GcManifest(x)
      BY <1>3 DEF GcManifest
    <3>2. CASE Snapshot
      BY <3>2 DEF Roots, store, Snapshot, SnapStart, SnapCopy, SnapCommit, SnapReturn,
            SnapRaises, WithManifest
    <3>3. CASE Collect
      BY <3>1, <3>3 DEF Roots, store, Collect, GcPlan, GcObject, GcEnd
    <3>4. CASE Restore \/ Surroundings \/ Crash
      BY <3>4, StoreFrame DEF Roots
    <3> QED
      BY <3>2, <3>3, <3>4 DEF Next
  <2> QED
    BY <1>1, <2>1, ReferencesStep DEF ReferencesKept
<1> QED
  BY <1>2, <1>3

\* A restore under way keeps its manifest, its journal, and a temporary floor
\* that is above the present one.
LEMMA RestoreStep == ASSUME Inv, Next PROVE RestoresKept' /\ Journaled' /\ FloorRises'
<1> USE DEF Inv, RestoresKept, Journaled, FloorRises, Pending, Op
<1>1. CASE Restore
  <2>0. Roots' = Roots
    BY <1>1, StoreFrame DEF Roots
  <2>1. CASE \E m \in Roots : RestStart(m)
    BY <2>0, <2>1 DEF RestStart
  <2>2. CASE RestOpen \/ RestFill \/ RestReuse
    <3>1. /\ UNCHANGED <<floor, journal>> /\ rest.at # "idle"
          /\ rest'.root = rest.root /\ rest'.next = rest.next
          /\ rest' = [rest EXCEPT !.at = rest'.at]
      BY <2>2 DEF RestOpen, RestFill, RestReuse, FileTurn, Shape, instance
    <3>2. Op' = Op
      BY <3>1
    <3>3. CASE RestFill
      BY <2>0, <3>1, <3>2, <3>3 DEF RestFill
    <3>4. CASE RestOpen \/ RestReuse
      <4>1. Op = 0 => ~(floor >= rest.root.floor)
        BY <3>4 DEF RestOpen, RestReuse, FileTurn, KeepsFloor, Op, Pending
      <4>2. floor \in Int /\ rest.root.floor \in Int
        BY SnapshotsAssumption DEF Shape, Floors, Body
      <4> QED
        BY <2>0, <3>1, <3>2, <4>1, <4>2
    <3> QED
      BY <2>2, <3>3, <3>4
  <2>3. CASE RestReplace \/ RestKeepFloor \/ RestTombstone
    BY <2>0, <2>3 DEF RestReplace, RestKeepFloor, RestTombstone, Shape
  <2>4. CASE RestRecord
    BY <2>0, <2>4 DEF RestRecord, Shape
  <2>5. CASE RestVerify
    BY <2>0, <2>5 DEF RestVerify, IdleRest, Shape
  <2>6. CASE RestLatest \/ RestRaises
    BY <2>0, <2>6 DEF RestLatest, RestRaises, IdleRest
  <2> QED
    BY <1>1, <2>1, <2>2, <2>3, <2>4, <2>5, <2>6 DEF Restore, RestSteps
<1>2. CASE Snapshot \/ Collect \/ Surroundings
  <2>1. UNCHANGED <<rest, journal>>
    BY <1>2 DEF restoring, Snapshot, SnapStart, SnapCopy, SnapCommit, SnapReturn, SnapRaises,
        Collect, GcPlan, GcManifest, GcObject, GcEnd,
        Surroundings, Write, RaiseFloor, LoseFloor, Protect, Unprotect
  <2>2. rest.at # "idle" => floor' = floor
    BY <1>2 DEF instance, Snapshot, SnapStart, SnapCopy, SnapCommit, SnapReturn, SnapRaises,
        Collect, GcPlan, GcManifest, GcObject, GcEnd,
        Surroundings, Write, RaiseFloor, LoseFloor, Protect, Unprotect
  <2>3. rest.at # "idle" => rest.root \in Roots'
    BY RootsStep DEF Exclusive
  <2> QED
    BY <2>1, <2>2, <2>3
<1>3. CASE Crash
  BY <1>3 DEF Crash, IdleRest
<1> QED
  BY <1>1, <1>2, <1>3 DEF Next

-----------------------------------------------------------------------------

\* Inv is an invariant of the store.
THEOREM Invariance == Spec => []Inv
<1>1. ASSUME Inv, [Next]_vars PROVE Inv'
  <2>1. CASE Next
    BY <1>1, <2>1, ShapeStep, ExclusiveStep, CopiesStep, CompleteStep, DeletionsStep, KeptStep,
       RestoreStep DEF Inv
  <2>2. CASE UNCHANGED vars
    BY <1>1, <2>2 DEF Inv, Shape, Exclusive, ManifestsComplete, CopiesInPlace, DeletionsApart,
        ReferencesKept, References, RestoresKept, Journaled, FloorRises, Op, Pending, Roots,
        Intact, vars, store, instance, restoring
  <2> QED
    BY <1>1, <2>1, <2>2
<1> QED
  BY InitInv, <1>1, PTL DEF Spec

\* Whatever is copied, collected or restored, and wherever a process dies,
\* every manifest of the store has all its objects.
THEOREM SnapshotsRestorable == Spec => []ManifestsComplete
<1>1. Inv => ManifestsComplete
  BY DEF Inv
<1> QED
  BY Invariance, <1>1, PTL

\* Garbage collection never takes a manifest that the restore journal, the last
\* restore or an update journal refers to.
THEOREM ReferencedKept == Spec => []ReferencesKept
<1>1. Inv => ReferencesKept
  BY DEF Inv
<1> QED
  BY Invariance, <1>1, PTL

\* No step of a restore lowers the release sequence floor.
THEOREM FloorHolds == Spec => FloorNeverLowered
<1>1. ASSUME Inv, [Next]_vars PROVE [rest.at # "idle" => floor' >= floor]_vars
  <2>1. floor \in Int /\ rest.root.floor \in Int
    BY <1>1, SnapshotsAssumption DEF Inv, Shape, Floors, Body
  <2>2. CASE RestReplace
    BY <1>1, <2>1, <2>2 DEF Inv, FloorRises, RestReplace
  <2>3. CASE Next /\ ~RestReplace /\ rest.at # "idle"
    <3>1. floor' = floor
      BY <2>3 DEF Next, instance, Snapshot, SnapStart, SnapCopy, SnapCommit, SnapReturn,
        SnapRaises, Collect, GcPlan, GcManifest, GcObject, GcEnd, Restore, RestSteps, RestStart,
        RestOpen, RestFill, RestReuse, RestKeepFloor, RestTombstone, RestRecord, RestVerify,
        RestLatest, RestRaises, Surroundings, Write, RaiseFloor, LoseFloor, Protect, Unprotect,
        Crash
    <3> QED
      BY <2>1, <3>1
  <2> QED
    BY <1>1, <2>2, <2>3
<1> QED
  BY Invariance, <1>1, PTL DEF Spec, FloorNeverLowered
=============================================================================
