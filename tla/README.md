# Verification of silicon-stemcell

TLA+ models of the Stemcell runtime, the TLC runs that check them on small
instances and the TLAPS proofs that hold for every value of the constants. Every
definition that models code is tied to the lines it stands for in the "map" of
`PROJECT.json`; the file also lists the hazards the properties were written for.

## The system

Stemcell is a single long-lived Python process that answers contacts through
"managers", runs "workers" for them, and is stopped, updated, snapshotted and
restored by a host updater that is a different process. What the two share is a
handful of JSON files, each replaced atomically under a file lock.

| part | state it keeps | operations | hard behaviours | what makes it correct |
|---|---|---|---|---|
| maintenance coordinator, `core/maintenance.py` | one document: phase, epoch, leases, root queue, receipts, notices, safe_to_stop | drain, cancel, transition; enqueue, claim, complete, retry, defer roots; leases; notices; attestation | two processes, expiry of leases, claims, notices and the drain itself, redelivery | nothing new passes a fence; safe_to_stop means quiescent; no accepted root is lost, run twice or vouched for wrongly |
| dispatcher and main loop, `main.py` | `_pending`, `_injected`, `_running`, `_claimed_roots`, a thread per contact | submit, inject, replay, run, settle, attest | threads against the main loop, injection against the end of a turn, failed writes, crash | one holder per root, bounded capacity, idle at the stop boundary, roots settle |
| snapshot store, `core/backup/` | objects, manifests, restore journal, floor, temporaries | snapshot, garbage collection, in-place restore | a crash between any two file operations | manifests stay complete, references are kept, the floor does not go down, a restore resumes |
| worker handler, `worker/handler.py` | active table, browser queue, archives, maintenance leases | start, poll, finish, requeue, stop | completion claims, crash between transfer and removal | a result is delivered, and once |
| interface, `core/interface.py` | inbox file, durable cursor, scan state, retry records, processed events | scan, process, hand over, remember, commit, retry, attest | crash between any two, replaced inbox file, a frame that is retried, a fence | no inbound event is skipped or handed over twice, a stop loses none |
| manager queue, `core/messages.py` | bounded queue of handoffs, prepared records | hand over, withdraw, drain | ambiguous acceptance by the coordinator, crash at any write | what was accepted is kept, and gets one turn |
| long-task updates, `core/long_task_updates.py` | lifecycle journal, card, worker intents, final reply, parked roots, reviews | begin, update, worker facts, settle, reply, recover; schedule, claim and complete a review | two threads and the network between a decision and its record, lost answers, crash | the reply follows the card and is not lost, facts and roots are kept, no checkpoint is skipped |
| calls, `core/work_updates.py` | correlations, retry journal, receipts | open, append, idle completion, leased delivery, giving up | several deliverers, lapsed leases, a full journal, redelivered messages | mutations of a call arrive in order, a message once |
| crons and checkbacks, `core/cron/` | cached records, watermarks, claims, checkbacks, history | sweep, claim, deliver, edit | two sweepers, edits under way, crash | an instant is claimed once, a checkback runs |
| team context, `core/team_context.py` | state file, base, pending edit, mirrors, visibility block | reconcile own, team and peers | edits on both sides, revoked access, failing requests and writes | drafts are kept, uploads replace only what was seen, nothing readable after a denial |
| trust, `core/trust.py`, `glass_agent.py` | confirmed and pending revision, requests | nudge, reconcile, set, acknowledge | two processes, answers out of order, restart | the applied policy becomes the one Glass has |
| key rotation, `update.py` | the key in three places and a staged one | stage, request, probe, persist, scrub | crash or lost answer at any step | the key Glass accepts is never lost |

The rest of the repository is listed under "Not modelled" and in `PROJECT.json`
with the reason.

How the parts meet: the main loop and the worker handler call the coordinator
inside the process; the updater calls it through the command line of
`core/maintenance.py`. A contact's message becomes a durable root
(`enqueue_root`, `enqueue_ingress_root`); the dispatcher claims it under a lease
and runs a turn; the turn starts workers under descendant leases; a worker's
result comes back as a continuation (`enqueue_continuation`). A drain raises a
fence: newer roots wait, older lineages run out, the main loop attests
quiescence, and the updater snapshots, updates, validates and, if need be,
restores the snapshot.

Around this core the interface feeds the coordinator from the inbox; a manager
hands work to another manager as a continuation (`ManagerQueue`); the main loop
claims long-task roots and accuracy reviews and submits them to the dispatcher
(`LongTasks`, `Reviews`); and the sweeps of crons and checkbacks produce contexts
for it. Team context, trust and the key are records this process shares only
with Glass and with its own sidecar.

## Modules

### Maintenance

`core/maintenance.py`. One variable, `doc`, the whole document. Every public
method is `_transaction`: prune, mutate, write. So each action takes
`d = Prune(doc)` and says what `doc'` is; a method that raises writes nothing and
has no step; a method that changes nothing after pruning is `Poll`. `Updater` holds
the calls of the updater, `Runtime` those of the process, `Tick` is time.

* Times are countdowns. An expiry at or before now is 0; `Tick` lowers each
  countdown. `LeaseTTL` and the others stand for the constants of the file.
* A uuid is an id nothing in the document refers to. A drain that is asked for
  without an id draws a fresh one; an updater that gives an id gives a fresh one.
* `root_queue` is a list whose order only decides which entry is claimed first;
  an entry carries the set of ids ahead of it.
* A body is a model value: the code compares the fingerprint of contact and body.
* Left out: the event ring and the wake-up files, from which nothing is decided.

### Dispatcher (extends Maintenance)

`ManagerDispatcher`, `core/iwantto/injection.py`, `heartbeat_scope`, and the main
loop's submissions, replay and attestation, around the same `doc`. A step is one
holding of `_condition` or one transaction of the coordinator; nothing larger is
atomic. `stage[c]` is the program counter of `_run_contact`: `new` (created by
submit and not started), `loop`, `run`, `ok`/`failed` (the runner returned or
raised), `settled`, `replay`; `lost` is a thread that will never be started.
`main.at` is the program counter of the main loop, whose attestation reads the
document, then `_condition`, then the inbox, then writes.

* `TimePasses` renews the leases of the turns and workers that beat, because the
  interval of `heartbeat_scope` is a third of the lease; `HeartbeatDies`
  is the thread that ends when one heartbeat raises (`beat` catches nothing).
* No time passes between the return of a runner and the settling of its roots.
  The code does nothing in between but take a lock and write a file; a stall of
  a whole lease there is outside the model.
* A crash clears everything but `doc` and the leases of the workers. A shutdown
  is a crash: `shutdown` waits for no thread unless asked to.
* `handled` and `joined` are history: roots whose turn was completed, and roots that
  entered a turn by injection. `WritesFail` allows a write of the coordinator to
  raise; a heartbeat may raise without it, as one of the faults.
* `OneBatch` shows that a popped batch is one admission, so the splitting of
  accuracy reviews out of a batch and the handling of stranded injections
  (`main.py:2298` ff.) have no reachable effect and are not modelled further.
* `MCTurns` explores three parts in one run. `BatchRunsOnce` is claimed where no write
  fails: a heartbeat that raises leaves the lease to expire, and then the root is
  run again.

### Workers (extends Maintenance)

`worker/handler.py` over the same `doc`: the registry, the active table and the
browser queue are the variables `registry`, `active`, `bqueue`; `act[a]` is the call a
caller (a tool of a turn, or a delegate command in a process of its own) or the main
loop is in; `main.at` is the program counter of the sweep, the submission of its
results and the attesting tick. A step is one locked update of a file, one
transaction of the coordinator, or what happens between taking and releasing a
launch lock, the start of a process apart. The other parts of the main loop and its turns are in `Dispatcher`;
here a result becomes a turn and the turn ends.

* `EnterStart` is the decision under the launch lock (refuse, queue, launch), and the
  `launch` stage holds the lock until the call is over. Profiled browsers
  share one lock, and it comes with the lock of the queue.
* A launch is two steps: `LaunchStarts` is `Popen`, after which the detached process is known
  only to the call, and `RecordActiveRun` enters it into the table, for a new Codex worker up to
  20 seconds later. In between Codex may report no session id (`LaunchGivesUp`), a write may
  raise (`LaunchRaises`) or the Stemcell may die: what such a fault leaves running in no table is
  in `orphans`. An orphan of a profiled worker still has the profile open; `ProfileSerial`
  speaks of the browsers the handler knows of.
* A run has ended when its process is gone or its completion event is written,
  which is what the sweep asks. `stop_worker` ends a run itself.
* `since` is the epoch in which a record or a job was made: `started_at` is no later
  than the request of a fence exactly when `since` is smaller than its epoch.
* `Crash` is the death of the Stemcell, which its workers survive, with or without an
  outage longer than a lease. Calls and sweeps are shorter than the time limits:
  time passes only while nobody is in one, and the main loop's beats renew leases.
* Left out: terminal output and its parsers, archives, checkbacks, browser daemons, and
  the "[Browser Queue]" notices that go with the results.

### Snapshots

`core/backup/`. The store lock, `create_local_snapshot`,
`garbage_collect_referenced_snapshots`, `restore_local_snapshot_in_place`. A step
is one file operation (one object in place, one manifest, one deletion, one
temporary, one replace, one write of the journal), so `Crash` falls between any
two.

* A content stands for its digest: an object is a content, a manifest is its body.
  A manifest carries the set of older ones, for the order by modification time.
* Path 0 is the release sequence floor, which a restore never lowers and never
  tombstones. `LoseFloor` is an operator or a disk losing it; without it a restore
  would never have to write it.
* A restore requires the instance stopped: `Write` and `RaiseFloor` wait for it. After
  a crash of the restore the instance may run; `dirty` records that it has written.
* `Protect` and `Unprotect` stand for the host updater's transaction journals, which
  are not in this repository: it names a manifest that is there, and not while a
  collection runs, because it takes its checkpoint in the same procedure.
* Left out: limits on sizes and counts (any of them is `SnapRaises`), modes,
  symbolic links, `restore_snapshot` into an empty directory.

### Interface (extends Maintenance)

The inbox of `core/interface.py`. The daemon appends lines to a file or replaces it; the
listener scans it into `queue`; the main loop drains a `batch` and, record by record,
processes each event, hands it to `EnqueueIngress`, remembers it and moves the durable
offset. `step` is where it is in `get_unread_events`. The state is split as the code
splits it: `memory` is lost in a crash, `durable` is not.

* An event is named by the ingress identity the code derives. Offsets count lines, as if
  all were of one length.
* A file with the identity the cursor names continues without a look. Any other continues when
  the line before the offset hashes as the last committed one did (`Anchor`: the last
  `INBOX_CURSOR_ANCHOR_BYTES` of one line, so a longer snapshot may begin with other events);
  the lines before that one are not compared. Events in those lines of the new file are in
  `skipped` once the listener has begun behind them, and in `Overlooked` while it would; the
  run reaches both. Left out: a new file with another number of lines that add up to the same
  bytes, which the code takes for the same in the same way.
* `text[e]` is the context processing yields; a media event may yield another one the
  second time, when its download fails, which is why an identity may come back with
  another body.
* `taken`, `dropped` and `skipped` are history.
* `MCInterface` explores, beside it, the ingress side of the coordinator alone.
* Left out: a write of the offset that raises (see the findings), sending, and the
  discovery of rooms, of which only the mapping of the one room is kept.

### LongTasks and Reviews

`core/long_task_updates.py`. `LongTasks` is one contact's lifecycle: `mem` is the object,
`jr` its journal entry, `card` the card in Glass, `queue` and `claimed` the roots that wait
behind it, `pc` where the turn `m` and the watcher `w` are. A step is a critical section
with the network call before it; a call that other threads can overtake is split. A
call is accepted, refused or accepted with a lost answer. `Reviews` is the schedule of
accuracy reviews between watcher, main loop and dispatcher, counted in intervals.

* The final reply is three steps of the turn: the tool looks the lifecycle up (`FinalReply`),
  queues the reply on it (`QueueReply`) and flushes it (`EnterFlush`, then `Decide`). The
  watcher may close the lifecycle after the lookup. `queue_final_reply` does not ask,
  and a closed object saves nothing: the reply is then in that call only (`rep` is "stray"), which
  settles, sends or drops it (`StrayDecide`, `StraySettle`, `StraySend`). The other tools of a turn
  take the lifecycle and use it in one step: what they do to a closed object is saved nowhere.
* Workers are counted before the decision, and an error counts as some, so a reply with a task
  may be held whatever the workers do.
* Due times of the watcher are nondeterminism: any duty may be due.
* Left out: blockers' texts, card layout, several contacts, `MAX_ACTIVE_CONTACTS`; in the queue of
  roots, that a newer accuracy review supersedes an older one and that reviews raise its
  capacity (`Reviews` has them as a schedule).

### Calls and CallOrder

`core/work_updates.py`: the correlation of a contact and a peer, its call cards, and
the journal through which every change of a card goes, with leases, failures, dead
letters, a capacity, receipts against repetition, and completion after idleness.
`CallOrder` is the abstract promise: per card, what was accepted is settled in order,
once, and leaves only accepted by Glass or given up. `Calls` implements it
(`Order == INSTANCE CallOrder WITH pos <- Settled`: a mutation is settled when it is no
longer in its card's lane), which the run checks as `OrderKept`.

### TeamContext

`core/team_context.py`: the operation that holds `_sync_lock` (`op`, `pc`), its working copy
`mem` of the state, the saved state `st`, the files `disk`, and Glass, whose own edits and
whose denials may fall between any two requests; failed writes and crashes are `faults`.

* One peer stands for the peers. Both credentials of an instance may be the same
  silicon's or two silicons'.
* A draft the manager writes while an operation is under way is not counted in
  `DraftsKept`: the editor takes no lock, so a write between the operation's read and its
  own write is overwritten.
* `HiddenAfterDenial` is claimed for at most two failed writes or crashes: hiding uses a
  block file, the placeholder and the state as three barriers, each of which is one write.

### KeyRotation

`update.py`: `stores` is the key in each of the four places the code reads it from, `pend` the
staged candidate, `active` what Glass accepts. Any step may fail or be the last. A
request that Glass carries out only after both probes have been answered is left out:
then the staged key is cleared and no key that Glass accepts is known any more.

### Trust

`core/trust.py` with the reconciler thread of `glass_agent.py`. The sidecar and the main process
each have a request in flight (`pc`, `got`) and share `trust_policy.json` (`st`) and the levels in
`contacts.json` (`contacts`), with no lock over the whole. A policy is its revision.

### Crons

`core/cron/`: the definition in Glass, the cached copy with its invalidation, the
watermark and the claims of each instant, the sweeps of two processes under the two
locks, and the checkbacks with their history. How a trigger yields instants is left out.

### ManagerQueue

`core/messages.py`: handoffs between managers, which become a continuation under the
sender's lease (`receipts`) or wait in the bounded queue and become an ingress root
(`ingress`). The coordinator is taken by its contract, which `Maintenance` models: an
identity is accepted once, a continuation only while the lease lives.

### The other modules

`MaintenanceProofs`, `DispatcherProofs`, `WorkersProofs`, `InterfaceProofs`, `SnapshotsProofs`,
`RecordsProofs` (key rotation, reviews, manager queue, crons, team context), `CallsProofs` and
`LongTasksProofs` hold the theorems. `MCMaintenance`, `MCDispatcher`, `MCTurns`, `MCWorkers`, `MCInterface` and `MCSnapshots` add the bounds and symmetry sets for
TLC. Several of them hold more than one instance: a variable `part`, constant in
a behaviour, says which one it is and with it which bounds hold, and the constant `Parts` which of
them a run explores. `MCRecords` does
this for the modules that keep a record of their own: its variables `v1`, `v2`, ... are the
variables of the module of that part. The modules that are proved about take their constants from
`records.cfg` through `MCRecords` (`Sharing` says which handoffs have
one recipient, `TeamSilicons` and `TeamKeys` which credentials there are); the assumptions about
all of them are `BoundsAssumption`.

## Runs

Each passing property has a mutant of the code in the module (a definition marked
"Mutant" or "Fault"), and TLC finds the property violated with it.

| run | asks | bounds | shows |
|---|---|---|---|
| `maint_fence` | every call in every order over two drains with a deadline | 1 contact, 1 root, 1 continuation, 2 leases, 2 maintenance ids, every time limit 1; calls name the current admission, late ones are in `disp_turns` | `TypeOK`, `FenceHolds`, `SafeMeansQuiescent`, `NoTurnDuringUpdate`, `LeaseOwnsOneRoot`, `AcceptedRootKept` |
| `disp_turns` | threads, injection, replay, attestation, a drain; writes that raise; ingress | turns: 1 contact, 2 roots, 1 continuation, 1 drain and 1 fault over 2 leases, 3 leases without; writes: 2 contacts, 1 root each, 2 faults, or 1 and a drain; ingress: 1 root, 1 ingress id, 1 fault | `StopBoundary`, `OneHolder`, `OneBatch`, `BatchRunsOnce` |
| `disp_live` | progress | 1 contact, 1 root, 2 leases, and 1 continuation or 1 fault (a failed turn, a dying heartbeat or a crash), fairness; with one contact the capacity is never met | `DrainEnds`, `RootsSettle` |
| `work` | start, resume, stop, queue, launch and sweep; a fence and a fault | 2 profiled workers, 2 leases; table: 2 callers, 2 runs, no fence, no fault; fence: 1 caller, 1 run, 2 drains, the second within a tick, 1 fault | `ProfileSerial`, `DeliveredOnce`, `ResultKept`, `PrefenceBlocks` |
| `snap_store` | one crash or failure anywhere, an interrupted restore called again | 2 files, floors 0 and 1, 2 manifests, 1 fault or a checkpoint named by an update journal, fairness | `ManifestsComplete`, `ReferencesKept`, `FloorNeverLowered`, `ResumesUnlessTorn` |
| `inbox` | scanning, handing over, remembering and committing around a drain; redelivery | 2 events, 2 lines, 2 files, 1 fault, a memory of 1 event; coordinator: 2 ids, 2 bodies, 2 drains | `OffsetVouches`, `ScannedIsHeld`, `TakenOnce`, `StopKeepsInput`, `ReceiptAgrees` |
| `trust_live` | convergence of the policy | 2 revisions, 1 crash, fairness | `Converges` |
| `records`, roots and workers | the long-task lifecycle | 2 roots, a task card for at most one of them, and no worker fact, or 1 root, 1 worker and 3 facts; 1 lost call, 1 crash | `ReplyAfterCard`, `ReplyKept`, `RootKept`, `FactDelivered` |
| `records`, reviews | the review schedule | 2 estimates, 2 checkpoints, 1 retry | `CheckpointsCovered` |
| `records`, calls | the call journal | 1 message out, 1 in, 2 deliverers, 2 calls, a journal of 2, 1 trouble | `OrderKept`, `MessageOnce` |
| `records`, team | team context | 2 silicons; 2 outside changes, 2 failed writes or crashes, 3 of both together | `HiddenAfterDenial`, `DraftsKept`, `UploadsOverSeen` |
| `records`, key | key rotation | 4 keys | `KeyKept` |
| `records`, queue | manager queue | 3 handoffs to 2 recipients, a queue of 2, 1 trouble | `OneTurn`, `AcceptedKept` |
| `records`, crons and checkbacks | cron sweeps | 2 sweepers, 2 instants, 1 edit or 1 crash, 1 checkback | `ClaimedOnce` |
| `disp_injected` | finding 1 | 2 roots, no fault | violated: `InjectedSharesFate` |
| `disp_wedge` | finding 2 | 2 contacts, 1 failed write, fairness | violated: `StartsIndependently` |
| `snap_resume` | finding 3 | 1 file, 1 crash, fairness | violated: `RestoreResumes` |
| `checkback_again` | finding 4 | 1 sweeper, 1 worker, 2 checkbacks, fairness | violated: `CheckbackRuns` |

Why the bounds are enough. What matters of a countdown is whether it has passed,
so a limit of 1 gives every order of expiries; a longer one only adds waiting. Two
drains give an epoch before, at and after any lineage. Two leases are one holder and
one contender; a third is an injected root's beside a worker's. Two profiled workers are a user of the
profile and a queued one; two callers race for a launch, and the main loop is a
third; one run suffices for what a fault does to a record, to a job or to a result.
Tables that have a limit (receipts, processed events, the call journal, the manager queue) are one
smaller than what is put into them, so that the limit is met. Two manifests over two
files are one kept and one collected, sharing an object or not (one content value
makes them share). Two inbox lines are a committed one and one behind it, two files a
replaced one and its successor. Two long-task roots are the running one and one behind it;
three facts of a worker are one delivered, one in flight and one newer. Two calls
are a completed card and its successor. What is proved (see below) does not depend on
the bounds.

Symmetry is over ids of which the model never chooses one (`CHOOSE` is applied
only to receipts, whose ids are not permuted, and to values it determines); liveness
runs use none. Deadlock is checked except in `records` and `trust_live`, whose systems may
really stop: when every message is handled, every edit made and every record at rest,
nothing is left to do.

Fairness. Weak fairness of a thread's next step: the operating system runs
threads. Strong fairness where a step is enabled again and again between other
steps: `RunnerEnds` (iterations and provider calls of a turn are bounded),
`TickReplay` and `ReadStatus` (the main loop comes round), `TimePasses`,
`Attest(TRUE)` (an inbox that is asked again and again is sooner or later
quiescent), in `Snapshots` an operator who repeats an incomplete restore, and in `Trust`
a request the sidecar makes again and again, which is sooner or later admitted
(the fence comes down) and answered. `Crons` asks that a sweep comes round and that
the time of a checkback comes.
Nothing is asked of the updater, of arrivals or of faults, so no property depends
on them.

## What is proved

`MaintenanceProofs`, for all contacts, ids, leases, time limits and table sizes, from
`BoundsAssumption` (the limits are naturals, the time limits positive) and
`IdsAssumption` (the three kinds of queue id are disjoint and `None` is no id):
`TypeCorrect`, `Fenced`, `SafeIsQuiescent`, `UpdateIsExclusive`, `LeasesAreExclusive`,
`ReceiptsAgree`, and the action property `AcceptedRootsStay`. The inductive invariant `Inv` is the type together with the five
properties and `BookkeepingIn` (a lease on an entry exactly while it is claimed; no
epoch in the future; a fence has an epoch of at least 1). None of them is inductive
alone: the fence needs that no lease is dated after the epoch, the exclusivity of
leases needs that an unclaimed entry has none, and quiescence needs that a claimed
entry has a live lease, which holds only of a pruned document (`ClaimsAreLeased`).
The argument follows the code: `PruneInv` shows that pruning keeps `Inv` and
establishes `ClaimsAreLeased`, one lemma per transaction shows that its change to a
pruned document keeps `Inv`, `AgeInv` does the same for time. The other modules that
share the document use these lemmas again, so that `Inv(doc)` is part of their invariants.

`DispatcherProofs`, for all contacts, roots, leases and faults: `StopIsIdle`, `RootsHaveOneHolder`,
`BatchesAreSingle`, and `RunningKeepsFence` (the coordinator's safety in every behaviour of the running
dispatcher). `DInv` says where each admission is (`Placed`), that a contact that is not
idle has a thread (`Owned`), that a root in hand is claimed in the document by the lease of its
batch (`Backed`) and that no root is in two hands (`OneEach`). `StopBoundary` needs the
middle of the attestation: once the status of this drain showed no lease and nothing
that may be claimed, that stays so, and after the idle test the dispatcher stays
empty, unless a new drain begins, which the epoch tells (`Attesting`, `Stopped`).

`WorkersProofs`, for all workers, callers, runs, leases and faults: `ProfileIsSerial`,
`ResultsEnterOnce`, `PrefenceWorkBlocks` (`PrefenceBlocks`) and `ResultsAreKept` (`ResultKept`). The
first two need `WInv`: `SerialInv` says that who starts a profiled worker holds the launch lock
or the lock of the queue, decides on what the table and the queue say under it, and
that a worker is queued at most once; `OnceInv` says that a run is in one record, and,
while nothing has failed, in one hand: table, sweep and delivered results exclude each other.

The other two speak of leases that have to live long enough, so `LeaseInv` (`LeaseInvariance`) follows
each lease from the call to the queue to the run to the sweep:

* a lease is used by one of them at a time and by no claimed root (`UseInv`), so whoever releases one
  takes it from himself. A call of `stop_worker` counts as the run it stops, which it has
  removed from the table before it releases (`Stops`);
* through any step a lease is lost only by its release, by the transfer or the drop of the sweep, with a claimed
  root, or in time (`DocumentStep`), and what is about to start has a live one (`StartsBacked`): it was
  granted or beaten when it was handed over;
* between its reconciliation and its attestation a tick vouches for the work it covered
  (`TickVouches`): nothing of the sweep comes in between, and a stop removes the record first. So
  there is nothing quiescent while such work is there;
* while nothing has failed, a run in the table has a live lease until its result is delivered, and
  what the sweep cannot transfer was stopped (`Lively`). This is why the first fault finds no result
  that only the memory of the loop holds, and `ResultKept` is for one fault: the second can lose it;
* the run in the hands of the sweep is delivered, still in the table, or stopped (`Handled`);
* a process that is started and not yet recorded belongs to one call, and is in no table, sweep
  or result (`Unstarted`, `OneLaunch`); the main loop launches only when its sweep is
  over (`MainBusy`). So a fault cuts off only runs that
  nobody else holds, and `ResultKept` names them: a run in `orphans` was started, and not
  recorded, when the fault came. The code does lose their results.

`InterfaceProofs`, for all events, lines, files, offsets and faults: `OffsetIsVouched`,
`NothingScannedIsLost`, `StopLosesNothing`. None is inductive alone. The invariant is one
chain: every event before a position of the file is settled or its record is in hand
at an earlier place. The durable cursor is the chain with nothing before it, each record in
hand extends it to its end, and the scan is at the end of the last. Appending, reading,
handing over, remembering, committing and restoring each keep the chain; what is
attested quiescent has an empty hand. The theorems have the exception of the code: of a file
that is not the one committed in, but has the same line before the offset, the lines before that
one are vouched for only where they are the committed ones. An event in any other of them is
in `skipped` or `Overlooked`, which nothing else can enter.

`RecordsProofs`, each in its part of `MCRecords`: `KeyIsKept` for any number of rotations (`KInv`: what the
sweep has proved about the candidate at each step, and that a key in `.glass.json` wins);
`NoCheckpointSkipped` for any goals, checkpoints and retries (`RInv`: a pending review starts at the next
checkpoint); `OneTurnPerHandoff` and `AcceptedHandoffsKept` for any handoffs, recipients and queue
length (`QInv`: a handoff that the drain treats as new has no receipt, and what the drain has
taken off or is taking off is filed). The last needs what a filtered queue
holds for a queue of any length: `SetInduction`, from the well-foundedness of `<`.
`InstantsClaimedOnce` is shown for `Crons` alone as well as for its two parts, which never have an edit
and a crash together: `CronInv` adds to the property that the watermark never lies before the one
the cron was first seen with, and that only the tool takes it away, of a cron that is gone.

Also in `RecordsProofs`, for any credentials, memories, outside changes, failed writes and crashes,
for `TeamContext` alone and in its part of `MCRecords`: `HiddenAfterRefusal` (`HiddenAfterDenial`),
`DraftsAreKept` (`DraftsKept`) and `UploadsReplaceTheSeen` (`UploadsOverSeen`). The properties speak of moments
(no operation under way, a PUT, a file that is replaced), so the inductive invariant `TInv`
(`TeamInvariance`) says what leads there:

* whose memory an operation works on and what it may still rely on (`Operating`): after Glass has
  answered, the working state is of the credential in use, and a whole pass goes on only while
  that credential is not refused;
* what a refused principal could still be shown (`Hidden`): TEAM.md on the disk, and the one a failed
  save would put back, match the saved state only after three failures, or after two with the state
  that would show it about to be replaced by an invalid one. `TeamRefusedStep` counts them: what
  stays readable after a refusal took a failed block and a failed placeholder, and then the save has
  to fail too;
* what Glass has had of each memory (`Memories`): the bases and manifest entries an operation or the
  saved state builds on were once in Glass at their revision (`Had`), so a revision that has not
  moved still has their content. That is why the revision a PUT names (`Replaces`), and the draft a
  download overwrites, can be judged from what was read before.

Steps that only touch the own memory share `TeamOwnStep`, what happens outside the lock shares
`TeamWorldStep`: both need only that what Glass has had grows (`TeamGrows`).

`CallsProofs`: `CallsKeepOrder`, the refinement of `CallOrder`, and `MessagesOnce`, for any messages,
deliverers, calls, capacity and number of failures. The invariant `CInv` of `Calls` says that
the lane of a card holds exactly the mutations that are not settled, in order
(`LanesInOrder`), so that `Settled`, which counts a lane, can be computed; that only the first entry of
a lane was tried (`TriedIsFirst`), so that an entry taken out is the next one to settle; that a
request that is out still has its entry, and one that was accepted is what Glass applied last
(`LeasesHeld`, with no two holders of one token: `TokenFresh` counts the tokens in use). Each
action is then shown to be the step of `CallOrder` it stands for, or none.

`LongTasksProofs`, for any roots, workers, facts, lost calls and crashes, for `LongTasks` alone
and for its two parts of `MCRecords`, which have no fact or only one root: `RepliesAfterCard`,
`RepliesKept`, `RootsKept` and the action property `FactsAreDelivered` (`FactDelivered`). The inductive invariant `LInv` (`LongTaskInvariance`) is the type with
these three and what they stand on:

* while the object is open, it and the journal say the same of the root, the task, the reply and
  the end (`SameEntry`): each save merges facts of workers only, so a restart
  goes on from what the object last said;
* a closed object owes no reply and has no watcher at work, and at boot nothing runs
  (`ClosedIsQuiet`), so what closes or is taken up again drops nothing;
* while the reply tool has a lifecycle in hand its root was taken in, and the journal is
  open only with the object; a reply that went to a closed one is sent only
  after its card was seen terminal, if it has a task (`ReplyInHand`). `RepliesKept` is about replies
  queued on an open lifecycle, `RepliesAfterCard` about both;
* a root that is in the journal, with the dispatcher or in the queue was taken in (`RootsTaken`);
* a queued reply with a task has its task in the journal (`ReplyNeedsTask`), and an entry that is
  terminal is shown so in Glass, as is one whose accepted end the turn is about to record
  (`TerminalIsShown`);
* who is about to send a reply with a task has seen its card terminal (`SendAllowed`), and nobody
  takes that back: no call to Glass leaves `terminal`.

Most actions change neither root, task nor reply, and one lemma (`Steady`) is about all of them.
That the queue loses only the acknowledged root, for queues of any length, needs an
induction over `Acked`, as in `RecordsProofs`. `FactsAreDelivered` is about the step that takes a
fact out of the journal, after Glass has answered and while newer facts of the same worker come
in; `FactsInv` (`FactsInvariance`) adds to `LInv` that the open object and the journal agree on
each worker's phase and fact, that no fact is ahead of the clock, and that a delivery under way
carries a fact no newer than the object's: so what the answer removes is what Glass took, or the
fact stays.

`SnapshotsProofs`, for any number of files, contents, floors, manifests and faults,
from `SnapshotsAssumption`: `SnapshotsRestorable` (`ManifestsComplete`), `ReferencedKept`
and `FloorHolds`. `Inv` adds that whoever is in an operation holds the lock
(`Exclusive`), that a snapshot under way names only objects in place
(`CopiesInPlace`), that the two deletion lists of a collection touch no reference
and no object of a manifest that stays (`DeletionsApart`), and for the floor that a
temporary is written for it only while it is lower (`FloorRises`). Completeness is
not inductive without them: an object may go only because no manifest that stays
needs it, which was computed when the plan was made and stays true because the lock
keeps snapshots out.

Only model-checked:

* the liveness properties (`DrainEnds`, `RootsSettle`, `ResumesUnlessTorn`, `Converges`), which the prover
  cannot handle;
* `TakenOnce` of `Interface`: receipts are pruned by number, so it holds while the tables are
  longer than what is redelivered, which is a relation between the constants the code does not state;
* `BatchRunsOnce`: it says how long a claim lives against the heartbeat of its turn, and needs an
  invariant over the clocks of the document that `DInv` does not have;
* that a checkback runs (`Crons`), which is finding 4.

## Findings

1. `disp_injected`. The heartbeat of a turn covers its batch (`main.py:2328`); a root
   injected later is not renewed, expires, is claimed again and runs twice.
   `main.py:2190` promises that it shares the run's fate.
2. `disp_wedge`. `submit` starts its threads after its loop over contacts
   (`main.py:2169`). When a durable write for a later contact raises, the earlier
   contact stays in `_running` without a thread until a restart. `main.py:2119`
   promises that contacts start independently.
3. `snap_resume`. A crash while a restore temporary is filled leaves a file that
   every later attempt refuses (`fileops.py:106`); the journal refuses any other
   restore. `restore.py:248` promises that calling again resumes.
4. `checkback_again`. A checkback that has run stays in the history for ever, and a later
   one for the same worker is never due (`core/cron/__init__.py:72`, `core/cron/checkback.py:60`),
   although its instructions invite the manager to set one (`checkback.py:79`).

Noticed and not made a run:

* `_claimed_roots` is not lowered when `retry_roots` raises: capacity leaks until a
  restart, against the comment at `main.py:2134`.
* The comment at `main.py:2160`, that the condition lock makes the deferral
  unreachable, overlooks a turn that is not registered with injection.
* One heartbeat that raises ends the heartbeat of the turn (`maintenance.py:1276`).
* A worker's continuation is enqueued without a stable id before the worker leaves
  the active table (`worker/handler.py:1796`): a crash in between delivers twice.
* A worker launched behind a fence under an older lineage is not adopted again after an
  outage longer than a lease (its `started_at` is later than the request), so it no
  longer blocks the stop, against the comment at `worker/handler.py:1716`.
* A drain that takes the place of a cancelled one between a tick's reconciliation and its
  attestation is attested on the reconciliation of the old one (`main.py:2409`, `2424`): a worker
  launched behind the old fence, whose lease has lapsed in an outage, is overlooked, so the
  new drain is safe although it predates it.
* A reconciliation that raises is logged and the tick attests all the same (`main.py:2410`).
* A worker messaged between its registration and its launch is unregistered by the
  refused start while it runs (`worker/handler.py:1273`).
* A job is popped from the browser queue before it is launched; a crash loses it.
* A worker's process is started before it is recorded (`worker/handler.py:858`, `935`; for Codex up to
  20 seconds before, `948`). A crash or a write that raises in between leaves it running in no
  table: nobody sweeps its result, and a profiled browser may be started beside it.
* The watcher may close a lifecycle between the lookup of the reply tool (`main.py:667`) and
  `queue_final_reply`, which does not ask (`core/long_task_updates.py:1820`): "Persist prose and its
  stable id before any terminal network write" (`core/long_task_updates.py:1821`) does not hold then, and a
  reply that is reported as queued may be in no journal.
* A resumed launch that fails reports a text that is not taken for an error, so its lease
  blocks a drain until it expires (`worker/handler.py:868`).
* A stray temporary in the store refuses all collection until it is removed
  (`core/backup/gc.py:443`).
* A snapshot equal to an old one keeps the old manifest's modification time.
* A replaced inbox file is taken for the committed one when its last committed line is the same
  at the same offset (`core/interface.py:2136`): events in earlier lines that differ are passed over,
  although "an unrelated, truncated, or modified file still starts at byte zero"
  (`core/interface.py:2117`).
* When the write of the inbox offset raises, the drained records after it leave memory
  while the scan stays past them, and the next commit moves the durable offset over
  them, against the comment at `core/interface.py:2151`.
* A receipt over the limit is forgotten, and its ingress record, delivered again, is
  queued a second time (`maintenance.py:280`): the limit is thousands.
* The lease of a long-task contact is not taken over while its pid lives, whoever has that
  pid now (`core/long_task_updates.py:699`), until the lease runs out.
* The fence defers an accuracy review's turn, and the dispatcher completes the
  review all the same (`main.py:1806`, `2342`).
* A call completed by the idle sweep may be touched in the same moment and go on
  under the completed card, against the docstring at `core/work_updates.py:2112`.
* An explicit edit of the team context that equals the old base stays pending, and is
  sent over a later one (`core/team_context.py:1335`).
* A trust answer that arrives late lowers the confirmed revision until the next
  reconciliation (`core/trust.py:236`).
* A plain handoff whose acceptance is ambiguous falls back to a second copy
  (`core/messages.py:349`).
* A crash between the watermark of a cron and the admission of its context loses the
  fire (`core/cron/__init__.py:405`).

## Not modelled

`PROJECT.json` gives the reason for each part: the progress reporter, the background
executor, the iwantto command line with its mailbox and log, the upload of an archive to
Glass, the data policy, diagnostics, path watching and runtime health, the state-store primitive
(taken as an atomic step everywhere), provider and advisor clients, configuration and
prompts. Of the modelled parts: `manager.py` (sessions, summaries, provider calls), the
sending side of the interface, the tool dispatch of a turn, the output parsers and archives of workers, and
the commands of the Glass agent other than its change notices.

## Plan

In order of what they would add:

1. Proofs: `BatchRunsOnce` of the dispatcher, with the clocks of claims as `WorkersProofs` has those of leases.
2. `Interface` composed with `Dispatcher`, so that an event is followed to the end of its turn;
   the offset write that raises.
3. `Workers`: liveness of the browser queue and of results, and an abstract "a result is delivered at
   least once, and once without a crash" that it implements.
4. The sessions of `manager.py`, the background executor, the progress reporter's buffer.
