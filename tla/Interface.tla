----------------------------- MODULE Interface -----------------------------
(***************************************************************************)
(* The durable inbox of core/interface.py over the maintenance coordinator:*)
(* the CLI daemon appends lines to a file, the listener thread scans it    *)
(* into memory, and the main loop hands every event over to root_queue,    *)
(* remembers it and moves the durable offset.  A crash may fall between    *)
(* any two of these, a frame may be retried, and the file may be replaced. *)
(*                                                                         *)
(* A line is a frame: the events it carries (one, or all that a snapshot   *)
(* repeats), or the removal of the room; a malformed line, or another      *)
(* frame without events, does what the removal of an unknown room does.    *)
(* An event is named by the ingress identity the code derives from its     *)
(* room and event id.  Offsets count lines, as if all were of one length:  *)
(* two lines may always take each other's place.  The anchor that goes     *)
(* with an offset is a hash of the end of the last line before it, and of  *)
(* no earlier line.  prefix, the lines that really were before it, is kept *)
(* to say what an equal anchor misses; the code does not have it.          *)
(***************************************************************************)
EXTENDS Maintenance, Sequences, SequencesExt

CONSTANTS
    Media,          \* events whose context depends on a download
    SeenCap,        \* events processed_events remembers per room
    MaxLines,       \* bound on the length of the inbox file
    MaxFiles,       \* bound on the number of inbox files
    MaxFaults       \* bound on crashes and failing calls

ASSUME InboxAssumption ==
    /\ Media \subseteq IngressIds
    /\ SeenCap \in Nat /\ MaxLines \in Nat /\ MaxFiles \in Nat /\ MaxFaults \in Nat
    /\ Contacts # {} /\ Bodies # {}

VARIABLES
    file,       \* the inbox: its identity (device and inode) and its lines
    cursor,     \* INBOX_CONSUMER_FILE: the durable offset and its anchor
    scan,       \* _inbox_scan_state of the listener
    queue,      \* _inbox_retry_records, then _event_queue
    batch,      \* the records get_unread_events has drained and not committed
    step,       \* where the main loop is in get_unread_events
    listener,   \* the thread: off, on, or told to stop and still alive
    seen,       \* processed_events and last_processed_event_ids
    mapped,     \* whether the room of the events is in the contact state
    text,       \* event -> the context its processing yields now
    telling,    \* the notices deliver_maintenance_notices has claimed
    taken,      \* event -> how often it was appended to root_queue
    dropped,    \* events that were left out for good
    skipped,    \* events in lines of a new file that an equal anchor passed over
    faults      \* faults so far

memory == <<scan, queue, batch, step, listener, telling>>
durable == <<file, cursor, seen, mapped>>
ivars == <<doc, memory, durable, text, taken, dropped, skipped, faults>>

Events == IngressIds
Sender == CHOOSE c \in Contacts : TRUE
Plain == CHOOSE b \in Bodies : TRUE

AtRest == [at |-> "idle", i |-> 0]
NoScan == [id |-> 0, off |-> 0]
NoCursor == [id |-> 0, off |-> 0, prefix |-> <<>>]

IInit ==
    /\ doc = DefaultState
    /\ file = [id |-> 1, lines |-> <<>>] /\ cursor = NoCursor /\ scan = NoScan
    /\ queue = <<>> /\ batch = <<>> /\ step = AtRest /\ listener = "off"
    /\ seen = <<>> /\ mapped = FALSE
    /\ text = [e \in Events |-> Plain] /\ telling = {}
    /\ taken = [e \in Events |-> 0] /\ dropped = {} /\ skipped = {} /\ faults = 0

MayFault == faults < MaxFaults /\ faults' = faults + 1
Fine == faults' = faults
InFile(e) == \E n \in DOMAIN file.lines : e \in Range(file.lines[n].events)

-----------------------------------------------------------------------------
(* The CLI daemon, which owns the inbox file *)

Append2Inbox(f) ==
    /\ Len(file.lines) < MaxLines
    /\ file' = [file EXCEPT !.lines = Append(@, f)]
    /\ UNCHANGED <<doc, memory, cursor, seen, mapped, text, skipped, taken, dropped,
                   faults>>

\* The daemon begins a new file, with a snapshot of the room or empty.
Rotate ==
    /\ file.id < MaxFiles
    /\ \E s \in SetToSeqs({e \in Events : InFile(e)}) :
        \E lines \in {<<>>, <<[kind |-> "snapshot", events |-> s]>>} :
            file' = [id |-> file.id + 1, lines |-> lines]
    /\ UNCHANGED <<doc, memory, cursor, seen, mapped, text, skipped, taken, dropped,
                   faults>>

Daemon ==
    \/ \E e \in Events : Append2Inbox([kind |-> "event", events |-> <<e>>])
    \/ Append2Inbox([kind |-> "removed", events |-> <<>>])
    \/ Rotate

-----------------------------------------------------------------------------
(* The listener thread *)

\* Mutant: any file that is long enough continues.
ContinuesIfLong(cur) == cur.off <= Len(file.lines)

\* What the hash of the end of a line covers: a snapshot as long as
\* INBOX_CURSOR_ANCHOR_BYTES may begin with other events.
Anchor(f) == <<f.kind, IF f.events = <<>> THEN <<>> ELSE <<Last(f.events)>> >>

\* _inbox_cursor_continues_file
Continues(cur) ==
    /\ cur.off <= Len(file.lines)
    /\ \/ cur.id = file.id
       \/ cur.off > 0 /\ Anchor(file.lines[cur.off]) = Anchor(cur.prefix[cur.off])

ResumeOffset == IF Continues(cursor) THEN cursor.off ELSE 0

\* The events that the durable offset passes over in another file than the one
\* it was committed for, because that has the same line before the offset.
Overlooked ==
    {e \in Events :
        /\ cursor.id # file.id /\ cursor.off \in 1..Len(file.lines)
        /\ Anchor(file.lines[cursor.off]) = Anchor(cursor.prefix[cursor.off])
        /\ \E n \in 1..cursor.off :
                file.lines[n] # cursor.prefix[n] /\ e \in Range(file.lines[n].events)}

\* _read_new_inbox_records and _queue_inbox_records: every complete line after
\* the scan offset, or after the durable offset when the file is not the one
\* scanned so far.
ReadRecords ==
    LET same == scan.id = file.id /\ scan.off <= Len(file.lines)
        from == IF same THEN scan.off ELSE ResumeOffset
        record(n) == [id |-> file.id, end |-> n, frame |-> file.lines[n],
                      prefix |-> SubSeq(file.lines, 1, n)]
    IN  /\ scan' = [id |-> file.id, off |-> Len(file.lines)]
        /\ cursor' = IF ~same /\ Continues(cursor)
                     THEN [cursor EXCEPT !.id = file.id] ELSE cursor
        /\ skipped' = IF same THEN skipped ELSE skipped \cup Overlooked
        /\ queue' = queue \o [n \in 1..Len(file.lines) - from |-> record(from + n)]

\* _listener_loop: a pass over the file, the last one while it is told to stop,
\* or the thread ends.
ListenerPass ==
    /\ listener \in {"on", "stopping"} /\ <<scan.id, scan.off>> # <<file.id, Len(file.lines)>>
    /\ ReadRecords
    /\ listener' = IF listener = "on" THEN "on" ELSE "off"
    /\ UNCHANGED <<doc, batch, step, telling, file, seen, mapped, text, taken, dropped, faults>>
ListenerEnds ==
    /\ listener = "stopping" /\ listener' = "off"
    /\ UNCHANGED <<doc, scan, queue, batch, step, telling, durable, text, skipped,
                   taken, dropped, faults>>

-----------------------------------------------------------------------------
(* get_unread_events, by the main loop *)

Head1 == batch[1]
Event == Head1.frame.events[step.i]
AtEvent == step.at = "event" /\ step.i <= Len(Head1.frame.events)
NextEvent == step' = [step EXCEPT !.at = "event", !.i = @ + 1]

\* The main loop turns to the first of the records rs.  _reconcile_durable_frame
\* and _remove_room_mapping take the room out before its events are looked at.
Begin(rs) ==
    /\ batch' = rs
    /\ step' = IF rs = <<>> THEN AtRest ELSE [AtRest EXCEPT !.at = "event", !.i = 1]
    /\ mapped' = (mapped /\ ~(rs # <<>> /\ rs[1].frame.kind = "removed"))

\* _drain_listener_events: the retried suffix first, then the newer records
DrainRecords ==
    /\ step = AtRest /\ queue # <<>>
    /\ Begin(queue) /\ queue' = <<>>
    /\ UNCHANGED <<doc, scan, listener, telling, file, cursor, seen, text, skipped,
                   taken,
                   dropped, faults>>

\* _remember_processed and _remember_seen_event
Remembered(e) ==
    LET all == IF Contains(seen, e) THEN seen ELSE Append(seen, e)
    IN  SubSeq(all, IF Len(all) > SeenCap THEN Len(all) - SeenCap + 1 ELSE 1, Len(all))

\* Mutant: the frame that could not be handed over is left out of the retry.
RetryNewer == queue' = Tail(batch) \o queue

\* _retry_inbox_batch: the whole suffix goes ahead of newer records.
RetrySuffix == queue' = batch \o queue
Retry == RetrySuffix /\ batch' = <<>> /\ step' = AtRest

\* process_incoming_event, its early returns.  _contact_for_room discovers the
\* rooms when it does not know the event's; an event that is remembered is
\* remembered again; one whose room cannot be found is remembered and dropped.
ProcessKnown ==
    /\ AtEvent /\ Contains(seen, Event)
    /\ mapped' = TRUE
    /\ NextEvent
    /\ seen' = Remembered(Event)
    /\ UNCHANGED <<doc, scan, queue, batch, listener, telling, file, cursor,
                   text, skipped, taken, dropped, faults>>
ProcessUnroutable ==
    /\ AtEvent /\ ~mapped /\ MayFault
    /\ NextEvent
    /\ seen' = Remembered(Event) /\ dropped' = dropped \cup {Event}
    /\ UNCHANGED <<doc, scan, queue, batch, listener, telling, file, cursor, mapped,
                   text, skipped, taken>>

\* process_incoming_event of a new event: its context is made, with what the
\* media download yields, and its call bookkeeping is written.  When the
\* bookkeeping raises the suffix is retried; when something else raises the
\* event is skipped ("must not poison the durable stream").
New == AtEvent /\ ~Contains(seen, Event)
BookkeepingRaises ==
    /\ New /\ MayFault
    /\ mapped' = TRUE /\ Retry
    /\ UNCHANGED <<doc, scan, listener, telling, file, cursor, seen, text, skipped,
                   taken, dropped>>
ProcessRaises ==
    /\ New /\ MayFault
    /\ mapped' = TRUE /\ NextEvent /\ dropped' = dropped \cup {Event}
    /\ UNCHANGED <<doc, scan, queue, batch, listener, telling, file, cursor, seen,
                   text, skipped, taken>>

\* Then enqueue_ingress_root, which refuses an identity it has accepted with
\* another context, and may raise: the suffix is retried.
Refused(d) ==
    \/ d.receipts[Event].ttl > 0 /\ ~SameMessage(d.receipts[Event], Sender, text[Event])
    \/ /\ d.receipts[Event].ttl = 0 /\ d.items[Event].status # "absent"
       /\ ~SameMessage(d.items[Event], Sender, text[Event])
HandOver(d) ==
    /\ New
    /\ EnqueueIngress(d, Event, Sender, text[Event])
    /\ taken' = [taken EXCEPT ![Event] =
                    IF d.items[Event].status = "absent" /\ doc'.items[Event].status # "absent"
                    THEN @ + 1 ELSE @]
    /\ mapped' = TRUE /\ step' = [step EXCEPT !.at = "remember"]
    /\ UNCHANGED <<scan, queue, batch, listener, telling, file, cursor, seen, text,
                   skipped,
                   dropped, faults>>
HandOverFails(d) ==
    /\ New
    /\ IF Refused(d) THEN Fine ELSE MayFault
    /\ doc' = d /\ mapped' = TRUE /\ Retry
    /\ UNCHANGED <<scan, listener, telling, file, cursor, seen, text, skipped, taken,
                   dropped>>

\* _remember_processed, which may raise as well
Remember ==
    /\ step.at = "remember"
    /\ UNCHANGED <<doc, scan, listener, telling, file, cursor, mapped, text, skipped,
                   taken, dropped>>
    /\ \/ /\ Fine /\ seen' = Remembered(Event) /\ NextEvent /\ UNCHANGED <<queue,
                                                                           batch>>
       \/ MayFault /\ Retry /\ UNCHANGED seen

\* _commit_inbox_record: monotone within a file
Committed(r) ==
    IF cursor.id = r.id /\ cursor.off >= r.end THEN cursor
    ELSE [id |-> r.id, off |-> r.end, prefix |-> r.prefix]

Commit ==
    /\ step.at = "event" /\ step.i > Len(Head1.frame.events)
    /\ cursor' = Committed(Head1)
    /\ Begin(Tail(batch))
    /\ UNCHANGED <<doc, scan, queue, listener, telling, file, seen, text, skipped,
                   taken,
                   dropped, faults>>

GetUnread(d) ==
    \/ DrainRecords \/ ProcessKnown \/ ProcessUnroutable
    \/ BookkeepingRaises \/ ProcessRaises \/ HandOver(d) \/ HandOverFails(d)
    \/ Remember \/ Commit

-----------------------------------------------------------------------------
(* The maintenance tick of the main loop, and the notices *)

\* Mutant: only the offset of a queued record is compared with the file.
QuiescentByOffset ==
    listener = "off" /\ \A n \in DOMAIN queue : queue[n].end <= Len(file.lines)

\* maintenance_inbox_quiescent and _inbox_record_restart_safe
InboxQuiescent ==
    /\ listener = "off"
    /\ \A n \in DOMAIN queue : queue[n].id = file.id /\ queue[n].end <= Len(file.lines)

\* start_listener while available, else stop_listener, whose join may time out
Listen ==
    /\ step = AtRest
    /\ \/ doc.phase = "available" /\ listener = "off" /\ listener' = "on"
       \/ doc.phase # "available" /\ listener = "on" /\ listener' \in {"off", "stopping"}
    /\ UNCHANGED <<doc, scan, queue, batch, step, telling, durable, text, skipped,
                   taken, dropped, faults>>

\* The attestation of _maintenance_runtime_tick
Attest(d) ==
    /\ step = AtRest /\ d.phase = "draining" /\ Quiescent(d)
    /\ Acknowledge(d, d.epoch, InboxQuiescent)
    /\ UNCHANGED <<memory, durable, text, skipped, taken, dropped, faults>>

\* deliver_maintenance_notices, of which schedule_maintenance_notices runs one
\* at a time: the pending notices are claimed, then each is sent and finished,
\* or the send fails and the notice is released for a retry.
Pending(d) == {n \in DOMAIN d.notices : d.notices[n].status = "pending"}
TellStart(d) ==
    /\ telling = {} /\ Pending(d) # {}
    /\ ClaimNotices(d) /\ telling' = Pending(d)
    /\ UNCHANGED <<scan, queue, batch, step, listener, durable, text, skipped, taken,
                   dropped, faults>>
Tell(d) ==
    /\ \E n \in telling :
        /\ telling' = telling \ {n}
        /\ \/ FinishNotice(d, n, TRUE) /\ Fine
           \/ FinishNotice(d, n, FALSE) /\ MayFault
    /\ UNCHANGED <<scan, queue, batch, step, listener, durable, text, skipped, taken,
                   dropped>>

-----------------------------------------------------------------------------
(* The surroundings *)

\* A manager turn of the dispatcher, whole, or a poll of the status
Turn(d) ==
    /\ \/ Poll(d)
       \/ /\ d.phase = "available"
          /\ \E q \in Queued(d) : \E g \in Grants(d, {q}) :
                CompleteRoots(ClaimItems(d, {q}, g), {<<q, g[q]>>})
    /\ UNCHANGED <<memory, durable, text, skipped, taken, dropped, faults>>

\* The updater raises one fence and lowers it.
Update(d) ==
    /\ \/ d.epoch = 0 /\ \E m \in Mids : RequestDrain(d, m, NoDeadline)
       \/ d.phase = "draining" /\ CancelDrain(d, d.mid)
    /\ UNCHANGED <<memory, durable, text, skipped, taken, dropped, faults>>

\* A download that failed succeeds the next time, or the other way round.
DownloadChanges ==
    /\ MayFault
    /\ \E e \in Media, b \in Bodies : text[e] # b /\ text' = [text EXCEPT ![e] = b]
    /\ UNCHANGED <<doc, memory, durable, taken, skipped, dropped>>

\* discover_rooms in the background, which _schedule_room_refresh submits
RoomRefresh ==
    /\ ~mapped /\ mapped' = TRUE
    /\ UNCHANGED <<doc, memory, file, cursor, seen, text, skipped, taken, dropped,
                   faults>>

\* The process dies.  While it is down a restore may put back an earlier copy
\* of the inbox, which has a new inode.
Crash ==
    /\ MayFault
    /\ scan' = NoScan /\ queue' = <<>> /\ batch' = <<>> /\ step' = AtRest
    /\ listener' = "off" /\ telling' = {}
    /\ \/ file' = file
       \/ /\ file.id < MaxFiles
          /\ \E n \in 0..Len(file.lines) :
                file' = [id |-> file.id + 1, lines |-> SubSeq(file.lines, 1, n)]
    /\ UNCHANGED <<doc, cursor, seen, mapped, text, skipped, taken, dropped>>

INext ==
    LET d == Prune(doc) IN
    \/ Daemon \/ ListenerPass \/ ListenerEnds \/ Listen
    \/ GetUnread(d) \/ Attest(d) \/ TellStart(d) \/ Tell(d)
    \/ Turn(d) \/ Update(d) \/ DownloadChanges \/ RoomRefresh
    \/ Crash

ISpec == IInit /\ [][INext]_ivars

-----------------------------------------------------------------------------
(* Properties *)

Settled(e) == taken[e] > 0 \/ e \in dropped
PassedOver(e) == e \in skipped \cup Overlooked

\* "The durable offset advances only after the main loop has interpreted a
\* record, so a crash before interpretation replays it on restart": every event
\* before the offset at which a new process would resume was handed to
\* root_queue or left out on purpose, whatever was retried, crashed, rotated
\* or restored in between.  Only a new file with an equal line before the offset
\* is resumed in its middle, past events in the lines before that one.
OffsetVouches ==
    \A n \in 1..ResumeOffset : \A e \in Range(file.lines[n].events) :
        Settled(e) \/ PassedOver(e)

\* What the listener has scanned is not lost while the process lives: each of
\* its events is settled or its record is still in memory, unless the scan began
\* behind an equal line of a new file.
ScannedIsHeld ==
    scan.id = file.id =>
        \A n \in 1..scan.off : \A e \in Range(file.lines[n].events) :
            \/ Settled(e) \/ e \in skipped
            \/ \E s \in {queue, batch} : \E m \in DOMAIN s : e \in Range(s[m].frame.events)

\* An event enters root_queue once, although its line is read again after a
\* crash, a retry, a rotation or a restore, and although its receipt lies
\* between two files that are written one after the other: the receipt covers
\* the gap until the event is remembered in processed_events.
TakenOnce == \A e \in Events : taken[e] <= 1

\* The runtime attests that it may be stopped only while that loses no input:
\* an event it has read and not handed over is in the inbox where the next
\* process reads it, or is one that an equal line makes that process pass over.
StopKeepsInput ==
    [][~doc.safe /\ doc'.safe =>
        \A n \in DOMAIN queue : \A e \in Range(queue[n].frame.events) :
            \/ Settled(e) \/ PassedOver(e)
            \/ \E m \in ResumeOffset + 1..Len(file.lines) :
                    e \in Range(file.lines[m].events)]_ivars
=============================================================================
