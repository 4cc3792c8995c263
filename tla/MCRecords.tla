----------------------------- MODULE MCRecords -----------------------------
(***************************************************************************)
(* Model-checking instances of the modules that keep a record or a journal *)
(* of their own and share no state: one run explores them all.  part says  *)
(* which of them a behaviour is about, and with it how it is bounded; the  *)
(* variables v1, v2, ... are the variables of that module in the order it  *)
(* declares them, and a variable it does not have stays "-".               *)
(***************************************************************************)
EXTENDS Integers, FiniteSets, Sequences

CONSTANTS
    Parts,                                          \* what a run is about
    LRoots, LWorkers, MaxStamp, MaxLost, MaxDown,   \* LongTasks
    MaxGoals, MaxCheckpoint, MaxRetries,            \* Reviews
    OutMsgs, InMsgs, Deliverers, MaxCalls, Capacity, CallTrouble,   \* Calls
    MaxKeys,                                        \* KeyRotation
    TeamSilicons, TeamKeys, TeamBodies, TeamWorld, TeamFaults,   \* TeamContext
    Handoffs, Recipients, MaxItems, QueueTrouble,   \* ManagerQueue
    Sharing,    \* the handoffs by recipient, a set of sets
    Sweepers, Checked, MaxFires, MaxEdits, CronFaults   \* Crons

VARIABLES
    part, v1, v2, v3, v4, v5, v6, v7, v8, v9, v10, v11, v12, v13, v14, v15,
    v16, v17, v18, v19

Long == INSTANCE LongTasks WITH
    mem <- v1, jr <- v2, card <- v3, told <- v4, corr <- v5, alive <- v6,
    queue <- v7, claimed <- v8, todo <- v9, cur <- v10, pc <- v11, snd <- v12,
    tick <- v13, lost <- v14, downs <- v15, up <- v16, done <- v17,
    rep <- v18, need <- v19
Review == INSTANCE Reviews WITH
    sched <- v1, elapsed <- v2, ended <- v3, asked <- v4, held <- v5,
    passed <- v6, roots <- v7, turn <- v8, retries <- v9, reviewed <- v10,
    deferred <- v11
Call == INSTANCE Calls WITH
    MaxTrouble <- CallTrouble,
    corr <- v1, rec <- v2, jour <- v3, at <- v4, step <- v5, held <- v6,
    calls <- v7, role <- v8, del <- v9, trouble <- v10, acc <- v11,
    gone <- v12
TeamCreds == TeamSilicons \X TeamKeys
Team == INSTANCE TeamContext WITH
    Creds <- TeamCreds, Bodies <- TeamBodies,
    MaxWorld <- TeamWorld, MaxFaults <- TeamFaults,
    glass <- v1, conf <- v2, st <- v3, mem <- v4, disk <- v5, op <- v6,
    pc <- v7, world <- v8, faults <- v9, told <- v10, last <- v11,
    known <- v12
Key == INSTANCE KeyRotation WITH
    active <- v1, stores <- v2, pend <- v3, minted <- v4, rpc <- v5,
    cur <- v6, after <- v7
Queue == INSTANCE ManagerQueue WITH
    MaxTrouble <- QueueTrouble,
    queue <- v1, to <- v2, said <- v3, leased <- v4, receipts <- v5,
    ingress <- v6, calls <- v7, spc <- v8, drain <- v9, trouble <- v10
Cron == INSTANCE Crons WITH
    MaxFaults <- CronFaults,
    time <- v1, defn <- v2, edits <- v3, note <- v4, cache <- v5, stale <- v6,
    mark <- v7, first <- v8, claims <- v9, backs <- v10, hist <- v11,
    holder <- v12, pc <- v13, now <- v14, rec <- v15, todo <- v16,
    faults <- v17

ASSUME BoundsAssumption ==
    /\ Long!LAssumption /\ Review!RAssumption /\ Call!CAssumption /\ Team!TAssumption
    /\ Key!KAssumption /\ Queue!QAssumption /\ Cron!CAssumption

-----------------------------------------------------------------------------
(* What is left unused past the first variables *)
Unused17 == v18 = "-" /\ v19 = "-"
Unused12 == v13 = "-" /\ v14 = "-" /\ v15 = "-" /\ v16 = "-" /\ v17 = "-" /\ Unused17
Unused11 == v12 = "-" /\ Unused12
Unused10 == v11 = "-" /\ Unused11
Unused7 == v8 = "-" /\ v9 = "-" /\ v10 = "-" /\ Unused10
Rest7 == <<v8, v9, v10, v11, v12, v13, v14, v15, v16, v17, v18, v19>>
Rest10 == <<v11, v12, v13, v14, v15, v16, v17, v18, v19>>
Rest11 == <<v12, v13, v14, v15, v16, v17, v18, v19>>
Rest12 == <<v13, v14, v15, v16, v17, v18, v19>>
Rest17 == <<v18, v19>>

vars == <<part, v1, v2, v3, v4, v5, v6, v7, Rest7>>

FirstRoot == CHOOSE r \in LRoots : TRUE
FirstCred == CHOOSE c \in TeamCreds : TRUE

\* The silicon that is configured first is the same up to renaming.
Init ==
    /\ part \in Parts
    /\ \/ part \in {"roots", "workers"} /\ Long!LInit
       \/ part = "reviews" /\ Review!RInit /\ Unused11
       \/ part = "calls" /\ Call!CInit /\ Unused12
       \/ part = "team" /\ Team!TInit /\ Unused12 /\ v2 = FirstCred
       \/ part = "key" /\ Key!KInit /\ Unused7
       \/ part = "queue" /\ Queue!QInit /\ Unused10
          /\ \A g, h \in Handoffs : v2[g] = v2[h] <=> \E S \in Sharing : {g, h} \subseteq S
       \/ part \in {"crons", "checkbacks"} /\ Cron!CronInit /\ Unused17

Next ==
    /\ part' = part
    /\ \/ /\ part = "roots" /\ Long!LNext /\ v13' = 0             \* no worker
          /\ \E r \in LRoots : v3'[r] = "none"                \* one task
       \/ part = "workers" /\ Long!LNext /\ v9' \subseteq {FirstRoot}   \* one root
       \/ part = "reviews" /\ Review!RNext /\ UNCHANGED Rest11
       \/ part = "calls" /\ Call!CNext /\ UNCHANGED Rest12
       \/ part = "team" /\ Team!TNext /\ v8' + v9' <= 3 /\ UNCHANGED Rest12
       \/ part = "key" /\ Key!KNext /\ UNCHANGED Rest7
       \/ part = "queue" /\ Queue!QNext /\ UNCHANGED Rest10
       \/ /\ part = "crons" /\ Cron!CronNext /\ UNCHANGED Rest17
          /\ \A w \in Checked : v10'[w] = "none"
          /\ v3' = 0 \/ v17' = 0                        \* edits or a crash
       \/ part = "checkbacks" /\ Cron!CronNext /\ v1' = 0 /\ v2' = v2 /\ UNCHANGED Rest17

Spec == Init /\ [][Next]_vars

-----------------------------------------------------------------------------
(* The properties of each module, in its parts *)

LongPart == part \in {"roots", "workers"}
TeamPart == part = "team"
ReplyAfterCard == LongPart => Long!ReplyAfterCard
ReplyKept == LongPart => Long!ReplyKept
RootKept == LongPart => Long!RootKept
FactDelivered == [][LongPart => Long!FactKept]_vars
CheckpointsCovered == part = "reviews" => Review!CheckpointsCovered
OrderKept == (part = "calls" => Call!OrderStarts) /\ [][part = "calls" => Call!OrderStep]_vars
MessageOnce == part = "calls" => Call!MessageOnce
HiddenAfterDenial == TeamPart => Team!HiddenAfterDenial
DraftsKept == TeamPart => Team!DraftsKept
UploadsOverSeen == [][TeamPart => Team!UploadOverSeen]_vars
KeyKept == part = "key" => Key!KeyKept
OneTurn == part = "queue" => Queue!OneTurn
AcceptedKept == part = "queue" => Queue!AcceptedKept
ClaimedOnce == part \in {"crons", "checkbacks"} => Cron!ClaimedOnce
=============================================================================
