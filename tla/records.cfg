SPECIFICATION Spec
CONSTANTS
    Parts = {"roots", "workers", "team", "reviews", "calls", "key", "queue", "crons", "checkbacks"}
    LRoots = {"r1", "r2"}
    LWorkers = {"w1"}
    MaxStamp = 3
    MaxLost = 1
    MaxDown = 1
    MaxGoals = 2
    MaxCheckpoint = 2
    MaxRetries = 1
    OutMsgs = {"o"}
    InMsgs = {"i"}
    Deliverers = {"d1", "d2"}
    MaxCalls = 2
    Capacity = 2
    CallTrouble = 1
    MaxKeys = 4
    TeamSilicons = {"a", "b"}
    TeamKeys = {1}
    TeamBodies = {1, 2}
    TeamWorld = 2
    TeamFaults = 2
    Handoffs = {"h1", "h2", "h3"}
    Recipients = {"a", "b"}
    MaxItems = 2
    QueueTrouble = 1
    Sharing = {{"h1", "h2"}, {"h3"}}
    Sweepers = {"s1", "s2"}
    Checked = {"w"}
    MaxFires = 2
    MaxEdits = 1
    CronFaults = 1
INVARIANTS
    ReplyAfterCard
    ReplyKept
    RootKept
    HiddenAfterDenial
    DraftsKept
    CheckpointsCovered
    MessageOnce
    KeyKept
    OneTurn
    AcceptedKept
    ClaimedOnce
PROPERTIES
    FactDelivered
    UploadsOverSeen
    OrderKept
CHECK_DEADLOCK FALSE
