SPECIFICATION MCSpec
CONSTANTS
    Contacts = {c1}
    Bodies = {{}, {x1}, {x2}, {x1, x2}}
    RootIds = {r1}
    IngressIds = {}
    ContIds = {k1}
    Leases = {l1, l2}
    Mids = {m1, m2}
    None = None
    LeaseTTL = 1
    ClaimTTL = 1
    NoticeTTL = 1
    ReceiptTTL = 1
    Deadlines = {}
    MaxReceipts = 1
    MaxDelivered = 1
    RetryDelay = 1
    BackoffCap = 1
    MaxDoublings = 0
    MaxEpoch = 2
    Workers = {w1, w2}
    Profiled = {w1, w2}
    Callers = {p1, p2}
    Runs = {x1, x2}
    Main = Main
    CompletionTTL = 1
    MaxFaults = 1
SYMMETRY WSymmetry
INVARIANTS
    ProfileSerial
    DeliveredOnce
    ResultKept
    PrefenceBlocks
