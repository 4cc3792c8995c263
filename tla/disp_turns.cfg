SPECIFICATION MCSpec
CONSTANTS
    Parts = {"turns", "writes", "ingress"}
    Contacts = {c1, c2}
    Bodies = {b1}
    RootIds = {r1, r2}
    IngressIds = {i1}
    ContIds = {k1}
    Leases = {l1, l2, l3}
    Mids = {m1}
    None = None
    LeaseTTL = 1
    ClaimTTL = 1
    NoticeTTL = 1
    ReceiptTTL = 1
    Deadlines = {}
    MaxReceipts = 1
    MaxDelivered = 1
    RetryDelay = 1
    BackoffCap = 1
    MaxDoublings = 0
    MaxEpoch = 1
    MaxActive = 2
    MaxFaults = 2
    WritesFail = TRUE
SYMMETRY TSymmetry
INVARIANTS
    StopBoundary
    OneHolder
    OneBatch
    BatchRunsOnce
