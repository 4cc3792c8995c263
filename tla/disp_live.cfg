SPECIFICATION LiveSpec
CONSTANTS
    Contacts = {c1}
    Bodies = {b1}
    RootIds = {r1}
    IngressIds = {}
    ContIds = {k1}
    Leases = {l1, l2}
    Mids = {m1}
    None = None
    LeaseTTL = 1
    ClaimTTL = 1
    NoticeTTL = 1
    ReceiptTTL = 1
    Deadlines = {}
    MaxReceipts = 1
    MaxDelivered = 1
    RetryDelay = 1
    BackoffCap = 1
    MaxDoublings = 0
    MaxEpoch = 1
    MaxActive = 2
    MaxFaults = 1
    WritesFail = FALSE
PROPERTIES
    DrainEnds
    RootsSettle
