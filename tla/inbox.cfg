SPECIFICATION MCSpec
CONSTANTS
    Parts = {"inbox", "coordinator"}
    Contacts = {c1}
    Bodies = {b1, b2}
    RootIds = {}
    IngressIds = {i1, i2}
    ContIds = {}
    Leases = {l1}
    Mids = {m1, m2}
    None = None
    LeaseTTL = 1
    ClaimTTL = 1
    NoticeTTL = 1
    ReceiptTTL = 1
    Deadlines = {}
    MaxReceipts = 2
    MaxDelivered = 1
    RetryDelay = 1
    BackoffCap = 1
    MaxDoublings = 0
    MaxEpoch = 2
    Media = {i1, i2}
    SeenCap = 1
    MaxLines = 2
    MaxFiles = 2
    MaxFaults = 1
SYMMETRY ISymmetry
INVARIANTS
    OffsetVouches
    ScannedIsHeld
    TakenOnce
    ReceiptAgrees
PROPERTY StopKeepsInput
