SPECIFICATION Spec
CONSTANTS
    Contacts = {c1}
    Bodies = {b1}
    RootIds = {r1}
    IngressIds = {}
    ContIds = {k1}
    Leases = {l1, l2}
    Mids = {m1, m2}
    None = None
    LeaseTTL = 1
    ClaimTTL = 1
    NoticeTTL = 1
    ReceiptTTL = 1
    Deadlines = {1}
    MaxReceipts = 0
    MaxDelivered = 1
    RetryDelay = 1
    BackoffCap = 1
    MaxDoublings = 0
    MaxEpoch = 2
SYMMETRY Symmetry
INVARIANTS
    TypeOK
    FenceHolds
    SafeMeansQuiescent
    NoTurnDuringUpdate
    LeaseOwnsOneRoot
PROPERTY AcceptedRootKept
