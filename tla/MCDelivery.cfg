SPECIFICATION FairSpec
CONSTANTS
    o1 = o1  i1 = i1  i2 = i2  w1 = w1  w2 = w2  a1 = a1
    Orders <- OneOrder
    Items <- TwoItems
    OwnerOf <- OwnedByOne
    Workers = {w1, w2}
    Admins = {a1}
    NoOrder = NoOrder
    NoWorker = NoWorker
    NoReview = NoReview
    JobMaxAttempts = 2
    PolicyMaxAttempts = 2
    BatchSize = 2
    ManualRetryBound = 2
INVARIANTS
    NoUnauthorisedResend
    DeliveredHasEvidence
    JobMatchesOrder
    SoldWithDelivery
    AttemptRowsFree
    ReconciliationClean
    ExhaustedJobFails
PROPERTIES
    AmbiguousNeedsOperator
    QueueDrains
CHECK_DEADLOCK FALSE
