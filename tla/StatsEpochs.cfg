\* Rows, receipts, epochs and passes in every order.
SPECIFICATION FairEpochsSpec
CONSTANTS
    Subjects = {"epochs"}
    Attempts = {a1, a2}
    RequestId <- DistinctIds
    Tokens = {1, 2}
    Estimates = {0}
    PageLimit = 1
    MaxRows = 1
    MaxRestarts = 1
    SettleLag = 1
    MaxPerPass = 2
    SettleEpochs = 1
    MaxEpoch = 3
    MaxClock = 1
    MaxFailures = 1
INVARIANTS
    PublishedIsComplete
PROPERTIES
    NeverRepublished
    NewestIsPublished
