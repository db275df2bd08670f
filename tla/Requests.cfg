\* Two calls of one key over the three planes, two miners, one client-chosen
\* request id.
SPECIFICATION FairSpec
CONSTANTS
    Calls = {c1, c2}
    Miners = {m1, m2}
    Rekeyed = {m1}
    Ids = {i1}
    Lapsing = {i1}
    Nobody = nobody
    Kinds = {"plain", "stream", "sealed"}
    Usages = {0, 2}
    Words = 3
    Estimate = 5
    MaxTokens = 1
    MaxAttempts = 2
    MaxChunks = 1
    DevEcho = TRUE
INVARIANTS
    ServedIffCharged
    RecordsAgree
    NoneDangling
PROPERTY
    CallsFinish
