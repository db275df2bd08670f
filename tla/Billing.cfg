\* Two sessions, so that a subscription can follow another; two events for the
\* top-up; two payments, changes or faults; two requests under way at a time.
CONSTANTS
    MaxOverlap = 2
    Referred = TRUE
    Sessions = {s1, s2}
    s1 = s1
    p1 = p1
    p2 = p2
    Prices = {p1, p2}
    PriceOf <- MCPriceOf
    Payments = {t1}
    Copies = {1, 2}
    NoSession = NoSession
    NoPrice = NoPrice
    MaxChanges = 2
SPECIFICATION FairSpec
INVARIANTS
    
    ProcessedIsApplied
    
PROPERTY
    PaidIsCredited
