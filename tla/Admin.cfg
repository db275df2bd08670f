\* Two requests at a time; each behaviour is about one group of tables.
\* The administrators may have disabled one another: then nobody can do anything.
SPECIFICATION Spec
CHECK_DEADLOCK FALSE
CONSTANTS
    Workers = {w1, w2}
    Desks = {"roles", "keys", "plans", "credentials", "codes"}
    Users = {u1, u2}
    Boss = u1
    MaxRows = 4
    MaxKeys = 3
    KeyLimit = 1
    Capped = {1}
    MaxPlans = 2
    Prices = {1}
    MaxCreds = 2
    RateLimit = 1
    MaxMinutes = 1
    FailOpen = TRUE
    Members = {u1, u2}
    Links = {c1, c2, c3}
    AliasLimit = 1
    Signups = {n1}
    NoCode = NoCode
    NoMember = NoMember
SYMMETRY Symmetry
INVARIANTS
    RolesAreHeld
    KeyLimitsHold
    PlansSellable
    LinksKeepWorking
PROPERTY
    RevokedStaysRevoked
