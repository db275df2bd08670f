\* One account whose stake changes while it is read, which two users may link;
\* and two accounts with one read in a pass.
SPECIFICATION FairQuotaSpec
CONSTANTS
    Users = {u1, u2}
    Addresses = {a1}
    NoWallet = NoWallet
    Amounts = {1, 3}
    Before = {0, 1}
    MinAmount = 1
    Unit = 1
    PerUnit = 2
    Cap = 3
    Token = 2
    MaxEvents = 4
    MaxRefresh = 1
    Interval = 1
    MaxStake = 4
    MaxLog <- MCMaxLog
    a1 = a1
    a2 = a2
    Events = 4
    MaxFaults = 1
PROPERTIES
    ReadsGrantWhatWasDue
    TurnsCome
