\* Two requests of a capped daily key over two periods and two days: allowances
\* that shrink and grow, rollover, plan changes, expiry, credit and USD caps,
\* and settlements that overrun their reservation by a token.
SPECIFICATION FairSpec
CONSTANTS
    k1 = k1
    Requests = {r1, r2}
    Keys = {k1}
    Periods = {p1, p2}
    Windowed = {k1}
    CreditLimit <- MCCreditLimit
    WalletLimit <- MCWalletLimit
    Amounts = {2}
    Allowances <- MCAllowances
    TopUps = {2}
    Overrun = 1
    MaxCredited = 4
    MaxWindow = 1
INVARIANTS
    WalletConservation
    PeriodExact
    ReservationCoversSettlement
    KeysWithinLimits
PROPERTIES
    AllowanceRespected
    PrepaidSpec
    ReservationsClose
