\* The streaming planes beside the expiry of the reservation they settle.
SPECIFICATION ScenesSpec
CONSTANTS
    s1 = s1
    s2 = s2
    s3 = s3
    s4 = s4
    s5 = s5
    r1 = r1
    r2 = r2
    p1 = p1
    Scenes = {"stream"}
    Sessions = {s1, s2, s3, s4, s5}
    Requests = {r1, r2}
    Expiring = {r1, r2}
    Periods = {p1, p2}
    Wallet = wallet
    Nobody = nobody
    Plan <- RouterPlan
    Total0 = 1
    Funds = 2
    CreditLimit = 9
INVARIANT
    WalletConservation
