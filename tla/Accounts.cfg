\* Two requests at a time on two logins, one of them renewed twice, or on two
\* codes or nonces with three attempts.
SPECIFICATION AccountsSpec
CONSTANTS
    Workers = {w1, w2}
    Families = {f1, f2}
    Length <- MCLength
    f1 = f1
    MaxVersion = 2
    Proofs = {1, 2}
    OtpMaxAttempts = 3
    Own = own
    New = new
    Nobody = nobody
    Profile = profile
    Other = other
SYMMETRY Symmetry
INVARIANTS
    OneLivePerFamily
    EndedStaysEnded
    
    NewIsReachable
    VerifiedWasProven
