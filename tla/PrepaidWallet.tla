--------------------------- MODULE PrepaidWallet ---------------------------
(***************************************************************************)
(* What the pay-as-you-go wallet promises its owner, with nothing said of  *)
(* periods, allowances or API keys: tokens enter by purchase, are held for *)
(* a request, and leave only when a hold is captured.  A hold is opened    *)
(* once and closed once.  Any transaction of the owner may first void the  *)
(* holds that have outlived their time.                                    *)
(***************************************************************************)
EXTENDS TokenSums

CONSTANT Requests

VARIABLES
    funds,  \* tokens free to spend
    hold    \* hold[r]: what request r has taken, and how far it is

vars == <<funds, hold>>

States == {"none", "held", "captured", "voided"}

Held == {r \in Requests : hold[r].state = "held"}

(* The holds and the funds once the holds of S have been voided. *)
Voided(S) ==
    [r \in Requests |->
        IF r \in S THEN [state |-> "voided", amount |-> 0] ELSE hold[r]]

Returned(S) == funds + Total([r \in Requests |-> hold[r].amount], S)

Purchase ==
    /\ funds' >= funds
    /\ UNCHANGED hold

Void(S) ==
    /\ hold' = Voided(S)
    /\ funds' = Returned(S)

(* A hold takes what it can be given: never more than the funds. *)
Open(S, r) ==
    /\ hold[r].state = "none"
    /\ 0 =< funds'
    /\ funds' =< Returned(S)
    /\ hold' = [Voided(S) EXCEPT ![r] =
                   [state |-> "held", amount |-> Returned(S) - funds']]

(* A capture keeps what was used, gives the rest of the hold back, and may *)
(* take more if the funds cover it.                                        *)
Capture(S, r) ==
    /\ r \in Held \ S
    /\ 0 =< funds'
    /\ funds' =< Returned(S \union {r})
    /\ hold' = [Voided(S) EXCEPT ![r] =
                   [state |-> "captured", amount |-> Returned(S \union {r}) - funds']]

Init ==
    /\ funds = 0
    /\ hold = [r \in Requests |-> [state |-> "none", amount |-> 0]]

Next ==
    \/ Purchase
    \/ \E S \in SUBSET Held :
        \/ Void(S)
        \/ \E r \in Requests : Open(S, r) \/ Capture(S, r)

Spec == Init /\ [][Next]_vars

=============================================================================
