---------------------------- MODULE MCStakeQuota ----------------------------
(***************************************************************************)
(* Two scenes of StakeQuota: one account that is read while its stake      *)
(* changes, and two accounts of which one is read in a pass.               *)
(***************************************************************************)
EXTENDS Integers, TLC

CONSTANTS
    Users, Addresses, NoWallet, Amounts, Before, MinAmount, Unit, PerUnit, Cap,
    Token, MaxEvents, MaxRefresh, Interval, MaxStake, MaxLog, MaxFaults,
    a1, a2,
    Events  \* events of a1

VARIABLES
    scene,
    before, log, ripe, wallet, snap, stakePass, dues, faults

quotaVars == <<before, log, ripe, wallet, snap, stakePass, dues, faults>>

MCMaxLog == [a \in Addresses |-> Events]

Reads == INSTANCE StakeQuota WITH pass <- stakePass

(* The policy and what bounds the runs. *)
ASSUME QuotaAssumption ==
    /\ NoWallet \notin Addresses
    /\ Amounts \subseteq Nat /\ Before \subseteq Nat
    /\ {MinAmount, PerUnit, Cap, MaxStake, MaxFaults} \subseteq Nat
    /\ MaxLog \in [Addresses -> Nat]
    /\ {Unit, Token, MaxEvents, MaxRefresh, Interval} \subseteq Nat \ {0}

(* The whole log of an account comes with one query. *)
PageHoldsLog == \A a \in Addresses : MaxLog[a] <= MaxEvents

(* Stakes of one token, which stay or go. *)
Turns == INSTANCE StakeQuota WITH
    pass <- stakePass,
    Addresses <- {a1, a2}, Amounts <- {2}, Before <- {0},
    MinAmount <- 1, Unit <- 1, PerUnit <- 1, Cap <- 0, Token <- 2,
    MaxEvents <- 3, MaxRefresh <- 1, Interval <- 2, MaxStake <- 2,
    MaxLog <- (a1 :> 3 @@ a2 :> 1), MaxFaults <- 1

QuotaInit ==
    /\ scene \in {"reads", "turns"}
    /\ scene = "reads" => Reads!Init
    /\ scene = "turns" => Turns!Init

QuotaNext ==
    /\ \/ scene = "reads" /\ Reads!Next
       \/ scene = "turns" /\ Turns!Next
    /\ UNCHANGED scene

QuotaSpec == QuotaInit /\ [][QuotaNext]_<<quotaVars, scene>>

(* The loop goes on where something is expected of it. *)
PassGoesOn == scene = "turns" /\ Turns!PassStep /\ UNCHANGED scene

FairQuotaSpec == QuotaSpec /\ WF_<<quotaVars, scene>>(PassGoesOn)

-----------------------------------------------------------------------------
(* What a user is granted anew was due at one moment of the read.          *)
(* (ht_indexer.py: get_subnet_stake_status; see StakeQuota.)               *)
ReadsGrantWhatWasDue ==
    /\ [](scene = "reads" => Reads!TypeOK)
    /\ [][scene = "reads" => Reads!OnlyDueIsGranted]_quotaVars

(* Each linked account has its turn, and is granted what is due to it.     *)
(* (tasks.py: refresh_subnet_stake_allowances; see StakeQuota.)            *)
TurnsCome ==
    \A u \in Users, a \in {a1, a2} :
        <>[](scene = "turns" /\ wallet[u] = a) =>
            <>[](scene = "turns" => Turns!GrantedAsDue(u, a))

=============================================================================
