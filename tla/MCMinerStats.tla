---------------------------- MODULE MCMinerStats ----------------------------
(***************************************************************************)
(* The statistics that miners are rewarded by: rows are corroborated by    *)
(* the receipts of the enclave (ReceiptChain), and an epoch's rows are     *)
(* frozen into its artifact (EpochStats).  All the second takes from the   *)
(* first is that a row may be verified and when; a behaviour is about one  *)
(* of them.                                                                *)
(***************************************************************************)
EXTENDS ReceiptChain

CONSTANTS
    SettleLag, MaxPerPass, SettleEpochs, MaxEpoch, MaxClock, MaxFailures,
    Subjects  \* those looked at

ASSUME StatsAssumption ==
    /\ SettleLag \in Nat
    /\ MaxPerPass \in Nat \ {0}
    /\ SettleEpochs \in Nat
    /\ MaxEpoch \in Nat
    /\ MaxClock \in Nat
    /\ MaxFailures \in Nat

VARIABLES
    subject,  \* what the behaviour is about
    row, epoch, clock, snapshot, pass, drafts, failures

statsVars == <<row, epoch, clock, snapshot, pass, drafts, failures>>

Stats == INSTANCE EpochStats

(* Every attempt is a request of its own. *)
DistinctIds == [a \in Attempts |-> a]

StatisticsInit ==
    /\ subject \in Subjects
    /\ Init
    /\ Stats!Init

StatisticsNext ==
    \/ subject = "receipts" /\ Next /\ UNCHANGED <<subject, statsVars>>
    \/ subject = "epochs" /\ Stats!Next /\ UNCHANGED <<subject, vars>>

StatisticsSpec ==
    StatisticsInit /\ [][StatisticsNext]_<<subject, vars, statsVars>>

(* The collector, and the maintenance loop, as in FairSpec of the modules. *)
FairReceiptsSpec ==
    /\ StatisticsSpec
    /\ WF_vars(Fetch)
    /\ WF_vars(Abandon)
    /\ SF_vars(Reconcile)
    /\ WF_vars(Provision)

FairEpochsSpec ==
    /\ StatisticsSpec
    /\ WF_statsVars(Stats!StartPass)
    /\ WF_statsVars(Stats!Finalize)
    /\ WF_statsVars(Stats!CommitPass)

-----------------------------------------------------------------------------
(* What was published of an epoch is all there ever is of it.              *)
(* (stats_service.py: finalize, finalize_due; see EpochStats.)             *)
PublishedIsComplete == Stats!PublishedIsComplete

(* A published artifact is never replaced.  (stats_service.py: finalize;   *)
(* see EpochStats.)                                                        *)
NeverRepublished == Stats!NeverRepublished

(* The newest epoch that can be published is.  (maintenance/tasks.py:      *)
(* run_maintenance_pass; see EpochStats.)                                  *)
NewestIsPublished == Stats!NewestIsPublished

=============================================================================
