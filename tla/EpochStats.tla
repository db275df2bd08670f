----------------------------- MODULE EpochStats -----------------------------
(***************************************************************************)
(* The statistics pipeline of the serving plane: stats_recorder.py writes  *)
(* a row of miner_request_stats for every forward attempt, stamped with    *)
(* the subnet epoch, and MinerEpochStatsService (stats_service.py) freezes *)
(* an epoch's rows into a signed artifact that never changes.              *)
(*                                                                         *)
(* The rows are those of one (hotkey, model, version) bucket.  When a      *)
(* row's verified flag is set is the subject of module ReceiptChain.       *)
(***************************************************************************)
EXTENDS TokenSums

CONSTANTS
    Attempts,      \* forward attempts; a row of miner_request_stats each
    Tokens,        \* total_tokens a served attempt may count
    SettleLag,     \* miner_stats_settle_lag_epochs
    MaxPerPass,    \* miner_stats_max_finalize_per_pass
    SettleEpochs,  \* assumption: epoch boundaries a row may be late by
    MaxEpoch,      \* bound: the last epoch
    MaxClock,      \* bound: the last second
    MaxFailures    \* bound: passes that fail

VARIABLES
    row,       \* row[a]: the row of attempt a, and how far its transaction is
    epoch,     \* what current_epoch() returns
    clock,     \* utcnow(), in seconds
    snapshot,  \* miner_epoch_snapshots: the artifact of every finalized epoch
    pass,      \* the running finalize_due: its loop variable
    drafts,    \* the artifacts that pass has added and not committed
    failures   \* passes that have failed

vars == <<row, epoch, clock, snapshot, pass, drafts, failures>>

Epochs == 0 .. MaxEpoch

NoEpoch == -1    \* the chain could not be read when the row was written

Outcomes == {"success", "failure"}

(* "open" is a request in flight, "stamped" a row its handler has not      *)
(* committed, "lost" a row whose transaction was rolled back.              *)
Rows == [stage : {"open", "stamped", "recorded", "lost"},
         epoch : Epochs \cup {NoEpoch}, outcome : Outcomes,
         tokens : Nat, verified : BOOLEAN]

Artifacts == [version : Nat, ok : Nat, failed : Nat, verified : Nat]

TypeOK ==
    /\ row \in [Attempts -> Rows]
    /\ epoch \in Epochs
    /\ clock \in 0 .. MaxClock
    /\ DOMAIN snapshot \subseteq Epochs
    /\ \A e \in DOMAIN snapshot : snapshot[e] \in Artifacts
    /\ pass \in [running : BOOLEAN, next : Epochs \cup {-1}]
    /\ DOMAIN drafts \subseteq Epochs
    /\ \A e \in DOMAIN drafts : drafts[e] \in Artifacts
    /\ failures \in 0 .. MaxFailures

Idle == [running |-> FALSE, next |-> -1]
None == [e \in {} |-> 0]

(* The artifacts of f, and those of g for the other epochs. *)
Overlay(f, g) ==
    [e \in DOMAIN f \cup DOMAIN g |-> IF e \in DOMAIN f THEN f[e] ELSE g[e]]

-----------------------------------------------------------------------------
(* The aggregation of one epoch. *)

RowsOf(e) == {a \in Attempts : row[a].stage = "recorded" /\ row[a].epoch = e}

HasRows(e) == RowsOf(e) # {}

Served(e) == {a \in RowsOf(e) : row[a].outcome = "success"}

TokensOf == [a \in Attempts |-> row[a].tokens]

(* Reward-bearing tokens are those of served and verified rows. *)
Aggregate(e) ==
    [version  |-> clock,
     ok       |-> Cardinality(Served(e)),
     failed   |-> Cardinality(RowsOf(e) \ Served(e)),
     verified |-> Total(TokensOf, {a \in Served(e) : row[a].verified})]

-----------------------------------------------------------------------------
(* The request path. *)

Init ==
    /\ row = [a \in Attempts |->
                 [stage |-> "open", epoch |-> NoEpoch, outcome |-> "failure",
                  tokens |-> 0, verified |-> FALSE]]
    /\ epoch = 0
    /\ clock = 0
    /\ snapshot = None
    /\ pass = Idle
    /\ drafts = None
    /\ failures = 0

(* record_success, record_stream_success: the row carries the epoch that   *)
(* is current when it is built, or none if the chain cannot be read.       *)
RecordSuccess(a) ==
    /\ row[a].stage = "open"
    /\ \E n \in Tokens, e \in {epoch, NoEpoch} :
          row' = [row EXCEPT ![a] =
                    [stage |-> "stamped", epoch |-> e, outcome |-> "success",
                     tokens |-> n, verified |-> FALSE]]
    /\ UNCHANGED <<epoch, clock, snapshot, pass, drafts, failures>>

(* record_failure: an attempt that did not serve counts no tokens. *)
RecordFailure(a) ==
    /\ row[a].stage = "open"
    /\ \E e \in {epoch, NoEpoch} :
          row' = [row EXCEPT ![a] =
                    [stage |-> "stamped", epoch |-> e, outcome |-> "failure",
                     tokens |-> 0, verified |-> FALSE]]
    /\ UNCHANGED <<epoch, clock, snapshot, pass, drafts, failures>>

(* The commit of the handler that built the row. *)
CommitRow(a) ==
    /\ row[a].stage = "stamped"
    /\ row' = [row EXCEPT ![a].stage = "recorded"]
    /\ UNCHANGED <<epoch, clock, snapshot, pass, drafts, failures>>

(* The handler fails before its commit: a statistics row may be lost. *)
LoseRow(a) ==
    /\ row[a].stage \in {"open", "stamped"}
    /\ row' = [row EXCEPT ![a].stage = "lost"]
    /\ UNCHANGED <<epoch, clock, snapshot, pass, drafts, failures>>

(* The receipts collector corroborates a row.  That it does so within      *)
(* SettleEpochs epochs is what the settle lag relies on.                   *)
Verify(a) ==
    /\ row[a].stage = "recorded"
    /\ epoch <= row[a].epoch + SettleEpochs
    /\ row' = [row EXCEPT ![a].verified = TRUE]
    /\ UNCHANGED <<epoch, clock, snapshot, pass, drafts, failures>>

-----------------------------------------------------------------------------
(* finalize_due, within one maintenance pass and one transaction. *)

(* Mutant: the settle lag is ignored. *)
NewestClosed(ep) == ep - 1

Newest(ep) == ep - 1 - SettleLag

(* Mutant: an epoch that has been published already is finalized again. *)
CanFinalizeAgain(e) ==
    /\ e >= 0
    /\ Cardinality(DOMAIN drafts) < MaxPerPass
    /\ e \notin DOMAIN drafts
    /\ HasRows(e)

(* The loop walks backward and stops at the first epoch that is finalized  *)
(* already or has no rows.                                                 *)
CanFinalize(e) ==
    /\ e >= 0
    /\ Cardinality(DOMAIN drafts) < MaxPerPass
    /\ e \notin DOMAIN snapshot
    /\ HasRows(e)

StartPass ==
    /\ ~pass.running
    /\ Newest(epoch) >= 0
    /\ pass' = [running |-> TRUE, next |-> Newest(epoch)]
    /\ UNCHANGED <<row, epoch, clock, snapshot, drafts, failures>>

(* finalize(epoch): aggregate, sign with the current time as version. *)
Finalize ==
    /\ pass.running
    /\ CanFinalize(pass.next)
    /\ drafts' = Overlay([e \in {pass.next} |-> Aggregate(e)], drafts)
    /\ pass' = [pass EXCEPT !.next = @ - 1]
    /\ UNCHANGED <<row, epoch, clock, snapshot, failures>>

(* Mutant: the pass returns without session.commit(). *)
Unpublished == snapshot

Published == Overlay(drafts, snapshot)

CommitPass ==
    /\ pass.running
    /\ ~CanFinalize(pass.next)
    /\ snapshot' = Published
    /\ pass' = Idle
    /\ drafts' = None
    /\ UNCHANGED <<row, epoch, clock, failures>>

(* An exception or a restart: the transaction is rolled back. *)
FailPass ==
    /\ pass.running
    /\ failures < MaxFailures
    /\ failures' = failures + 1
    /\ pass' = Idle
    /\ drafts' = None
    /\ UNCHANGED <<row, epoch, clock, snapshot>>

-----------------------------------------------------------------------------
(* Time. *)

(* The chain enters its next epoch.  The settle lag is there because a     *)
(* row may still be written then; it is not written later than that.       *)
NextEpoch ==
    /\ epoch < MaxEpoch
    /\ \A a \in Attempts :
          row[a].stage = "stamped" /\ row[a].epoch # NoEpoch
             => epoch < row[a].epoch + SettleEpochs
    /\ epoch' = epoch + 1
    /\ UNCHANGED <<row, clock, snapshot, pass, drafts, failures>>

NextSecond ==
    /\ clock < MaxClock
    /\ clock' = clock + 1
    /\ UNCHANGED <<row, epoch, snapshot, pass, drafts, failures>>

RequestPath ==
    \E a \in Attempts :
       RecordSuccess(a) \/ RecordFailure(a) \/ CommitRow(a) \/ LoseRow(a)
         \/ Verify(a)

Next ==
    \/ RequestPath
    \/ StartPass
    \/ Finalize
    \/ CommitPass
    \/ FailPass
    \/ NextEpoch
    \/ NextSecond

Spec == Init /\ [][Next]_vars

(* The maintenance loop runs for as long as the service does. *)
FairSpec == Spec /\ WF_vars(StartPass) /\ WF_vars(Finalize) /\ WF_vars(CommitPass)

-----------------------------------------------------------------------------
(* Properties. *)

(* What was published of an epoch is all there ever is of it: the counts   *)
(* of a finalized epoch are those of its rows, and the rewarded tokens     *)
(* those of its corroborated rows, however late rows and receipts come     *)
(* within the settle lag.  (stats_service.py: finalize, finalize_due.)     *)
PublishedIsComplete ==
    \A e \in DOMAIN snapshot :
       /\ snapshot[e].ok = Cardinality(Served(e))
       /\ snapshot[e].failed = Cardinality(RowsOf(e) \ Served(e))
       /\ snapshot[e].verified
             = Total(TokensOf, {a \in Served(e) : row[a].verified})

(* A published artifact is never replaced, so all validators score the     *)
(* same numbers whenever they read.  (stats_service.py: finalize.)         *)
NeverRepublished ==
    [][\A e \in DOMAIN snapshot :
          e \in DOMAIN snapshot' /\ snapshot'[e] = snapshot[e]]_vars

(* If an epoch stays the newest one to be finalized and it has rows, it is *)
(* published.  (maintenance/tasks.py: run_maintenance_pass.)               *)
NewestIsPublished ==
    \A e \in Epochs :
       (Newest(epoch) = e /\ HasRows(e))
          ~> (e \in DOMAIN snapshot \/ Newest(epoch) # e)

=============================================================================
