----------------------------- MODULE StakeQuota -----------------------------
(***************************************************************************)
(* Tokens granted for stake: the maintenance loop reads from the indexer   *)
(* of the chain what the wallet of each user has delegated to the subnet,  *)
(* and since when, and stores a snapshot (refresh_subnet_stake_allowances, *)
(* ht_indexer.py).  UsageService grants what the latest good one says.     *)
(*                                                                         *)
(* A wallet is read by two queries, the amount and then the events that    *)
(* made it, between which the chain goes on.  All snapshots of a pass are  *)
(* committed together, and users link and unlink wallets meanwhile.        *)
(*                                                                         *)
(* Time is kept as what the code asks of it: how many events of an account *)
(* are min_days old, and how many passes ago a snapshot was taken.         *)
(***************************************************************************)
EXTENDS Integers, Sequences, FiniteSets, SequencesExt

CONSTANTS
    Users, Addresses,
    NoWallet,    \* the address of a user without one
    Amounts,     \* what an event adds or takes; 0 is one of another subnet
    Before,      \* stakes from before the first block that is indexed
    MinAmount, Unit, PerUnit, Cap,  \* StakeQuotaPolicy
    Token,       \* base units of a token: 10 ^ decimals
    MaxEvents,   \* _MAX_EVENTS, the events a query returns
    MaxRefresh,  \* _MAX_STAKE_REFRESH_PER_PASS
    Interval,    \* passes for which a snapshot is fresh
    MaxStake,    \* bound: stake of an account
    MaxLog,      \* bound: events of each account
    MaxFaults    \* bound: reads and passes that fail

VARIABLES
    before, log,  \* the stake of an account at first, and the events since
    ripe,         \* how many of its events are min_days old
    wallet,       \* evm_wallets
    snap,         \* the snapshots of a user, as far as they matter
    pass,         \* the pass of the maintenance loop
    dues,         \* history: what was due while a user's wallet was read
    faults

chainVars == <<before, log, ripe>>
vars == <<chainVars, wallet, snap, pass, dues, faults>>

-----------------------------------------------------------------------------
(* _event_delta: stake added, removed, or swapped into or out of the subnet. *)
Deltas == Amounts \union {-n : n \in Amounts}

(* subnet_stake_allowance of an amount, the duration aside. *)
Allowance(n) ==
    LET units == n \div (Token * Unit)
    IN  IF n <= 0 \/ n < MinAmount * Token THEN 0
        ELSE IF Cap > 0 /\ units * PerUnit > Cap THEN Cap ELSE units * PerUnit

(* The stake after n events. *)
Stake(b, l, n) == FoldLeft(+, b, SubSeq(l, 1, n))
Amount(a) == Stake(before[a], log[a], Len(log[a]))

(* _stake_events: the first page, the oldest first. *)
Page(l) == SubSeq(l, 1, IF Len(l) < MaxEvents THEN Len(l) ELSE MaxEvents)

(* Mutant: what is taken out does not end a streak. *)
ReplayAdditions(r, d) ==
    [balance |-> r.balance + d, n |-> r.n + 1,
     start |-> IF r.start = 0 /\ d > 0 THEN r.n + 1 ELSE r.start]

(* compute_streak_start replays the deltas.  A streak starts with the      *)
(* event that makes the balance positive; 0 stands for none.               *)
Replay(r, d) ==
    LET balance == r.balance + d
    IN  [balance |-> balance, n |-> r.n + 1,
         start |-> IF d = 0 THEN r.start
                   ELSE IF r.balance <= 0 /\ balance > 0 THEN r.n + 1
                   ELSE IF balance <= 0 THEN 0 ELSE r.start]

StreakStart(l) == FoldLeft(Replay, [balance |-> 0, n |-> 0, start |-> 0], Page(l)).start

(* subnet_stake_allowance: the streak started min_days before the pass. *)
Granted(raw, start, old) == IF start \in 1 .. old THEN Allowance(raw) ELSE 0

(* What is due, by definition, to an account with the events l, of which   *)
(* `old' are min_days old: it has had a stake at every moment since.       *)
Due(b, l, old) ==
    IF \A n \in old .. Len(l) : Stake(b, l, n) > 0 THEN Allowance(Stake(b, l, Len(l))) ELSE 0

-----------------------------------------------------------------------------
Rows == [user : Users, allowance : Nat, error : BOOLEAN]

Idle == [phase |-> "idle", at |-> [u \in Users |-> NoWallet], todo |-> {},
         old |-> [a \in Addresses |-> 0], user |-> {}, raw |-> 0, rows |-> {}]

TypeOK ==
    /\ before \in [Addresses -> Nat]
    /\ log \in [Addresses -> Seq(Deltas)]
    /\ \A a \in Addresses : ripe[a] \in 0 .. Len(log[a])
    /\ wallet \in [Users -> Addresses \union {NoWallet}]
    /\ snap \in [Users -> [age : 0 .. Interval, granted : Nat]]
    /\ pass \in [phase : {"idle", "scan", "events"}, todo : SUBSET Users, user : SUBSET Users,
                 at : [Users -> Addresses \union {NoWallet}], old : [Addresses -> Nat],
                 raw : Nat, rows : SUBSET Rows]
    /\ dues \in [Users -> SUBSET Nat]
    /\ faults \in 0 .. MaxFaults

(* The event is indexed, perhaps while the account is being read. *)
ChainMoves(a, d) ==
    /\ Len(log[a]) < MaxLog[a]
    /\ Amount(a) + d \in 0 .. MaxStake
    /\ log' = [log EXCEPT ![a] = Append(@, d)]
    /\ dues' = [u \in Users |->
                   IF u \in pass.user /\ pass.at[u] = a
                   THEN dues[u] \union {Due(before[a], Append(log[a], d), pass.old[a])}
                   ELSE dues[u]]
    /\ UNCHANGED <<before, ripe, wallet, snap, pass, faults>>

(* min_days have passed since another event. *)
Ripen(a) ==
    /\ ripe[a] < Len(log[a])
    /\ ripe' = [ripe EXCEPT ![a] = @ + 1]
    /\ UNCHANGED <<before, log, wallet, snap, pass, dues, faults>>

(* POST /wallets/evm/verify: an address is linked to one user. *)
Link(u, a) ==
    /\ \A v \in Users \ {u} : wallet[v] # a
    /\ wallet' = [wallet EXCEPT ![u] = a]
    /\ UNCHANGED <<chainVars, snap, pass, dues, faults>>

(* DELETE /wallets/evm: the snapshots stay. *)
Unlink(u) ==
    /\ wallet[u] # NoWallet
    /\ wallet' = [wallet EXCEPT ![u] = NoWallet]
    /\ UNCHANGED <<chainVars, snap, pass, dues, faults>>

-----------------------------------------------------------------------------
(* Mutant: the comparison with the cutoff the wrong way round. *)
IsFresh(s) == s.age < Interval

(* checked_at is not after the cutoff, or there is no snapshot. *)
IsStale(s) == s.age = Interval

(* A pass begins: it takes the time and loads the wallets. *)
PassBegin ==
    /\ pass.phase = "idle"
    /\ LET aged == [u \in Users |->
                       [snap[u] EXCEPT !.age = IF @ < Interval THEN @ + 1 ELSE @]]
       IN  /\ snap' = aged
           /\ pass' = [Idle EXCEPT !.phase = "scan", !.at = wallet, !.old = ripe,
                          !.todo = {u \in Users : wallet[u] # NoWallet /\ IsStale(aged[u])}]
    /\ UNCHANGED <<chainVars, wallet, dues, faults>>

MayRefresh == pass.todo # {} /\ Cardinality(pass.rows) < MaxRefresh

(* The next stale wallet, in no order: _current_amount. *)
ReadAmount(u) ==
    LET a == pass.at[u]
    IN  /\ pass.phase = "scan"
        /\ MayRefresh
        /\ u \in pass.todo
        /\ pass' = [pass EXCEPT !.phase = "events", !.user = {u}, !.todo = @ \ {u},
                                !.raw = Amount(a)]
        /\ dues' = [dues EXCEPT ![u] = {Due(before[a], log[a], pass.old[a])}]
        /\ UNCHANGED <<chainVars, wallet, snap, faults>>

(* The row that is written for u. *)
Write(u, allowance, error) ==
    pass' = [pass EXCEPT !.phase = "scan", !.user = {}, !.raw = 0,
                !.rows = @ \union {[user |-> u, allowance |-> allowance, error |-> error]}]

(* _stake_events, and the snapshot of both. *)
ReadEvents(u) ==
    LET a == pass.at[u]
    IN  /\ u \in pass.user
        /\ Write(u, Granted(pass.raw, StreakStart(log[a]), pass.old[a]), FALSE)
        /\ UNCHANGED <<chainVars, wallet, snap, dues, faults>>

(* Either query fails: a row that says so. *)
ReadFails(u) ==
    /\ u \in pass.user
    /\ faults < MaxFaults
    /\ faults' = faults + 1
    /\ Write(u, 0, TRUE)
    /\ UNCHANGED <<chainVars, wallet, snap, dues>>

(* Mutant: an error is a snapshot like another. *)
LatestOfAll(s, r) == [age |-> 0, granted |-> r.allowance]

(* _latest_crypto_allowance with a new row: an error grants what the last  *)
(* snapshot without one did.                                               *)
Latest(s, r) ==
    [age |-> 0, granted |-> IF r.error THEN s.granted ELSE r.allowance]

PassEnds ==
    /\ pass' = Idle
    /\ dues' = [u \in Users |-> {}]

(* run_maintenance_pass commits what the pass has written. *)
PassCommit ==
    /\ pass.phase = "scan"
    /\ ~ MayRefresh
    /\ snap' = [u \in Users |->
                   IF \E r \in pass.rows : r.user = u
                   THEN Latest(snap[u], CHOOSE r \in pass.rows : r.user = u) ELSE snap[u]]
    /\ PassEnds
    /\ UNCHANGED <<chainVars, wallet, faults>>

(* The database fails, or the process dies: the pass is rolled back. *)
PassFails ==
    /\ pass.phase # "idle"
    /\ faults < MaxFaults
    /\ faults' = faults + 1
    /\ PassEnds
    /\ UNCHANGED <<chainVars, wallet, snap>>

-----------------------------------------------------------------------------
Init ==
    /\ before \in [Addresses -> Before]
    /\ log = [a \in Addresses |-> <<>>]
    /\ ripe = [a \in Addresses |-> 0]
    /\ wallet = [u \in Users |-> NoWallet]
    /\ snap = [u \in Users |-> [age |-> Interval, granted |-> 0]]
    /\ pass = Idle
    /\ dues = [u \in Users |-> {}]
    /\ faults = 0

PassStep ==
    \/ PassBegin
    \/ \E u \in Users : ReadAmount(u) \/ ReadEvents(u)
    \/ PassCommit

Next ==
    \/ PassStep
    \/ \E u \in Users : ReadFails(u) \/ Unlink(u) \/ \E a \in Addresses : Link(u, a)
    \/ PassFails
    \/ \E a \in Addresses : Ripen(a) \/ \E d \in Deltas : ChainMoves(a, d)

Spec == Init /\ [][Next]_vars

(* MaintenanceLoop._run goes on whatever a pass raises. *)
FairSpec == Spec /\ WF_vars(PassStep)

-----------------------------------------------------------------------------
(* What a user is granted anew was due, at one moment, to the account that *)
(* was linked when the pass began: the two queries are as good as one,     *)
(* whatever the chain does between them, and neither a failed read nor a   *)
(* failed pass takes or gives anything.  A stake that is older than the    *)
(* index may count for nothing.  (ht_indexer.py: get_subnet_stake_status;  *)
(* maintenance/tasks.py: _refresh_wallet_stake.  The page is as long as    *)
(* the log.)                                                               *)
OnlyDueIsGranted ==
    \A u \in Users : snap'[u].granted # snap[u].granted =>
        \/ snap'[u].granted \in dues[u]
        \/ snap'[u].granted = 0 /\ before[pass.at[u]] > 0

GrantsWereDue == [][OnlyDueIsGranted]_vars

(* The account of a user who keeps a wallet is granted what is due to it   *)
(* in the end: however many are stale, each has its turn, if as many are   *)
(* read in the time a snapshot is fresh as there are users.                *)
(* (maintenance/tasks.py: _MAX_STAKE_REFRESH_PER_PASS, the interval.)      *)
GrantedAsDue(u, a) == snap[u].granted = Due(before[a], log[a], ripe[a])

GrantFollowsStake ==
    \A u \in Users, a \in Addresses : <>[](wallet[u] = a) => <>[]GrantedAsDue(u, a)

=============================================================================
