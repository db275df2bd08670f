------------------------------ MODULE LedgerTx ------------------------------
(***************************************************************************)
(* The token ledger of one user under concurrent transactions.             *)
(*                                                                         *)
(* UsageLedger takes every UsageService call as one step.  Here a session  *)
(* runs its transaction statement by statement, as Postgres at READ        *)
(* COMMITTED and the SQLAlchemy session let it: a plain SELECT sees what is *)
(* committed at that moment and may be stale when it is used; SELECT ...   *)
(* FOR UPDATE and UPDATE wait for the row; what is written becomes visible, *)
(* and the row locks are given back, at commit.                            *)
(*                                                                         *)
(* _lock_period does not refresh a usage_periods object the session has    *)
(* already loaded (no populate_existing).  In reserve that object is the   *)
(* one recalculate_current_period read before anything was locked; in      *)
(* settle, release and expire the locked read is the first one.            *)
(*                                                                         *)
(* Every session runs one call for one request.  The allowance does not    *)
(* change, and all settlements charge what plan says.                      *)
(***************************************************************************)
EXTENDS TokenSums

CONSTANTS
    Sessions,   \* the transactions
    Requests,   \* rows of inference_usage_events
    Expiring,   \* those whose time to live may pass while the sessions run
    Periods,    \* rows of usage_periods
    Wallet,     \* the row of user_wallets
    Nobody,     \* the owner of a row that no transaction has locked
    Plan,       \* Plan[s]: what session s does, [kind, request, tokens]
    Total0,     \* total_allowance of every period
    Funds,      \* wallet tokens bought before the sessions start
    CreditLimit \* credit_limit of the user's key

Kinds == {"recalculate", "reserve", "streamSettle", "streamRelease",
          "routerSettle", "routerRelease"}

Rows == Requests \union Periods \union {Wallet}

ASSUME PlanAssumption ==
    /\ IsFiniteSet(Requests)
    /\ Periods # {}
    /\ Expiring \subseteq Requests
    /\ Plan \in [Sessions -> [kind : Kinds, request : Requests, tokens : Nat]]
    /\ Nobody \notin Sessions
    /\ Total0 \in Nat
    /\ Funds \in Nat
    /\ CreditLimit \in Nat

VARIABLES
    event,    \* committed rows of inference_usage_events
    used,     \* committed used_tokens of every period
    balance,  \* committed balance_tokens
    due,      \* the requests whose expires_at has passed
    owner,    \* owner[row]: the transaction that holds the row lock
    pc,       \* the statement each session runs next
    work      \* what each session has read and is about to write

vars == <<event, used, balance, due, owner, pc, work>>

Statuses == {"none", "reserved", "settled", "released", "expired"}

EventRows == [status : Statuses, period : Periods, tokens : Nat, wallet : Nat]

Statements == {"begin", "expire", "refund", "load", "sum", "update", "event",
               "period", "wallet", "limits", "flush", "commit", "done"}

WorkSpaces ==
    [todo    : SUBSET Requests,   \* stale rows the expiry SELECT still waits for
     locked  : SUBSET Requests,   \* stale rows it has locked
     expired : SUBSET Requests,   \* those already expired by this transaction
     view    : [Periods -> Nat],  \* used_tokens in the identity map
     dirty   : SUBSET Periods,    \* the periods whose used_tokens it has changed
     refund  : Nat,               \* wallet tokens of the row being expired
     credit  : Int,               \* what it has added to the wallet
     row     : EventRows,         \* its own event: as read, then as written
     written : BOOLEAN]           \* whether row has been flushed

TypeOK ==
    /\ event \in [Requests -> EventRows]
    /\ used \in [Periods -> Nat]
    /\ balance \in Nat
    /\ due \subseteq Requests
    /\ owner \in [Rows -> Sessions \union {Nobody}]
    /\ pc \in [Sessions -> Statements]
    /\ work \in [Sessions -> WorkSpaces]

-----------------------------------------------------------------------------
Max0(n) == IF n > 0 THEN n ELSE 0
Lesser(m, n) == IF m < n THEN m ELSE n

Live(row) == row.status \in {"reserved", "settled"}
PeriodPortion(row) == IF Live(row) THEN row.tokens - row.wallet ELSE 0
WalletPortion(row) == IF Live(row) THEN row.wallet ELSE 0

(* _period_used_tokens and key_spend leave out a reservation that is overdue *)
(* even before anything has expired it.                                    *)
Counts(ev, r) == Live(ev[r]) /\ ~ (ev[r].status = "reserved" /\ r \in due)

PeriodUsed(ev, p) ==
    Total([r \in Requests |-> PeriodPortion(ev[r])],
          {r \in Requests : Counts(ev, r) /\ ev[r].period = p})

CreditsUsed(ev) ==
    Total([r \in Requests |-> ev[r].tokens], {r \in Requests : Counts(ev, r)})

WalletHeld(ev) == Total([r \in Requests |-> WalletPortion(ev[r])], Requests)

Kind(s) == Plan[s].kind
Target(s) == Plan[s].request
Streaming(s) == Kind(s) \in {"streamSettle", "streamRelease"}
Router(s) == Kind(s) \in {"routerSettle", "routerRelease"}
Settles(s) == Kind(s) \in {"streamSettle", "routerSettle"}

Stale == {r \in due : event[r].status = "reserved"}

(* The rows as session s sees them: committed ones and its own writes. *)
Seen(s) ==
    [r \in Requests |->
        IF r = Target(s) /\ work[s].written THEN work[s].row
        ELSE IF r \in work[s].expired THEN [event[r] EXCEPT !.status = "expired"]
        ELSE event[r]]

(* used_tokens as a locked read gives it to s. *)
LockedUsed(s, p) == IF owner[p] = s THEN work[s].view[p] ELSE used[p]

(* The row s is going to write, from the row it read and its view of the period. *)
Outcome(s) ==
    LET row  == work[s].row
        free == Max0(Total0 - work[s].view[row.period]) + PeriodPortion(row)
        n    == Plan[s].tokens
    IN  CASE Kind(s) = "reserve" ->
                [row EXCEPT !.status = "reserved", !.tokens = n,
                            !.wallet = n - Lesser(n, free)]
          [] Settles(s) ->
                [row EXCEPT !.status = "settled", !.tokens = n,
                            !.wallet = n - Lesser(n, free)]
          [] OTHER -> [row EXCEPT !.status = "released"]

TouchesWallet(s) == WalletPortion(work[s].row) > 0 \/ WalletPortion(Outcome(s)) > 0

CanLock(s, row) == owner[row] \in {s, Nobody}
Lock(s, row) == CanLock(s, row) /\ owner' = [owner EXCEPT ![row] = s]

Goto(s, statement) == pc' = [pc EXCEPT ![s] = statement]

NoRow(p) == [status |-> "none", period |-> p, tokens |-> 0, wallet |-> 0]

Blank ==
    [todo |-> {}, locked |-> {}, expired |-> {}, view |-> [p \in Periods |-> 0],
     dirty |-> {}, refund |-> 0, credit |-> 0,
     row |-> NoRow(CHOOSE p \in Periods : TRUE), written |-> FALSE]

(* Mutant: the connection goes back to the pool inside its transaction. *)
RollBackKeepingLocks(s) ==
    /\ work' = [work EXCEPT ![s] = Blank]
    /\ Goto(s, "done")
    /\ UNCHANGED owner

(* The transaction of s ends without effect: an error, a crash, a deadlock. *)
RollBack(s) ==
    /\ owner' = [row \in Rows |-> IF owner[row] = s THEN Nobody ELSE owner[row]]
    /\ work' = [work EXCEPT ![s] = Blank]
    /\ Goto(s, "done")

Uncommitted == UNCHANGED <<event, used, balance, due>>

-----------------------------------------------------------------------------
(* A session begins: the streaming planes look the reservation up by its   *)
(* id, every other call expires the user's stale reservations first.       *)
Begin(s) ==
    /\ pc[s] = "begin"
    /\ work' = [work EXCEPT ![s].todo = IF Streaming(s) THEN {} ELSE Stale]
    /\ Goto(s, IF Streaming(s) THEN "load" ELSE "expire")
    /\ UNCHANGED owner
    /\ Uncommitted

(* Mutant: the expiry acts on the status its SELECT saw, not on the locked one. *)
LockStaleAsSeen(s, r) ==
    /\ pc[s] = "expire"
    /\ r \in work[s].todo
    /\ Lock(s, r)
    /\ work' = [work EXCEPT ![s].todo = @ \ {r}, ![s].locked = @ \union {r}]
    /\ UNCHANGED pc
    /\ Uncommitted

(* expire_stale_reservations: SELECT ... FOR UPDATE locks the stale rows    *)
(* one by one, and skips a row whose status has changed meanwhile.         *)
LockStale(s, r) ==
    /\ pc[s] = "expire"
    /\ r \in work[s].todo
    /\ CanLock(s, r)
    /\ IF event[r].status = "reserved"
       THEN /\ owner' = [owner EXCEPT ![r] = s]
            /\ work' = [work EXCEPT ![s].todo = @ \ {r}, ![s].locked = @ \union {r}]
       ELSE /\ work' = [work EXCEPT ![s].todo = @ \ {r}]
            /\ UNCHANGED owner
    /\ UNCHANGED pc
    /\ Uncommitted

(* The loop of expire_stale_reservations: lock the row's period and give   *)
(* its portion back ...                                                    *)
ExpireOne(s, r) ==
    LET p == event[r].period
        left == Max0(LockedUsed(s, p) - PeriodPortion(event[r]))
    IN  /\ pc[s] = "expire"
        /\ work[s].todo = {}
        /\ r \in work[s].locked \ work[s].expired
        /\ Lock(s, p)
        /\ work' = [work EXCEPT ![s].view[p] = left,
                                ![s].dirty = @ \union {p},
                                ![s].expired = @ \union {r},
                                ![s].refund = event[r].wallet]
        /\ IF event[r].wallet > 0 THEN Goto(s, "refund") ELSE UNCHANGED pc
        /\ Uncommitted

(* ... then lock the wallet and refund the rest (_refund_wallet).          *)
Refund(s) ==
    /\ pc[s] = "refund"
    /\ Lock(s, Wallet)
    /\ work' = [work EXCEPT ![s].credit = @ + work[s].refund, ![s].refund = 0]
    /\ Goto(s, "expire")
    /\ Uncommitted

(* Nothing stale is left: go on with what the call is for.  A request id   *)
(* that already has a row is answered with that row.                       *)
Expired(s) ==
    /\ pc[s] = "expire"
    /\ work[s].todo = {}
    /\ work[s].locked = work[s].expired
    /\ Goto(s, CASE Router(s) -> "event"
                 [] Kind(s) = "recalculate" -> "sum"
                 [] Kind(s) = "reserve" /\ Seen(s)[Target(s)].status = "none" -> "sum"
                 [] OTHER -> "commit")
    /\ UNCHANGED <<owner, work>>
    /\ Uncommitted

(* recalculate_current_period reads the period row and the sum over its    *)
(* events; neither read locks anything.                                    *)
Sum(s, p) ==
    LET sum == PeriodUsed(Seen(s), p)
    IN  /\ pc[s] = "sum"
        /\ work' = [work EXCEPT
                ![s].view[p] = sum,
                ![s].dirty = IF sum = LockedUsed(s, p) THEN @ ELSE @ \union {p},
                ![s].row = IF work[s].written THEN @ ELSE NoRow(p)]
        /\ Goto(s, "update")
        /\ UNCHANGED owner
        /\ Uncommitted

(* Mutant: a recalculation that changes nothing writes nothing. *)
UpdateWithoutLock(s) ==
    /\ pc[s] = "update"
    /\ Goto(s, IF Kind(s) # "reserve" \/ Seen(s)[Target(s)].status # "none"
               THEN "commit"
               ELSE IF TouchesWallet(s) THEN "wallet" ELSE "limits")
    /\ UNCHANGED <<owner, work>>
    /\ Uncommitted

(* Its flush is an UPDATE and takes the row lock (calculated_at always     *)
(* changes), so _lock_period after it waits for nothing.  Under that lock  *)
(* reserve looks for the request id again.                                 *)
Update(s) ==
    /\ pc[s] = "update"
    /\ Lock(s, work[s].row.period)
    /\ Goto(s, IF Kind(s) # "reserve" \/ Seen(s)[Target(s)].status # "none"
               THEN "commit"
               ELSE IF TouchesWallet(s) THEN "wallet" ELSE "limits")
    /\ UNCHANGED work
    /\ Uncommitted

(* The streaming planes read the event without a lock and check the status *)
(* of what they read.  An overdue settlement expires the stale rows and    *)
(* raises, which undoes it; an overdue release expires and commits.        *)
Load(s) ==
    LET row == event[Target(s)]
        overdue == row.status = "reserved" /\ Target(s) \in due
    IN  /\ pc[s] = "load"
        /\ IF overdue /\ ~ Settles(s)
           THEN work' = [work EXCEPT ![s].todo = Stale]
           ELSE work' = [work EXCEPT ![s].row = row]
        /\ Goto(s, CASE overdue -> IF Settles(s) THEN "done" ELSE "expire"
                     [] row.status = "reserved" /\ ~ overdue -> "period"
                     [] OTHER -> "done")
        /\ UNCHANGED owner
        /\ Uncommitted

(* Mutant: _get_router_event without FOR UPDATE. *)
LoadWithoutLock(s) ==
    LET row == Seen(s)[Target(s)]
    IN  /\ pc[s] = "event"
        /\ work' = [work EXCEPT ![s].row = row]
        /\ Goto(s, IF row.status = "reserved" /\ Target(s) \notin due
                   THEN "period" ELSE "sum")
        /\ UNCHANGED owner
        /\ Uncommitted

(* _get_router_event reads the event FOR UPDATE.  A settled event is        *)
(* answered again, a released or expired one is refused or left alone; one *)
(* that fell due since the call expired the others is expired or refused.  *)
LoadForUpdate(s) ==
    LET row == Seen(s)[Target(s)]
        overdue == row.status = "reserved" /\ Target(s) \in due
        raises == IF Settles(s) THEN overdue \/ row.status \in {"none", "released", "expired"}
                  ELSE row.status \in {"none", "settled"}
    IN  /\ pc[s] = "event"
        /\ CanLock(s, Target(s))
        /\ IF raises THEN RollBack(s)
           ELSE /\ owner' = [owner EXCEPT ![Target(s)] = s]
                /\ work' = [work EXCEPT ![s].row = row,
                                        ![s].todo = IF overdue THEN Stale ELSE {}]
                /\ Goto(s, CASE overdue -> "expire"
                             [] row.status = "reserved" /\ ~ overdue -> "period"
                             [] OTHER -> "sum")
        /\ Uncommitted

(* _lock_period in settle and release: the first read of the row.          *)
LockPeriod(s) ==
    LET p == work[s].row.period
    IN  /\ pc[s] = "period"
        /\ Lock(s, p)
        /\ work' = [work EXCEPT ![s].view[p] = LockedUsed(s, p)]
        /\ Goto(s, "wallet")
        /\ Uncommitted

(* Mutant: the balance is checked on a wallet row that is not locked. *)
ReadWallet(s) ==
    /\ pc[s] = "wallet"
    /\ IF WalletPortion(Outcome(s)) > balance + work[s].credit + WalletPortion(work[s].row)
       THEN RollBack(s)
       ELSE /\ Goto(s, IF Kind(s) = "reserve" THEN "limits" ELSE "flush")
            /\ UNCHANGED <<owner, work>>
    /\ Uncommitted

(* _lock_or_create_wallet, where the split needs it, and the 402 when the  *)
(* balance does not cover it.                                              *)
LockWallet(s) ==
    /\ pc[s] = "wallet"
    /\ TouchesWallet(s) => CanLock(s, Wallet)
    /\ IF WalletPortion(Outcome(s)) > balance + work[s].credit + WalletPortion(work[s].row)
       THEN RollBack(s)
       ELSE /\ owner' = IF TouchesWallet(s) THEN [owner EXCEPT ![Wallet] = s] ELSE owner
            /\ Goto(s, IF Kind(s) = "reserve" THEN "limits" ELSE "flush")
            /\ UNCHANGED work
    /\ Uncommitted

(* enforce_spend_limits: a fresh sum over the committed events. *)
EnforceLimits(s) ==
    /\ pc[s] = "limits"
    /\ IF CreditsUsed(Seen(s)) + Plan[s].tokens > CreditLimit
       THEN RollBack(s)
       ELSE Goto(s, "flush") /\ UNCHANGED <<owner, work>>
    /\ Uncommitted

(* INSERT or UPDATE of the event, by primary key: the UPDATE waits for the *)
(* row but does not look at the status it overwrites.  A second INSERT of  *)
(* a request id fails on uq_inference_usage_events_user_request.           *)
Flush(s) ==
    LET row == work[s].row
        out == Outcome(s)
        p == row.period
        booked == Max0(work[s].view[p] - PeriodPortion(row) + PeriodPortion(out))
    IN  /\ pc[s] = "flush"
        /\ CanLock(s, Target(s))
        /\ IF Kind(s) = "reserve" /\ event[Target(s)].status # "none"
           THEN RollBack(s)
           ELSE /\ owner' = [owner EXCEPT ![Target(s)] = s]
                /\ work' = [work EXCEPT
                        ![s].view[p] = booked,
                        ![s].dirty = IF booked = work[s].view[p] THEN @ ELSE @ \union {p},
                        ![s].credit = @ + WalletPortion(row) - WalletPortion(out),
                        ![s].row = out,
                        ![s].written = TRUE]
                /\ Goto(s, IF Router(s) THEN "sum" ELSE "commit")
        /\ Uncommitted

Commit(s) ==
    /\ pc[s] = "commit"
    /\ event' = Seen(s)
    /\ used' = [p \in Periods |-> IF p \in work[s].dirty THEN work[s].view[p] ELSE used[p]]
    /\ balance' = balance + work[s].credit
    /\ owner' = [row \in Rows |-> IF owner[row] = s THEN Nobody ELSE owner[row]]
    /\ work' = [work EXCEPT ![s] = Blank]
    /\ Goto(s, "done")
    /\ UNCHANGED due

-----------------------------------------------------------------------------
(* The rows s may be waiting for. *)
Wants(s) ==
    CASE pc[s] = "expire" ->
            IF work[s].todo # {} THEN work[s].todo
            ELSE {event[r].period : r \in work[s].locked \ work[s].expired}
      [] pc[s] \in {"update", "period"} -> {work[s].row.period}
      [] pc[s] = "refund" -> {Wallet}
      [] pc[s] = "wallet" -> IF TouchesWallet(s) THEN {Wallet} ELSE {}
      [] pc[s] \in {"event", "flush"} -> {Target(s)}
      [] OTHER -> {}

(* Transactions that wait for one another: Postgres makes one of them fail. *)
Deadlocked(C) ==
    \A s \in C : /\ Wants(s) # {}
                 /\ \A row \in Wants(s) : owner[row] \in C \ {s}

DeadlockVictim(s) ==
    /\ \E C \in SUBSET Sessions : s \in C /\ Deadlocked(C)
    /\ RollBack(s)
    /\ Uncommitted

(* The process or its connection dies, or the client goes away. *)
Crash(s) ==
    /\ pc[s] \notin {"begin", "done"}
    /\ RollBack(s)
    /\ Uncommitted

Lapse(r) ==
    /\ r \in Expiring
    /\ event[r].status = "reserved"
    /\ r \notin due
    /\ due' = due \union {r}
    /\ UNCHANGED <<event, used, balance, owner, pc, work>>

Finished ==
    /\ \A s \in Sessions : pc[s] = "done"
    /\ UNCHANGED vars

Step(s) ==
    \/ Begin(s)
    \/ \E r \in Requests : LockStale(s, r) \/ ExpireOne(s, r)
    \/ Refund(s)
    \/ Expired(s)
    \/ \E p \in Periods : Sum(s, p)
    \/ Update(s)
    \/ Load(s)
    \/ LoadForUpdate(s)
    \/ LockPeriod(s)
    \/ LockWallet(s)
    \/ EnforceLimits(s)
    \/ Flush(s)
    \/ Commit(s)
    \/ DeadlockVictim(s)

Init ==
    /\ event = [r \in Requests |-> NoRow(CHOOSE p \in Periods : TRUE)]
    /\ used = [p \in Periods |-> 0]
    /\ balance = Funds
    /\ due = {}
    /\ owner = [row \in Rows |-> Nobody]
    /\ pc = [s \in Sessions |-> "begin"]
    /\ work = [s \in Sessions |-> Blank]

Next ==
    \/ \E s \in Sessions : Step(s) \/ Crash(s)
    \/ \E r \in Requests : Lapse(r)
    \/ Finished

Spec == Init /\ [][Next]_vars

(* A statement that can run does run; Postgres resolves deadlocks. *)
FairSpec == Spec /\ \A s \in Sessions : WF_vars(Step(s))

-----------------------------------------------------------------------------
(* Wallet tokens are neither made nor lost, whatever transactions overlap, *)
(* fail or crash (settle_inference_usage, _refund_wallet).  usage.py:262:  *)
(* a settlement "neither double-counts nor double-debits".                 *)
WalletConservation == balance + WalletHeld(event) = Funds

(* Every variable has its type, and with it no counter or committed        *)
(* balance goes below zero: the 402 is decided on a balance that no other  *)
(* transaction can spend before the commit.                                *)
NoOverdraft == TypeOK /\ balance >= 0

(* usage.py:202: caps are checked "with the user's period row locked       *)
(* above, so concurrent reservations serialize".  This is so of those that *)
(* lock the same period row: while none has lapsed, they are not jointly   *)
(* past the cap.                                                           *)
KeyWithinLimitPerPeriod ==
    due = {} =>
        \A p \in Periods :
            Total([r \in Requests |-> event[r].tokens],
                  {r \in Requests : Live(event[r]) /\ event[r].period = p})
              =< CreditLimit

(* A reservation is closed once: whatever was settled, released or expired *)
(* is not closed again by a transaction that read it before.               *)
ClosedStay ==
    \A r \in Requests :
        event[r].status \in {"settled", "released", "expired"} => event'[r] = event[r]

ClosedOnce == [][ClosedStay]_vars

(* Every transaction comes to its end: row locks are taken in different    *)
(* orders, but a deadlock costs one transaction and blocks none for ever.  *)
SessionsFinish == \A s \in Sessions : <>(pc[s] = "done")

=============================================================================
