---------------------------- MODULE UsageLedger ----------------------------
(***************************************************************************)
(* The token ledger of one user: inference_usage_events, usage_periods and *)
(* user_wallets, as UsageService (usage.py) and its callers change them.   *)
(*                                                                         *)
(* One action is one committed transaction.  A call that raises rolls its  *)
(* transaction back and is no step at all, so what is a 4xx in the code is *)
(* a guard here.  The interleavings inside a transaction are the subject   *)
(* of module LedgerTx.                                                     *)
(*                                                                         *)
(* Amounts are charged tokens: the per-model multiplier has been applied.  *)
(***************************************************************************)
EXTENDS TokenSums

CONSTANTS
    Requests,     \* request ids; a row of inference_usage_events each
    Keys,         \* the user's API keys
    Periods,      \* rows of usage_periods: one per (period_start, period_end)
    Windowed,     \* the keys whose limit_period is daily or monthly
    CreditLimit,  \* credit_limit of each key, in tokens
    WalletLimit,  \* usd_limit_cents of each key, as the most wallet tokens it buys
    Amounts,      \* what a request may reserve
    Allowances,   \* values the sum of the allowance sources may take
    TopUps,       \* sizes of wallet purchases
    Overrun,      \* the most by which a settled charge exceeds its reservation
    MaxCredited,  \* bound: wallet tokens ever bought
    MaxWindow     \* bound: how often a daily or monthly window starts anew

ASSUME RowsAssumption ==
    /\ IsFiniteSet(Requests)
    /\ Keys # {}
    /\ Windowed \subseteq Keys

ASSUME LimitsAssumption ==
    /\ CreditLimit \in [Keys -> Nat]
    /\ WalletLimit \in [Keys -> Nat]

ASSUME AmountsAssumption ==
    /\ Amounts \subseteq Nat
    /\ Allowances \subseteq Int    \* manual_token_adjustments may be negative
    /\ TopUps \subseteq Nat
    /\ Overrun \in Nat
    /\ MaxCredited \in Nat
    /\ MaxWindow \in Nat

VARIABLES
    event,      \* event[r]: the row of request r
    period,     \* period[p]: total_allowance, used_tokens, remaining_tokens
    balance,    \* user_wallets.balance_tokens
    credited,   \* history: wallet tokens bought so far
    due,        \* the requests whose expires_at has passed
    current,    \* the period _current_period_bounds selects now
    allowance,  \* the sum of the allowance sources now
    unlimited,  \* _is_unlimited_subscriber
    window      \* the day or month that limit_window starts from

vars == <<event, period, balance, credited, due, current, allowance,
          unlimited, window>>

Statuses == {"none", "reserved", "settled", "released", "expired"}

(* "none" is a request without a row yet; its other fields mean nothing. *)
EventRows == [status : Statuses, period : Periods, key : Keys, window : Nat,
              reserved : Nat, wallet : Nat, charged : Nat]

PeriodRows == [total : Int, used : Nat, remaining : Nat]

TypeOK ==
    /\ event \in [Requests -> EventRows]
    /\ period \in [Periods -> PeriodRows]
    /\ balance \in Nat
    /\ credited \in Nat
    /\ due \subseteq Requests
    /\ current \in Periods
    /\ allowance \in Int
    /\ unlimited \in BOOLEAN
    /\ window \in Nat

-----------------------------------------------------------------------------
(* Rows and the sums over them. *)

Max0(n) == IF n > 0 THEN n ELSE 0
Lesser(m, n) == IF m < n THEN m ELSE n

(* What a row draws from its period's allowance and from the wallet.  A    *)
(* released or expired row keeps its numbers but draws nothing.            *)
PeriodPortion(row) ==
    CASE row.status = "reserved" -> row.reserved - row.wallet
      [] row.status = "settled"  -> row.charged - row.wallet
      [] OTHER                   -> 0

WalletPortion(row) ==
    IF row.status \in {"reserved", "settled"} THEN row.wallet ELSE 0

Credits(row) ==
    CASE row.status = "reserved" -> row.reserved
      [] row.status = "settled"  -> row.charged
      [] OTHER                   -> 0

(* used_tokens and remaining_tokens are always written together. *)
Booked(total, used) ==
    [total |-> total, used |-> Max0(used), remaining |-> Max0(total - Max0(used))]

PeriodShare(ev, p) ==
    [r \in Requests |-> IF ev[r].period = p THEN PeriodPortion(ev[r]) ELSE 0]

WalletShare(ev) == [r \in Requests |-> WalletPortion(ev[r])]

PeriodUsed(ev, p) == Total(PeriodShare(ev, p), Requests)

(* The row recalculate_current_period writes. *)
Recalculated(ev, p) == Booked(allowance, PeriodUsed(ev, p))

-----------------------------------------------------------------------------
(* expire_stale_reservations, as the rows it leaves behind. *)

(* Mutant: expiry that forgets the other periods. *)
StaleOfCurrentPeriod ==
    {r \in due : event[r].status = "reserved" /\ event[r].period = current}

Stale == {r \in due : event[r].status = "reserved"}

ExpiredEvent ==
    [r \in Requests |->
        IF r \in Stale THEN [event[r] EXCEPT !.status = "expired"] ELSE event[r]]

(* Mutant: only the current period gets its tokens back. *)
ExpiredCurrentPeriod ==
    [p \in Periods |->
        IF p = current /\ \E r \in Stale : event[r].period = p
        THEN Booked(period[p].total,
                    period[p].used - Total(PeriodShare(event, p), Stale))
        ELSE period[p]]

ExpiredPeriod ==
    [p \in Periods |->
        IF \E r \in Stale : event[r].period = p
        THEN Booked(period[p].total,
                    period[p].used - Total(PeriodShare(event, p), Stale))
        ELSE period[p]]

(* Mutant: an expired reservation keeps its wallet portion. *)
UnrefundedBalance == balance

ExpiredBalance == balance + Total(WalletShare(event), Stale)

-----------------------------------------------------------------------------
(* enforce_spend_limits and key_spend, over the rows ev. *)

Counted(ev, k) ==
    {r \in Requests : /\ ev[r].key = k
                      /\ k \in Windowed => ev[r].window = window}

CreditsUsed(ev, k) == Total([r \in Requests |-> Credits(ev[r])], Counted(ev, k))
WalletUsed(ev, k) == Total(WalletShare(ev), Counted(ev, k))

(* Mutant: the caps are checked before the request, not with it. *)
WithinLimitsSoFar(ev, k, credits, walletTokens) ==
    /\ CreditsUsed(ev, k) < CreditLimit[k]
    /\ walletTokens > 0 => WalletUsed(ev, k) < WalletLimit[k]

WithinLimits(ev, k, credits, walletTokens) ==
    /\ CreditsUsed(ev, k) + credits =< CreditLimit[k]
    /\ walletTokens > 0 => WalletUsed(ev, k) + walletTokens =< WalletLimit[k]

-----------------------------------------------------------------------------
(* The operations. *)

(* Mutant: one token more than the allowance has. *)
SplitOneOver(n, free) ==
    LET fromPeriod == IF unlimited THEN n ELSE Lesser(n, free + 1)
    IN  [period |-> fromPeriod, wallet |-> n - fromPeriod]

(* How reserve and settle split n tokens when the allowance can give free. *)
Split(n, free) ==
    LET fromPeriod == IF unlimited THEN n ELSE Lesser(n, free)
    IN  [period |-> fromPeriod, wallet |-> n - fromPeriod]

(* current_period, validate_request, a replayed request id: whatever only  *)
(* expires the stale reservations and recalculates the current period.     *)
RecalculateCurrentPeriod ==
    /\ event' = ExpiredEvent
    /\ period' = [ExpiredPeriod EXCEPT ![current] = Recalculated(ExpiredEvent, current)]
    /\ balance' = ExpiredBalance
    /\ UNCHANGED <<credited, due, current, allowance, unlimited, window>>

(* reserve_inference_tokens and the commit after it. *)
Reserve(r, k, n) ==
    LET fresh == Recalculated(ExpiredEvent, current)
        split == Split(n, fresh.remaining)
    IN  /\ event[r].status = "none"
        /\ split.wallet =< ExpiredBalance
        /\ WithinLimits(ExpiredEvent, k, n, split.wallet)
        /\ event' = [ExpiredEvent EXCEPT ![r] =
                        [status |-> "reserved", period |-> current, key |-> k,
                         window |-> window, reserved |-> n,
                         wallet |-> split.wallet, charged |-> 0]]
        /\ period' = [ExpiredPeriod EXCEPT ![current] =
                         Booked(fresh.total, fresh.used + split.period)]
        /\ balance' = ExpiredBalance - split.wallet
        /\ UNCHANGED <<credited, due, current, allowance, unlimited, window>>

(* Mutant: the settlement forgets that it already holds wallet tokens. *)
SettlementForgetsHold(r, c, row, funds) ==
    LET split == Split(c, row.remaining + PeriodPortion(event[r]))
    IN  [split  |-> split,
         ok     |-> (unlimited => event[r].wallet = 0) /\ split.wallet =< funds,
         event  |-> [event[r] EXCEPT !.status = "settled", !.charged = c,
                                     !.wallet = split.wallet],
         period |-> Booked(row.total,
                           row.used - PeriodPortion(event[r]) + split.period),
         funds  |-> funds + event[r].wallet - split.wallet]

(* The part of settle_inference_usage past its status checks, on a period  *)
(* row and a wallet balance.  Under an unlimited plan no wallet row is     *)
(* loaded, and the assertion stops a settlement that would change it.      *)
Settlement(r, c, row, funds) ==
    LET split == Split(c, row.remaining + PeriodPortion(event[r]))
    IN  [split  |-> split,
         ok     |-> /\ unlimited => event[r].wallet = 0
                    /\ split.wallet =< funds + event[r].wallet,
         event  |-> [event[r] EXCEPT !.status = "settled", !.charged = c,
                                     !.wallet = split.wallet],
         period |-> Booked(row.total,
                           row.used - PeriodPortion(event[r]) + split.period),
         funds  |-> funds + event[r].wallet - split.wallet]

(* settle_inference_usage as the streaming and e2e planes call it. *)
Settle(r, c) ==
    LET p == event[r].period
        s == Settlement(r, c, period[p], balance)
    IN  /\ event[r].status = "reserved"
        /\ r \notin due
        /\ s.ok
        /\ event' = [event EXCEPT ![r] = s.event]
        /\ period' = [period EXCEPT ![p] = s.period]
        /\ balance' = s.funds
        /\ UNCHANGED <<credited, due, current, allowance, unlimited, window>>

(* RouterInferenceService.settle_usage: expire, settle, recalculate. *)
RouterSettle(r, c) ==
    LET p == event[r].period
        s == Settlement(r, c, ExpiredPeriod[p], ExpiredBalance)
        after == [ExpiredEvent EXCEPT ![r] = s.event]
    IN  /\ event[r].status = "reserved"
        /\ r \notin due
        /\ s.ok
        /\ event' = after
        /\ period' = [ExpiredPeriod EXCEPT ![p] = s.period,
                                           ![current] = Recalculated(after, current)]
        /\ balance' = s.funds
        /\ UNCHANGED <<credited, due, current, allowance, unlimited, window>>

(* Mutant: a release that does not look at the status. *)
ReleaseWhateverStatus(r) ==
    LET p == event[r].period
    IN  /\ event[r].status \in {"reserved", "settled"}
        /\ r \notin due
        /\ event' = [event EXCEPT ![r].status = "released"]
        /\ period' = [period EXCEPT ![p] =
                         Booked(@.total, @.used - PeriodPortion(event[r]))]
        /\ balance' = balance + event[r].wallet
        /\ UNCHANGED <<credited, due, current, allowance, unlimited, window>>

(* release_inference_reservation of a reservation still in time. *)
Release(r) ==
    LET p == event[r].period
    IN  /\ event[r].status = "reserved"
        /\ r \notin due
        /\ event' = [event EXCEPT ![r].status = "released"]
        /\ period' = [period EXCEPT ![p] =
                         Booked(@.total, @.used - PeriodPortion(event[r]))]
        /\ balance' = balance + event[r].wallet
        /\ UNCHANGED <<credited, due, current, allowance, unlimited, window>>

(* release_inference_reservation of one that is overdue: it expires the    *)
(* stale reservations instead and recalculates nothing.                    *)
ReleaseOverdue(r) ==
    /\ r \in Stale
    /\ event' = ExpiredEvent
    /\ period' = ExpiredPeriod
    /\ balance' = ExpiredBalance
    /\ UNCHANGED <<credited, due, current, allowance, unlimited, window>>

(* RouterInferenceService.release_reservation: expire, release, recalculate. *)
RouterRelease(r) ==
    LET p == event[r].period
        after == [ExpiredEvent EXCEPT ![r].status = "released"]
    IN  /\ event[r].status = "reserved"
        /\ r \notin due
        /\ event' = after
        /\ period' = [ExpiredPeriod EXCEPT
                         ![p] = Booked(@.total, @.used - PeriodPortion(event[r])),
                         ![current] = Recalculated(after, current)]
        /\ balance' = ExpiredBalance + event[r].wallet
        /\ UNCHANGED <<credited, due, current, allowance, unlimited, window>>

-----------------------------------------------------------------------------
(* What happens around the ledger. *)

(* The Stripe webhook credits a wallet purchase (api/app/billing). *)
TopUp(n) ==
    /\ credited + n =< MaxCredited
    /\ balance' = balance + n
    /\ credited' = credited + n
    /\ UNCHANGED <<event, period, due, current, allowance, unlimited, window>>

(* expires_at of a reservation passes. *)
Lapse(r) ==
    /\ event[r].status = "reserved"
    /\ r \notin due
    /\ due' = due \union {r}
    /\ UNCHANGED <<event, period, balance, credited, current, allowance,
                   unlimited, window>>

(* A plan, a crypto snapshot or a manual adjustment changes the allowance. *)
ChangeAllowance(a) ==
    /\ allowance' = a
    /\ UNCHANGED <<event, period, balance, credited, due, current, unlimited, window>>

(* The period rolls over, or a subscription starts, ends or changes plan.  *)
ChangeSubscription(p, u) ==
    /\ current' = p
    /\ unlimited' = u
    /\ UNCHANGED <<event, period, balance, credited, due, allowance, window>>

(* Midnight, or the first of the month: daily and monthly limits reset. *)
NextWindow ==
    /\ window < MaxWindow
    /\ window' = window + 1
    /\ UNCHANGED <<event, period, balance, credited, due, current, allowance, unlimited>>

-----------------------------------------------------------------------------
NoRow ==
    [status |-> "none", period |-> CHOOSE p \in Periods : TRUE,
     key |-> CHOOSE k \in Keys : TRUE, window |-> 0,
     reserved |-> 0, wallet |-> 0, charged |-> 0]

Init ==
    /\ event = [r \in Requests |-> NoRow]
    /\ period = [p \in Periods |-> Booked(0, 0)]
    /\ balance = 0
    /\ credited = 0
    /\ due = {}
    /\ current \in Periods
    /\ allowance = 0
    /\ unlimited = FALSE
    /\ window = 0

Next ==
    \/ RecalculateCurrentPeriod
    \/ \E r \in Requests :
        \/ \E k \in Keys, n \in Amounts : Reserve(r, k, n)
        \/ \E c \in 1 .. (event[r].reserved + Overrun) :
              Settle(r, c) \/ RouterSettle(r, c)
        \/ Release(r)
        \/ ReleaseOverdue(r)
        \/ RouterRelease(r)
        \/ Lapse(r)
    \/ \E n \in TopUps : TopUp(n)
    \/ \E a \in Allowances : ChangeAllowance(a)
    \/ \E p \in Periods, u \in BOOLEAN : ChangeSubscription(p, u)
    \/ NextWindow

Spec == Init /\ [][Next]_vars

(* Time passes for every reservation, and the user comes back: any later   *)
(* call of the same user recalculates the period.                          *)
Fairness ==
    /\ \A r \in Requests : WF_vars(Lapse(r))
    /\ WF_vars(RecalculateCurrentPeriod)

FairSpec == Spec /\ Fairness

-----------------------------------------------------------------------------
(* What the ledger promises. *)

(* Wallet tokens are neither made nor lost: every token bought is either   *)
(* in user_wallets or the wallet portion of exactly one live event, however *)
(* reservations are split, settled anew, released and expired              *)
(* (usage.py _refund_wallet, settle_inference_usage).                      *)
WalletConservation ==
    balance + Total(WalletShare(event), Requests) = credited

(* The counters of a usage_periods row, moved by increments in reserve,    *)
(* settle, release and expire, never drift from the sum over the events    *)
(* that _period_used_tokens would recompute, in no period, current or not. *)
PeriodExact ==
    \A p \in Periods :
        /\ period[p].used = PeriodUsed(event, p)
        /\ period[p].remaining = Max0(period[p].total - period[p].used)

(* The inductive invariant behind the two: the wallet never pays for more  *)
(* of an event than the event reserves or is charged, so that a portion of *)
(* a period is never negative and max(0, ...) never loses tokens.          *)
Covered(row) ==
    /\ row.status = "reserved" => row.wallet =< row.reserved
    /\ row.status = "settled" => row.wallet =< row.charged

LedgerInv ==
    /\ TypeOK
    /\ \A r \in Requests : Covered(event[r])
    /\ WalletConservation

(* What a step that draws more from a period leaves there is within the    *)
(* allowance from before or after the step, unless the plan is unlimited.  *)
DrawsWithinAllowance ==
    \A p \in Periods :
        period'[p].used > period[p].used =>
            \/ unlimited
            \/ period'[p].used =< period[p].total
            \/ period'[p].used =< period'[p].total

(* No step draws past the allowance, and what is over one that shrank never *)
(* grows (the splits in reserve and settle, on rows whose total was last    *)
(* recalculated long before).                                               *)
AllowanceRespected == [][DrawsWithinAllowance]_vars

(* A key is past its credit or USD cap by no more than its settlements     *)
(* overran their reservations, whatever is settled, expired or re-split    *)
(* after enforce_spend_limits let the reservations in.                     *)
KeysWithinLimits ==
    \A k \in Keys :
        LET settled == {r \in Requests : event[r].status = "settled" /\ event[r].key = k}
            overran == Overrun * Cardinality(settled)
        IN  /\ CreditsUsed(event, k) =< CreditLimit[k] + overran
            /\ WalletUsed(event, k) =< WalletLimit[k] + overran

(* Holding tokens is a promise: a live reservation can be settled for      *)
(* anything up to its size without a 402, whatever happened to the         *)
(* allowance, the period or the wallet since it was made.                  *)
ReservationCoversSettlement ==
    \A r \in Requests :
        event[r].status = "reserved" /\ ~ unlimited =>
            \A c \in 1 .. event[r].reserved :
                Settlement(r, c, period[event[r].period], balance).ok

(* No reservation holds tokens for ever: it is settled, released or, once  *)
(* its TTL has passed and the user calls again, expired and refunded.      *)
ReservationsClose ==
    \A r \in Requests :
        event[r].status = "reserved" ~> event[r].status # "reserved"

(* The wallet side of the ledger is a prepaid wallet: the wallet portion   *)
(* of a live event is a hold or a capture, and nothing but a purchase, a   *)
(* reservation, a settlement, a release or an expiry moves the balance.    *)
HoldState(status) ==
    CASE status = "reserved" -> "held"
      [] status = "settled"  -> "captured"
      [] status = "none"     -> "none"
      [] OTHER               -> "voided"

Prepaid == INSTANCE PrepaidWallet WITH
    funds <- balance,
    hold <- [r \in Requests |-> [state  |-> HoldState(event[r].status),
                                 amount |-> WalletPortion(event[r])]]

(* UsageService implements PrepaidWallet: holds are opened and closed once, *)
(* and every token that leaves the wallet is on a hold.                    *)
PrepaidSpec == Prepaid!Spec

=============================================================================
