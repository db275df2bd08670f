---------------------------- MODULE StripeBilling ----------------------------
(***************************************************************************)
(* Subscriptions, wallet top-ups and referral credits of one user, as the  *)
(* control plane keeps them in step with Stripe.                           *)
(*                                                                         *)
(* Stripe is external: it holds checkout sessions and subscriptions, and   *)
(* emits events that it delivers in any order and again until they are     *)
(* acknowledged.  A customer.subscription event carries a snapshot of the  *)
(* subscription; checkout and invoice events make the handler retrieve it. *)
(*                                                                         *)
(* A request is a transaction of two steps: what it reads, and asks of     *)
(* Stripe, before its first write; and its writes with the commit.         *)
(* Nothing it reads is locked, so two requests may overlap, and the ORM    *)
(* writes only the columns that differ from what it read.                  *)
(* stripe_webhook_events is inserted first: a second delivery of an event  *)
(* waits for the first one and fails on the unique key, so it may as well  *)
(* not have begun.                                                         *)
(***************************************************************************)
EXTENDS Integers, FiniteSets

CONSTANTS
    MaxOverlap, \* requests that can be under way at a time
    Sessions,   \* checkout sessions; each makes the subscription of its name
    Prices,     \* Stripe prices of the plans on sale
    PriceOf,    \* the price each session is opened for
    Payments,   \* payment intents of wallet top-ups
    Copies,     \* events Stripe may emit for one top-up
    NoSession,  \* no session, no subscription
    NoPrice,    \* the price of no subscription
    MaxChanges, \* payments and changes of subscriptions at Stripe, and faults
    Referred    \* whether the user has a referrals row

ASSUME BillingAssumption ==
    /\ NoSession \notin Sessions
    /\ NoPrice \notin Prices
    /\ PriceOf \in [Sessions -> Prices]
    /\ {MaxOverlap, MaxChanges} \subseteq Nat
    /\ IsFiniteSet(Copies)
    /\ Payments \intersect (Sessions \X (0 .. MaxChanges)) = {}
    /\ Referred \in BOOLEAN

Versions == 0 .. MaxChanges

(* A subscription as Stripe describes it. *)
States == [status : {"none", "active", "past_due", "canceled"},
           price : Prices \union {NoPrice}, cancelling : BOOLEAN]

NoState == [status |-> "none", price |-> NoPrice, cancelling |-> FALSE]

(* Events: "completed" of a checkout, "subscription" with a snapshot, and  *)
(* "paid" and "failed" of an invoice, numbered by the version of the       *)
(* subscription; and "topup" of a payment.                                 *)
SubKinds == {"completed", "subscription", "paid", "failed"}
SubEvents == [kind : SubKinds, of : Sessions, v : Versions, snap : States]
TopupEvents == [kind : {"topup"}, of : Payments, v : Copies, snap : {NoState}]
Invoices(events) == {e \in events : e.kind \in {"paid", "failed"}}
NoEvent == [kind |-> "none", of |-> NoSession, v |-> 0, snap |-> NoState]

VARIABLES
    session,   \* checkout sessions at Stripe; nobody was told of a "lost" one
    live,      \* subscriptions at Stripe
    version,   \* how often each has changed
    emitted,   \* events Stripe has emitted
    processed, \* stripe_webhook_events with processed_at
    row,       \* the row of user_subscriptions
    pending,   \* user_billing_accounts.pending_checkout_session_id
    purchases, \* purchase rows of wallet_transactions for each payment
    earnings,  \* source ids with a referral_earnings row
    bonuses,   \* referral bonus rows of wallet_transactions for each source
    recorded,  \* billing history: renewals and failed payments
    started,   \* billing history: subscription_created, counted up to 2
    tx,        \* the requests under way, a set
    faults,
    applied,   \* history: the newest version of each subscription in the row
    spoilt,    \* history: what overlapping requests and faults have spoilt
    doubtful   \* history: invoices passed over, payments handled twice at a time

stripeVars == <<session, live, version, emitted>>
creditVars == <<earnings, bonuses>>
historyVars == <<applied, spoilt, doubtful>>
vars == <<stripeVars, processed, row, pending, purchases, creditVars, recorded,
          started, tx, faults, historyVars>>

(* user_billing_accounts.pending_checkout_session_id. *)
Markers == Sessions \union {NoSession}

Rows == [of : Sessions \union {NoSession}, state : States]
NoRow == [of |-> NoSession, state |-> NoState]

(* A request under way: the subscription or payment it is about, the       *)
(* version and state Stripe gave it, the row and the marker it loaded, and *)
(* whether it found the source of a credit credited already.               *)
Idle == [op |-> "idle", of |-> NoSession, v |-> 0, snap |-> NoState, loaded |-> NoRow,
         marker |-> NoSession, event |-> NoEvent, credited |-> FALSE, earned |-> FALSE]

(* referral_earnings.source_id: a payment intent, or an invoice. *)
Sources == Payments \union (Sessions \X Versions)

(* wallet_transactions of kind "purchase", by stripe_payment_intent_id. *)
Purchases == [Payments -> 0 .. Cardinality(Copies)]

TypeOK ==
    /\ session \in [Sessions -> {"unused", "open", "lost", "complete", "expired"}]
    /\ live \in [Sessions -> States]
    /\ version \in [Sessions -> Versions]
    /\ emitted \subseteq SubEvents \union TopupEvents
    /\ processed \subseteq emitted
    /\ row \in Rows
    /\ pending \in Markers
    /\ purchases \in Purchases
    /\ earnings \subseteq Sources
    /\ bonuses \in [Sources -> Nat]
    /\ recorded \subseteq Invoices(emitted)
    /\ started \in [Sessions -> 0 .. 2]
    /\ \A t \in tx :
          /\ t.op \in {"checkout", "change", "page", "topup"} \union SubKinds
          /\ t.event \in emitted \union {NoEvent}
    /\ faults \in 0 .. MaxChanges
    /\ applied \in [Sessions -> Versions]
    /\ spoilt \subseteq {"row", "history", "marker"}
    /\ doubtful \subseteq Sources

-----------------------------------------------------------------------------
(* Stripe.                                                                 *)

Active(state) == state.status = "active"
Ongoing(state) == state.status \in {"active", "past_due"}

Paid == {t \in Payments : \E e \in emitted : e.kind = "topup" /\ e.of = t}
Snapshots == {e \in emitted : e.kind = "subscription"}

(* Every change at Stripe emits one snapshot. *)
Changes == faults + Cardinality(Paid) + Cardinality(Snapshots)

ChangeAtStripe(s, state, kinds) ==
    /\ Changes < MaxChanges
    /\ live' = [live EXCEPT ![s] = state]
    /\ version' = [version EXCEPT ![s] = @ + 1]
    /\ emitted' = emitted \union
          {[kind |-> k, of |-> s, v |-> version[s] + 1, snap |-> state] : k \in kinds}

(* The customer completes a checkout session ... *)
CompleteCheckout(s) ==
    /\ session[s] = "open"
    /\ \A t \in tx : t.op = "checkout" => t.of # s
    /\ session' = [session EXCEPT ![s] = "complete"]
    /\ ChangeAtStripe(s, [status |-> "active", price |-> PriceOf[s], cancelling |-> FALSE],
                      {"completed", "subscription", "paid"})
    /\ UNCHANGED <<processed, row, pending, purchases, creditVars, recorded, started, tx,
                   faults, historyVars>>

(* ... or lets it expire.                                                  *)
ExpireCheckout(s) ==
    /\ session[s] = "open"
    /\ session' = [session EXCEPT ![s] = "expired"]
    /\ UNCHANGED <<live, version, emitted, processed, row, pending, purchases, creditVars,
                   recorded, started, tx, faults, historyVars>>

(* Renewals, failed payments, and the customer portal of Stripe. *)
ChangeOutside(s) ==
    /\ Ongoing(live[s])
    /\ \/ ChangeAtStripe(s, [live[s] EXCEPT !.status = "active"], {"subscription", "paid"})
       \/ ChangeAtStripe(s, [live[s] EXCEPT !.status = "past_due"], {"subscription", "failed"})
       \/ ChangeAtStripe(s, [live[s] EXCEPT !.status = "canceled"], {"subscription"})
    /\ UNCHANGED <<session, processed, row, pending, purchases, creditVars, recorded,
                   started, tx, faults, historyVars>>

(* What Stripe says of a paid top-up: the metadata that makes an event one *)
(* is on the session and on its payment intent, so there may be two.       *)
PaidEvents(t, copies) ==
    {[kind |-> "topup", of |-> t, v |-> i, snap |-> NoState] : i \in copies}

(* The customer pays a session of create_wallet_topup_checkout. *)
PayTopup(t, copies) ==
    /\ \A e \in emitted : e.kind = "topup" => e.of # t
    /\ copies # {}
    /\ Changes < MaxChanges
    /\ emitted' = emitted \union PaidEvents(t, copies)
    /\ UNCHANGED <<session, live, version, processed, row, pending, purchases, creditVars,
                   recorded, started, tx, faults, historyVars>>

-----------------------------------------------------------------------------
(* Checkout.                                                               *)

Begin(t) ==
    /\ Cardinality(tx) < MaxOverlap
    /\ tx' = tx \union {t}

End(t) == tx' = tx \ {t}

(* Mutant: a session that is open does not stand in the way. *)
IgnorePending(reached) == TRUE

(* _reject_if_checkout_pending: the marker blocks while Stripe says that   *)
(* its session is open; when Stripe does not answer it blocks until it is  *)
(* 30 minutes old.                                                         *)
NotPending(reached) ==
    pending # NoSession /\ reached => session[pending] # "open"

OpenAtStripe(s) ==
    /\ session[s] = "unused"
    /\ session' = [session EXCEPT ![s] = "open"]

(* create_checkout_session, for a plan on sale: without an active          *)
(* subscription or a pending session, Stripe opens one.  The marker is     *)
(* written at the end.                                                     *)
CheckoutBegin(s, reached) ==
    /\ ~ Active(row.state)
    /\ ~ reached => pending # NoSession /\ Changes < MaxChanges
    /\ NotPending(reached)
    /\ OpenAtStripe(s)
    /\ faults' = IF reached THEN faults ELSE faults + 1
    /\ spoilt' = IF reached /\ (\A t \in tx : t.op # "checkout")
                 THEN spoilt ELSE spoilt \union {"marker"}
    /\ Begin([Idle EXCEPT !.op = "checkout", !.of = s])
    /\ UNCHANGED <<live, version, emitted, processed, row, pending, purchases, creditVars,
                   recorded, started, applied, doubtful>>

CheckoutCommit(t) ==
    /\ t.op = "checkout"
    /\ pending' = t.of
    /\ End(t)
    /\ UNCHANGED <<stripeVars, processed, row, purchases, creditVars, recorded, started,
                   faults, historyVars>>

-----------------------------------------------------------------------------
(* sync_subscription_object.                                               *)

(* What a sync of version v reads before it writes. *)
Load(op, s, v, state) ==
    [Idle EXCEPT !.op = op, !.of = s, !.v = v, !.snap = state, !.loaded = row,
                 !.marker = pending]

(* The row Stripe describes.  Its plan is the one that sells the price, *)
(* whatever the metadata of the checkout say, and goes with the price.  *)
Described(t) == [of |-> t.of, state |-> t.snap]

(* The INSERT finds that another request has inserted the row: the row is  *)
(* taken if it is of the same subscription, and the request fails if not.  *)
LostInsert(t) == t.loaded = NoRow /\ row # NoRow
InsertRaises(t) == LostInsert(t) /\ row.of # t.of

(* Mutant: the plan stays the one of the checkout. *)
WrittenOldPrice(t) ==
    [of |-> t.of,
     state |-> IF row.of = t.of THEN [t.snap EXCEPT !.price = row.state.price] ELSE t.snap]

(* An UPDATE leaves a column alone whose new value is the one it loaded. *)
Written(t) ==
    LET keep(new, read, now) == IF new = read THEN now ELSE new
        old == t.loaded
    IN  IF old = NoRow THEN Described(t)
        ELSE [of |-> keep(t.of, old.of, row.of),
              state |-> [c \in DOMAIN t.snap |-> keep(t.snap[c], old.state[c], row.state[c])]]

(* _record_subscription_changes: an active subscription that was not going *)
(* on before is recorded as created.                                       *)
Starts(t) ==
    /\ Active(t.snap)
    /\ t.loaded.of # t.of \/ ~ Ongoing(t.loaded.state)
    /\ ~ LostInsert(t)

(* _clear_pending_checkout: the marker goes if it was this session's when   *)
(* it was loaded.                                                          *)
Clears(t) == t.op \in {"page", "completed"} /\ t.marker = t.of

(* The writes of sync_subscription_object.  Noted as spoilt: the row, by a *)
(* version older than it has had, or when it changed between the load and  *)
(* the write; its history also when it changed before an UPDATE, or when   *)
(* it goes back to an earlier subscription; the marker, when another       *)
(* session has taken it since it was loaded.                               *)
SyncRow(t) ==
    /\ ~ InsertRaises(t)
    /\ row' = Written(t)
    /\ started' = IF Starts(t) THEN [started EXCEPT ![t.of] = IF @ < 2 THEN @ + 1 ELSE @] ELSE started
    /\ applied' = [applied EXCEPT ![t.of] = IF t.v < @ THEN @ ELSE t.v]
    /\ LET crossed == row # t.loaded
       IN  spoilt' = spoilt \union
              {x \in {"row", "history", "marker"} :
                  \/ x = "row" /\ (t.v < applied[t.of] \/ (crossed /\ row # Described(t)))
                  \/ x = "history" /\ (t.v < applied[t.of] \/ (crossed /\ t.loaded # NoRow))
                  \/ x = "history" /\ applied[t.of] > 0 /\ t.loaded.of \notin {t.of, NoSession}
                  \/ x = "marker" /\ Clears(t) /\ pending # t.of}

(* change_subscription_plan: an active subscription moves to another price *)
(* at Stripe, and what Stripe answers is synced.                           *)
ChangePlanBegin(p) ==
    LET s == row.of
        state == [live[s] EXCEPT !.price = p]
    IN  /\ Active(row.state)
        /\ row.state.price # p
        /\ Ongoing(live[s])
        /\ ChangeAtStripe(s, state, {"subscription"})
        /\ Begin(Load("change", s, version[s] + 1, state))
        /\ UNCHANGED <<session, processed, row, pending, purchases, creditVars, recorded,
                       started, faults, historyVars>>

(* cancel_subscription, now or at the end of the period. *)
CancelBegin(atPeriodEnd) ==
    LET s == row.of
        state == IF atPeriodEnd THEN [live[s] EXCEPT !.cancelling = TRUE]
                 ELSE [live[s] EXCEPT !.status = "canceled"]
    IN  /\ row # NoRow
        /\ Ongoing(live[s])
        /\ ChangeAtStripe(s, state, {"subscription"})
        /\ Begin(Load("change", s, version[s] + 1, state))
        /\ UNCHANGED <<session, processed, row, pending, purchases, creditVars, recorded,
                       started, faults, historyVars>>

(* sync_checkout_session_by_id: the success page does not wait for Stripe. *)
SyncPageBegin(s) ==
    /\ session[s] = "complete"
    /\ Begin(Load("page", s, version[s], live[s]))
    /\ UNCHANGED <<stripeVars, processed, row, pending, purchases, creditVars, recorded,
                   started, faults, historyVars>>

SyncCommit(t) ==
    /\ t.op \in {"change", "page"}
    /\ SyncRow(t)
    /\ pending' = IF Clears(t) THEN NoSession ELSE pending
    /\ End(t)
    /\ UNCHANGED <<stripeVars, processed, purchases, creditVars, recorded, faults, doubtful>>

-----------------------------------------------------------------------------
(* process_webhook.                                                        *)

(* An event that is processed, or being processed, is not dispatched. *)
Dispatched(e) == e \notin processed /\ \A t \in tx : t.event # e

Source(e) == IF e.kind = "topup" THEN e.of ELSE <<e.of, e.v>>

(* A snapshot is taken as it is; the other kinds retrieve the subscription. *)
ReceiveSub(e) ==
    LET read == IF e.kind = "subscription" THEN Load(e.kind, e.of, e.v, e.snap)
                ELSE Load(e.kind, e.of, version[e.of], live[e.of])
    IN  /\ e.kind \in SubKinds
        /\ Dispatched(e)
        /\ Begin([read EXCEPT !.event = e, !.earned = Source(e) \in earnings])
        /\ UNCHANGED <<stripeVars, processed, row, pending, purchases, creditVars, recorded,
                       started, faults, historyVars>>

(* credit_for_payment: a referred user's payment is credited to the        *)
(* referrer, once for a source.  The unique source id makes the request    *)
(* fail that lost a race for it.                                           *)
CreditReferral(t) ==
    IF t.earned \/ ~ Referred THEN UNCHANGED <<earnings, bonuses>>
    ELSE /\ Source(t.event) \notin earnings
         /\ earnings' = earnings \union {Source(t.event)}
         /\ bonuses' = [bonuses EXCEPT ![Source(t.event)] = @ + 1]

(* _record_billing_event with dedupe: an invoice has one row of a kind. *)
InHistory(e) == recorded' = recorded \union {e}

(* _record_invoice_event: the first invoice is represented by              *)
(* subscription_created.                                                   *)
RecordInvoice(t) ==
    IF t.op = "failed" \/ (t.op = "paid" /\ t.event.v > 1)
    THEN InHistory(t.event)
    ELSE UNCHANGED recorded

Processed(t) ==
    /\ processed' = processed \union {t.event}
    /\ End(t)

WebhookCommit(t) ==
    /\ t.op \in SubKinds
    /\ SyncRow(t)
    /\ pending' = IF Clears(t) THEN NoSession ELSE pending
    /\ RecordInvoice(t)
    /\ IF t.op = "paid" THEN CreditReferral(t) ELSE UNCHANGED <<earnings, bonuses>>
    /\ Processed(t)
    /\ UNCHANGED <<stripeVars, purchases, faults, doubtful>>

(* _mark_subscription_status, of the row that has the subscription. *)
MarkedPastDue(t) == IF row.of = t.of THEN [row EXCEPT !.state.status = "past_due"] ELSE row

(* sync_invoice_subscription catches what the retrieval or the sync raises: *)
(* a failed payment is marked past_due, a paid invoice is passed over, and *)
(* the event counts as processed either way.                               *)
InvoiceSwallowed(t) ==
    /\ t.op \in {"paid", "failed"}
    /\ \/ InsertRaises(t) /\ UNCHANGED faults
       \/ ~ InsertRaises(t) /\ Changes < MaxChanges /\ faults' = faults + 1
    /\ row' = IF t.op = "failed" THEN MarkedPastDue(t) ELSE row
    /\ IF t.op = "failed" /\ row.of = t.of THEN InHistory(t.event) ELSE UNCHANGED recorded
    /\ spoilt' = spoilt \union {"row"}
    /\ doubtful' = doubtful \union {Source(t.event)}
    /\ Processed(t)
    /\ UNCHANGED <<stripeVars, pending, purchases, creditVars, started, applied>>

(* _credit_wallet_topup looks the payment intent up before it locks the    *)
(* wallet.                                                                 *)
ReceiveTopup(e) ==
    /\ e.kind = "topup"
    /\ Dispatched(e)
    /\ Begin([Idle EXCEPT !.op = "topup", !.of = e.of, !.event = e,
                             !.credited = purchases[e.of] > 0, !.earned = e.of \in earnings])
    /\ doubtful' = IF \E t \in tx : t.of = e.of THEN doubtful \union {e.of}
                   ELSE doubtful
    /\ UNCHANGED <<stripeVars, processed, row, pending, purchases, creditVars, recorded,
                   started, faults, applied, spoilt>>

(* Mutant: the payment intent is not looked up. *)
CreditWalletTopupAgain(t) ==
    /\ purchases' = [purchases EXCEPT ![t.of] = @ + 1]
    /\ CreditReferral(t)

CreditWalletTopup(t) ==
    IF t.credited THEN UNCHANGED <<purchases, earnings, bonuses>>
    ELSE /\ purchases' = [purchases EXCEPT ![t.of] = @ + 1]
         /\ CreditReferral(t)

TopupCommit(t) ==
    /\ t.op = "topup"
    /\ CreditWalletTopup(t)
    /\ Processed(t)
    /\ UNCHANGED <<stripeVars, row, pending, recorded, started, faults, historyVars>>

(* A request fails before its commit, on a unique key that was taken       *)
(* meanwhile, an error or a crash: the transaction leaves nothing behind,  *)
(* and Stripe delivers the event again.  Nobody learns of the session that *)
(* a failed checkout opened.                                               *)
KeyTaken(t) ==
    \/ t.op \in {"change", "page", "completed", "subscription"} /\ InsertRaises(t)
    \/ t.op \in {"paid", "topup"} /\ Referred /\ ~ t.earned /\ Source(t.event) \in earnings

(* Mutant: the event row is committed on its own. *)
Acknowledged(t) == processed \union ({t.event} \ {NoEvent})

(* What is left of stripe_webhook_events after a rollback. *)
AfterRollback(t) == processed

Fail(t) ==
    /\ \/ KeyTaken(t) /\ UNCHANGED faults
       \/ ~ KeyTaken(t) /\ Changes < MaxChanges /\ faults' = faults + 1
    /\ session' = [s \in Sessions |->
          IF t.op = "checkout" /\ t.of = s /\ session[s] = "open" THEN "lost" ELSE session[s]]
    /\ processed' = AfterRollback(t)
    /\ End(t)
    /\ UNCHANGED <<live, version, emitted, row, pending, purchases, creditVars, recorded,
                   started, historyVars>>

-----------------------------------------------------------------------------
Init ==
    /\ session = [s \in Sessions |-> "unused"]
    /\ live = [s \in Sessions |-> NoState]
    /\ version = [s \in Sessions |-> 0]
    /\ emitted = {} /\ processed = {}
    /\ row = NoRow
    /\ pending = NoSession
    /\ purchases = [t \in Payments |-> 0]
    /\ earnings = {}
    /\ bonuses = [x \in Sources |-> 0]
    /\ recorded = {}
    /\ started = [s \in Sessions |-> 0]
    /\ tx = {}
    /\ faults = 0
    /\ applied = [s \in Sessions |-> 0]
    /\ spoilt = {} /\ doubtful = {}

Commit(t) ==
    CheckoutCommit(t) \/ SyncCommit(t) \/ WebhookCommit(t) \/ InvoiceSwallowed(t)
    \/ TopupCommit(t) \/ Fail(t)

Receive == \E e \in emitted : ReceiveSub(e) \/ ReceiveTopup(e)

(* Everything has happened and been processed. *)
Finished ==
    /\ tx = {}
    /\ processed = emitted
    /\ UNCHANGED vars

Next ==
    \/ \E s \in Sessions : CompleteCheckout(s) \/ ExpireCheckout(s) \/ ChangeOutside(s)
    \/ \E t \in Payments, copies \in SUBSET Copies : PayTopup(t, copies)
    \/ \E s \in Sessions, reached \in BOOLEAN : CheckoutBegin(s, reached)
    \/ \E p \in Prices : ChangePlanBegin(p)
    \/ \E b \in BOOLEAN : CancelBegin(b)
    \/ \E s \in Sessions : SyncPageBegin(s)
    \/ Receive
    \/ \E t \in tx : Commit(t)
    \/ Finished

Spec == Init /\ [][Next]_vars

(* Stripe delivers an event until it is acknowledged, and a request that   *)
(* has begun ends.  Failures are bounded by MaxChanges.                     *)
FairSpec ==
    /\ Spec
    /\ WF_vars(\E t \in tx : Commit(t))
    /\ WF_vars(\E t \in tx : t.op = "topup" /\ Commit(t))
    /\ SF_vars(\E e \in emitted : ReceiveTopup(e))

-----------------------------------------------------------------------------
(* A referral is credited once for an invoice or payment, and its bonus is *)
(* in the referrer's wallet exactly when its earning is on record, however *)
(* deliveries race and repeat.                                             *)
ReferralCreditedOnce ==
    \A x \in Sources : bonuses[x] = IF x \in earnings THEN 1 ELSE 0

(* A payment is credited to the wallet at most once, although Stripe sends *)
(* several events for it.  The payment intent is looked up without a lock, *)
(* so of two events handled at the same time only those of a referred user *)
(* are told apart, by the unique source id of the referral's earning.      *)
PaymentCreditedOnce ==
    \A t \in Payments : t \notin doubtful \/ Referred => purchases[t] =< 1

(* The billing history says once that a subscription was created, although *)
(* the success page and up to three events race to insert the row.         *)
CreatedOnce ==
    "history" \notin spoilt => \A s \in Sessions : started[s] =< 1

(* What Stripe reports is applied once: a payment to the wallet and to the *)
(* referrer, a creation to the billing history.  (The type invariant is    *)
(* checked with it.)                                                       *)
AppliedOnce ==
    /\ TypeOK
    /\ ReferralCreditedOnce
    /\ PaymentCreditedOnce
    /\ CreatedOnce

(* An event that counts as processed has had its effect: the payment is in *)
(* the wallet, the referrer has the bonus, the renewal is in the billing   *)
(* history.  An invoice whose subscription could not be retrieved is the   *)
(* exception, swallowed by sync_invoice_subscription.                      *)
ProcessedIsApplied ==
    \A e \in processed :
        /\ e.kind = "topup" => purchases[e.of] > 0
        /\ e.kind \in {"topup", "paid"} /\ Source(e) \notin doubtful /\ Referred
              => Source(e) \in earnings
        /\ e.kind = "paid" /\ Source(e) \notin doubtful /\ e.v > 1 => e \in recorded

(* When every event is processed, the row says what Stripe says of its     *)
(* subscription, in whatever order the events came, unless a snapshot was  *)
(* applied after a newer state or two requests crossed on the row.         *)
RowFollowsStripe ==
    (/\ tx = {}
     /\ processed = emitted
     /\ "row" \notin spoilt)
    => /\ row # NoRow => row.state = live[row.of]
       /\ row = NoRow => \A s \in Sessions : live[s] = NoState

(* A user has at most one open checkout session, unless two were asked for *)
(* at the same time, Stripe could not be asked, or the marker of a new one *)
(* was cleared for an old one.                                             *)
OneOpenCheckout ==
    "marker" \notin spoilt => Cardinality({s \in Sessions : session[s] = "open"}) =< 1

(* The account is in step with Stripe: in what it says of the subscription, *)
(* and in what may still become one.                                       *)
InStepWithStripe == RowFollowsStripe /\ OneOpenCheckout

(* A payment that Stripe reports is credited in the end: a request that    *)
(* fails leaves its event to be delivered again.                           *)
PaidIsCredited ==
    \A t \in Payments : (\E e \in emitted : e.of = t) ~> purchases[t] > 0

=============================================================================
