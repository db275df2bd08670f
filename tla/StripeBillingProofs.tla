------------------------- MODULE StripeBillingProofs -------------------------
(***************************************************************************)
(* What the account keeps of Stripe, proved for any number of sessions,    *)
(* payments and events, any number of requests under way, and all bounds.  *)
(*                                                                         *)
(* A request writes by what it read when it began.  The invariant says     *)
(* what of that is still so when it commits: that Stripe had the           *)
(* subscription in the state it was told of (Known), that its event is     *)
(* nobody else's and not processed (HandlesOK), and, when no second event  *)
(* of its payment was handled meanwhile, that the payment is credited only *)
(* if it saw so (TopupOK).  KnowsStill shows once for all steps that the   *)
(* others keep this.                                                       *)
(*                                                                         *)
(* The row need not follow the order of the events.  It does not have to:  *)
(* as long as nothing is spoilt, a row with the newest version says what   *)
(* Stripe says, and a processed event is no newer than what was applied.   *)
(* When every event is processed, the newest snapshot is, too (RowInv,     *)
(* NewestApplied).                                                         *)
(*                                                                         *)
(* The numbers of the model stay in their bounds because each change has a *)
(* snapshot and each credit an event of its own (CountsInv).               *)
(***************************************************************************)
EXTENDS StripeBilling, FiniteSetTheorems, TLAPS

(* The requests that sync a subscription, and those that handle an event. *)
Syncs == {"change", "page"} \union SubKinds
Webhooks == SubKinds \union {"topup"}

Requests ==
    [op : {"checkout"} \union Syncs \union Webhooks,
     of : Sessions \union Payments \union {NoSession}, v : Versions, snap : States,
     loaded : Rows, marker : Markers, event : SubEvents \union TopupEvents \union {NoEvent},
     credited : BOOLEAN, earned : BOOLEAN]

(* The row has a subscription, or is not there. *)
RowOK(r) == r \in Rows /\ (r.of = NoSession <=> r = NoRow)

(* Stripe had subscription s in this state at version v.  The newest       *)
(* version is what it is now, and a cancelled one stays the newest.        *)
Known(s, v, state) ==
    /\ s \in Sessions /\ v \in Versions /\ 0 < v /\ v =< version[s]
    /\ state \in States /\ state.status # "none"
    /\ v = version[s] \/ state.status = "canceled" => v = version[s] /\ state = live[s]

(* Subscriptions at Stripe and the events about them. *)
StripeInv ==
    /\ \A s \in Sessions :
          /\ session[s] = "complete" <=> version[s] > 0
          /\ version[s] = 0 => live[s] = NoState
          /\ version[s] > 0 => /\ live[s].status # "none"
                               /\ \E e \in Snapshots : e.of = s /\ e.v = version[s]
    /\ \A e \in emitted : e.kind # "topup" => Known(e.of, e.v, e.snap)

SnapshotsOf(s) == {e \in Snapshots : e.of = s}
Credits(t) == {e \in processed : e.kind = "topup" /\ e.of = t}

(* The bounds: a change has its snapshot, and a payment its event. *)
CountsInv ==
    /\ IsFiniteSet(Paid) /\ IsFiniteSet(Snapshots)
    /\ Changes =< MaxChanges
    /\ \A s \in Sessions : version[s] =< Cardinality(SnapshotsOf(s))
    /\ \A t \in Payments : purchases[t] =< Cardinality(Credits(t))

(* What a request knows.  An event is handled once at a time. *)
SyncOK(t) ==
    t.op \in Syncs =>
        /\ Known(t.of, t.v, t.snap)
        /\ RowOK(t.loaded)
        /\ t.loaded # NoRow => row # NoRow

HandlesOK(t) ==
    IF t.op \in Webhooks
    THEN /\ t.event \in emitted \ processed
         /\ t.event.kind = t.op /\ t.event.of = t.of
         /\ t.op # "topup" => t.event.v =< t.v
         /\ t.earned => Source(t.event) \in earnings
    ELSE t.event = NoEvent

TopupOK(t) ==
    t.op = "topup" =>
        /\ t.credited => purchases[t.of] > 0
        /\ Referred /\ ~ t.credited => ~ t.earned
        /\ t.of \notin doubtful /\ ~ t.credited => purchases[t.of] = 0

RequestsInv ==
    /\ tx \subseteq Requests
    /\ \A t \in tx : SyncOK(t) /\ HandlesOK(t) /\ TopupOK(t)
    /\ \A t, u \in tx :
          /\ t.event = u.event => t = u \/ t.event = NoEvent
          /\ t.op = "topup" /\ u.op = "topup" /\ t.of = u.of /\ t.of \notin doubtful => t = u

(* The row: a version that has been applied has a row.  Nothing spoilt, it *)
(* is what Stripe said last, and what has been processed has been applied; *)
(* a subscription in the row that does not go on will not go on again.     *)
RowInv ==
    /\ RowOK(row)
    /\ \A s \in Sessions :
          /\ applied[s] =< version[s]
          /\ applied[s] > 0 => row # NoRow
          /\ started[s] > 0 => applied[s] > 0
    /\ "row" \notin spoilt =>
          /\ row # NoRow /\ applied[row.of] = version[row.of] => row.state = live[row.of]
          /\ \A e \in processed : e.kind # "topup" => e.v =< applied[e.of]
    /\ "history" \notin spoilt /\ row # NoRow /\ ~ Ongoing(row.state) =>
          applied[row.of] = version[row.of] /\ live[row.of].status = "canceled"

(* The wallet and the referrer's earnings move together. *)
CreditInv ==
    Referred => \A t \in Payments : t \in earnings <=> purchases[t] > 0

(* An open session is the one of the marker, or of the checkout under way. *)
CheckoutInv ==
    /\ \A t \in tx : t.op = "checkout" => t.of \in Sessions /\ session[t.of] # "unused"
    /\ pending # NoSession => session[pending] # "unused"
    /\ "marker" \notin spoilt =>
          /\ \A s \in Sessions :
                session[s] = "open" =>
                    s = pending \/ \E t \in tx : t.op = "checkout" /\ t.of = s
          /\ \A t, u \in tx : t.op = "checkout" /\ u.op = "checkout" => t = u
          /\ \A t \in tx : t.op = "checkout" /\ pending # NoSession => session[pending] # "open"

BillingInv ==
    /\ TypeOK /\ StripeInv /\ CountsInv /\ RequestsInv /\ RowInv /\ CreditInv /\ CheckoutInv
    /\ ReferralCreditedOnce /\ PaymentCreditedOnce /\ CreatedOnce /\ ProcessedIsApplied

-----------------------------------------------------------------------------
(* What is written is a row. *)
LEMMA WrittenIs ==
    ASSUME TypeOK, NEW t, SyncOK(t), t.op \in Syncs, RowOK(row), ~ InsertRaises(t)
    PROVE  /\ Written(t) \in Rows /\ Written(t).of \in Sessions /\ Written(t) # NoRow
           /\ RowOK(Written(t))
           /\ row = t.loaded \/ row = Described(t) \/ t.loaded = NoRow
                 => Written(t) = Described(t)
<1>1. /\ t.of \in Sessions /\ t.snap \in States /\ t.loaded \in Rows /\ row \in Rows
      /\ t.loaded # NoRow => row # NoRow
      /\ t.loaded.of = NoSession <=> t.loaded = NoRow
      /\ row.of = NoSession <=> row = NoRow
  BY DEF SyncOK, Known, RowOK
<1>2. NoSession \notin Sessions
  BY BillingAssumption
<1>3. Described(t) \in Rows /\ Described(t).of = t.of /\ Described(t).state = t.snap
  BY <1>1 DEF Described, Rows
<1>4. CASE t.loaded = NoRow
  BY <1>1, <1>2, <1>3, <1>4 DEF Written, RowOK, NoRow
<1>5. CASE t.loaded # NoRow
  <2> DEFINE keep(new, read, now) == IF new = read THEN now ELSE new
             o == keep(t.of, t.loaded.of, row.of)
             st == [status |-> keep(t.snap.status, t.loaded.state.status, row.state.status),
                    price |-> keep(t.snap.price, t.loaded.state.price, row.state.price),
                    cancelling |-> keep(t.snap.cancelling, t.loaded.state.cancelling,
                                        row.state.cancelling)]
  <2>1. /\ t.snap.status \in {"none", "active", "past_due", "canceled"}
        /\ t.snap.price \in Prices \union {NoPrice} /\ t.snap.cancelling \in BOOLEAN
        /\ row.state.status \in {"none", "active", "past_due", "canceled"}
        /\ row.state.price \in Prices \union {NoPrice} /\ row.state.cancelling \in BOOLEAN
        /\ row.state \in States /\ t.loaded.state \in States
        /\ DOMAIN t.snap = {"status", "price", "cancelling"}
    BY <1>1 DEF Rows, States
  <2>2. st \in States
    BY <2>1 DEF States
  <2>3. Written(t) = [of |-> o, state |-> st]
    <3>1. Written(t) = [of |-> o, state |-> [c \in DOMAIN t.snap |->
                                  keep(t.snap[c], t.loaded.state[c], row.state[c])]]
      BY <1>5 DEF Written
    <3>2. [c \in DOMAIN t.snap |-> keep(t.snap[c], t.loaded.state[c], row.state[c])] = st
      BY <2>1
    <3> QED BY <3>1, <3>2
  <2>4. o \in Sessions
    BY <1>1, <1>2, <1>5 DEF Rows
  <2>5. row = t.loaded \/ row = Described(t) => o = t.of /\ st = t.snap
    <3>1. t.snap = [status |-> t.snap.status, price |-> t.snap.price,
                    cancelling |-> t.snap.cancelling]
      BY <1>1 DEF States
    <3> QED BY <1>3, <3>1
  <2> HIDE DEF o, st
  <2>6. Written(t) \in Rows /\ Written(t).of \in Sessions
    BY <2>2, <2>3, <2>4 DEF Rows
  <2>7. row = t.loaded \/ row = Described(t) => Written(t) = Described(t)
    BY <2>3, <2>5 DEF Described
  <2>8. Written(t) # NoRow
    BY <1>2, <2>6 DEF NoRow
  <2> QED BY <1>2, <1>5, <2>6, <2>7, <2>8 DEF RowOK
<1> QED BY <1>4, <1>5

-----------------------------------------------------------------------------
(* Stripe.                                                                 *)

(* What is known stays so, whatever changes at Stripe. *)
KnownKept == \A s, v, state : Known(s, v, state) => Known(s, v, state)'

(* A change at Stripe: a new version, and events about it. *)
LEMMA ChangeTyped ==
    ASSUME TypeOK, CountsInv, NEW s \in Sessions, NEW state \in States,
           NEW kinds \in SUBSET SubKinds, "subscription" \in kinds,
           ChangeAtStripe(s, state, kinds), StripeInv
    PROVE  /\ version[s] + 1 \in Versions
           /\ live' \in [Sessions -> States] /\ version' \in [Sessions -> Versions]
           /\ emitted \subseteq emitted' /\ emitted' \subseteq SubEvents \union TopupEvents
           /\ Invoices(emitted) \subseteq Invoices(emitted')
           /\ live'[s] = state /\ version'[s] = version[s] + 1
           /\ \A r \in Sessions \ {s} : live'[r] = live[r] /\ version'[r] = version[r]
           /\ \A e \in emitted' \ emitted :
                 e.kind \in SubKinds /\ e.of = s /\ e.v = version[s] + 1 /\ e.snap = state
           /\ \E e \in emitted' : e.kind = "subscription" /\ e.of = s /\ e.v = version[s] + 1
<1> DEFINE n == version[s] + 1
           New == {[kind |-> k, of |-> s, v |-> n, snap |-> state] : k \in kinds}
<1>1. /\ live \in [Sessions -> States] /\ version \in [Sessions -> Versions]
      /\ emitted \subseteq SubEvents \union TopupEvents
      /\ version[s] \in Nat /\ MaxChanges \in Nat /\ faults \in Nat
  BY BillingAssumption DEF TypeOK, Versions
<1>2. /\ Changes < MaxChanges /\ live' = [live EXCEPT ![s] = state]
      /\ version' = [version EXCEPT ![s] = @ + 1] /\ emitted' = emitted \union New
  BY DEF ChangeAtStripe
<1>3. n \in Versions
  <2>1. version[s] =< Cardinality(SnapshotsOf(s)) /\ IsFiniteSet(Paid) /\ IsFiniteSet(Snapshots)
    BY DEF CountsInv
  <2>2. Cardinality(SnapshotsOf(s)) =< Cardinality(Snapshots)
    BY <2>1, FS_Subset DEF SnapshotsOf
  <2>3. Cardinality(Snapshots) \in Nat /\ Cardinality(Paid) \in Nat
    BY <2>1, FS_CardinalityType
  <2>4. Cardinality(SnapshotsOf(s)) \in Nat
    BY <2>1, FS_Subset, FS_CardinalityType DEF SnapshotsOf
  <2> QED BY <1>1, <1>2, <2>1, <2>2, <2>3, <2>4 DEF Changes, Versions
<1>4. \A e \in New : e \in SubEvents /\ e.of = s /\ e.v = n /\ e.snap = state /\ e.kind \in kinds
  BY <1>3 DEF SubEvents
<1>5. [kind |-> "subscription", of |-> s, v |-> n, snap |-> state] \in New
  OBVIOUS
<1>6. \E e \in New : e.kind = "subscription" /\ e.of = s /\ e.v = n
  BY <1>5
<1> HIDE DEF New
<1>7. /\ live' \in [Sessions -> States] /\ live'[s] = state
      /\ \A r \in Sessions \ {s} : live'[r] = live[r]
  BY <1>1, <1>2
<1>8. /\ version' \in [Sessions -> Versions] /\ version'[s] = n
      /\ \A r \in Sessions \ {s} : version'[r] = version[r]
  BY <1>1, <1>2, <1>3
<1>9. /\ emitted \subseteq emitted' /\ emitted' \subseteq SubEvents \union TopupEvents
      /\ Invoices(emitted) \subseteq Invoices(emitted')
  BY <1>1, <1>2, <1>4 DEF Invoices
<1>10. \A e \in emitted' \ emitted :
          e.kind \in SubKinds /\ e.of = s /\ e.v = n /\ e.snap = state
  BY <1>2, <1>4
<1>11. \E e \in emitted' : e.kind = "subscription" /\ e.of = s /\ e.v = n
  BY <1>2, <1>6
<1> QED BY <1>3, <1>7, <1>8, <1>9, <1>10, <1>11

(* A change adds one snapshot. *)
LEMMA ChangeCounted ==
    ASSUME TypeOK, CountsInv, StripeInv, NEW s \in Sessions, NEW state \in States,
           NEW kinds \in SUBSET SubKinds, "subscription" \in kinds,
           ChangeAtStripe(s, state, kinds), UNCHANGED <<faults, purchases, processed>>
    PROVE  CountsInv'
<1> DEFINE n == version[s] + 1
           e == [kind |-> "subscription", of |-> s, v |-> n, snap |-> state]
           New == {[kind |-> k, of |-> s, v |-> n, snap |-> state] : k \in kinds}
<1>1. /\ version[s] \in Nat /\ \A r \in Sessions : version[r] \in Nat /\ version'[r] \in Nat
      /\ MaxChanges \in Nat /\ faults \in Nat /\ faults' = faults
      /\ version'[s] = n /\ \A r \in Sessions \ {s} : version'[r] = version[r]
  BY ChangeTyped, BillingAssumption DEF TypeOK, Versions
<1>2. /\ Changes < MaxChanges /\ emitted' = emitted \union New
  BY DEF ChangeAtStripe
<1>3. e \in New /\ (\A x \in New : x.kind = "subscription" => x = e)
      /\ \A x \in New : x.kind # "topup" /\ x.of = s
  BY DEF SubKinds
<1>4. e \notin emitted
  <2>1. SUFFICES ASSUME e \in emitted
                 PROVE  FALSE
    OBVIOUS
  <2>2. Known(s, n, state)
    BY <2>1 DEF StripeInv
  <2> QED BY <1>1, <2>2 DEF Known
<1>5. e.kind = "subscription" /\ e.of = s
  OBVIOUS
<1> HIDE DEF e, New
<1>6. Snapshots' = Snapshots \union {e} /\ e \notin Snapshots
  BY <1>2, <1>3, <1>4, <1>5 DEF Snapshots
<1>7. Paid' = Paid
  BY <1>2, <1>3 DEF Paid
<1>8. /\ SnapshotsOf(s)' = SnapshotsOf(s) \union {e} /\ e \notin SnapshotsOf(s)
      /\ \A r \in Sessions \ {s} : SnapshotsOf(r)' = SnapshotsOf(r)
  BY <1>5, <1>6 DEF SnapshotsOf
<1>9. /\ IsFiniteSet(Paid) /\ IsFiniteSet(Snapshots) /\ IsFiniteSet(SnapshotsOf(s))
      /\ Cardinality(Paid) \in Nat /\ Cardinality(Snapshots) \in Nat
      /\ Cardinality(SnapshotsOf(s)) \in Nat
  <2>1. IsFiniteSet(Paid) /\ IsFiniteSet(Snapshots)
    BY DEF CountsInv
  <2>2. IsFiniteSet(SnapshotsOf(s))
    BY <2>1, FS_Subset DEF SnapshotsOf
  <2> QED BY <2>1, <2>2, FS_CardinalityType
<1>10. /\ IsFiniteSet(Snapshots \union {e})
       /\ Cardinality(Snapshots \union {e}) = Cardinality(Snapshots) + 1
  BY <1>6, <1>9, FS_AddElement
<1>11. Cardinality(SnapshotsOf(s) \union {e}) = Cardinality(SnapshotsOf(s)) + 1
  BY <1>8, <1>9, FS_AddElement
<1>12. IsFiniteSet(Paid') /\ IsFiniteSet(Snapshots')
  BY <1>6, <1>7, <1>9, <1>10
<1>13. Changes' =< MaxChanges
  <2>1. Changes' = faults' + Cardinality(Paid') + Cardinality(Snapshots')
    BY DEF Changes
  <2>2. Changes' = Changes + 1
    BY <1>1, <1>6, <1>7, <1>9, <1>10, <2>1 DEF Changes
  <2>3. Changes \in Nat
    BY <1>1, <1>9 DEF Changes
  <2> QED BY <1>1, <1>2, <2>2, <2>3
<1>14. \A r \in Sessions : version'[r] =< Cardinality(SnapshotsOf(r)')
  <2>1. \A r \in Sessions : version[r] =< Cardinality(SnapshotsOf(r))
    BY DEF CountsInv
  <2>2. version'[s] =< Cardinality(SnapshotsOf(s)')
    BY <1>1, <1>8, <1>9, <1>11, <2>1
  <2>3. ASSUME NEW r \in Sessions \ {s}  PROVE version'[r] =< Cardinality(SnapshotsOf(r)')
    BY <1>1, <1>8, <2>1
  <2> QED BY <2>2, <2>3
<1>15. \A t \in Payments : purchases'[t] =< Cardinality(Credits(t)')
  BY DEF CountsInv, Credits
<1> QED BY <1>12, <1>13, <1>14, <1>15 DEF CountsInv

(* Only a subscription that goes on, or a new one, changes. *)
LEMMA ChangeKnown ==
    ASSUME TypeOK, CountsInv, StripeInv, NEW s \in Sessions, NEW state \in States,
           state.status # "none",
           NEW kinds \in SUBSET SubKinds, "subscription" \in kinds,
           ChangeAtStripe(s, state, kinds), live[s].status # "canceled",
           \A r \in Sessions : session'[r] = "complete" <=> session[r] = "complete" \/ r = s
    PROVE  StripeInv' /\ KnownKept /\ Known(s, version[s], state)'
<1>1. /\ version[s] + 1 \in Versions
      /\ live' \in [Sessions -> States] /\ version' \in [Sessions -> Versions]
      /\ emitted \subseteq emitted'
      /\ live'[s] = state /\ version'[s] = version[s] + 1
      /\ \A r \in Sessions \ {s} : live'[r] = live[r] /\ version'[r] = version[r]
      /\ \A e \in emitted' \ emitted :
            e.kind \in SubKinds /\ e.of = s /\ e.v = version[s] + 1 /\ e.snap = state
      /\ \E e \in emitted' : e.kind = "subscription" /\ e.of = s /\ e.v = version[s] + 1
  BY ChangeTyped
<1>2. version \in [Sessions -> Nat] /\ version[s] \in Nat
  BY BillingAssumption DEF TypeOK, Versions
<1>3. Known(s, version[s], state)'
  BY <1>1, <1>2 DEF Known, Versions
<1>4. ASSUME NEW r, NEW v, NEW x, Known(r, v, x)
      PROVE  Known(r, v, x)'
  <2>1. CASE r = s
    BY <1>1, <1>2, <1>4, <2>1 DEF Known, Versions
  <2>2. CASE r # s
    BY <1>1, <1>4, <2>2 DEF Known
  <2> QED BY <2>1, <2>2
<1>5. ASSUME NEW r \in Sessions
      PROVE  /\ session'[r] = "complete" <=> version'[r] > 0
             /\ version'[r] = 0 => live'[r] = NoState
             /\ version'[r] > 0 => /\ live'[r].status # "none"
                                   /\ \E e \in Snapshots' : e.of = r /\ e.v = version'[r]
  <2>1. CASE r = s
    BY <1>1, <1>2, <2>1 DEF Snapshots
  <2>2. CASE r # s
    <3>1. /\ session[r] = "complete" <=> version[r] > 0
          /\ version[r] = 0 => live[r] = NoState
          /\ version[r] > 0 => /\ live[r].status # "none"
                               /\ \E e \in Snapshots : e.of = r /\ e.v = version[r]
      BY DEF StripeInv
    <3>2. Snapshots \subseteq Snapshots'
      BY <1>1 DEF Snapshots
    <3> QED BY <1>1, <2>2, <3>1, <3>2
  <2> QED BY <2>1, <2>2
<1>6. ASSUME NEW e \in emitted', e.kind # "topup"
      PROVE  Known(e.of, e.v, e.snap)'
  <2>1. CASE e \in emitted
    <3>1. Known(e.of, e.v, e.snap)
      BY <1>6, <2>1 DEF StripeInv
    <3> QED BY <1>4, <3>1
  <2>2. CASE e \notin emitted
    BY <1>1, <1>3, <1>6, <2>2
  <2> QED BY <2>1, <2>2
<1> QED BY <1>3, <1>4, <1>5, <1>6 DEF StripeInv, KnownKept

-----------------------------------------------------------------------------
(* Requests.                                                               *)

(* What a request knows outlasts what others do, if the row stays and      *)
(* credits are not taken back.                                             *)
Lasting ==
    /\ KnownKept
    /\ row # NoRow => row' # NoRow
    /\ emitted \subseteq emitted'
    /\ earnings \subseteq earnings' /\ doubtful \subseteq doubtful'
    /\ \A p \in Payments : purchases[p] > 0 => purchases'[p] > 0

(* What a request knows is still so after a step of another. *)
LEMMA KnowsStill ==
    ASSUME RequestsInv, Lasting, NEW t \in tx, t.event = NoEvent \/ t.event \notin processed',
           t.op = "topup" /\ t.of \notin doubtful' /\ ~ t.credited => purchases'[t.of] = 0
    PROVE  (SyncOK(t) /\ HandlesOK(t) /\ TopupOK(t))'
<1>1. t \in Requests /\ SyncOK(t) /\ HandlesOK(t) /\ TopupOK(t)
  BY DEF RequestsInv
<1>2. SyncOK(t)'
  <2>1. Known(t.of, t.v, t.snap) => Known(t.of, t.v, t.snap)'
    BY DEF Lasting, KnownKept
  <2>2. RowOK(t.loaded) => RowOK(t.loaded)'
    BY DEF RowOK
  <2> QED BY <1>1, <2>1, <2>2 DEF SyncOK, Lasting
<1>3. HandlesOK(t)'
  <2>1. t.event \in emitted => t.event # NoEvent \/ t.op \notin Webhooks
    BY <1>1 DEF HandlesOK, NoEvent, Webhooks, SubKinds
  <2>2. Source(t.event)' = Source(t.event)
    BY DEF Source
  <2> QED BY <1>1, <2>1, <2>2 DEF HandlesOK, Lasting
<1>4. TopupOK(t)'
  <2>1. t.op = "topup" => t.of \in Payments
    BY <1>1 DEF HandlesOK, Webhooks, Requests, SubEvents, TopupEvents, SubKinds, NoEvent
  <2> QED BY <1>1, <2>1 DEF TopupOK, Lasting
<1> QED BY <1>2, <1>3, <1>4

(* Some requests go on. *)
LEMMA RequestsStay ==
    ASSUME RequestsInv, Lasting, tx' \subseteq tx,
           \A t \in tx' : t.event = NoEvent \/ t.event \notin processed',
           \A t \in tx' : t.op = "topup" /\ t.of \notin doubtful' /\ ~ t.credited
                             => purchases'[t.of] = 0
    PROVE  RequestsInv'
<1>1. \A t \in tx' : (SyncOK(t) /\ HandlesOK(t) /\ TopupOK(t))'
  BY KnowsStill
<1>2. tx' \subseteq Requests'
  BY DEF RequestsInv, Requests, Syncs, Webhooks
<1> QED BY <1>1, <1>2 DEF RequestsInv, Lasting

(* A request begins that takes up an event nobody handles, or none. *)
LEMMA RequestsBegin ==
    ASSUME RequestsInv, Lasting, NEW r \in Requests, tx' = tx \union {r},
           UNCHANGED <<processed, purchases>>,
           (SyncOK(r) /\ HandlesOK(r) /\ TopupOK(r))',
           r.event = NoEvent \/ \A t \in tx : t.event # r.event,
           r.op = "topup" => r.of \in doubtful' \/ \A t \in tx : t.of # r.of
    PROVE  RequestsInv'
<1>1. \A t \in tx : (SyncOK(t) /\ HandlesOK(t) /\ TopupOK(t))'
  <2> SUFFICES ASSUME NEW t \in tx  PROVE (SyncOK(t) /\ HandlesOK(t) /\ TopupOK(t))'
    OBVIOUS
  <2>1. t.event = NoEvent \/ t.event \notin processed'
    BY DEF RequestsInv, HandlesOK
  <2>2. t.op = "topup" /\ t.of \notin doubtful' /\ ~ t.credited => purchases'[t.of] = 0
    BY DEF RequestsInv, TopupOK, Lasting
  <2> QED BY <2>1, <2>2, KnowsStill
<1>2. tx' \subseteq Requests'
  BY DEF RequestsInv, Requests, Syncs, Webhooks
<1>3. \A t, u \in tx' :
         /\ t.event = u.event => t = u \/ t.event = NoEvent
         /\ t.op = "topup" /\ u.op = "topup" /\ t.of = u.of /\ t.of \notin doubtful' => t = u
  BY DEF RequestsInv, Lasting
<1> QED BY <1>1, <1>2, <1>3 DEF RequestsInv

-----------------------------------------------------------------------------
(* A change at Stripe disturbs nothing here. *)
LEMMA ChangeKeeps ==
    ASSUME BillingInv, NEW s \in Sessions, NEW state \in States, state.status # "none",
           NEW kinds \in SUBSET SubKinds, "subscription" \in kinds,
           ChangeAtStripe(s, state, kinds), live[s].status # "canceled",
           \A r \in Sessions : session'[r] = "complete" <=> session[r] = "complete" \/ r = s,
           session' \in [Sessions -> {"unused", "open", "lost", "complete", "expired"}],
           UNCHANGED <<processed, row, pending, purchases, earnings, bonuses, recorded, started,
                       faults, applied, spoilt, doubtful>>
    PROVE  /\ StripeInv' /\ CountsInv' /\ RowInv' /\ CreditInv'
           /\ (ReferralCreditedOnce /\ PaymentCreditedOnce /\ CreatedOnce /\ ProcessedIsApplied)'
           /\ Lasting /\ Known(s, version[s], state)' /\ version'[s] = version[s] + 1
           /\ version' \in [Sessions -> Versions]
           /\ (\A t \in tx' : /\ t.op \in {"checkout", "change", "page", "topup"} \union SubKinds
                              /\ t.event \in emitted' \union {NoEvent})
                 => TypeOK'
<1>1. /\ version[s] + 1 \in Versions
      /\ live' \in [Sessions -> States] /\ version' \in [Sessions -> Versions]
      /\ emitted \subseteq emitted' /\ emitted' \subseteq SubEvents \union TopupEvents
      /\ Invoices(emitted) \subseteq Invoices(emitted')
      /\ live'[s] = state /\ version'[s] = version[s] + 1
      /\ \A r \in Sessions \ {s} : live'[r] = live[r] /\ version'[r] = version[r]
  BY ChangeTyped DEF BillingInv
<1>2. CountsInv'
  BY ChangeCounted DEF BillingInv
<1>3. StripeInv' /\ KnownKept /\ Known(s, version[s], state)'
  BY ChangeKnown DEF BillingInv
<1>4. RowInv'
  <2>1. version \in [Sessions -> Nat] /\ applied \in [Sessions -> Nat]
    BY BillingAssumption DEF BillingInv, TypeOK, Versions
  <2>2. row # NoRow => row.of \in Sessions
    BY DEF BillingInv, RowInv, RowOK, Rows
  <2>3. RowOK(row)'
    BY DEF BillingInv, RowInv, RowOK
  <2>4. \A r \in Sessions :
           applied[r] =< version'[r] /\ (applied[r] = version'[r] => r # s)
    BY <1>1, <2>1 DEF BillingInv, RowInv
  <2>5. \A r \in Sessions : /\ applied[r] > 0 => row # NoRow
                            /\ started[r] > 0 => applied[r] > 0
    BY DEF BillingInv, RowInv
  <2>6. "row" \notin spoilt =>
          /\ row # NoRow /\ applied[row.of] = version'[row.of] => row.state = live'[row.of]
          /\ \A e \in processed : e.kind # "topup" => e.v =< applied[e.of]
    BY <1>1, <2>2, <2>4 DEF BillingInv, RowInv
  <2>7. "history" \notin spoilt /\ row # NoRow /\ ~ Ongoing(row.state) =>
          applied[row.of] = version'[row.of] /\ live'[row.of].status = "canceled"
    BY <1>1, <2>2 DEF BillingInv, RowInv
  <2> QED BY <2>3, <2>4, <2>5, <2>6, <2>7 DEF RowInv
<1>5. CreditInv' /\ (ReferralCreditedOnce /\ PaymentCreditedOnce /\ CreatedOnce)'
  BY DEF BillingInv, CreditInv, ReferralCreditedOnce, PaymentCreditedOnce, CreatedOnce
<1>6. ProcessedIsApplied'
  BY DEF BillingInv, ProcessedIsApplied, Source
<1>7. Lasting
  BY <1>1, <1>3 DEF Lasting
<1>8. ASSUME \A t \in tx' : /\ t.op \in {"checkout", "change", "page", "topup"} \union SubKinds
                            /\ t.event \in emitted' \union {NoEvent}
      PROVE  TypeOK'
  BY <1>1, <1>8 DEF BillingInv, TypeOK
<1> QED BY <1>1, <1>2, <1>3, <1>4, <1>5, <1>6, <1>7, <1>8

(* The customer pays a checkout session: version 1 of a subscription. *)
LEMMA CompleteCheckoutKeeps ==
    ASSUME BillingInv, NEW s \in Sessions, CompleteCheckout(s)
    PROVE  BillingInv'
<1> DEFINE state == [status |-> "active", price |-> PriceOf[s], cancelling |-> FALSE]
<1>1. /\ session[s] = "open" /\ session' = [session EXCEPT ![s] = "complete"]
      /\ \A t \in tx : t.op = "checkout" => t.of # s
      /\ ChangeAtStripe(s, state, {"completed", "subscription", "paid"})
      /\ UNCHANGED <<processed, row, pending, purchases, earnings, bonuses, recorded, started,
                     tx, faults, applied, spoilt, doubtful>>
  BY DEF CompleteCheckout, creditVars, historyVars
<1>2. state \in States /\ state.status # "none"
  BY BillingAssumption DEF States
<1>3. live[s].status # "canceled"
  <2>1. version[s] \in Nat
    BY BillingAssumption DEF BillingInv, TypeOK, Versions
  <2>2. live[s] = NoState
    BY <1>1, <2>1 DEF BillingInv, StripeInv
  <2> QED BY <2>2 DEF NoState
<1>4. /\ session' \in [Sessions -> {"unused", "open", "lost", "complete", "expired"}]
      /\ session'[s] = "complete" /\ \A r \in Sessions \ {s} : session'[r] = session[r]
  BY <1>1 DEF BillingInv, TypeOK
<1>5. \A r \in Sessions : session'[r] = "complete" <=> session[r] = "complete" \/ r = s
  BY <1>4
<1>6. {"completed", "subscription", "paid"} \subseteq SubKinds
  BY DEF SubKinds
<1> HIDE DEF state
<1>7. /\ StripeInv' /\ CountsInv' /\ RowInv' /\ CreditInv'
      /\ (ReferralCreditedOnce /\ PaymentCreditedOnce /\ CreatedOnce /\ ProcessedIsApplied)'
      /\ Lasting
      /\ (\A t \in tx' : /\ t.op \in {"checkout", "change", "page", "topup"} \union SubKinds
                         /\ t.event \in emitted' \union {NoEvent})
            => TypeOK'
  BY <1>1, <1>2, <1>3, <1>4, <1>5, <1>6, ChangeKeeps
<1>8. TypeOK'
  BY <1>1, <1>7 DEF BillingInv, TypeOK, Lasting
<1>9. RequestsInv'
  <2>1. \A t \in tx' : t.event = NoEvent \/ t.event \notin processed'
    BY <1>1 DEF BillingInv, RequestsInv, HandlesOK
  <2>2. \A t \in tx' : t.op = "topup" /\ t.of \notin doubtful' /\ ~ t.credited
                             => purchases'[t.of] = 0
    BY <1>1 DEF BillingInv, RequestsInv, TopupOK
  <2> QED BY <1>1, <1>7, <2>1, <2>2, RequestsStay DEF BillingInv
<1>10. CheckoutInv'
  BY <1>1, <1>4 DEF BillingInv, TypeOK, CheckoutInv, Markers
<1> QED BY <1>7, <1>8, <1>9, <1>10 DEF BillingInv

(* A session expires: there is an open one less. *)
LEMMA ExpireCheckoutKeeps ==
    ASSUME BillingInv, NEW s \in Sessions, ExpireCheckout(s)
    PROVE  BillingInv'
<1>1. /\ session[s] = "open" /\ session' = [session EXCEPT ![s] = "expired"]
      /\ UNCHANGED <<live, version, emitted, processed, row, pending, purchases, earnings,
                     bonuses, recorded, started, tx, faults, applied, spoilt, doubtful>>
  BY DEF ExpireCheckout, creditVars, historyVars
<1>2. /\ session' \in [Sessions -> {"unused", "open", "lost", "complete", "expired"}]
      /\ session'[s] = "expired" /\ \A r \in Sessions \ {s} : session'[r] = session[r]
  BY <1>1 DEF BillingInv, TypeOK
<1>3. TypeOK'
  BY <1>1, <1>2 DEF BillingInv, TypeOK
<1>4. StripeInv'
  <2>1. \A r \in Sessions : session'[r] = "complete" <=> session[r] = "complete"
    BY <1>1, <1>2
  <2> QED BY <1>1, <2>1 DEF BillingInv, StripeInv, Known, Snapshots
<1>5. CountsInv' /\ RowInv' /\ CreditInv'
  BY <1>1 DEF BillingInv, CountsInv, RowInv, CreditInv, Paid, Snapshots, SnapshotsOf, Credits,
              Changes, RowOK
<1>6. RequestsInv'
  BY <1>1 DEF BillingInv, RequestsInv, SyncOK, HandlesOK, TopupOK, Known, RowOK, Source
<1>7. CheckoutInv'
  BY <1>1, <1>2 DEF BillingInv, TypeOK, CheckoutInv, Markers
<1>8. (ReferralCreditedOnce /\ PaymentCreditedOnce /\ CreatedOnce /\ ProcessedIsApplied)'
  BY <1>1 DEF BillingInv, ReferralCreditedOnce, PaymentCreditedOnce, CreatedOnce,
              ProcessedIsApplied, Source
<1> QED BY <1>3, <1>4, <1>5, <1>6, <1>7, <1>8 DEF BillingInv

(* Renewals and failed payments touch nothing but Stripe's own. *)
LEMMA ChangeOutsideKeeps ==
    ASSUME BillingInv, NEW s \in Sessions, ChangeOutside(s)
    PROVE  BillingInv'
<1>1. /\ live[s].status \in {"active", "past_due"}
      /\ UNCHANGED <<session, processed, row, pending, purchases, earnings, bonuses, recorded,
                     started, tx, faults, applied, spoilt, doubtful>>
  BY DEF ChangeOutside, Ongoing, creditVars, historyVars
<1>2. PICK state \in States, kinds \in SUBSET SubKinds :
        /\ state.status # "none" /\ "subscription" \in kinds
        /\ ChangeAtStripe(s, state, kinds)
  <2>1. live[s] \in States
    BY DEF BillingInv, TypeOK
  <2>2. \A x \in {"active", "past_due", "canceled"} :
           [live[s] EXCEPT !.status = x] \in States /\ [live[s] EXCEPT !.status = x].status # "none"
    BY <2>1 DEF States
  <2>3. {"subscription", "paid"} \subseteq SubKinds /\ {"subscription", "failed"} \subseteq SubKinds
        /\ {"subscription"} \subseteq SubKinds
    BY DEF SubKinds
  <2> QED BY <2>2, <2>3 DEF ChangeOutside
<1>3. live[s].status # "canceled"
  BY <1>1
<1>4. /\ \A r \in Sessions : session'[r] = "complete" <=> session[r] = "complete" \/ r = s
      /\ session' \in [Sessions -> {"unused", "open", "lost", "complete", "expired"}]
  <2>1. version[s] \in Nat /\ session \in [Sessions -> {"unused", "open", "lost", "complete", "expired"}]
    BY BillingAssumption DEF BillingInv, TypeOK, Versions
  <2>2. version[s] # 0
    BY <1>1, <2>1 DEF BillingInv, StripeInv, NoState
  <2> QED BY <1>1, <2>1, <2>2 DEF BillingInv, StripeInv
<1>5. /\ StripeInv' /\ CountsInv' /\ RowInv' /\ CreditInv'
      /\ (ReferralCreditedOnce /\ PaymentCreditedOnce /\ CreatedOnce /\ ProcessedIsApplied)'
      /\ Lasting
      /\ (\A t \in tx' : /\ t.op \in {"checkout", "change", "page", "topup"} \union SubKinds
                         /\ t.event \in emitted' \union {NoEvent})
            => TypeOK'
  BY <1>1, <1>2, <1>3, <1>4, ChangeKeeps
<1>6. TypeOK'
  BY <1>1, <1>5 DEF BillingInv, TypeOK, Lasting
<1>7. RequestsInv'
  <2>1. \A t \in tx' : t.event = NoEvent \/ t.event \notin processed'
    BY <1>1 DEF BillingInv, RequestsInv, HandlesOK
  <2>2. \A t \in tx' : t.op = "topup" /\ t.of \notin doubtful' /\ ~ t.credited
                             => purchases'[t.of] = 0
    BY <1>1 DEF BillingInv, RequestsInv, TopupOK
  <2> QED BY <1>1, <1>5, <2>1, <2>2, RequestsStay DEF BillingInv
<1>8. CheckoutInv'
  BY <1>1 DEF BillingInv, CheckoutInv
<1> QED BY <1>5, <1>6, <1>7, <1>8 DEF BillingInv

(* A payment is counted once, however many events tell of it. *)
LEMMA PayTopupKeeps ==
    ASSUME BillingInv, NEW p \in Payments, NEW copies \in SUBSET Copies, PayTopup(p, copies)
    PROVE  BillingInv'
<1> DEFINE New == PaidEvents(p, copies)
<1>1. /\ \A e \in emitted : e.kind = "topup" => e.of # p
      /\ copies # {} /\ Changes < MaxChanges /\ emitted' = emitted \union New
      /\ UNCHANGED <<session, live, version, processed, row, pending, purchases, earnings,
                     bonuses, recorded, started, tx, faults, applied, spoilt, doubtful>>
  BY DEF PayTopup, creditVars, historyVars
<1>2. /\ \A e \in New : e \in TopupEvents /\ e.kind = "topup" /\ e.of = p
      /\ New # {}
  <2>1. \A i \in copies : [kind |-> "topup", of |-> p, v |-> i, snap |-> NoState] \in TopupEvents
    BY DEF TopupEvents
  <2>2. PICK i \in copies : TRUE
    BY <1>1
  <2>3. [kind |-> "topup", of |-> p, v |-> i, snap |-> NoState] \in New
    BY DEF PaidEvents
  <2>4. \A e \in New : e \in TopupEvents /\ e.kind = "topup" /\ e.of = p
    BY <2>1 DEF PaidEvents
  <2> QED BY <2>3, <2>4
<1> HIDE DEF New
<1>3. Invoices(emitted') = Invoices(emitted) /\ Snapshots' = Snapshots
  BY <1>1, <1>2 DEF Invoices, Snapshots
<1>4. TypeOK'
  BY <1>1, <1>2, <1>3 DEF BillingInv, TypeOK
<1>5. StripeInv'
  BY <1>1, <1>2, <1>3 DEF BillingInv, StripeInv, Known
<1>6. CountsInv'
  <2>1. Paid' = Paid \union {p} /\ p \notin Paid
    BY <1>1, <1>2 DEF Paid
  <2>2. /\ IsFiniteSet(Paid) /\ IsFiniteSet(Snapshots) /\ faults \in Nat /\ MaxChanges \in Nat
        /\ \A s \in Sessions : version[s] =< Cardinality(SnapshotsOf(s))
        /\ \A t \in Payments : purchases[t] =< Cardinality(Credits(t))
    BY BillingAssumption DEF BillingInv, CountsInv, TypeOK
  <2>3. IsFiniteSet(Paid \union {p}) /\ Cardinality(Paid \union {p}) = Cardinality(Paid) + 1
    BY <2>1, <2>2, FS_AddElement
  <2>4. Cardinality(Paid) \in Nat /\ Cardinality(Snapshots) \in Nat
    BY <2>2, FS_CardinalityType
  <2>5. Changes' =< MaxChanges
    <3>1. Changes' = faults + Cardinality(Paid') + Cardinality(Snapshots')
      BY <1>1 DEF Changes
    <3>2. Changes' = Changes + 1
      BY <1>3, <2>1, <2>2, <2>3, <2>4, <3>1 DEF Changes
    <3>3. Changes \in Nat
      BY <2>2, <2>4 DEF Changes
    <3> QED BY <1>1, <2>2, <3>2, <3>3
  <2>6. \A s \in Sessions : version'[s] =< Cardinality(SnapshotsOf(s)')
    BY <1>1, <1>3, <2>2 DEF SnapshotsOf
  <2>7. \A t \in Payments : purchases'[t] =< Cardinality(Credits(t)')
    BY <1>1, <2>2 DEF Credits
  <2>8. IsFiniteSet(Paid') /\ IsFiniteSet(Snapshots')
    BY <1>3, <2>1, <2>2, <2>3
  <2> QED BY <2>5, <2>6, <2>7, <2>8 DEF CountsInv
<1>7. RowInv' /\ CreditInv' /\ CheckoutInv'
  BY <1>1 DEF BillingInv, RowInv, CreditInv, CheckoutInv, RowOK
<1>8. RequestsInv'
  <2>1. Lasting
    BY <1>1 DEF Lasting, KnownKept, Known
  <2>2. \A t \in tx' : t.event = NoEvent \/ t.event \notin processed'
    BY <1>1 DEF BillingInv, RequestsInv, HandlesOK
  <2>3. \A t \in tx' : t.op = "topup" /\ t.of \notin doubtful' /\ ~ t.credited
                             => purchases'[t.of] = 0
    BY <1>1 DEF BillingInv, RequestsInv, TopupOK
  <2> QED BY <1>1, <2>1, <2>2, <2>3, RequestsStay DEF BillingInv
<1>9. (ReferralCreditedOnce /\ PaymentCreditedOnce /\ CreatedOnce /\ ProcessedIsApplied)'
  BY <1>1 DEF BillingInv, ReferralCreditedOnce, PaymentCreditedOnce, CreatedOnce,
              ProcessedIsApplied, Source
<1> QED BY <1>4, <1>5, <1>6, <1>7, <1>8, <1>9 DEF BillingInv

-----------------------------------------------------------------------------
(* Requests that begin.                                                    *)

(* A request of which only the operation is known is a request. *)
LEMMA IdleIs ==
    /\ \A x \in Requests, op \in {"checkout"} \union Syncs \union Webhooks :
          [x EXCEPT !.op = op] \in Requests
    /\ Idle.of = NoSession /\ Idle.v = 0 /\ Idle.snap = NoState /\ Idle.loaded = NoRow
    /\ Idle.marker = NoSession /\ Idle.event = NoEvent /\ ~ Idle.credited /\ ~ Idle.earned
    /\ Idle.credited \in BOOLEAN /\ Idle.earned \in BOOLEAN
    /\ [Idle EXCEPT !.op = "checkout"] \in Requests
<1>1. 0 \in Versions
  BY BillingAssumption DEF Versions
<1>2. NoState \in States
  BY DEF NoState, States
<1>3. NoRow \in Rows
  BY <1>2 DEF NoRow, Rows
<1>4. \A x \in Requests, op \in {"checkout"} \union Syncs \union Webhooks :
         [x EXCEPT !.op = op] \in Requests
  BY DEF Requests
<1>5. [Idle EXCEPT !.op = "checkout"] \in Requests
  BY <1>1, <1>2, <1>3 DEF Idle, Requests, Markers
<1> QED BY <1>4, <1>5 DEF Idle

(* What a sync reads, field by field. *)
LEMMA LoadIs ==
    ASSUME BillingInv, NEW op \in Syncs, NEW s \in Sessions, NEW v \in Versions,
           NEW state \in States
    PROVE  LET x == Load(op, s, v, state)
           IN  /\ x \in Requests /\ x.op = op /\ x.of = s /\ x.v = v /\ x.snap = state
               /\ x.loaded = row /\ x.marker = pending /\ x.event = NoEvent
               /\ ~ x.credited /\ ~ x.earned
<1> DEFINE a == [Idle EXCEPT !.op = op]
           b == [a EXCEPT !.of = s]
           c == [b EXCEPT !.v = v]
           d == [c EXCEPT !.snap = state]
           e == [d EXCEPT !.loaded = row]
           x == [e EXCEPT !.marker = pending]
<1>1. row \in Rows /\ pending \in Markers
  BY DEF BillingInv, TypeOK
<1>2. a = [[Idle EXCEPT !.op = "checkout"] EXCEPT !.op = op]
  BY DEF Idle
<1>3. /\ a \in Requests /\ a.op = op /\ a.event = NoEvent /\ ~ a.credited /\ ~ a.earned
  BY <1>2, IdleIs DEF Requests
<1> HIDE DEF a
<1>4. b \in Requests /\ b.op = op /\ b.of = s /\ b.event = NoEvent /\ ~ b.credited /\ ~ b.earned
  BY <1>3 DEF Requests
<1> HIDE DEF b
<1>5. c \in Requests /\ c.op = op /\ c.of = s /\ c.v = v /\ c.event = NoEvent
      /\ ~ c.credited /\ ~ c.earned
  BY <1>4 DEF Requests
<1> HIDE DEF c
<1>6. d \in Requests /\ d.op = op /\ d.of = s /\ d.v = v /\ d.snap = state
      /\ d.event = NoEvent /\ ~ d.credited /\ ~ d.earned
  BY <1>5 DEF Requests
<1> HIDE DEF d
<1>7. e \in Requests /\ e.op = op /\ e.of = s /\ e.v = v /\ e.snap = state /\ e.loaded = row
      /\ e.event = NoEvent /\ ~ e.credited /\ ~ e.earned
  BY <1>1, <1>6 DEF Requests
<1> HIDE DEF e
<1>8. x \in Requests /\ x.op = op /\ x.of = s /\ x.v = v /\ x.snap = state /\ x.loaded = row
      /\ x.marker = pending /\ x.event = NoEvent /\ ~ x.credited /\ ~ x.earned
  BY <1>1, <1>7 DEF Requests
<1>9. Load(op, s, v, state) = x
  BY DEF Load, a, b, c, d, e
<1> QED BY <1>8, <1>9

(* A request that begins asks and reads. *)
LEMMA BeginKeeps ==
    ASSUME BillingInv, NEW r \in Requests, tx' = tx \union {r}, r.op # "checkout",
           UNCHANGED <<session, live, version, emitted, processed, row, pending, purchases,
                       earnings, bonuses, recorded, started, faults, applied, spoilt>>,
           doubtful \subseteq doubtful', doubtful' \subseteq Sources,
           (SyncOK(r) /\ HandlesOK(r) /\ TopupOK(r))',
           r.event = NoEvent \/ \A t \in tx : t.event # r.event,
           r.op = "topup" => r.of \in doubtful' \/ \A t \in tx : t.of # r.of
    PROVE  BillingInv'
<1>1. TypeOK'
  <2>1. /\ r.op \in {"checkout", "change", "page", "topup"} \union SubKinds
        /\ r.event \in emitted' \union {NoEvent}
    BY DEF Requests, Syncs, Webhooks, HandlesOK
  <2> QED BY <2>1 DEF BillingInv, TypeOK
<1>2. StripeInv'
  BY DEF BillingInv, StripeInv, Known, Snapshots
<1>3. CountsInv' /\ RowInv' /\ CreditInv'
  BY DEF BillingInv, CountsInv, RowInv, CreditInv, Paid, Snapshots, SnapshotsOf, Credits,
         Changes, RowOK
<1>4. RequestsInv'
  <2>1. Lasting
    BY DEF Lasting, KnownKept, Known
  <2> QED BY <2>1, RequestsBegin DEF BillingInv
<1>5. CheckoutInv'
  BY DEF BillingInv, CheckoutInv
<1>6. (ReferralCreditedOnce /\ PaymentCreditedOnce /\ CreatedOnce /\ ProcessedIsApplied)'
  BY DEF BillingInv, ReferralCreditedOnce, PaymentCreditedOnce, CreatedOnce,
         ProcessedIsApplied, Source
<1> QED BY <1>1, <1>2, <1>3, <1>4, <1>5, <1>6 DEF BillingInv

(* sync_checkout_session_by_id reads the newest version. *)
LEMMA SyncPageKeeps ==
    ASSUME BillingInv, NEW s \in Sessions, SyncPageBegin(s)
    PROVE  BillingInv'
<1> DEFINE read == Load("page", s, version[s], live[s])
<1>1. /\ session[s] = "complete" /\ tx' = tx \union {read}
      /\ UNCHANGED <<session, live, version, emitted, processed, row, pending, purchases,
                     earnings, bonuses, recorded, started, faults, applied, spoilt, doubtful>>
  BY DEF SyncPageBegin, Begin, stripeVars, creditVars, historyVars
<1>2. version[s] \in Versions /\ live[s] \in States /\ "page" \in Syncs
  BY DEF BillingInv, TypeOK, Syncs
<1>3. PICK r \in Requests :
         /\ tx' = tx \union {r}
         /\ r.op = "page" /\ r.of = s /\ r.v = version[s] /\ r.snap = live[s]
         /\ r.loaded = row /\ r.event = NoEvent
  BY <1>1, <1>2, LoadIs
<1> HIDE DEF read
<1>4. (SyncOK(r) /\ HandlesOK(r) /\ TopupOK(r))'
  <2>1. Known(s, version[s], live[s])
    BY <1>1, <1>2 DEF BillingInv, StripeInv, Known, Versions
  <2>2. RowOK(row)
    BY DEF BillingInv, RowInv
  <2> QED BY <1>1, <1>3, <2>1, <2>2
          DEF SyncOK, HandlesOK, TopupOK, Webhooks, SubKinds, RowOK, Known
<1> QED BY <1>1, <1>3, <1>4, BeginKeeps DEF BillingInv, TypeOK

(* An event that nobody handles is taken up (process_webhook). *)
LEMMA ReceiveSubKeeps ==
    ASSUME BillingInv, NEW e \in emitted, ReceiveSub(e)
    PROVE  BillingInv'
<1> DEFINE s == e.of
           v == IF e.kind = "subscription" THEN e.v ELSE version[s]
           state == IF e.kind = "subscription" THEN e.snap ELSE live[s]
           earned == Source(e) \in earnings
           read == Load(e.kind, s, v, state)
           x == [read EXCEPT !.event = e]
           y == [x EXCEPT !.earned = earned]
<1>1. /\ e.kind \in SubKinds /\ e \notin processed /\ \A t \in tx : t.event # e
      /\ tx' = tx \union {y}
      /\ UNCHANGED <<session, live, version, emitted, processed, row, pending, purchases,
                     earnings, bonuses, recorded, started, faults, applied, spoilt, doubtful>>
  BY DEF ReceiveSub, Dispatched, Begin, stripeVars, creditVars, historyVars
<1>2. Known(e.of, e.v, e.snap) /\ e.kind # "topup"
  BY <1>1 DEF BillingInv, StripeInv, SubKinds
<1>3. Known(s, v, state) /\ s \in Sessions /\ v \in Versions /\ state \in States /\ e.v =< v
  <2>1. /\ s \in Sessions /\ version[s] \in Versions /\ live[s] \in States /\ version[s] > 0
    BY <1>2, BillingAssumption DEF BillingInv, TypeOK, Known, Versions
  <2>2. Known(s, version[s], live[s])
    BY <2>1 DEF BillingInv, StripeInv, Known, Versions
  <2>3. e.v =< version[s] /\ e.v \in Nat /\ version[s] \in Nat
    BY <1>2, <2>1, BillingAssumption DEF Known, Versions
  <2> QED BY <1>2, <2>1, <2>2, <2>3 DEF Known
<1> HIDE DEF v, state
<1>4. /\ e \in SubEvents /\ e \in SubEvents \union TopupEvents \union {NoEvent} /\ e # NoEvent
      /\ e.kind \in Syncs /\ e.kind \in Webhooks /\ earned \in BOOLEAN
  BY <1>1 DEF BillingInv, TypeOK, SubEvents, TopupEvents, SubKinds, NoEvent, Syncs, Webhooks
<1> HIDE DEF earned
<1>5. /\ read \in Requests /\ read.op = e.kind /\ read.of = s /\ read.v = v /\ read.snap = state
      /\ read.loaded = row /\ ~ read.credited
  BY <1>3, <1>4, LoadIs
<1> HIDE DEF read
<1>6. /\ x \in Requests /\ x.op = e.kind /\ x.of = s /\ x.v = v /\ x.snap = state
      /\ x.loaded = row /\ x.event = e
  BY <1>4, <1>5 DEF Requests
<1> HIDE DEF x
<1>7. PICK r \in Requests :
         /\ tx' = tx \union {r}
         /\ r.op = e.kind /\ r.of = s /\ r.v = v /\ r.snap = state
         /\ r.loaded = row /\ r.event = e /\ r.earned = earned
  <2>1. /\ y \in Requests /\ y.op = e.kind /\ y.of = s /\ y.v = v /\ y.snap = state
        /\ y.loaded = row /\ y.event = e /\ y.earned = earned
    BY <1>4, <1>6 DEF Requests
  <2> HIDE DEF y
  <2> QED BY <1>1, <2>1
<1> HIDE DEF y
<1>8. SyncOK(r)'
  <2>1. RowOK(row)
    BY DEF BillingInv, RowInv
  <2> QED BY <1>1, <1>3, <1>7, <2>1 DEF SyncOK, RowOK, Known
<1>9. HandlesOK(r)'
  BY <1>1, <1>2, <1>3, <1>4, <1>7 DEF HandlesOK, earned, Source
<1>10. TopupOK(r)'
  BY <1>2, <1>7 DEF TopupOK
<1>11. r.op # "checkout" /\ r.op # "topup"
  BY <1>1, <1>7 DEF SubKinds
<1>12. doubtful' \subseteq Sources
  BY <1>1 DEF BillingInv, TypeOK
<1> QED BY <1>1, <1>7, <1>8, <1>9, <1>10, <1>11, <1>12, BeginKeeps

(* ... and one of a payment.  A second one at a time makes it doubtful. *)
LEMMA ReceiveTopupKeeps ==
    ASSUME BillingInv, NEW e \in emitted, ReceiveTopup(e)
    PROVE  BillingInv'
<1> DEFINE p == e.of
           credited == purchases[p] > 0
           earned == p \in earnings
           a == [Idle EXCEPT !.op = "topup"]
           b == [a EXCEPT !.of = p]
           c == [b EXCEPT !.event = e]
           d == [c EXCEPT !.credited = credited]
           y == [d EXCEPT !.earned = earned]
<1>1. /\ e.kind = "topup" /\ e \notin processed /\ \A t \in tx : t.event # e
      /\ tx' = tx \union {y}
      /\ doubtful' = IF \E t \in tx : t.of = p THEN doubtful \union {p} ELSE doubtful
      /\ UNCHANGED <<session, live, version, emitted, processed, row, pending, purchases,
                     earnings, bonuses, recorded, started, faults, applied, spoilt>>
  BY DEF ReceiveTopup, Dispatched, Begin, stripeVars, creditVars
<1>2. /\ p \in Payments /\ e \in SubEvents \union TopupEvents \union {NoEvent} /\ e # NoEvent
      /\ credited \in BOOLEAN /\ earned \in BOOLEAN /\ "topup" \in Webhooks
  BY <1>1 DEF BillingInv, TypeOK, SubEvents, TopupEvents, SubKinds, NoEvent, Webhooks
<1>3. purchases[p] \in Nat
  <2>1. Cardinality(Copies) \in Nat
    BY BillingAssumption, FS_CardinalityType
  <2> QED BY <1>2, <2>1 DEF BillingInv, TypeOK, Purchases
<1> HIDE DEF credited, earned
<1>4. a \in Requests /\ a.op = "topup"
  <2>1. a = [[Idle EXCEPT !.op = "checkout"] EXCEPT !.op = "topup"]
    BY DEF Idle
  <2> QED BY <1>2, <2>1, IdleIs DEF Requests
<1> HIDE DEF a
<1>5. b \in Requests /\ b.op = "topup" /\ b.of = p
  BY <1>2, <1>4 DEF Requests
<1> HIDE DEF b
<1>6. c \in Requests /\ c.op = "topup" /\ c.of = p /\ c.event = e
  BY <1>2, <1>5 DEF Requests
<1> HIDE DEF c
<1>7. d \in Requests /\ d.op = "topup" /\ d.of = p /\ d.event = e /\ d.credited = credited
  BY <1>2, <1>6 DEF Requests
<1> HIDE DEF d
<1>8. PICK r \in Requests :
         /\ tx' = tx \union {r}
         /\ r.op = "topup" /\ r.of = p /\ r.event = e /\ r.credited = credited
         /\ r.earned = earned
  <2>1. y \in Requests /\ y.op = "topup" /\ y.of = p /\ y.event = e /\ y.credited = credited
        /\ y.earned = earned
    BY <1>2, <1>7 DEF Requests
  <2> HIDE DEF y
  <2> QED BY <1>1, <2>1
<1> HIDE DEF y
<1>9. SyncOK(r)'
  BY <1>8 DEF SyncOK, Syncs, SubKinds
<1>10. HandlesOK(r)'
  BY <1>1, <1>2, <1>8 DEF HandlesOK, earned, Source
<1>11. TopupOK(r)'
  <2>1. credited <=> purchases[p] > 0
    BY DEF credited
  <2>2. earned <=> p \in earnings
    BY DEF earned
  <2>3. Referred => (p \in earnings <=> purchases[p] > 0)
    BY <1>2 DEF BillingInv, CreditInv
  <2>4. ~ (purchases[p] > 0) => purchases[p] = 0
    BY <1>3
  <2>5. UNCHANGED purchases /\ r.of = p
    BY <1>1, <1>8
  <2> QED BY ONLY <1>8, <2>1, <2>2, <2>3, <2>4, <2>5 DEF TopupOK
<1>12. doubtful \subseteq doubtful' /\ doubtful' \subseteq Sources
  BY <1>1, <1>2 DEF BillingInv, TypeOK, Sources
<1>13. r.of \in doubtful' \/ \A t \in tx : t.of # r.of
  BY <1>1, <1>8
<1> QED BY <1>1, <1>8, <1>9, <1>10, <1>11, <1>12, <1>13, BeginKeeps

(* A request that changes its subscription at Stripe syncs the answer. *)
LEMMA ChangeBegins ==
    ASSUME BillingInv, NEW s \in Sessions, NEW state \in States, state.status # "none",
           Ongoing(live[s]), ChangeAtStripe(s, state, {"subscription"}),
           Begin(Load("change", s, version[s] + 1, state)),
           UNCHANGED <<session, processed, row, pending, purchases, earnings, bonuses, recorded,
                       started, faults, applied, spoilt, doubtful>>
    PROVE  BillingInv'
<1>1. live[s].status # "canceled" /\ live[s].status # "none"
  BY DEF Ongoing
<1>2. /\ \A r \in Sessions : session'[r] = "complete" <=> session[r] = "complete" \/ r = s
      /\ session' \in [Sessions -> {"unused", "open", "lost", "complete", "expired"}]
  <2>1. version[s] \in Nat /\ session \in [Sessions -> {"unused", "open", "lost", "complete", "expired"}]
    BY BillingAssumption DEF BillingInv, TypeOK, Versions
  <2>2. version[s] # 0
    BY <1>1, <2>1 DEF BillingInv, StripeInv, NoState
  <2> QED BY <2>1, <2>2 DEF BillingInv, StripeInv
<1>3. {"subscription"} \subseteq SubKinds /\ "change" \in Syncs
  BY DEF SubKinds, Syncs
<1>4. /\ StripeInv' /\ CountsInv' /\ RowInv' /\ CreditInv'
      /\ (ReferralCreditedOnce /\ PaymentCreditedOnce /\ CreatedOnce /\ ProcessedIsApplied)'
      /\ Lasting /\ Known(s, version[s], state)' /\ version'[s] = version[s] + 1
      /\ version' \in [Sessions -> Versions]
      /\ (\A t \in tx' : /\ t.op \in {"checkout", "change", "page", "topup"} \union SubKinds
                         /\ t.event \in emitted' \union {NoEvent})
            => TypeOK'
  BY <1>1, <1>2, <1>3, ChangeKeeps
<1>5. PICK r \in Requests :
         /\ tx' = tx \union {r}
         /\ r.op = "change" /\ r.of = s /\ r.v = version'[s] /\ r.snap = state
         /\ r.loaded = row /\ r.event = NoEvent
  <2> DEFINE n == version'[s]
  <2>1. n \in Versions /\ version[s] + 1 = n
    BY <1>4
  <2> HIDE DEF n
  <2>2. tx' = tx \union {Load("change", s, n, state)}
    BY <2>1 DEF Begin
  <2>3. LET x == Load("change", s, n, state)
        IN  /\ x \in Requests /\ x.op = "change" /\ x.of = s /\ x.v = n /\ x.snap = state
            /\ x.loaded = row /\ x.event = NoEvent
    BY <1>3, <2>1, LoadIs
  <2> QED BY <2>2, <2>3 DEF n
<1>6. TypeOK'
  BY <1>4, <1>5 DEF BillingInv, TypeOK, Lasting
<1>7. (SyncOK(r) /\ HandlesOK(r) /\ TopupOK(r))'
  <2>1. Known(r.of, r.v, r.snap)'
    BY <1>4, <1>5 DEF Known
  <2>2. RowOK(r.loaded)'
    BY <1>5 DEF BillingInv, RowInv, RowOK
  <2> QED BY <1>5, <2>1, <2>2 DEF SyncOK, HandlesOK, TopupOK, Webhooks, SubKinds
<1>8. RequestsInv'
  <2>1. r.op # "topup"
    BY <1>5
  <2> QED BY <1>4, <1>5, <1>7, <2>1, RequestsBegin DEF BillingInv
<1>9. CheckoutInv'
  BY <1>5 DEF BillingInv, CheckoutInv
<1> QED BY <1>4, <1>6, <1>8, <1>9 DEF BillingInv

(* change_subscription_plan: only of a subscription that goes on. *)
LEMMA ChangePlanKeeps ==
    ASSUME BillingInv, NEW p \in Prices, ChangePlanBegin(p)
    PROVE  BillingInv'
<1> DEFINE s == row.of
           state == [live[s] EXCEPT !.price = p]
<1>1. /\ row.state.status = "active" /\ Ongoing(live[s])
      /\ ChangeAtStripe(s, state, {"subscription"})
      /\ Begin(Load("change", s, version[s] + 1, state))
      /\ UNCHANGED <<session, processed, row, pending, purchases, earnings, bonuses, recorded,
                     started, faults, applied, spoilt, doubtful>>
  BY DEF ChangePlanBegin, Active, creditVars, historyVars
<1>2. s \in Sessions
  <2>1. row # NoRow
    BY <1>1 DEF NoRow, NoState
  <2> QED BY <2>1 DEF BillingInv, RowInv, RowOK, Rows
<1>3. state \in States /\ state.status # "none"
  <2>1. live[s] \in States /\ live[s].status # "none"
    BY <1>1, <1>2 DEF BillingInv, TypeOK, Ongoing
  <2> QED BY <2>1 DEF States
<1>4. PICK u \in Sessions, x \in States : u = s /\ x = state
  BY <1>2, <1>3
<1> HIDE DEF s, state
<1> QED BY <1>1, <1>3, <1>4, ChangeBegins

(* cancel_subscription likewise. *)
LEMMA CancelKeeps ==
    ASSUME BillingInv, NEW atPeriodEnd \in BOOLEAN, CancelBegin(atPeriodEnd)
    PROVE  BillingInv'
<1> DEFINE s == row.of
           state == IF atPeriodEnd THEN [live[s] EXCEPT !.cancelling = TRUE]
                    ELSE [live[s] EXCEPT !.status = "canceled"]
<1>1. /\ row # NoRow /\ Ongoing(live[s])
      /\ ChangeAtStripe(s, state, {"subscription"})
      /\ Begin(Load("change", s, version[s] + 1, state))
      /\ UNCHANGED <<session, processed, row, pending, purchases, earnings, bonuses, recorded,
                     started, faults, applied, spoilt, doubtful>>
  BY DEF CancelBegin, creditVars, historyVars
<1>2. s \in Sessions
  BY <1>1 DEF BillingInv, RowInv, RowOK, Rows
<1>3. state \in States /\ state.status # "none"
  <2>1. live[s] \in States /\ live[s].status # "none"
    BY <1>1, <1>2 DEF BillingInv, TypeOK, Ongoing
  <2> QED BY <2>1 DEF States
<1>4. PICK u \in Sessions, x \in States : u = s /\ x = state
  BY <1>2, <1>3
<1> HIDE DEF s, state
<1> QED BY <1>1, <1>3, <1>4, ChangeBegins

(* A fault counts as a change. *)
LEMMA FaultCounted ==
    ASSUME BillingInv, UNCHANGED emitted,
           faults' = faults \/ (Changes < MaxChanges /\ faults' = faults + 1)
    PROVE  /\ faults' \in 0 .. MaxChanges /\ Changes' =< MaxChanges
           /\ IsFiniteSet(Paid) /\ IsFiniteSet(Snapshots)
           /\ Paid' = Paid /\ Snapshots' = Snapshots
<1>1. faults \in Nat /\ MaxChanges \in Nat
  BY BillingAssumption DEF BillingInv, TypeOK
<1>2. IsFiniteSet(Paid) /\ IsFiniteSet(Snapshots) /\ Changes =< MaxChanges
  BY DEF BillingInv, CountsInv
<1>3. Cardinality(Paid) \in Nat /\ Cardinality(Snapshots) \in Nat
  BY <1>2, FS_CardinalityType
<1>4. Paid' = Paid /\ Snapshots' = Snapshots
  BY DEF Paid, Snapshots
<1>5. Changes = faults + Cardinality(Paid) + Cardinality(Snapshots)
      /\ Changes' = faults' + Cardinality(Paid) + Cardinality(Snapshots)
  BY <1>4 DEF Changes
<1>6. faults' \in 0 .. MaxChanges /\ Changes' =< MaxChanges
  BY <1>1, <1>2, <1>3, <1>5
<1> QED BY <1>2, <1>4, <1>6

(* create_checkout_session: Stripe said that the session of the marker is   *)
(* not open, or the marker is noted as spoilt.                             *)
LEMMA CheckoutBeginKeeps ==
    ASSUME BillingInv, NEW s \in Sessions, NEW reached \in BOOLEAN, CheckoutBegin(s, reached)
    PROVE  BillingInv'
<1> DEFINE a == [Idle EXCEPT !.op = "checkout"]
           z == [a EXCEPT !.of = s]
<1>1. /\ ~ reached => Changes < MaxChanges
      /\ pending # NoSession /\ reached => session[pending] # "open"
      /\ session[s] = "unused" /\ session' = [session EXCEPT ![s] = "open"]
      /\ faults' = IF reached THEN faults ELSE faults + 1
      /\ spoilt' = IF reached /\ (\A t \in tx : t.op # "checkout")
                   THEN spoilt ELSE spoilt \union {"marker"}
      /\ tx' = tx \union {z}
      /\ UNCHANGED <<live, version, emitted, processed, row, pending, purchases, earnings,
                     bonuses, recorded, started, applied, doubtful>>
  BY DEF CheckoutBegin, NotPending, OpenAtStripe, Begin, creditVars
<1>2. PICK r \in Requests :
         tx' = tx \union {r} /\ r.op = "checkout" /\ r.of = s /\ r.event = NoEvent
  <2>1. a \in Requests /\ a.op = "checkout" /\ a.event = NoEvent
    BY IdleIs DEF Idle
  <2> HIDE DEF a
  <2>2. z \in Requests /\ z.op = "checkout" /\ z.of = s /\ z.event = NoEvent
    BY <2>1 DEF Requests
  <2> HIDE DEF z
  <2> QED BY <1>1, <2>2
<1>3. /\ session' \in [Sessions -> {"unused", "open", "lost", "complete", "expired"}]
      /\ session'[s] = "open" /\ \A x \in Sessions \ {s} : session'[x] = session[x]
  BY <1>1 DEF BillingInv, TypeOK
<1> HIDE DEF a, z
<1>4. /\ faults' \in 0 .. MaxChanges /\ Changes' =< MaxChanges
      /\ IsFiniteSet(Paid) /\ IsFiniteSet(Snapshots)
      /\ Paid' = Paid /\ Snapshots' = Snapshots
  BY <1>1, FaultCounted
<1>5. TypeOK'
  <2>1. faults' \in 0 .. MaxChanges
    BY <1>4
  <2>2. spoilt' \subseteq {"row", "history", "marker"}
    BY <1>1 DEF BillingInv, TypeOK
  <2> QED BY <1>1, <1>2, <1>3, <2>1, <2>2 DEF BillingInv, TypeOK
<1>6. StripeInv'
  <2>1. \A x \in Sessions : session'[x] = "complete" <=> session[x] = "complete"
    BY <1>1, <1>3
  <2> QED BY <1>1, <1>4, <2>1 DEF BillingInv, StripeInv, Known
<1>7. CountsInv'
  <2>1. \A x \in Sessions : version'[x] =< Cardinality(SnapshotsOf(x)')
    BY <1>1, <1>4 DEF BillingInv, CountsInv, SnapshotsOf
  <2>2. \A t \in Payments : purchases'[t] =< Cardinality(Credits(t)')
    BY <1>1 DEF BillingInv, CountsInv, Credits
  <2> QED BY <1>4, <2>1, <2>2 DEF CountsInv
<1>8. RowInv' /\ CreditInv' /\ CreatedOnce'
  <2>1. "row" \notin spoilt' => "row" \notin spoilt
    BY <1>1
  <2>2. "history" \notin spoilt' => "history" \notin spoilt
    BY <1>1
  <2> QED BY <1>1, <2>1, <2>2 DEF BillingInv, RowInv, CreditInv, CreatedOnce, RowOK
<1>9. RequestsInv'
  <2>1. Lasting
    BY <1>1 DEF Lasting, KnownKept, Known
  <2>2. (SyncOK(r) /\ HandlesOK(r) /\ TopupOK(r))'
    BY <1>2 DEF SyncOK, HandlesOK, TopupOK, Webhooks, Syncs, SubKinds
  <2>3. r.op # "topup"
    BY <1>2
  <2> QED BY <1>1, <1>2, <2>1, <2>2, <2>3, RequestsBegin DEF BillingInv
<1>10. CheckoutInv'
  <2>1. /\ \A t \in tx' : t.op = "checkout" => t.of \in Sessions /\ session'[t.of] # "unused"
        /\ pending' # NoSession => session'[pending'] # "unused"
    <3>1. pending \in Markers
      BY DEF BillingInv, TypeOK
    <3> QED BY <1>1, <1>2, <1>3, <3>1 DEF BillingInv, CheckoutInv, Markers
  <2>2. ASSUME "marker" \notin spoilt'
        PROVE  /\ \A x \in Sessions :
                     session'[x] = "open" =>
                        x = pending' \/ \E t \in tx' : t.op = "checkout" /\ t.of = x
               /\ \A t, u \in tx' : t.op = "checkout" /\ u.op = "checkout" => t = u
               /\ \A t \in tx' : t.op = "checkout" /\ pending' # NoSession
                                    => session'[pending'] # "open"
    <3>1. "marker" \notin spoilt /\ reached /\ \A t \in tx : t.op # "checkout"
      BY <1>1, <2>2
    <3>2. \A x \in Sessions : session[x] = "open" => x = pending
      BY <3>1 DEF BillingInv, CheckoutInv
    <3>3. \A x \in Sessions : session'[x] = "open" => x = pending \/ x = s
      BY <1>3, <3>2
    <3>4. \A t, u \in tx' : t.op = "checkout" /\ u.op = "checkout" => t = u
      BY <1>2, <3>1
    <3>5. pending # NoSession => session'[pending] # "open"
      <4>1. pending \in Markers
        BY DEF BillingInv, TypeOK
      <4>2. pending # NoSession => pending # s
        BY <1>1 DEF BillingInv, CheckoutInv
      <4> QED BY <1>1, <1>3, <3>1, <4>1, <4>2 DEF Markers
    <3> QED BY <1>1, <1>2, <3>3, <3>4, <3>5
  <2> QED BY <2>1, <2>2 DEF CheckoutInv
<1>11. (ReferralCreditedOnce /\ PaymentCreditedOnce /\ ProcessedIsApplied)'
  BY <1>1 DEF BillingInv, ReferralCreditedOnce, PaymentCreditedOnce, ProcessedIsApplied, Source
<1> QED BY <1>5, <1>6, <1>7, <1>8, <1>9, <1>10, <1>11 DEF BillingInv

-----------------------------------------------------------------------------
(* Requests that end.                                                      *)

(* What sync_subscription_object notes as spoilt. *)
LEMMA SyncNotes ==
    ASSUME TypeOK, NEW t, SyncRow(t)
    PROVE  /\ spoilt \subseteq spoilt' /\ spoilt' \subseteq {"row", "history", "marker"}
           /\ "row" \notin spoilt' => /\ ~ (t.v < applied[t.of])
                                      /\ row = t.loaded \/ row = Described(t)
           /\ "history" \notin spoilt' =>
                 /\ ~ (t.v < applied[t.of])
                 /\ row = t.loaded \/ t.loaded = NoRow
                 /\ applied[t.of] > 0 => t.loaded.of \in {t.of, NoSession}
           /\ "marker" \notin spoilt' /\ Clears(t) => pending = t.of
  BY DEF SyncRow, TypeOK

(* Once created, a subscription is recorded as created again only if it    *)
(* had ended in the row; but then it has ended at Stripe.                  *)
LEMMA StartsOnce ==
    ASSUME BillingInv, NEW t \in tx, t.op \in Syncs, Starts(t),
           "history" \notin spoilt, ~ (t.v < applied[t.of]),
           row = t.loaded \/ t.loaded = NoRow,
           applied[t.of] > 0 => t.loaded.of \in {t.of, NoSession}
    PROVE  started[t.of] = 0
<1>1. SyncOK(t) /\ Known(t.of, t.v, t.snap) /\ RowOK(t.loaded) /\ t.of \in Sessions
  BY DEF BillingInv, RequestsInv, SyncOK, Known
<1>2. started[t.of] \in 0 .. 2 /\ applied[t.of] \in Nat /\ version[t.of] \in Nat /\ t.v \in Nat
  BY <1>1, BillingAssumption DEF BillingInv, TypeOK, Known, Versions
<1> SUFFICES ASSUME started[t.of] > 0
             PROVE  FALSE
  BY <1>2
<1>3. applied[t.of] > 0 /\ row # NoRow
  BY <1>1, <1>2 DEF BillingInv, RowInv
<1>4. t.loaded # NoRow
  BY <1>3 DEF Starts, LostInsert
<1>5. row = t.loaded /\ t.loaded.of = t.of
  BY <1>1, <1>3, <1>4 DEF RowOK
<1>6. ~ Ongoing(row.state) /\ Active(t.snap)
  BY <1>5 DEF Starts
<1>7. applied[t.of] = version[t.of] /\ live[t.of].status = "canceled"
  BY <1>3, <1>5, <1>6 DEF BillingInv, RowInv
<1>8. t.v = version[t.of]
  BY <1>1, <1>2, <1>7 DEF Known
<1>9. t.snap = live[t.of]
  BY <1>1, <1>8 DEF Known
<1> QED BY <1>6, <1>7, <1>9 DEF Active

(* sync_subscription_object, whatever was read meanwhile. *)
LEMMA SyncRowKeeps ==
    ASSUME BillingInv, NEW t \in tx, t.op \in Syncs, SyncRow(t), UNCHANGED <<live, version>>,
           \/ processed' = processed
           \/ t.op \in SubKinds /\ processed' = processed \union {t.event}
    PROVE  /\ RowInv' /\ CreatedOnce'
           /\ row' \in Rows /\ row' # NoRow
           /\ started' \in [Sessions -> 0 .. 2] /\ applied' \in [Sessions -> Versions]
<1>1. /\ SyncOK(t) /\ Known(t.of, t.v, t.snap) /\ RowOK(t.loaded) /\ t.of \in Sessions
      /\ t.v \in Versions /\ HandlesOK(t)
  BY DEF BillingInv, RequestsInv, SyncOK, Known
<1>2. /\ applied \in [Sessions -> Nat] /\ version \in [Sessions -> Nat] /\ t.v \in Nat
      /\ started \in [Sessions -> 0 .. 2] /\ t.v > 0
      /\ applied \in [Sessions -> Versions]
  BY <1>1, BillingAssumption DEF BillingInv, TypeOK, Known, Versions
<1>3. /\ ~ InsertRaises(t) /\ row' = Written(t)
      /\ started' = IF Starts(t)
                    THEN [started EXCEPT ![t.of] = IF @ < 2 THEN @ + 1 ELSE @] ELSE started
      /\ applied' = [applied EXCEPT ![t.of] = IF t.v < @ THEN @ ELSE t.v]
  BY DEF SyncRow
<1>4. /\ spoilt \subseteq spoilt'
      /\ "row" \notin spoilt' => /\ ~ (t.v < applied[t.of])
                                 /\ row = t.loaded \/ row = Described(t)
      /\ "history" \notin spoilt' =>
            /\ ~ (t.v < applied[t.of])
            /\ row = t.loaded \/ t.loaded = NoRow
            /\ applied[t.of] > 0 => t.loaded.of \in {t.of, NoSession}
  BY SyncNotes DEF BillingInv
<1>5. /\ row' \in Rows /\ row' # NoRow /\ RowOK(row)'
      /\ row = t.loaded \/ row = Described(t) \/ t.loaded = NoRow => row' = Described(t)
  <2>1. RowOK(row)
    BY DEF BillingInv, RowInv
  <2>2. /\ Written(t) \in Rows /\ Written(t) # NoRow /\ RowOK(Written(t))
        /\ row = t.loaded \/ row = Described(t) \/ t.loaded = NoRow => Written(t) = Described(t)
    BY <1>1, <1>3, <2>1, WrittenIs DEF BillingInv
  <2> QED BY <1>3, <2>2 DEF RowOK
<1>6. /\ applied' \in [Sessions -> Versions]
      /\ \A s \in Sessions : applied[s] =< applied'[s] /\ applied'[s] =< version[s]
      /\ applied'[t.of] > 0 /\ (~ (t.v < applied[t.of]) => applied'[t.of] = t.v)
      /\ \A s \in Sessions \ {t.of} : applied'[s] = applied[s]
  <2>1. t.v =< version[t.of] /\ \A s \in Sessions : applied[s] =< version[s]
    BY <1>1 DEF BillingInv, RowInv, Known
  <2> QED BY <1>1, <1>2, <1>3, <2>1
<1>7. /\ started' \in [Sessions -> 0 .. 2]
      /\ \A s \in Sessions : started'[s] = started[s] \/ (s = t.of /\ Starts(t))
      /\ started[t.of] = 0 => started'[t.of] =< 1
  <2>1. CASE Starts(t)
    BY <1>1, <1>2, <1>3, <2>1
  <2>2. CASE ~ Starts(t)
    BY <1>1, <1>2, <1>3, <2>2
  <2> QED BY <2>1, <2>2
<1>8. CreatedOnce'
  <2> SUFFICES ASSUME "history" \notin spoilt', NEW s \in Sessions
               PROVE  started'[s] =< 1
    BY DEF CreatedOnce
  <2>1. started[s] =< 1
    BY <1>4 DEF BillingInv, CreatedOnce
  <2>2. CASE s = t.of /\ Starts(t)
    <3>1. started[t.of] = 0
      BY <1>4, <2>2, StartsOnce
    <3> QED BY <1>7, <2>2, <3>1
  <2>3. CASE ~ (s = t.of /\ Starts(t))
    BY <1>7, <2>1, <2>3
  <2> QED BY <2>2, <2>3
<1>9. \A s \in Sessions : /\ applied'[s] =< version'[s]
                          /\ applied'[s] > 0 => row' # NoRow
                          /\ started'[s] > 0 => applied'[s] > 0
  <2>1. \A s \in Sessions : started[s] > 0 => applied[s] > 0
    BY DEF BillingInv, RowInv
  <2> QED BY <1>2, <1>5, <1>6, <1>7, <2>1
<1>10. ASSUME row' = Described(t), ~ (t.v < applied[t.of])
       PROVE  /\ row'.of = t.of /\ applied'[t.of] = t.v
              /\ applied'[row'.of] = version'[row'.of] => row'.state = live'[row'.of]
              /\ ~ Ongoing(row'.state) =>
                    applied'[row'.of] = version'[row'.of] /\ live'[row'.of].status = "canceled"
  <2>1. row'.of = t.of /\ row'.state = t.snap /\ applied'[t.of] = t.v
    BY <1>6, <1>10 DEF Described
  <2>2. ~ Ongoing(t.snap) => t.snap.status = "canceled"
    BY <1>1 DEF Known, States, Ongoing
  <2> QED BY <1>1, <2>1, <2>2 DEF Known
<1>11. ASSUME "row" \notin spoilt'
       PROVE  /\ row' # NoRow /\ applied'[row'.of] = version'[row'.of]
                    => row'.state = live'[row'.of]
              /\ \A e \in processed' : e.kind # "topup" => e.v =< applied'[e.of]
  <2>1. row' = Described(t) /\ ~ (t.v < applied[t.of])
    BY <1>4, <1>5, <1>11
  <2>2. ASSUME NEW e \in processed, e.kind # "topup"
        PROVE  e.v =< applied'[e.of]
    <3>1. e.v =< applied[e.of] /\ e.of \in Sessions /\ e.v \in Nat
      <4>1. Known(e.of, e.v, e.snap)
        BY <2>2 DEF BillingInv, StripeInv, TypeOK
      <4>2. "row" \notin spoilt
        BY <1>4, <1>11
      <4> QED BY <2>2, <4>1, <4>2, BillingAssumption DEF BillingInv, RowInv, Known, Versions
    <3>2. applied[e.of] \in Nat /\ applied'[e.of] \in Nat
      BY <1>2, <1>6, <3>1, BillingAssumption DEF Versions
    <3> QED BY <1>6, <3>1, <3>2
  <2>3. t.op \in SubKinds => t.event.v =< applied'[t.event.of]
    <3>1. t.op \in SubKinds => t.event.of = t.of /\ t.event.v =< t.v
      BY <1>1 DEF HandlesOK, Webhooks, SubKinds
    <3> QED BY <1>6, <2>1, <3>1
  <2> QED BY <1>10, <2>1, <2>2, <2>3
<1>12. "history" \notin spoilt' /\ row' # NoRow /\ ~ Ongoing(row'.state) =>
          applied'[row'.of] = version'[row'.of] /\ live'[row'.of].status = "canceled"
  BY <1>4, <1>5, <1>10
<1>13. RowInv'
  <2>1. Ongoing(row.state)' <=> Ongoing(row'.state)
    BY DEF Ongoing
  <2> QED BY <1>5, <1>9, <1>11, <1>12, <2>1 DEF RowInv
<1> QED BY <1>5, <1>6, <1>7, <1>8, <1>13

(* The marker of a session that is complete does not matter any more. *)
LEMMA ClearKeeps ==
    ASSUME BillingInv, NEW t \in tx, t.op \in Syncs, tx' = tx \ {t}, UNCHANGED session,
           pending' = IF Clears(t) THEN NoSession ELSE pending, spoilt \subseteq spoilt',
           "marker" \notin spoilt' /\ Clears(t) => pending = t.of
    PROVE  CheckoutInv' /\ pending' \in Markers
<1>1. t.of \in Sessions /\ session[t.of] = "complete" /\ t.op # "checkout"
  <2>1. Known(t.of, t.v, t.snap)
    BY DEF BillingInv, RequestsInv, SyncOK
  <2>2. t.of \in Sessions /\ version[t.of] > 0
    BY <2>1, BillingAssumption DEF Known, BillingInv, TypeOK, Versions
  <2>3. t.op # "checkout"
    BY DEF Syncs, SubKinds
  <2> QED BY <2>2, <2>3 DEF BillingInv, StripeInv
<1>2. pending \in Markers /\ pending' \in Markers /\ NoSession \notin Sessions
  BY BillingAssumption DEF BillingInv, TypeOK, Markers
<1>3. ASSUME "marker" \notin spoilt', NEW s \in Sessions, session[s] = "open"
      PROVE  s = pending' \/ \E u \in tx' : u.op = "checkout" /\ u.of = s
  <2>1. s = pending \/ \E u \in tx : u.op = "checkout" /\ u.of = s
    BY <1>3 DEF BillingInv, CheckoutInv
  <2>2. Clears(t) => pending # s
    BY <1>1, <1>3
  <2> QED BY <1>1, <2>1, <2>2
<1>4. /\ \A u \in tx' : u.op = "checkout" => u.of \in Sessions /\ session[u.of] # "unused"
      /\ pending' # NoSession => session[pending'] # "unused"
      /\ "marker" \notin spoilt' =>
            /\ \A u, w \in tx' : u.op = "checkout" /\ w.op = "checkout" => u = w
            /\ \A u \in tx' : u.op = "checkout" /\ pending' # NoSession
                                 => session[pending'] # "open"
  BY <1>2 DEF BillingInv, CheckoutInv
<1> QED BY <1>2, <1>3, <1>4 DEF CheckoutInv

(* A credit of an invoice or payment: once, and on record. *)
LEMMA CreditOnce ==
    ASSUME BillingInv, NEW t \in tx, t.op \in {"paid", "topup"}, CreditReferral(t)
    PROVE  /\ ReferralCreditedOnce' /\ earnings' \subseteq Sources
           /\ bonuses' \in [Sources -> Nat]
           /\ earnings \subseteq earnings' /\ earnings' \subseteq earnings \union {Source(t.event)}
           /\ Source(t.event) \in Sources
           /\ Referred => Source(t.event) \in earnings'
<1> DEFINE x == Source(t.event)
<1>1. HandlesOK(t) /\ t.op \in Webhooks /\ t \in Requests
  BY DEF BillingInv, RequestsInv, Webhooks, SubKinds
<1>2. t.event \in emitted /\ t.event.kind = t.op /\ (t.earned => x \in earnings)
  BY <1>1 DEF HandlesOK
<1>3. x \in Sources
  BY <1>2 DEF BillingInv, TypeOK, SubEvents, TopupEvents, SubKinds, Source, Sources
<1>4. /\ earnings \subseteq Sources /\ bonuses \in [Sources -> Nat]
      /\ \A y \in Sources : bonuses[y] = IF y \in earnings THEN 1 ELSE 0
  BY DEF BillingInv, TypeOK, ReferralCreditedOnce
<1>5. \/ t.earned \/ ~ Referred
      \/ Referred /\ ~ t.earned
  BY DEF Requests
<1>6. CASE t.earned \/ ~ Referred
  <2>1. UNCHANGED <<earnings, bonuses>>
    BY <1>6 DEF CreditReferral
  <2> QED BY <1>2, <1>3, <1>4, <1>6, <2>1 DEF ReferralCreditedOnce
<1>7. CASE ~ (t.earned \/ ~ Referred)
  <2>1. /\ x \notin earnings /\ earnings' = earnings \union {x}
        /\ bonuses' = [bonuses EXCEPT ![x] = @ + 1]
    BY <1>7 DEF CreditReferral
  <2> HIDE DEF x
  <2>2. bonuses' \in [Sources -> Nat] /\ bonuses'[x] = 1
        /\ \A y \in Sources \ {x} : bonuses'[y] = bonuses[y]
    BY <1>3, <1>4, <2>1
  <2>3. ReferralCreditedOnce'
    BY <1>3, <1>4, <2>1, <2>2 DEF ReferralCreditedOnce
  <2> QED BY <1>3, <1>4, <2>1, <2>2, <2>3 DEF x
<1> QED BY <1>6, <1>7

(* A payment has no more events than Stripe may emit. *)
LEMMA CopiesBounded ==
    ASSUME TypeOK, NEW p \in Payments, NEW S \in SUBSET emitted,
           \A e \in S : e.kind = "topup" /\ e.of = p
    PROVE  /\ IsFiniteSet(S) /\ Cardinality(S) \in Nat
           /\ Cardinality(S) =< Cardinality(Copies) /\ Cardinality(Copies) \in Nat
<1> DEFINE f == [e \in S |-> e.v]
<1>1. \A e \in S : e \in TopupEvents /\ e.kind = "topup" /\ e.of = p
  BY DEF TypeOK, SubEvents, TopupEvents, SubKinds
<1>2. \A e, x \in S : e.v = x.v => e = x
  BY <1>1 DEF TopupEvents
<1>3. f \in Injection(S, Copies)
  BY <1>1, <1>2 DEF Injection, IsInjective, TopupEvents
<1>4. IsFiniteSet(S) /\ Cardinality(S) =< Cardinality(Copies)
  <2> HIDE DEF f
  <2> QED BY <1>3, FS_Injection, BillingAssumption
<1> QED BY <1>4, FS_CardinalityType, BillingAssumption

(* So a payment's processed events are no more than that. *)
LEMMA CreditsBounded ==
    ASSUME TypeOK, NEW p \in Payments
    PROVE  /\ IsFiniteSet(Credits(p)) /\ Cardinality(Credits(p)) \in Nat
           /\ Cardinality(Credits(p)) =< Cardinality(Copies) /\ Cardinality(Copies) \in Nat
<1>1. Credits(p) \subseteq emitted /\ \A e \in Credits(p) : e.kind = "topup" /\ e.of = p
  BY DEF Credits, TypeOK
<1> QED BY <1>1, CopiesBounded

(* Nobody else is at the event of a request that ends. *)
LEMMA OthersOpen ==
    ASSUME RequestsInv, NEW t \in tx, tx' = tx \ {t}, processed' \subseteq processed \union {t.event}
    PROVE  \A u \in tx' : u.event = NoEvent \/ u.event \notin processed'
  BY DEF RequestsInv, HandlesOK

(* An event is processed with its effect. *)
LEMMA ProcessedKeeps ==
    ASSUME BillingInv, processed \subseteq processed',
           processed' \ processed \subseteq emitted,
           earnings \subseteq earnings', doubtful \subseteq doubtful', recorded \subseteq recorded',
           \A p \in Payments : purchases[p] > 0 => purchases'[p] > 0,
           \A e \in processed' \ processed :
              /\ e.kind = "topup" => purchases'[e.of] > 0
              /\ e.kind \in {"topup", "paid"} /\ Source(e) \notin doubtful' /\ Referred
                    => Source(e) \in earnings'
              /\ e.kind = "paid" /\ Source(e) \notin doubtful' /\ e.v > 1 => e \in recorded'
    PROVE  ProcessedIsApplied'
<1>1. \A e \in processed : e.kind = "topup" => e.of \in Payments
  BY DEF BillingInv, TypeOK, SubEvents, TopupEvents, SubKinds
<1> QED BY <1>1 DEF BillingInv, ProcessedIsApplied, Source

(* The marker moves to the session that was opened. *)
LEMMA CheckoutCommitKeeps ==
    ASSUME BillingInv, NEW t \in tx, CheckoutCommit(t)
    PROVE  BillingInv'
<1>1. /\ t.op = "checkout" /\ pending' = t.of /\ tx' = tx \ {t}
      /\ UNCHANGED <<session, live, version, emitted, processed, row, purchases, earnings,
                     bonuses, recorded, started, faults, applied, spoilt, doubtful>>
  BY DEF CheckoutCommit, End, stripeVars, creditVars, historyVars
<1>2. t.of \in Sessions
  BY <1>1 DEF BillingInv, CheckoutInv
<1>3. TypeOK' /\ StripeInv'
  BY <1>1, <1>2 DEF BillingInv, TypeOK, Markers, StripeInv, Known, Snapshots
<1>4. CountsInv' /\ RowInv' /\ CreditInv'
  BY <1>1 DEF BillingInv, CountsInv, RowInv, CreditInv, Paid, Snapshots, SnapshotsOf, Credits,
              Changes, RowOK
<1>5. RequestsInv'
  <2>1. Lasting
    BY <1>1 DEF Lasting, KnownKept, Known
  <2>2. \A u \in tx' : u.event = NoEvent \/ u.event \notin processed'
    BY <1>1, OthersOpen DEF BillingInv
  <2>3. \A u \in tx' : u.op = "topup" /\ u.of \notin doubtful' /\ ~ u.credited
                             => purchases'[u.of] = 0
    BY <1>1 DEF BillingInv, RequestsInv, TopupOK
  <2> QED BY <1>1, <2>1, <2>2, <2>3, RequestsStay DEF BillingInv
<1>6. CheckoutInv'
  <2>1. t.of # NoSession /\ session[t.of] # "unused"
    BY <1>1, <1>2, BillingAssumption DEF BillingInv, CheckoutInv
  <2>2. ASSUME "marker" \notin spoilt
        PROVE  /\ \A s \in Sessions : session[s] = "open" => s = t.of
               /\ \A u \in tx' : u.op # "checkout"
    <3>1. \A u \in tx : u.op = "checkout" => u = t
      BY <1>1, <2>2 DEF BillingInv, CheckoutInv
    <3>2. \A s \in Sessions : session[s] = "open" => s # pending
      BY <1>1, <2>2, BillingAssumption DEF BillingInv, CheckoutInv
    <3> QED BY <1>1, <2>2, <3>1, <3>2 DEF BillingInv, CheckoutInv
  <2> QED BY <1>1, <2>1, <2>2 DEF BillingInv, CheckoutInv
<1>7. (ReferralCreditedOnce /\ PaymentCreditedOnce /\ CreatedOnce /\ ProcessedIsApplied)'
  BY <1>1 DEF BillingInv, ReferralCreditedOnce, PaymentCreditedOnce, CreatedOnce,
              ProcessedIsApplied, Source
<1> QED BY <1>3, <1>4, <1>5, <1>6, <1>7 DEF BillingInv

(* The success page, a plan change or a cancellation commits. *)
LEMMA SyncCommitKeeps ==
    ASSUME BillingInv, NEW t \in tx, SyncCommit(t)
    PROVE  BillingInv'
<1>1. /\ t.op \in Syncs /\ t.op \in {"change", "page"} /\ SyncRow(t)
      /\ pending' = IF Clears(t) THEN NoSession ELSE pending
      /\ tx' = tx \ {t}
      /\ UNCHANGED <<session, live, version, emitted, processed, purchases, earnings, bonuses,
                     recorded, faults, doubtful>>
  BY DEF SyncCommit, End, stripeVars, creditVars, Syncs
<1>2. /\ RowInv' /\ CreatedOnce' /\ row' \in Rows /\ row' # NoRow
      /\ started' \in [Sessions -> 0 .. 2] /\ applied' \in [Sessions -> Versions]
  BY <1>1, SyncRowKeeps
<1>3. /\ spoilt \subseteq spoilt' /\ spoilt' \subseteq {"row", "history", "marker"}
      /\ "marker" \notin spoilt' /\ Clears(t) => pending = t.of
  BY <1>1, SyncNotes DEF BillingInv
<1>4. CheckoutInv' /\ pending' \in Markers
  BY <1>1, <1>3, ClearKeeps
<1>5. TypeOK'
  BY <1>1, <1>2, <1>3, <1>4 DEF BillingInv, TypeOK
<1>6. StripeInv' /\ CountsInv' /\ CreditInv'
  BY <1>1 DEF BillingInv, StripeInv, Known, CountsInv, CreditInv, Paid, Snapshots, SnapshotsOf,
              Credits, Changes
<1>7. RequestsInv'
  <2>1. Lasting
    BY <1>1, <1>2 DEF Lasting, KnownKept, Known
  <2>2. \A u \in tx' : u.event = NoEvent \/ u.event \notin processed'
    BY <1>1, OthersOpen DEF BillingInv
  <2>3. \A u \in tx' : u.op = "topup" /\ u.of \notin doubtful' /\ ~ u.credited
                             => purchases'[u.of] = 0
    BY <1>1 DEF BillingInv, RequestsInv, TopupOK
  <2> QED BY <1>1, <2>1, <2>2, <2>3, RequestsStay DEF BillingInv
<1>8. (ReferralCreditedOnce /\ PaymentCreditedOnce /\ ProcessedIsApplied)'
  BY <1>1 DEF BillingInv, ReferralCreditedOnce, PaymentCreditedOnce, ProcessedIsApplied, Source
<1> QED BY <1>2, <1>4, <1>5, <1>6, <1>7, <1>8 DEF BillingInv

(* A subscription or invoice event commits: the row, its history and the   *)
(* referrer's credit together with processed_at.                           *)
LEMMA WebhookCommitKeeps ==
    ASSUME BillingInv, NEW t \in tx, WebhookCommit(t)
    PROVE  BillingInv'
<1>1. /\ t.op \in Syncs /\ t.op \in SubKinds /\ SyncRow(t)
      /\ pending' = IF Clears(t) THEN NoSession ELSE pending
      /\ RecordInvoice(t)
      /\ IF t.op = "paid" THEN CreditReferral(t) ELSE UNCHANGED <<earnings, bonuses>>
      /\ processed' = processed \union {t.event} /\ tx' = tx \ {t}
      /\ UNCHANGED <<session, live, version, emitted, purchases, faults, doubtful>>
  BY DEF WebhookCommit, Processed, End, stripeVars, Syncs
<1>2. /\ RowInv' /\ CreatedOnce' /\ row' \in Rows /\ row' # NoRow
      /\ started' \in [Sessions -> 0 .. 2] /\ applied' \in [Sessions -> Versions]
  BY <1>1, SyncRowKeeps
<1>3. /\ spoilt \subseteq spoilt' /\ spoilt' \subseteq {"row", "history", "marker"}
      /\ "marker" \notin spoilt' /\ Clears(t) => pending = t.of
  BY <1>1, SyncNotes DEF BillingInv
<1>4. CheckoutInv' /\ pending' \in Markers
  BY <1>1, <1>3, ClearKeeps
<1>5. /\ t.event \in emitted /\ t.event.kind = t.op /\ t.event.of = t.of
      /\ t.event \in SubEvents
  <2>1. t.op \in Webhooks
    BY <1>1 DEF Webhooks
  <2> QED BY <1>1, <2>1 DEF BillingInv, RequestsInv, HandlesOK, TypeOK, TopupEvents, SubEvents,
                            SubKinds
<1>6. /\ ReferralCreditedOnce' /\ earnings' \subseteq Sources
      /\ bonuses' \in [Sources -> Nat]
      /\ earnings \subseteq earnings' /\ earnings' \subseteq earnings \union {Source(t.event)}
      /\ t.op = "paid" /\ Referred => Source(t.event) \in earnings'
  <2>1. CASE t.op = "paid"
    BY <1>1, <2>1, CreditOnce
  <2>2. CASE t.op # "paid"
    BY <1>1, <2>2 DEF BillingInv, TypeOK, ReferralCreditedOnce
  <2> QED BY <2>1, <2>2
<1>7. /\ recorded \subseteq recorded' /\ recorded' \subseteq Invoices(emitted)
      /\ t.op = "paid" /\ t.event.v > 1 => t.event \in recorded'
  <2>1. CASE t.op = "failed" \/ (t.op = "paid" /\ t.event.v > 1)
    <3>1. recorded' = recorded \union {t.event}
      BY <1>1, <2>1 DEF RecordInvoice, InHistory
    <3> QED BY <1>5, <2>1, <3>1 DEF BillingInv, TypeOK, Invoices
  <2>2. CASE ~ (t.op = "failed" \/ (t.op = "paid" /\ t.event.v > 1))
    <3>1. recorded' = recorded
      BY <1>1, <2>2 DEF RecordInvoice
    <3> QED BY <2>2, <3>1 DEF BillingInv, TypeOK
  <2> QED BY <2>1, <2>2
<1>8. TypeOK'
  BY <1>1, <1>2, <1>3, <1>4, <1>5, <1>6, <1>7 DEF BillingInv, TypeOK, Invoices
<1>9. StripeInv' /\ CountsInv'
  <2>1. \A p \in Payments : Credits(p)' = Credits(p)
    BY <1>1, <1>5 DEF Credits, SubKinds
  <2> QED BY <1>1, <2>1 DEF BillingInv, StripeInv, Known, CountsInv, Paid, Snapshots,
                            SnapshotsOf, Changes
<1>10. CreditInv' /\ PaymentCreditedOnce'
  <2>1. Source(t.event) \notin Payments
    BY <1>1, <1>5, BillingAssumption DEF Source, SubEvents, SubKinds, Versions
  <2> QED BY <1>1, <1>6, <2>1 DEF BillingInv, CreditInv, PaymentCreditedOnce
<1>11. RequestsInv'
  <2>1. Lasting
    BY <1>1, <1>2, <1>6 DEF Lasting, KnownKept, Known
  <2>2. \A u \in tx' : u.event = NoEvent \/ u.event \notin processed'
    BY <1>1, OthersOpen DEF BillingInv
  <2>3. \A u \in tx' : u.op = "topup" /\ u.of \notin doubtful' /\ ~ u.credited
                             => purchases'[u.of] = 0
    BY <1>1 DEF BillingInv, RequestsInv, TopupOK
  <2> QED BY <1>1, <2>1, <2>2, <2>3, RequestsStay DEF BillingInv
<1>12. ProcessedIsApplied'
  <2>1. t.op # "topup"
    BY <1>1 DEF SubKinds
  <2> QED BY <1>1, <1>5, <1>6, <1>7, <2>1, ProcessedKeeps
<1> QED BY <1>2, <1>4, <1>6, <1>8, <1>9, <1>10, <1>11, <1>12 DEF BillingInv

(* An invoice event whose sync raised is processed all the same, and what  *)
(* that may have spoilt is noted.                                          *)
LEMMA InvoiceSwallowedKeeps ==
    ASSUME BillingInv, NEW t \in tx, InvoiceSwallowed(t)
    PROVE  BillingInv'
<1>1. /\ t.op \in {"paid", "failed"} /\ t.op \in SubKinds /\ t.op \in Webhooks /\ t.op \in Syncs
      /\ faults' = faults \/ (Changes < MaxChanges /\ faults' = faults + 1)
      /\ row' = IF t.op = "failed" THEN MarkedPastDue(t) ELSE row
      /\ recorded' = recorded \/ recorded' = recorded \union {t.event}
      /\ spoilt' = spoilt \union {"row"}
      /\ doubtful' = doubtful \union {Source(t.event)}
      /\ processed' = processed \union {t.event} /\ tx' = tx \ {t}
      /\ UNCHANGED <<session, live, version, emitted, pending, purchases, earnings, bonuses,
                     started, applied>>
  BY DEF InvoiceSwallowed, Processed, End, InHistory, stripeVars, creditVars, SubKinds, Webhooks,
         Syncs
<1>2. /\ t.event \in emitted /\ t.event.kind = t.op /\ t.event.of = t.of
      /\ t.event \in SubEvents /\ Source(t.event) \in Sources /\ Source(t.event) \notin Payments
  <2>1. t.event \in emitted /\ t.event.kind = t.op /\ t.event.of = t.of
    BY <1>1 DEF BillingInv, RequestsInv, HandlesOK
  <2>2. t.event \in SubEvents
    BY <1>1, <2>1 DEF BillingInv, TypeOK, TopupEvents
  <2>3. Source(t.event) \in Sessions \X Versions
    BY <1>1, <2>1, <2>2 DEF Source, SubEvents
  <2> QED BY <2>1, <2>2, <2>3, BillingAssumption DEF Sources, Versions
<1>3. /\ faults' \in 0 .. MaxChanges /\ Changes' =< MaxChanges
      /\ IsFiniteSet(Paid) /\ IsFiniteSet(Snapshots)
      /\ Paid' = Paid /\ Snapshots' = Snapshots
  BY <1>1, FaultCounted
<1>4. /\ RowOK(row') /\ (row # NoRow => row' # NoRow)
      /\ row' = row \/ (row'.of = row.of /\ row'.state.status = "past_due")
  <2>1. RowOK(row) /\ row \in Rows /\ row.state \in States /\ NoSession \notin Sessions
    BY BillingAssumption DEF BillingInv, RowInv, RowOK, Rows
  <2>2. CASE row' = row
    BY <2>1, <2>2
  <2>3. CASE row' # row
    <3>1. row' = [row EXCEPT !.state.status = "past_due"] /\ row.of = t.of
      BY <1>1, <2>3 DEF MarkedPastDue
    <3>2. t.of \in Sessions
      BY <1>1, <1>2 DEF SubEvents
    <3>3. row' \in Rows /\ row'.of = row.of /\ row'.state.status = "past_due"
      BY <2>1, <3>1 DEF Rows, States
    <3> QED BY <2>1, <3>1, <3>2, <3>3 DEF RowOK, NoRow
  <2> QED BY <2>2, <2>3
<1>5. TypeOK'
  BY <1>1, <1>2, <1>3, <1>4 DEF BillingInv, TypeOK, Invoices, RowOK
<1>6. StripeInv' /\ CountsInv'
  <2>1. \A p \in Payments : Credits(p)' = Credits(p)
    BY <1>1, <1>2 DEF Credits
  <2> QED BY <1>1, <1>3, <2>1 DEF BillingInv, StripeInv, Known, CountsInv, SnapshotsOf
<1>7. RowInv'
  <2>1. RowOK(row)'
    BY <1>4 DEF RowOK
  <2>3. "history" \notin spoilt' /\ row' # NoRow /\ ~ Ongoing(row'.state) =>
          applied'[row'.of] = version'[row'.of] /\ live'[row'.of].status = "canceled"
    <3>1. row'.state.status = "past_due" => Ongoing(row'.state)
      BY DEF Ongoing
    <3> QED BY <1>1, <1>4, <3>1 DEF BillingInv, RowInv
  <2>4. \A s \in Sessions : /\ applied'[s] =< version'[s]
                            /\ applied'[s] > 0 => row' # NoRow
                            /\ started'[s] > 0 => applied'[s] > 0
    BY <1>1, <1>4 DEF BillingInv, RowInv
  <2>5. "row" \in spoilt'
    BY <1>1
  <2>6. Ongoing(row.state)' <=> Ongoing(row'.state)
    BY DEF Ongoing
  <2> QED BY <2>1, <2>3, <2>4, <2>5, <2>6 DEF RowInv
<1>8. CreditInv' /\ CheckoutInv'
  <2>1. t.op # "checkout"
    BY <1>1
  <2>2. "marker" \notin spoilt' => "marker" \notin spoilt
    BY <1>1
  <2> QED BY <1>1, <2>1, <2>2 DEF BillingInv, CreditInv, CheckoutInv
<1>9. RequestsInv'
  <2>1. Lasting
    BY <1>1, <1>4 DEF Lasting, KnownKept, Known
  <2>2. \A u \in tx' : u.event = NoEvent \/ u.event \notin processed'
    BY <1>1, OthersOpen DEF BillingInv
  <2>3. \A u \in tx' : u.op = "topup" /\ u.of \notin doubtful' /\ ~ u.credited
                             => purchases'[u.of] = 0
    BY <1>1 DEF BillingInv, RequestsInv, TopupOK
  <2> QED BY <1>1, <2>1, <2>2, <2>3, RequestsStay DEF BillingInv
<1>10. ReferralCreditedOnce' /\ PaymentCreditedOnce' /\ CreatedOnce'
  <2>1. "history" \notin spoilt' => "history" \notin spoilt
    BY <1>1
  <2> QED BY <1>1, <2>1 DEF BillingInv, ReferralCreditedOnce, PaymentCreditedOnce, CreatedOnce
<1>11. ProcessedIsApplied'
  BY <1>1, <1>2, ProcessedKeeps
<1> QED BY <1>5, <1>6, <1>7, <1>8, <1>9, <1>10, <1>11 DEF BillingInv

(* A payment is credited, or was: the request that looked it up is the     *)
(* only one at it, or its referral's earning tells.                        *)
LEMMA TopupCommitKeeps ==
    ASSUME BillingInv, NEW t \in tx, TopupCommit(t)
    PROVE  BillingInv'
<1> DEFINE p == t.of
<1>1. /\ t.op = "topup" /\ CreditWalletTopup(t)
      /\ processed' = processed \union {t.event} /\ tx' = tx \ {t}
      /\ UNCHANGED <<session, live, version, emitted, row, pending, recorded, started, faults,
                     applied, spoilt, doubtful>>
  BY DEF TopupCommit, Processed, End, stripeVars, historyVars
<1>2. /\ t.event \in emitted /\ t.event \notin processed /\ t.event.kind = "topup"
      /\ t.event.of = p /\ p \in Payments /\ Source(t.event) = p
      /\ t \in Requests /\ TopupOK(t)
  <2>1. t \in Requests /\ HandlesOK(t) /\ TopupOK(t) /\ t.op \in Webhooks
    BY <1>1 DEF BillingInv, RequestsInv, Webhooks
  <2>2. t.event \in emitted /\ t.event \notin processed /\ t.event.kind = "topup"
        /\ t.event.of = p
    BY <1>1, <2>1 DEF HandlesOK
  <2> QED BY <2>1, <2>2 DEF BillingInv, TypeOK, SubEvents, SubKinds, TopupEvents, Source
<1>3. /\ purchases \in [Payments -> Nat] /\ purchases[p] \in Nat
  BY <1>2, CreditsBounded DEF BillingInv, TypeOK, Purchases
<1>4. /\ purchases' \in [Payments -> Nat] /\ purchases'[p] > 0
      /\ \A q \in Payments \ {p} : purchases'[q] = purchases[q]
      /\ purchases'[p] = purchases[p] \/ (purchases'[p] = purchases[p] + 1 /\ purchases[p] = 0)
         \/ (purchases'[p] = purchases[p] + 1 /\ p \in doubtful /\ ~ Referred)
      /\ ReferralCreditedOnce' /\ earnings' \subseteq Sources /\ bonuses' \in [Sources -> Nat]
      /\ earnings \subseteq earnings' /\ earnings' \subseteq earnings \union {p}
      /\ Referred => p \in earnings'
  <2>1. CASE t.credited
    <3>1. UNCHANGED <<purchases, earnings, bonuses>>
      BY <1>1, <2>1 DEF CreditWalletTopup
    <3>2. purchases[p] > 0
      BY <1>1, <1>2, <2>1 DEF TopupOK
    <3>3. Referred => p \in earnings
      BY <1>2, <3>2 DEF BillingInv, CreditInv
    <3>4. ReferralCreditedOnce'
      BY <3>1 DEF BillingInv, ReferralCreditedOnce
    <3> QED BY <1>3, <3>1, <3>2, <3>3, <3>4 DEF BillingInv, TypeOK
  <2>2. CASE ~ t.credited
    <3>1. purchases' = [purchases EXCEPT ![p] = @ + 1] /\ CreditReferral(t)
      BY <1>1, <2>2 DEF CreditWalletTopup
    <3>2. /\ ReferralCreditedOnce' /\ earnings' \subseteq Sources /\ bonuses' \in [Sources -> Nat]
          /\ earnings \subseteq earnings' /\ earnings' \subseteq earnings \union {p}
          /\ Referred => p \in earnings'
      BY <1>1, <1>2, <3>1, CreditOnce
    <3>3. purchases' \in [Payments -> Nat] /\ purchases'[p] = purchases[p] + 1
          /\ \A q \in Payments \ {p} : purchases'[q] = purchases[q]
      BY <1>2, <1>3, <3>1
    <3>4. ASSUME Referred  PROVE purchases[p] = 0
      <4>1. ~ t.earned
        BY <1>1, <1>2, <2>2, <3>4 DEF TopupOK
      <4>2. p \notin earnings
        BY <1>2, <3>1, <3>4, <4>1 DEF CreditReferral
      <4>3. ~ (purchases[p] > 0)
        BY <1>2, <3>4, <4>2 DEF BillingInv, CreditInv
      <4> QED BY <1>3, <4>3
    <3>5. p \notin doubtful => purchases[p] = 0
      BY <1>1, <1>2, <2>2 DEF TopupOK
    <3> QED BY <1>3, <3>2, <3>3, <3>4, <3>5
  <2> QED BY <2>1, <2>2
<1>5. Credits(p)' = Credits(p) \union {t.event} /\ t.event \notin Credits(p)
      /\ \A q \in Payments \ {p} : Credits(q)' = Credits(q)
  BY <1>1, <1>2 DEF Credits
<1>6. \A q \in Payments : purchases'[q] =< Cardinality(Credits(q)')
  <2>1. IsFiniteSet(Credits(p)) /\ Cardinality(Credits(p)) \in Nat
    BY <1>2, CreditsBounded DEF BillingInv
  <2>2. Cardinality(Credits(p) \union {t.event}) = Cardinality(Credits(p)) + 1
    BY <1>5, <2>1, FS_AddElement
  <2>3. \A q \in Payments : purchases[q] =< Cardinality(Credits(q))
    BY DEF BillingInv, CountsInv
  <2>4. purchases[p] =< Cardinality(Credits(p))
    BY <1>2, <2>3
  <2>5. purchases'[p] =< Cardinality(Credits(p)')
    BY <1>3, <1>4, <1>5, <2>1, <2>2, <2>4
  <2>6. \A q \in Payments \ {p} : purchases'[q] =< Cardinality(Credits(q)')
    BY <1>4, <1>5, <2>3
  <2> HIDE DEF p
  <2> QED BY <2>5, <2>6
<1>7. purchases' \in Purchases
  <2>1. \A q \in Payments : /\ Cardinality(Credits(q)') =< Cardinality(Copies)
                            /\ Cardinality(Credits(q)') \in Nat /\ Cardinality(Copies) \in Nat
    <3>1. \A q \in Payments : Credits(q)' \subseteq emitted
                              /\ \A e \in Credits(q)' : e.kind = "topup" /\ e.of = q
      BY <1>1, <1>2 DEF Credits, BillingInv, TypeOK
    <3> QED BY <3>1, CopiesBounded DEF BillingInv
  <2> QED BY <1>4, <1>6, <2>1 DEF Purchases
<1>8. TypeOK'
  BY <1>1, <1>2, <1>4, <1>7 DEF BillingInv, TypeOK
<1>9. StripeInv' /\ CountsInv'
  BY <1>1, <1>6 DEF BillingInv, StripeInv, Known, CountsInv, Paid, Snapshots, SnapshotsOf, Changes
<1>10. RowInv'
  BY <1>1, <1>2 DEF BillingInv, RowInv, RowOK
<1>11. CreditInv' /\ PaymentCreditedOnce'
  <2>1. CreditInv'
    BY <1>2, <1>4 DEF BillingInv, CreditInv
  <2>2. ASSUME p \notin doubtful \/ Referred  PROVE purchases'[p] =< 1
    BY <1>2, <1>3, <1>4, <2>2 DEF BillingInv, PaymentCreditedOnce
  <2>3. \A q \in Payments \ {p} : q \notin doubtful \/ Referred => purchases'[q] =< 1
    BY <1>4 DEF BillingInv, PaymentCreditedOnce
  <2> HIDE DEF p
  <2> QED BY <1>1, <2>1, <2>2, <2>3 DEF PaymentCreditedOnce
<1>12. RequestsInv'
  <2>1. Lasting
    <3>1. KnownKept
      BY <1>1 DEF KnownKept, Known
    <3>2. \A q \in Payments : purchases[q] > 0 => purchases'[q] > 0
      BY <1>4
    <3> HIDE DEF p
    <3> QED BY <1>1, <1>4, <3>1, <3>2 DEF Lasting
  <2>2. \A u \in tx' : u.event = NoEvent \/ u.event \notin processed'
    BY <1>1, OthersOpen DEF BillingInv
  <2>3. ASSUME NEW u \in tx', u.op = "topup", u.of \notin doubtful', ~ u.credited
        PROVE  purchases'[u.of] = 0
    <3>1. u \in tx /\ u # t /\ u \in Requests /\ HandlesOK(u) /\ TopupOK(u)
      BY <1>1 DEF BillingInv, RequestsInv
    <3>2. u.of # p
      BY <1>1, <2>3, <3>1 DEF BillingInv, RequestsInv
    <3>3. u.of \in Payments
      BY <2>3, <3>1 DEF HandlesOK, Webhooks, BillingInv, TypeOK, SubEvents, SubKinds, TopupEvents
    <3> QED BY <1>1, <1>4, <2>3, <3>1, <3>2, <3>3 DEF TopupOK
  <2> QED BY <1>1, <2>1, <2>2, <2>3, RequestsStay DEF BillingInv
<1>13. CheckoutInv' /\ CreatedOnce'
  BY <1>1 DEF BillingInv, CheckoutInv, CreatedOnce
<1>14. ProcessedIsApplied'
  <2>1. \A q \in Payments : purchases[q] > 0 => purchases'[q] > 0
    BY <1>4
  <2> QED BY <1>1, <1>2, <1>4, <2>1, ProcessedKeeps
<1> QED BY <1>4, <1>8, <1>9, <1>10, <1>11, <1>12, <1>13, <1>14 DEF BillingInv

(* A rollback leaves an event to be handled and a lost session. *)
LEMMA FailKeeps ==
    ASSUME BillingInv, NEW t \in tx, Fail(t)
    PROVE  BillingInv'
<1>1. /\ faults' = faults \/ (Changes < MaxChanges /\ faults' = faults + 1)
      /\ session' = [s \in Sessions |->
            IF t.op = "checkout" /\ t.of = s /\ session[s] = "open" THEN "lost" ELSE session[s]]
      /\ tx' = tx \ {t}
      /\ UNCHANGED <<live, version, emitted, processed, row, pending, purchases, earnings,
                     bonuses, recorded, started, applied, spoilt, doubtful>>
  BY DEF Fail, End, AfterRollback, creditVars, historyVars
<1>2. /\ session' \in [Sessions -> {"unused", "open", "lost", "complete", "expired"}]
      /\ \A s \in Sessions :
            /\ session'[s] = "complete" <=> session[s] = "complete"
            /\ session'[s] = "unused" <=> session[s] = "unused"
            /\ session'[s] = "open" => session[s] = "open" /\ ~ (t.op = "checkout" /\ t.of = s)
  BY <1>1 DEF BillingInv, TypeOK
<1>3. /\ faults' \in 0 .. MaxChanges /\ Changes' =< MaxChanges
      /\ IsFiniteSet(Paid) /\ IsFiniteSet(Snapshots)
      /\ Paid' = Paid /\ Snapshots' = Snapshots
  BY <1>1, FaultCounted
<1>4. TypeOK'
  BY <1>1, <1>2, <1>3 DEF BillingInv, TypeOK
<1>5. StripeInv'
  BY <1>1, <1>2, <1>3 DEF BillingInv, StripeInv, Known
<1>6. CountsInv' /\ RowInv' /\ CreditInv'
  BY <1>1, <1>3 DEF BillingInv, CountsInv, RowInv, CreditInv, SnapshotsOf, Credits, RowOK
<1>7. RequestsInv'
  <2>1. Lasting
    BY <1>1 DEF Lasting, KnownKept, Known
  <2>2. \A u \in tx' : u.event = NoEvent \/ u.event \notin processed'
    BY <1>1, OthersOpen DEF BillingInv
  <2>3. \A u \in tx' : u.op = "topup" /\ u.of \notin doubtful' /\ ~ u.credited
                             => purchases'[u.of] = 0
    BY <1>1 DEF BillingInv, RequestsInv, TopupOK
  <2> QED BY <1>1, <2>1, <2>2, <2>3, RequestsStay DEF BillingInv
<1>8. CheckoutInv'
  <2>1. \A u \in tx' : u.op = "checkout" => u.of \in Sessions /\ session'[u.of] # "unused"
    BY <1>1, <1>2 DEF BillingInv, CheckoutInv
  <2>2. pending # NoSession => pending \in Sessions
    BY DEF BillingInv, TypeOK, Markers
  <2>3. pending # NoSession => session'[pending] # "unused"
    BY <1>2, <2>2 DEF BillingInv, CheckoutInv
  <2>4. ASSUME "marker" \notin spoilt, NEW s \in Sessions, session'[s] = "open"
        PROVE  s = pending \/ \E u \in tx' : u.op = "checkout" /\ u.of = s
    BY <1>1, <1>2, <2>4 DEF BillingInv, CheckoutInv
  <2>5. "marker" \notin spoilt =>
          /\ \A u, w \in tx' : u.op = "checkout" /\ w.op = "checkout" => u = w
          /\ \A u \in tx' : u.op = "checkout" /\ pending # NoSession => session'[pending] # "open"
    BY <1>1, <1>2, <2>2 DEF BillingInv, CheckoutInv
  <2> QED BY <1>1, <2>1, <2>3, <2>4, <2>5 DEF CheckoutInv
<1>9. (ReferralCreditedOnce /\ PaymentCreditedOnce /\ CreatedOnce /\ ProcessedIsApplied)'
  BY <1>1 DEF BillingInv, ReferralCreditedOnce, PaymentCreditedOnce, CreatedOnce,
              ProcessedIsApplied, Source
<1> QED BY <1>4, <1>5, <1>6, <1>7, <1>8, <1>9 DEF BillingInv

-----------------------------------------------------------------------------
(* The invariant holds at first. *)
LEMMA InitInv == Init => BillingInv
<1> SUFFICES ASSUME Init  PROVE BillingInv
  OBVIOUS
<1>1. 0 \in Versions /\ NoState \in States /\ NoRow \in Rows /\ NoSession \notin Sessions
  BY BillingAssumption DEF Versions, States, NoState, Rows, NoRow
<1>2. Paid = {} /\ Snapshots = {} /\ Changes = 0
  <2>1. Paid = {} /\ Snapshots = {} /\ faults = 0
    BY DEF Init, Paid, Snapshots
  <2> QED BY <2>1, FS_EmptySet DEF Changes
<1>3. \A p \in Payments : 0 \in 0 .. Cardinality(Copies) /\ Cardinality(Credits(p)) = 0
  <2>1. Cardinality(Copies) \in Nat
    BY FS_CardinalityType, BillingAssumption
  <2>2. \A p \in Payments : Credits(p) = {}
    BY DEF Init, Credits
  <2> QED BY <2>1, <2>2, FS_EmptySet
<1>4. TypeOK
  BY <1>1, <1>3, BillingAssumption DEF Init, TypeOK, Purchases, Markers, Versions
<1>5. StripeInv
  BY <1>1 DEF Init, StripeInv
<1>6. CountsInv
  <2>1. \A s \in Sessions : SnapshotsOf(s) = {}
    BY <1>2 DEF SnapshotsOf
  <2>2. \A s \in Sessions : version[s] =< Cardinality(SnapshotsOf(s))
    BY <2>1, FS_EmptySet DEF Init
  <2>3. \A p \in Payments : purchases[p] =< Cardinality(Credits(p))
    BY <1>3 DEF Init
  <2> QED BY <1>2, <2>2, <2>3, FS_EmptySet, BillingAssumption DEF CountsInv
<1>7. RequestsInv /\ CheckoutInv
  BY DEF Init, RequestsInv, CheckoutInv
<1>8. RowInv
  <2>1. RowOK(row) /\ row = NoRow
    BY <1>1 DEF Init, RowOK, NoRow
  <2> QED BY <2>1 DEF Init, RowInv
<1>9. CreditInv /\ ReferralCreditedOnce /\ PaymentCreditedOnce /\ CreatedOnce /\ ProcessedIsApplied
  BY DEF Init, CreditInv, ReferralCreditedOnce, PaymentCreditedOnce, CreatedOnce,
         ProcessedIsApplied, Sources
<1> QED BY <1>4, <1>5, <1>6, <1>7, <1>8, <1>9 DEF BillingInv

(* Nothing happens. *)
LEMMA StutterKeeps == BillingInv /\ UNCHANGED vars => BillingInv'
<1> SUFFICES ASSUME BillingInv, UNCHANGED vars  PROVE BillingInv'
  OBVIOUS
<1>1. UNCHANGED <<session, live, version, emitted, processed, row, pending, purchases, earnings,
                  bonuses, recorded, started, tx, faults, applied, spoilt, doubtful>>
  BY DEF vars, stripeVars, creditVars, historyVars
<1>2. TypeOK' /\ StripeInv' /\ RowInv' /\ CreditInv' /\ CheckoutInv'
  BY <1>1 DEF BillingInv, TypeOK, StripeInv, Known, Snapshots, RowInv, RowOK, CreditInv, CheckoutInv
<1>3. CountsInv'
  BY <1>1 DEF BillingInv, CountsInv, Changes, Paid, Snapshots, SnapshotsOf, Credits
<1>4. RequestsInv'
  <2>1. Lasting
    BY <1>1 DEF Lasting, KnownKept, Known
  <2>2. \A u \in tx' : u.event = NoEvent \/ u.event \notin processed'
    BY <1>1 DEF BillingInv, RequestsInv, HandlesOK
  <2>3. \A u \in tx' : u.op = "topup" /\ u.of \notin doubtful' /\ ~ u.credited
                             => purchases'[u.of] = 0
    BY <1>1 DEF BillingInv, RequestsInv, TopupOK
  <2> QED BY <1>1, <2>1, <2>2, <2>3, RequestsStay DEF BillingInv
<1>5. (ReferralCreditedOnce /\ PaymentCreditedOnce /\ CreatedOnce /\ ProcessedIsApplied)'
  BY <1>1 DEF BillingInv, ReferralCreditedOnce, PaymentCreditedOnce, CreatedOnce,
              ProcessedIsApplied, Source
<1> QED BY <1>2, <1>3, <1>4, <1>5 DEF BillingInv

(* Every step keeps the invariant. *)
LEMMA NextInv == BillingInv /\ [Next]_vars => BillingInv'
<1> SUFFICES ASSUME BillingInv, [Next]_vars  PROVE BillingInv'
  OBVIOUS
<1>1. ASSUME NEW s \in Sessions, CompleteCheckout(s)  PROVE BillingInv'
  BY <1>1, CompleteCheckoutKeeps
<1>2. ASSUME NEW s \in Sessions, ExpireCheckout(s)  PROVE BillingInv'
  BY <1>2, ExpireCheckoutKeeps
<1>3. ASSUME NEW s \in Sessions, ChangeOutside(s)  PROVE BillingInv'
  BY <1>3, ChangeOutsideKeeps
<1>4. ASSUME NEW p \in Payments, NEW copies \in SUBSET Copies, PayTopup(p, copies)
      PROVE  BillingInv'
  BY <1>4, PayTopupKeeps
<1>5. ASSUME NEW s \in Sessions, NEW reached \in BOOLEAN, CheckoutBegin(s, reached)
      PROVE  BillingInv'
  BY <1>5, CheckoutBeginKeeps
<1>6. ASSUME NEW p \in Prices, ChangePlanBegin(p)  PROVE BillingInv'
  BY <1>6, ChangePlanKeeps
<1>7. ASSUME NEW b \in BOOLEAN, CancelBegin(b)  PROVE BillingInv'
  BY <1>7, CancelKeeps
<1>8. ASSUME NEW s \in Sessions, SyncPageBegin(s)  PROVE BillingInv'
  BY <1>8, SyncPageKeeps
<1>9. ASSUME NEW e \in emitted, ReceiveSub(e)  PROVE BillingInv'
  BY <1>9, ReceiveSubKeeps
<1>10. ASSUME NEW e \in emitted, ReceiveTopup(e)  PROVE BillingInv'
  BY <1>10, ReceiveTopupKeeps
<1>11. ASSUME NEW t \in tx, CheckoutCommit(t)  PROVE BillingInv'
  BY <1>11, CheckoutCommitKeeps
<1>12. ASSUME NEW t \in tx, SyncCommit(t)  PROVE BillingInv'
  BY <1>12, SyncCommitKeeps
<1>13. ASSUME NEW t \in tx, WebhookCommit(t)  PROVE BillingInv'
  BY <1>13, WebhookCommitKeeps
<1>14. ASSUME NEW t \in tx, InvoiceSwallowed(t)  PROVE BillingInv'
  BY <1>14, InvoiceSwallowedKeeps
<1>15. ASSUME NEW t \in tx, TopupCommit(t)  PROVE BillingInv'
  BY <1>15, TopupCommitKeeps
<1>16. ASSUME NEW t \in tx, Fail(t)  PROVE BillingInv'
  BY <1>16, FailKeeps
<1>17. CASE Finished \/ UNCHANGED vars
  BY <1>17, StutterKeeps DEF Finished
<1> QED
  BY <1>1, <1>2, <1>3, <1>4, <1>5, <1>6, <1>7, <1>8, <1>9, <1>10, <1>11, <1>12, <1>13, <1>14,
     <1>15, <1>16, <1>17 DEF Next, Receive, Commit

-----------------------------------------------------------------------------
(* When all events are processed, the newest version of a subscription has  *)
(* been applied: the event with its snapshot has.                           *)
LEMMA NewestApplied ==
    ASSUME BillingInv, processed = emitted, "row" \notin spoilt, NEW s \in Sessions
    PROVE  applied[s] = version[s]
<1>1. applied[s] \in Nat /\ version[s] \in Nat /\ applied[s] =< version[s]
  BY BillingAssumption DEF BillingInv, TypeOK, Versions, RowInv
<1>2. CASE version[s] > 0
  <2>1. PICK e \in Snapshots : e.of = s /\ e.v = version[s]
    BY <1>2 DEF BillingInv, StripeInv
  <2>2. e \in processed /\ e.kind # "topup"
    BY <2>1 DEF Snapshots
  <2> QED BY <1>1, <2>1, <2>2 DEF BillingInv, RowInv
<1> QED BY <1>1, <1>2

(* The invariant says that the account is in step with Stripe. *)
LEMMA InStep ==
    ASSUME BillingInv
    PROVE  InStepWithStripe
<1>1. RowFollowsStripe
  <2> SUFFICES ASSUME processed = emitted, "row" \notin spoilt
               PROVE  /\ row # NoRow => row.state = live[row.of]
                      /\ row = NoRow => \A s \in Sessions : live[s] = NoState
    BY DEF RowFollowsStripe
  <2>1. \A s \in Sessions : applied[s] = version[s]
    BY NewestApplied
  <2>2. ASSUME row # NoRow  PROVE row.state = live[row.of]
    <3>1. row.of \in Sessions
      BY <2>2 DEF BillingInv, RowInv, RowOK, Rows
    <3> QED BY <2>1, <2>2, <3>1 DEF BillingInv, RowInv
  <2>3. ASSUME row = NoRow, NEW s \in Sessions  PROVE live[s] = NoState
    <3>1. version[s] \in Nat /\ ~ (applied[s] > 0)
      BY <2>3, BillingAssumption DEF BillingInv, TypeOK, Versions, RowInv
    <3>2. version[s] = 0
      BY <2>1, <3>1
    <3> QED BY <3>2 DEF BillingInv, StripeInv
  <2> QED BY <2>2, <2>3
<1>2. OneOpenCheckout
  <2> DEFINE Open == {s \in Sessions : session[s] = "open"}
  <2> SUFFICES ASSUME "marker" \notin spoilt  PROVE Cardinality(Open) =< 1
    BY DEF OneOpenCheckout
  <2>1. PICK x : Open \subseteq {x}
    <3>1. CASE \E t \in tx : t.op = "checkout"
      <4>1. PICK t \in tx : t.op = "checkout"
        BY <3>1
      <4>2. \A s \in Open : s # pending
        BY <4>1, BillingAssumption DEF BillingInv, CheckoutInv
      <4>3. \A s \in Open : s = t.of
        BY <4>1, <4>2 DEF BillingInv, CheckoutInv
      <4> QED BY <4>3
    <3>2. CASE ~ \E t \in tx : t.op = "checkout"
      <4>1. \A s \in Open : s = pending
        BY <3>2 DEF BillingInv, CheckoutInv
      <4> QED BY <4>1
    <3> QED BY <3>1, <3>2
  <2>2. IsFiniteSet({x}) /\ Cardinality({x}) = 1
    BY FS_Singleton
  <2> HIDE DEF Open
  <2> QED BY <2>1, <2>2, FS_Subset
<1> QED BY <1>1, <1>2 DEF InStepWithStripe

(* What Stripe reports is applied once, however deliveries repeat and race *)
(* (process_webhook, _credit_wallet_topup, credit_for_payment and          *)
(* _record_subscription_changes).                                          *)
THEOREM PaymentsAppliedOnce == Spec => []AppliedOnce
<1>1. BillingInv => AppliedOnce
  BY DEF BillingInv, AppliedOnce
<1> QED BY <1>1, InitInv, NextInv, PTL DEF Spec

(* An event that counts as processed has had its effect (process_webhook  *)
(* commits it together with its writes).                                  *)
THEOREM ProcessedEventsApplied == Spec => []ProcessedIsApplied
<1>1. BillingInv => ProcessedIsApplied
  BY DEF BillingInv
<1> QED BY <1>1, InitInv, NextInv, PTL DEF Spec

(* The row of user_subscriptions follows Stripe, and at most one checkout *)
(* session is open (sync_subscription_object, _reject_if_checkout_pending). *)
THEOREM SubscriptionInStep == Spec => []InStepWithStripe
<1> QED BY InStep, InitInv, NextInv, PTL DEF Spec

=============================================================================
