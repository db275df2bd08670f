------------------------- MODULE UsageLedgerProofs -------------------------
(***************************************************************************)
(* Proofs about UsageLedger, for every finite set of requests and all      *)
(* amounts, limits and allowances.                                         *)
(*                                                                         *)
(* The argument follows the code.  A step first expires the stale          *)
(* reservations (or not) and then changes the row of one request (or not). *)
(* Section 0 is about sums, section 1 says what each of the two does to    *)
(* the rows and the sums over them; section 2 puts them together action by *)
(* action.                                                                 *)
(*                                                                         *)
(* Sections 4 to 6 show that UsageLedger implements PrepaidWallet: to its  *)
(* owner the ledger is a wallet with holds, whatever the periods, the      *)
(* allowances, the caps of keys and the plan do.  An expiry voids the      *)
(* holds of the stale reservations, a release voids one more, a            *)
(* reservation opens a hold and a settlement captures one; what the rest   *)
(* of the code changes is no part of the wallet.                           *)
(*                                                                         *)
(* Section 7 is about the usage periods.  Their counters are moved by      *)
(* increments.  They are exact as long as no max(0, ...) ever cuts         *)
(* anything off, and this is what Covered gives: no portion is negative,   *)
(* so a sum over some of the rows is at most the sum over all of them.     *)
(*                                                                         *)
(* Sections 8 to 11 are about the caps of keys: no key is past its caps by *)
(* more than its settlements overran their reservations.                   *)
(* enforce_spend_limits sums over the rows of a window, and rows enter and *)
(* leave that sum with the day and the month.  The proof sums over all     *)
(* requests instead, a row outside the window counting for nothing, so     *)
(* that writing a row changes the sum by what the row counts.  A window    *)
(* that starts anew is empty, because no row is of a later one.            *)
(***************************************************************************)
EXTENDS UsageLedger, FiniteSetTheorems, Functions, TLAPS

GoodRows == {row \in EventRows : Covered(row)}

-----------------------------------------------------------------------------
(* 0. Sums over any finite set of rows: a sum is a natural number, it      *)
(* splits over a partition of the rows, and changing one row changes it by *)
(* the difference.                                                         *)

(* The tokens of finitely many rows are finitely many: each row has f[x]   *)
(* of them, and SUM over no rows or some rows is defined (usage.py:514).   *)
LEMMA UnitsFinite ==
    ASSUME NEW S, IsFiniteSet(S), NEW f \in [S -> Nat], NEW T \in SUBSET S
    PROVE  IsFiniteSet(Units(f, T))
<1> DEFINE Row(x) == {x} \X (1 .. f[x])
           Blocks == {Row(x) : x \in T}
           g == [x \in T |-> Row(x)]
<1>1. IsFiniteSet(T)
  BY FS_Subset
<1>2. g \in Surjection(T, Blocks)
  BY DEF Surjection
<1>3. IsFiniteSet(Blocks)
  <2> HIDE DEF g, Blocks
  <2> QED BY <1>1, <1>2, FS_Surjection
<1>4. \A B \in Blocks : IsFiniteSet(B)
  <2> SUFFICES ASSUME NEW x \in T
               PROVE  IsFiniteSet(Row(x))
    OBVIOUS
  <2>1. IsFiniteSet({x})
    BY FS_Singleton
  <2>2. IsFiniteSet(1 .. f[x])
    BY FS_Interval
  <2> QED BY <2>1, <2>2, FS_Product
<1> QED
  <2>1. Units(f, T) = UNION Blocks
    BY DEF Units
  <2> HIDE DEF Blocks
  <2> QED BY <2>1, <1>3, <1>4, FS_UNION

(* A SUM of token counts is a token count. *)
LEMMA TotalNat ==
    ASSUME NEW S, IsFiniteSet(S), NEW f \in [S -> Nat], NEW T \in SUBSET S
    PROVE  Total(f, T) \in Nat
BY UnitsFinite, FS_CardinalityType DEF Total

(* One row sums to its own count. *)
LEMMA TotalSingleton ==
    ASSUME NEW S, NEW f \in [S -> Nat], NEW x \in S
    PROVE  Total(f, {x}) = f[x]
<1>1. Units(f, {x}) = {x} \X (1 .. f[x])
  BY DEF Units
<1>2. IsFiniteSet({x}) /\ Cardinality({x}) = 1
  BY FS_Singleton
<1>3. IsFiniteSet(1 .. f[x]) /\ Cardinality(1 .. f[x]) = f[x]
  BY FS_Interval
<1>4. Cardinality({x} \X (1 .. f[x])) = 1 * f[x]
  BY <1>2, <1>3, FS_Product, ZenonT(60)
<1>5. f[x] \in Nat
  OBVIOUS
<1>6. 1 * f[x] = f[x]
  BY <1>5
<1> QED BY <1>1, <1>4, <1>6 DEF Total

(* The sum over two disjoint sets of rows is the sum of the sums. *)
LEMMA TotalDisjointUnion ==
    ASSUME NEW S, IsFiniteSet(S), NEW f \in [S -> Nat],
           NEW T \in SUBSET S, NEW U \in SUBSET S, T \cap U = {}
    PROVE  Total(f, T \union U) = Total(f, T) + Total(f, U)
<1> DEFINE A == Units(f, T)
           B == Units(f, U)
<1>1. IsFiniteSet(A) /\ IsFiniteSet(B)
  BY UnitsFinite
<1>2. Units(f, T \union U) = A \union B
  BY DEF Units
<1>3. A \cap B = {}
  BY DEF Units
<1> HIDE DEF A, B
<1>4. Cardinality(A \union B) = Cardinality(A) + Cardinality(B)
  <2>1. Cardinality(A \union B) =
          Cardinality(A) + Cardinality(B) - Cardinality(A \cap B)
    BY <1>1, FS_Union
  <2>2. Cardinality(A \cap B) = 0
    BY <1>3, FS_EmptySet
  <2>3. Cardinality(A) \in Nat /\ Cardinality(B) \in Nat
    BY <1>1, FS_CardinalityType
  <2> QED BY <2>1, <2>2, <2>3
<1>5. Total(f, T \union U) = Cardinality(A \union B)
  BY <1>2, Zenon DEF Total
<1>6. Total(f, T) = Cardinality(A) /\ Total(f, U) = Cardinality(B)
  BY DEF Total, A, B
<1> QED BY <1>4, <1>5, <1>6, Zenon

(* The sum depends on nothing but the counts of the rows summed. *)
LEMMA TotalAgree ==
    ASSUME NEW T, NEW f, NEW g, \A x \in T : f[x] = g[x]
    PROVE  Total(f, T) = Total(g, T)
<1>1. Units(f, T) = Units(g, T)
  BY DEF Units
<1> QED BY <1>1 DEF Total

(* Rows that draw nothing sum to nothing. *)
LEMMA TotalZero ==
    ASSUME NEW T, NEW f, \A x \in T : f[x] = 0
    PROVE  Total(f, T) = 0
<1>1. Units(f, T) = {}
  BY DEF Units
<1> QED BY <1>1, FS_EmptySet DEF Total

(* Rows set aside: the sum over all is theirs and the others'. *)
LEMMA TotalSplit ==
    ASSUME NEW S, IsFiniteSet(S), NEW f \in [S -> Nat], NEW T \in SUBSET S
    PROVE  Total(f, S) = Total(f, T) + Total(f, S \ T)
<1>1. S = T \union (S \ T)
  OBVIOUS
<1>2. Total(f, T \union (S \ T)) = Total(f, T) + Total(f, S \ T)
  BY TotalDisjointUnion
<1> QED BY <1>1, <1>2

(* What a statement that changes the row x alone does to the sum. *)
LEMMA TotalUpdate ==
    ASSUME NEW S, IsFiniteSet(S), NEW f \in [S -> Nat], NEW g \in [S -> Nat],
           NEW x \in S, \A y \in S \ {x} : g[y] = f[y]
    PROVE  Total(g, S) + f[x] = Total(f, S) + g[x]
<1>1. Total(f, S) = Total(f, {x}) + Total(f, S \ {x})
  BY TotalSplit
<1>2. Total(g, S) = Total(g, {x}) + Total(g, S \ {x})
  BY TotalSplit
<1>3. Total(f, S \ {x}) = Total(g, S \ {x})
  BY TotalAgree
<1>4. Total(f, {x}) = f[x] /\ Total(g, {x}) = g[x]
  BY TotalSingleton
<1>5. Total(f, S \ {x}) \in Nat
  BY TotalNat
<1> QED BY <1>1, <1>2, <1>3, <1>4, <1>5

(* What a statement that zeroes the rows of T does to the sum. *)
LEMMA TotalZeroed ==
    ASSUME NEW S, IsFiniteSet(S), NEW f \in [S -> Nat], NEW g \in [S -> Nat],
           NEW T \in SUBSET S,
           \A x \in T : g[x] = 0,
           \A x \in S \ T : g[x] = f[x]
    PROVE  Total(g, S) + Total(f, T) = Total(f, S)
<1>1. Total(f, S) = Total(f, T) + Total(f, S \ T)
  BY TotalSplit
<1>2. Total(g, S) = Total(g, T) + Total(g, S \ T)
  BY TotalSplit
<1>3. Total(g, S \ T) = Total(f, S \ T)
  BY TotalAgree
<1>4. Total(g, T) = 0
  BY TotalZero
<1>5. Total(f, T) \in Nat /\ Total(f, S \ T) \in Nat
  BY TotalNat
<1> QED BY <1>1, <1>2, <1>3, <1>4, <1>5

-----------------------------------------------------------------------------
(* 1. Rows and sums. *)

(* What is written to used_tokens and remaining_tokens is never negative   *)
(* (every max(0, ...) of usage.py).                                        *)
LEMMA BookedType ==
    ASSUME NEW total \in Int, NEW used \in Int
    PROVE  Booked(total, used) \in PeriodRows
BY DEF Booked, Max0, PeriodRows

(* No portion of a row is negative. *)
LEMMA PortionTypes ==
    ASSUME NEW row \in GoodRows
    PROVE  /\ PeriodPortion(row) \in Nat
           /\ WalletPortion(row) \in Nat
           /\ row.wallet \in Nat
           /\ row.reserved \in Nat
           /\ row.charged \in Nat
<1>1. /\ row.wallet \in Nat
      /\ row.reserved \in Nat
      /\ row.charged \in Nat
      /\ row.status \in Statuses
      /\ Covered(row)
  BY DEF GoodRows, EventRows
<1>2. PeriodPortion(row) \in Nat
  <2>1. CASE row.status = "reserved"
    BY <1>1, <2>1 DEF PeriodPortion, Covered
  <2>2. CASE row.status = "settled"
    BY <1>1, <2>2 DEF PeriodPortion, Covered
  <2>3. CASE row.status \notin {"reserved", "settled"}
    BY <1>1, <2>3 DEF PeriodPortion
  <2> QED BY <2>1, <2>2, <2>3
<1> QED BY <1>1, <1>2 DEF WalletPortion

(* The functions that are summed. *)
LEMMA ShareTypes ==
    ASSUME NEW ev \in [Requests -> GoodRows], NEW p \in Periods
    PROVE  /\ WalletShare(ev) \in [Requests -> Nat]
           /\ PeriodShare(ev, p) \in [Requests -> Nat]
BY PortionTypes DEF WalletShare, PeriodShare

(* Changing the row of one request changes the wallet sum by its portion.  *)
LEMMA WalletUpdate ==
    ASSUME NEW ev \in [Requests -> GoodRows], NEW x \in Requests,
           NEW row \in GoodRows
    PROVE  Total(WalletShare([ev EXCEPT ![x] = row]), Requests) + WalletPortion(ev[x])
             = Total(WalletShare(ev), Requests) + WalletPortion(row)
<1> DEFINE new == [ev EXCEPT ![x] = row]
<1>1. new \in [Requests -> GoodRows]
  OBVIOUS
<1>2. /\ WalletShare(ev) \in [Requests -> Nat]
      /\ WalletShare(new) \in [Requests -> Nat]
  BY <1>1, PortionTypes DEF WalletShare
<1>3. \A y \in Requests \ {x} : WalletShare(new)[y] = WalletShare(ev)[y]
  BY DEF WalletShare
<1>4. /\ WalletShare(ev)[x] = WalletPortion(ev[x])
      /\ WalletShare(new)[x] = WalletPortion(row)
  BY DEF WalletShare
<1> HIDE DEF new
<1>5. Total(WalletShare(new), Requests) + WalletShare(ev)[x]
        = Total(WalletShare(ev), Requests) + WalletShare(new)[x]
  BY <1>2, <1>3, RowsAssumption, TotalUpdate
<1> QED BY <1>4, <1>5 DEF new

(* What the live events hold of the wallet is a token count. *)
LEMMA WalletTotalType ==
    ASSUME NEW ev \in [Requests -> GoodRows]
    PROVE  Total(WalletShare(ev), Requests) \in Nat
<1>1. WalletShare(ev) \in [Requests -> Nat]
  BY PortionTypes DEF WalletShare
<1> QED BY <1>1, RowsAssumption, TotalNat

(* Tokens that move between the balance and a row stay in the sum. *)
LEMMA Transfer ==
    ASSUME NEW ev \in [Requests -> GoodRows], NEW x \in Requests,
           NEW row \in GoodRows, NEW funds \in Nat, NEW left \in Nat,
           left + WalletPortion(row) = funds + WalletPortion(ev[x])
    PROVE  left + Total(WalletShare([ev EXCEPT ![x] = row]), Requests)
             = funds + Total(WalletShare(ev), Requests)
<1>1. Total(WalletShare([ev EXCEPT ![x] = row]), Requests) + WalletPortion(ev[x])
        = Total(WalletShare(ev), Requests) + WalletPortion(row)
  BY WalletUpdate
<1>2. [ev EXCEPT ![x] = row] \in [Requests -> GoodRows]
  OBVIOUS
<1>3. /\ Total(WalletShare([ev EXCEPT ![x] = row]), Requests) \in Nat
      /\ Total(WalletShare(ev), Requests) \in Nat
  BY <1>2, WalletTotalType
<1>4. WalletPortion(row) \in Nat /\ WalletPortion(ev[x]) \in Nat
  BY PortionTypes
<1> QED BY <1>1, <1>3, <1>4

(* expire_stale_reservations: well-formed rows, and every wallet token of  *)
(* a stale reservation back in the balance.                                *)
LEMMA Expiry ==
    ASSUME LedgerInv
    PROVE  /\ ExpiredEvent \in [Requests -> GoodRows]
           /\ ExpiredPeriod \in [Periods -> PeriodRows]
           /\ ExpiredBalance \in Nat
           /\ ExpiredBalance + Total(WalletShare(ExpiredEvent), Requests) = credited
<1>1. event \in [Requests -> GoodRows]
  BY DEF LedgerInv, TypeOK, GoodRows
<1>2. Stale \in SUBSET Requests
  BY DEF LedgerInv, TypeOK, Stale
<1>3. ExpiredEvent \in [Requests -> GoodRows]
  BY <1>1 DEF ExpiredEvent, GoodRows, EventRows, Statuses, Covered
<1>4. /\ WalletShare(event) \in [Requests -> Nat]
      /\ WalletShare(ExpiredEvent) \in [Requests -> Nat]
  BY <1>1, <1>3, PortionTypes DEF WalletShare
<1>5. Total(WalletShare(event), Stale) \in Nat
  BY <1>2, <1>4, RowsAssumption, TotalNat
<1>6. ExpiredBalance \in Nat
  BY <1>5 DEF LedgerInv, TypeOK, ExpiredBalance
<1>7. ExpiredPeriod \in [Periods -> PeriodRows]
  <2> SUFFICES ASSUME NEW p \in Periods
               PROVE  ExpiredPeriod[p] \in PeriodRows
    BY DEF ExpiredPeriod
  <2>1. period[p] \in PeriodRows /\ period[p].total \in Int /\ period[p].used \in Int
    BY DEF LedgerInv, TypeOK, PeriodRows
  <2>2. Total(PeriodShare(event, p), Stale) \in Nat
    BY <1>1, <1>2, ShareTypes, RowsAssumption, TotalNat
  <2>3. Booked(period[p].total, period[p].used - Total(PeriodShare(event, p), Stale))
          \in PeriodRows
    BY <2>1, <2>2, BookedType
  <2> QED BY <2>1, <2>3 DEF ExpiredPeriod
<1>8. \A r \in Stale : WalletShare(ExpiredEvent)[r] = 0
  BY <1>1, <1>2 DEF WalletShare, WalletPortion, ExpiredEvent, GoodRows, EventRows
<1>9. \A r \in Requests \ Stale : WalletShare(ExpiredEvent)[r] = WalletShare(event)[r]
  BY DEF WalletShare, ExpiredEvent
<1>10. Total(WalletShare(ExpiredEvent), Requests) + Total(WalletShare(event), Stale)
         = Total(WalletShare(event), Requests)
  BY <1>2, <1>4, <1>8, <1>9, RowsAssumption, TotalZeroed
<1>11. /\ balance \in Nat
       /\ balance + Total(WalletShare(event), Requests) = credited
  BY DEF LedgerInv, TypeOK, WalletConservation
<1>12. /\ Total(WalletShare(ExpiredEvent), Requests) \in Nat
       /\ Total(WalletShare(event), Requests) \in Nat
  BY <1>4, RowsAssumption, TotalNat
<1>13. ExpiredBalance + Total(WalletShare(ExpiredEvent), Requests) = credited
  BY <1>5, <1>10, <1>11, <1>12 DEF ExpiredBalance
<1> QED BY <1>3, <1>6, <1>7, <1>13

(* The row that recalculate_current_period writes. *)
LEMMA RecalculatedType ==
    ASSUME NEW ev \in [Requests -> GoodRows], NEW p \in Periods, allowance \in Int
    PROVE  Recalculated(ev, p) \in PeriodRows
<1>1. PeriodShare(ev, p) \in [Requests -> Nat]
  BY ShareTypes
<1>2. PeriodUsed(ev, p) \in Nat
  BY <1>1, RowsAssumption, TotalNat DEF PeriodUsed
<1> QED BY <1>2, BookedType DEF Recalculated

(* The allowance and the wallet share exactly the tokens of the request. *)
LEMMA SplitSound ==
    ASSUME NEW n \in Nat, NEW free \in Nat
    PROVE  /\ Split(n, free).period \in Nat
           /\ Split(n, free).wallet \in Nat
           /\ Split(n, free).period + Split(n, free).wallet = n
           /\ ~ unlimited /\ Split(n, free).wallet > 0 => Split(n, free).period = free
BY DEF Split, Lesser

(* A settlement that passes its checks leaves a well-formed row, and moves *)
(* between row and balance exactly what the row's wallet portion changes.  *)
LEMMA SettlementSound ==
    ASSUME NEW r \in Requests, NEW c \in Nat, NEW row \in PeriodRows,
           NEW funds \in Nat, event \in [Requests -> GoodRows],
           event[r].status = "reserved", Settlement(r, c, row, funds).ok
    PROVE  LET s == Settlement(r, c, row, funds)
           IN  /\ s.event \in GoodRows
               /\ s.period \in PeriodRows
               /\ s.funds \in Nat
               /\ s.funds + WalletPortion(s.event) = funds + WalletPortion(event[r])
<1> DEFINE s == Settlement(r, c, row, funds)
           free == row.remaining + PeriodPortion(event[r])
           split == Split(c, free)
<1>1. /\ event[r] \in GoodRows
      /\ PeriodPortion(event[r]) \in Nat
      /\ event[r].wallet \in Nat
  BY PortionTypes
<1>2. free \in Nat /\ row.used \in Nat /\ row.total \in Int
  BY <1>1 DEF PeriodRows
<1>3. /\ split.period \in Nat
      /\ split.wallet \in Nat
      /\ split.wallet =< c
  <2> HIDE DEF free
  <2> QED BY <1>2, SplitSound
<1>4. s.event = [event[r] EXCEPT !.status = "settled", !.charged = c,
                                 !.wallet = split.wallet]
  BY DEF Settlement
<1>5. s.period = Booked(row.total, row.used - PeriodPortion(event[r]) + split.period)
  BY DEF Settlement
<1>6. s.funds = funds + event[r].wallet - split.wallet
  BY DEF Settlement
<1>7. split.wallet =< funds + event[r].wallet
  BY DEF Settlement
<1> HIDE DEF s, split, free
<1>8. s.event \in GoodRows
  <2>1. event[r] \in EventRows
    BY DEF GoodRows
  <2>2. s.event \in EventRows
    BY <1>3, <1>4, <2>1, ZenonT(60) DEF EventRows, Statuses
  <2>3. /\ s.event.status = "settled"
        /\ s.event.wallet = split.wallet
        /\ s.event.charged = c
    BY <1>4, <2>1 DEF EventRows
  <2> QED BY <1>3, <2>2, <2>3 DEF GoodRows, Covered
<1>9. WalletPortion(s.event) = split.wallet
  BY <1>1, <1>3, <1>4 DEF WalletPortion, GoodRows, EventRows
<1>10. WalletPortion(event[r]) = event[r].wallet
  BY DEF WalletPortion
<1>11. s.period \in PeriodRows
  BY <1>1, <1>2, <1>3, <1>5, BookedType
<1>12. s.funds \in Nat /\ s.funds + split.wallet = funds + event[r].wallet
  BY <1>1, <1>3, <1>6, <1>7
<1> QED BY <1>8, <1>9, <1>10, <1>11, <1>12 DEF s

-----------------------------------------------------------------------------
(* 2. The actions. *)

(* Initially there are no rows and no tokens. *)
LEMMA InvInit == Init => LedgerInv
<1> SUFFICES ASSUME Init
             PROVE  LedgerInv
  OBVIOUS
<1>1. NoRow \in EventRows
  <2>1. (CHOOSE p \in Periods : TRUE) \in Periods
    BY DEF Init
  <2>2. (CHOOSE k \in Keys : TRUE) \in Keys
    BY RowsAssumption
  <2> QED BY <2>1, <2>2 DEF NoRow, EventRows, Statuses
<1>2. TypeOK
  <2>1. Booked(0, 0) \in PeriodRows
    BY BookedType
  <2>2. event \in [Requests -> EventRows] /\ period \in [Periods -> PeriodRows]
    BY <1>1, <2>1 DEF Init
  <2>3. unlimited \in BOOLEAN
    BY DEF Init
  <2>4. /\ balance \in Nat /\ credited \in Nat /\ window \in Nat
        /\ allowance \in Int /\ current \in Periods /\ due \subseteq Requests
    BY DEF Init
  <2> QED BY <2>2, <2>3, <2>4 DEF TypeOK
<1>3. \A r \in Requests : Covered(event[r])
  BY DEF Init, NoRow, Covered
<1>4. WalletConservation
  <2>1. \A r \in Requests : WalletShare(event)[r] = 0
    BY DEF Init, NoRow, WalletShare, WalletPortion
  <2>2. Total(WalletShare(event), Requests) = 0
    BY <2>1, TotalZero
  <2> QED BY <2>2 DEF Init, WalletConservation
<1> QED BY <1>2, <1>3, <1>4 DEF LedgerInv

(* What every action has to show. *)
LEMMA InvNext ==
    ASSUME event' \in [Requests -> GoodRows],
           period' \in [Periods -> PeriodRows],
           balance' \in Nat,
           balance' + Total(WalletShare(event)', Requests) = credited',
           credited' \in Nat, due' \subseteq Requests, current' \in Periods,
           allowance' \in Int, unlimited' \in BOOLEAN, window' \in Nat
    PROVE  LedgerInv'
BY DEF LedgerInv, TypeOK, WalletConservation, GoodRows

(* The part of the invariant that says what a step may rely on. *)
LEMMA InvFacts ==
    ASSUME LedgerInv
    PROVE  /\ event \in [Requests -> GoodRows]
           /\ period \in [Periods -> PeriodRows]
           /\ balance \in Nat
           /\ balance + Total(WalletShare(event), Requests) = credited
           /\ credited \in Nat /\ due \subseteq Requests /\ current \in Periods
           /\ allowance \in Int /\ unlimited \in BOOLEAN /\ window \in Nat
           /\ Total(WalletShare(event), Requests) \in Nat
<1>1. event \in [Requests -> GoodRows]
  BY DEF LedgerInv, TypeOK, GoodRows
<1>2. WalletShare(event) \in [Requests -> Nat]
  BY <1>1, PortionTypes DEF WalletShare
<1>3. Total(WalletShare(event), Requests) \in Nat
  BY <1>2, RowsAssumption, TotalNat
<1> QED BY <1>1, <1>3 DEF LedgerInv, TypeOK, WalletConservation

(* A step that writes the row of one request, on top of the rows ev and    *)
(* the balance funds that an expiry (or none) has left, keeps the          *)
(* invariant if the balance moves with the wallet portion of the row.      *)
LEMMA WriteInv ==
    ASSUME NEW STATE ev, NEW STATE funds, NEW x, NEW STATE row,
           LedgerInv,
           ev \in [Requests -> GoodRows] /\ funds \in Nat,
           funds + Total(WalletShare(ev), Requests) = credited,
           x \in Requests /\ row \in GoodRows,
           event' = [ev EXCEPT ![x] = row],
           period' \in [Periods -> PeriodRows],
           balance' \in Nat,
           balance' + WalletPortion(row) = funds + WalletPortion(ev[x]),
           UNCHANGED <<credited, due, current, allowance, unlimited, window>>
    PROVE  LedgerInv'
<1>1. balance' + Total(WalletShare([ev EXCEPT ![x] = row]), Requests) = credited
  <2>1. balance' + Total(WalletShare([ev EXCEPT ![x] = row]), Requests)
          = funds + Total(WalletShare(ev), Requests)
    <3>1. ev \in [Requests -> GoodRows] /\ x \in Requests /\ row \in GoodRows
      OBVIOUS
    <3>2. funds \in Nat /\ balance' \in Nat
      OBVIOUS
    <3>3. balance' + WalletPortion(row) = funds + WalletPortion(ev[x])
      OBVIOUS
    <3> QED BY ONLY <3>1, <3>2, <3>3, Transfer, ZenonT(30)
  <2>2. funds + Total(WalletShare(ev), Requests) = credited
    OBVIOUS
  <2> QED BY ONLY <2>1, <2>2
<1>2. WalletShare(event)' = WalletShare([ev EXCEPT ![x] = row])
  BY DEF WalletShare
<1>3. event' \in [Requests -> GoodRows]
  OBVIOUS
<1> QED BY <1>1, <1>2, <1>3, InvFacts, InvNext

(* recalculate_current_period *)
LEMMA RecalculateInv ==
    ASSUME LedgerInv, RecalculateCurrentPeriod
    PROVE  LedgerInv'
<1>1. /\ ExpiredEvent \in [Requests -> GoodRows]
      /\ ExpiredPeriod \in [Periods -> PeriodRows]
      /\ ExpiredBalance \in Nat
      /\ ExpiredBalance + Total(WalletShare(ExpiredEvent), Requests) = credited
  BY Expiry
<1>2. Recalculated(ExpiredEvent, current) \in PeriodRows
  BY <1>1, InvFacts, RecalculatedType
<1>3. /\ event' \in [Requests -> GoodRows]
      /\ period' \in [Periods -> PeriodRows]
      /\ balance' \in Nat
  BY <1>1, <1>2 DEF RecalculateCurrentPeriod
<1>4. balance' + Total(WalletShare(event)', Requests) = credited'
  BY <1>1 DEF RecalculateCurrentPeriod, WalletShare
<1>5. UNCHANGED <<credited, due, current, allowance, unlimited, window>>
  BY DEF RecalculateCurrentPeriod
<1> QED BY <1>3, <1>4, <1>5, InvFacts, InvNext

(* release of an overdue reservation: the expiry alone *)
LEMMA ReleaseOverdueInv ==
    ASSUME LedgerInv, NEW r \in Requests, ReleaseOverdue(r)
    PROVE  LedgerInv'
<1>1. /\ ExpiredEvent \in [Requests -> GoodRows]
      /\ ExpiredPeriod \in [Periods -> PeriodRows]
      /\ ExpiredBalance \in Nat
      /\ ExpiredBalance + Total(WalletShare(ExpiredEvent), Requests) = credited
  BY Expiry
<1>2. /\ event' \in [Requests -> GoodRows]
      /\ period' \in [Periods -> PeriodRows]
      /\ balance' \in Nat
  BY <1>1 DEF ReleaseOverdue
<1>3. balance' + Total(WalletShare(event)', Requests) = credited'
  BY <1>1 DEF ReleaseOverdue, WalletShare
<1>4. UNCHANGED <<credited, due, current, allowance, unlimited, window>>
  BY DEF ReleaseOverdue
<1> QED BY <1>2, <1>3, <1>4, InvFacts, InvNext

(* reserve_inference_tokens: the wallet portion leaves the balance and is  *)
(* on the new row.                                                         *)
LEMMA ReserveInv ==
    ASSUME LedgerInv, NEW r \in Requests, NEW k \in Keys, NEW n \in Amounts,
           Reserve(r, k, n)
    PROVE  LedgerInv'
<1> DEFINE fresh == Recalculated(ExpiredEvent, current)
           split == Split(n, fresh.remaining)
           row == [status |-> "reserved", period |-> current, key |-> k,
                   window |-> window, reserved |-> n,
                   wallet |-> split.wallet, charged |-> 0]
<1>1. /\ ExpiredEvent \in [Requests -> GoodRows]
      /\ ExpiredPeriod \in [Periods -> PeriodRows]
      /\ ExpiredBalance \in Nat
      /\ ExpiredBalance + Total(WalletShare(ExpiredEvent), Requests) = credited
  BY Expiry
<1>2. /\ event[r].status = "none"
      /\ split.wallet =< ExpiredBalance
      /\ event' = [ExpiredEvent EXCEPT ![r] = row]
      /\ period' = [ExpiredPeriod EXCEPT ![current] =
                       Booked(fresh.total, fresh.used + split.period)]
      /\ balance' = ExpiredBalance - split.wallet
      /\ UNCHANGED <<credited, due, current, allowance, unlimited, window>>
  BY DEF Reserve
<1>3. /\ current \in Periods /\ window \in Nat /\ allowance \in Int /\ credited \in Nat
  BY InvFacts
<1>4. n \in Nat
  BY AmountsAssumption
<1>5. fresh \in PeriodRows
  BY <1>1, <1>3, RecalculatedType
<1>6. fresh.total \in Int /\ fresh.used \in Nat /\ fresh.remaining \in Nat
  BY <1>5 DEF PeriodRows
<1> HIDE DEF fresh
<1>7. split.period \in Nat /\ split.wallet \in Nat /\ split.wallet =< n
  BY <1>4, <1>6, SplitSound
<1> HIDE DEF split
<1>8. row \in GoodRows
  <2>1. row \in EventRows
    BY <1>3, <1>4, <1>7 DEF EventRows, Statuses
  <2> QED BY <1>7, <2>1 DEF GoodRows, Covered
<1>9. WalletPortion(row) = split.wallet
  BY DEF WalletPortion
<1>10. WalletPortion(ExpiredEvent[r]) = 0
  BY <1>2 DEF ExpiredEvent, Stale, WalletPortion
<1> HIDE DEF row
<1>11. Booked(fresh.total, fresh.used + split.period) \in PeriodRows
  BY <1>6, <1>7, BookedType
<1>12. period' \in [Periods -> PeriodRows]
  BY <1>1, <1>2, <1>11
<1>13. /\ balance' \in Nat
       /\ balance' + WalletPortion(row) = ExpiredBalance + WalletPortion(ExpiredEvent[r])
  BY <1>1, <1>2, <1>7, <1>9, <1>10
<1> QED BY <1>1, <1>2, <1>8, <1>12, <1>13, WriteInv

(* settle_inference_usage: what the wallet pays for the charge is on the   *)
(* settled row.                                                            *)
LEMMA SettleInv ==
    ASSUME LedgerInv, NEW r \in Requests, NEW c \in Nat, Settle(r, c)
    PROVE  LedgerInv'
<1> DEFINE p == event[r].period
           s == Settlement(r, c, period[p], balance)
<1>1. /\ event \in [Requests -> GoodRows]
      /\ period \in [Periods -> PeriodRows]
      /\ balance \in Nat
      /\ balance + Total(WalletShare(event), Requests) = credited
  BY InvFacts
<1>2. p \in Periods
  BY <1>1 DEF GoodRows, EventRows
<1>3. /\ event[r].status = "reserved"
      /\ s.ok
      /\ event' = [event EXCEPT ![r] = s.event]
      /\ period' = [period EXCEPT ![p] = s.period]
      /\ balance' = s.funds
      /\ UNCHANGED <<credited, due, current, allowance, unlimited, window>>
  BY DEF Settle
<1>4. period[p] \in PeriodRows
  BY <1>1, <1>2
<1> HIDE DEF p
<1>5. /\ s.event \in GoodRows
      /\ s.period \in PeriodRows
      /\ s.funds \in Nat
      /\ s.funds + WalletPortion(s.event) = balance + WalletPortion(event[r])
  BY <1>1, <1>3, <1>4, SettlementSound
<1> HIDE DEF s
<1>6. /\ period' \in [Periods -> PeriodRows]
      /\ balance' \in Nat
      /\ balance' + WalletPortion(s.event) = balance + WalletPortion(event[r])
  BY <1>1, <1>3, <1>5
<1> QED BY <1>1, <1>3, <1>5, <1>6, WriteInv

(* RouterInferenceService.settle_usage: the same on what the expiry left,  *)
(* and a recalculated current period.                                      *)
LEMMA RouterSettleInv ==
    ASSUME LedgerInv, NEW r \in Requests, NEW c \in Nat, RouterSettle(r, c)
    PROVE  LedgerInv'
<1> DEFINE p == event[r].period
           s == Settlement(r, c, ExpiredPeriod[p], ExpiredBalance)
           after == [ExpiredEvent EXCEPT ![r] = s.event]
<1>1. /\ event \in [Requests -> GoodRows]
      /\ ExpiredEvent \in [Requests -> GoodRows]
      /\ ExpiredPeriod \in [Periods -> PeriodRows]
      /\ ExpiredBalance \in Nat
      /\ ExpiredBalance + Total(WalletShare(ExpiredEvent), Requests) = credited
      /\ current \in Periods /\ allowance \in Int
  BY Expiry, InvFacts
<1>2. p \in Periods
  BY <1>1 DEF GoodRows, EventRows
<1>3. /\ event[r].status = "reserved"
      /\ r \notin due
      /\ s.ok
      /\ event' = after
      /\ period' = [ExpiredPeriod EXCEPT ![p] = s.period,
                                         ![current] = Recalculated(after, current)]
      /\ balance' = s.funds
      /\ UNCHANGED <<credited, due, current, allowance, unlimited, window>>
  BY DEF RouterSettle
<1>4. ExpiredEvent[r] = event[r]
  BY <1>3 DEF ExpiredEvent, Stale
<1>5. ExpiredPeriod[p] \in PeriodRows
  BY <1>1, <1>2
<1> HIDE DEF p
<1>6. /\ s.event \in GoodRows
      /\ s.period \in PeriodRows
      /\ s.funds \in Nat
      /\ s.funds + WalletPortion(s.event)
           = ExpiredBalance + WalletPortion(ExpiredEvent[r])
  BY <1>1, <1>3, <1>4, <1>5, SettlementSound
<1> HIDE DEF s
<1>7. after \in [Requests -> GoodRows]
  BY <1>1, <1>6
<1>8. Recalculated(after, current) \in PeriodRows
  <2> HIDE DEF after
  <2> QED BY <1>1, <1>7, RecalculatedType
<1>9. /\ period' \in [Periods -> PeriodRows]
      /\ balance' \in Nat
      /\ balance' + WalletPortion(s.event)
           = ExpiredBalance + WalletPortion(ExpiredEvent[r])
  BY <1>1, <1>3, <1>6, <1>8
<1> QED BY <1>1, <1>3, <1>6, <1>9, WriteInv

(* release_inference_reservation: the wallet portion goes back. *)
LEMMA ReleaseInv ==
    ASSUME LedgerInv, NEW r \in Requests, Release(r)
    PROVE  LedgerInv'
<1> DEFINE p == event[r].period
           row == [event[r] EXCEPT !.status = "released"]
<1>1. /\ event \in [Requests -> GoodRows]
      /\ period \in [Periods -> PeriodRows]
      /\ balance \in Nat
      /\ balance + Total(WalletShare(event), Requests) = credited
  BY InvFacts
<1>2. /\ event[r].status = "reserved"
      /\ event' = [event EXCEPT ![r] = row]
      /\ period' = [period EXCEPT ![p] = Booked(period[p].total,
                       period[p].used - PeriodPortion(event[r]))]
      /\ balance' = balance + event[r].wallet
      /\ UNCHANGED <<credited, due, current, allowance, unlimited, window>>
  BY DEF Release
<1>3. /\ p \in Periods
      /\ row \in GoodRows
      /\ row.status = "released"
  BY <1>1 DEF GoodRows, EventRows, Statuses, Covered
<1>4. PeriodPortion(event[r]) \in Nat /\ event[r].wallet \in Nat
  BY <1>1, PortionTypes
<1>5. period[p].total \in Int /\ period[p].used \in Nat
  BY <1>1, <1>3 DEF PeriodRows
<1>6. WalletPortion(row) = 0 /\ WalletPortion(event[r]) = event[r].wallet
  BY <1>2, <1>3 DEF WalletPortion
<1> HIDE DEF p, row
<1>7. Booked(period[p].total, period[p].used - PeriodPortion(event[r])) \in PeriodRows
  BY <1>4, <1>5, BookedType
<1>8. period' \in [Periods -> PeriodRows]
  BY <1>1, <1>2, <1>7
<1>9. /\ balance' \in Nat
      /\ balance' + WalletPortion(row) = balance + WalletPortion(event[r])
  BY <1>1, <1>2, <1>4, <1>6
<1> QED BY <1>1, <1>2, <1>3, <1>8, <1>9, WriteInv

(* RouterInferenceService.release_reservation: the same on what the expiry *)
(* left, and a recalculated current period.                                *)
LEMMA RouterReleaseInv ==
    ASSUME LedgerInv, NEW r \in Requests, RouterRelease(r)
    PROVE  LedgerInv'
<1> DEFINE p == event[r].period
           row == [ExpiredEvent[r] EXCEPT !.status = "released"]
           after == [ExpiredEvent EXCEPT ![r] = row]
           given == Booked(ExpiredPeriod[p].total,
                           ExpiredPeriod[p].used - PeriodPortion(event[r]))
<1>1. /\ event \in [Requests -> GoodRows]
      /\ ExpiredEvent \in [Requests -> GoodRows]
      /\ ExpiredPeriod \in [Periods -> PeriodRows]
      /\ ExpiredBalance \in Nat
      /\ ExpiredBalance + Total(WalletShare(ExpiredEvent), Requests) = credited
      /\ current \in Periods /\ allowance \in Int
  BY Expiry, InvFacts
<1>2. /\ event[r].status = "reserved"
      /\ r \notin due
      /\ event' = after
      /\ period' = [ExpiredPeriod EXCEPT ![p] = given,
                                         ![current] = Recalculated(after, current)]
      /\ balance' = ExpiredBalance + event[r].wallet
      /\ UNCHANGED <<credited, due, current, allowance, unlimited, window>>
  BY DEF RouterRelease
<1>3. ExpiredEvent[r] = event[r]
  BY <1>2 DEF ExpiredEvent, Stale
<1>4. /\ p \in Periods
      /\ row \in GoodRows
      /\ row.status = "released"
  BY <1>1, <1>3 DEF GoodRows, EventRows, Statuses, Covered
<1>5. PeriodPortion(event[r]) \in Nat /\ event[r].wallet \in Nat
  BY <1>1, PortionTypes
<1>6. ExpiredPeriod[p].total \in Int /\ ExpiredPeriod[p].used \in Nat
  BY <1>1, <1>4 DEF PeriodRows
<1>7. WalletPortion(row) = 0 /\ WalletPortion(ExpiredEvent[r]) = event[r].wallet
  BY <1>2, <1>3, <1>4 DEF WalletPortion
<1> HIDE DEF p, row
<1>8. given \in PeriodRows
  BY <1>5, <1>6, BookedType
<1>9. after \in [Requests -> GoodRows]
  BY <1>1, <1>4
<1> HIDE DEF given
<1>10. Recalculated(after, current) \in PeriodRows
  <2> HIDE DEF after
  <2> QED BY <1>1, <1>9, RecalculatedType
<1>11. /\ period' \in [Periods -> PeriodRows]
       /\ balance' \in Nat
       /\ balance' + WalletPortion(row) = ExpiredBalance + WalletPortion(ExpiredEvent[r])
  BY <1>1, <1>2, <1>5, <1>7, <1>8, <1>10
<1> QED BY <1>1, <1>2, <1>4, <1>11, WriteInv

(* A wallet purchase is credited to the balance and to what was bought.    *)
LEMMA TopUpInv ==
    ASSUME LedgerInv, NEW n \in TopUps, TopUp(n)
    PROVE  LedgerInv'
<1>1. n \in Nat
  BY AmountsAssumption
<1>2. /\ balance' = balance + n
      /\ credited' = credited + n
      /\ UNCHANGED <<event, period, due, current, allowance, unlimited, window>>
  BY DEF TopUp
<1>3. balance' + Total(WalletShare(event)', Requests) = credited'
  <2>1. WalletShare(event)' = WalletShare(event)
    BY <1>2 DEF WalletShare
  <2> QED BY <1>1, <1>2, <2>1, InvFacts
<1>4. balance' \in Nat /\ credited' \in Nat
  BY <1>1, <1>2, InvFacts
<1> QED BY <1>2, <1>3, <1>4, InvFacts, InvNext

(* Steps of time, of the allowance and of the subscription touch no token. *)
LEMMA AroundInv ==
    ASSUME LedgerInv,
           UNCHANGED <<event, period, balance, credited>>,
           due' \subseteq Requests, current' \in Periods, allowance' \in Int,
           unlimited' \in BOOLEAN, window' \in Nat
    PROVE  LedgerInv'
<1>1. WalletShare(event)' = WalletShare(event)
  BY DEF WalletShare
<1> QED BY <1>1, InvFacts, InvNext

(* The invariant is inductive: one step per action of Next. *)
LEMMA InvStep == LedgerInv /\ [Next]_vars => LedgerInv'
<1> SUFFICES ASSUME LedgerInv, [Next]_vars
             PROVE  LedgerInv'
  OBVIOUS
<1>1. CASE RecalculateCurrentPeriod
  BY <1>1, RecalculateInv
<1>2. ASSUME NEW r \in Requests, NEW k \in Keys, NEW n \in Amounts, Reserve(r, k, n)
      PROVE  LedgerInv'
  BY <1>2, ReserveInv
<1>3. ASSUME NEW r \in Requests, NEW c \in 1 .. (event[r].reserved + Overrun),
             Settle(r, c) \/ RouterSettle(r, c)
      PROVE  LedgerInv'
  <2>1. c \in Nat
    BY InvFacts, AmountsAssumption DEF GoodRows, EventRows
  <2> QED BY <1>3, <2>1, SettleInv, RouterSettleInv
<1>4. ASSUME NEW r \in Requests, Release(r)
      PROVE  LedgerInv'
  BY <1>4, ReleaseInv
<1>5. ASSUME NEW r \in Requests, ReleaseOverdue(r)
      PROVE  LedgerInv'
  BY <1>5, ReleaseOverdueInv
<1>6. ASSUME NEW r \in Requests, RouterRelease(r)
      PROVE  LedgerInv'
  BY <1>6, RouterReleaseInv
<1>7. ASSUME NEW r \in Requests, Lapse(r)
      PROVE  LedgerInv'
  BY <1>7, InvFacts, AroundInv DEF Lapse
<1>8. ASSUME NEW n \in TopUps, TopUp(n)
      PROVE  LedgerInv'
  BY <1>8, TopUpInv
<1>9. ASSUME NEW a \in Allowances, ChangeAllowance(a)
      PROVE  LedgerInv'
  BY <1>9, InvFacts, AroundInv, AmountsAssumption DEF ChangeAllowance
<1>10. ASSUME NEW p \in Periods, NEW u \in BOOLEAN, ChangeSubscription(p, u)
       PROVE  LedgerInv'
  BY <1>10, InvFacts, AroundInv DEF ChangeSubscription
<1>11. CASE NextWindow
  BY <1>11, InvFacts, AroundInv DEF NextWindow
<1>12. CASE UNCHANGED vars
  BY <1>12, InvFacts, AroundInv DEF vars
<1> QED BY <1>1, <1>2, <1>3, <1>4, <1>5, <1>6, <1>7, <1>8, <1>9, <1>10, <1>11,
           <1>12 DEF Next

-----------------------------------------------------------------------------
(* 3. The theorems. *)

(* The invariant holds of every reachable state of UsageService.           *)
THEOREM Inductive == Spec => []LedgerInv
BY InvInit, InvStep, PTL DEF Spec

(* used_tokens, remaining_tokens and balance_tokens are never negative, and *)
(* every row is well-formed (usage.py, all operations).                     *)
THEOREM TypeCorrect == Spec => []TypeOK
<1>1. LedgerInv => TypeOK
  BY DEF LedgerInv
<1> QED BY <1>1, Inductive, PTL

(* Wallet tokens are neither made nor lost, for any number of requests,    *)
(* keys and periods, any allowances and any overrun of a reservation       *)
(* (_refund_wallet, settle_inference_usage, expire_stale_reservations).    *)
THEOREM WalletConserved == Spec => []WalletConservation
<1>1. LedgerInv => WalletConservation
  BY DEF LedgerInv
<1> QED BY <1>1, Inductive, PTL

-----------------------------------------------------------------------------
(* 4. The wallet in terms of the ledger. *)

(* The hold that the row of a request is, and the holds that rows are. *)
HoldOf(row) == [state |-> HoldState(row.status), amount |-> WalletPortion(row)]
HoldsOf(ev) == [r \in Requests |-> HoldOf(ev[r])]

(* The sums of the two specifications are one. *)
LEMMA SameTotal ==
    ASSUME NEW f, NEW S
    PROVE  Prepaid!Total(f, S) = Total(f, S)
BY DEF Prepaid!Total, Prepaid!Units, Prepaid!Cardinality, Total, Units, Cardinality

(* What is held is what is reserved. *)
LEMMA HeldIsReserved ==
    Prepaid!Held = {r \in Requests : event[r].status = "reserved"}
BY DEF Prepaid!Held, HoldState

(* Tokens that come back when the holds of S are voided. *)
LEMMA ReturnedIs ==
    ASSUME LedgerInv, NEW S \in SUBSET Requests
    PROVE  /\ Prepaid!Returned(S) = balance + Total(WalletShare(event), S)
           /\ Total(WalletShare(event), S) \in Nat
<1>1. Prepaid!Returned(S)
        = balance + Total([r \in Requests |-> WalletPortion(event[r])], S)
  BY SameTotal DEF Prepaid!Returned
<1>2. WalletShare(event) \in [Requests -> Nat]
  BY InvFacts, PortionTypes DEF WalletShare
<1>3. Total(WalletShare(event), S) \in Nat
  BY <1>2, RowsAssumption, TotalNat
<1> QED BY <1>1, <1>3 DEF WalletShare

(* With one request more, its wallet portion comes back as well. *)
LEMMA ReturnedWith ==
    ASSUME LedgerInv, NEW S \in SUBSET Requests, NEW r \in Requests \ S
    PROVE  Prepaid!Returned(S \union {r}) = Prepaid!Returned(S) + WalletPortion(event[r])
<1>1. WalletShare(event) \in [Requests -> Nat]
  BY InvFacts, PortionTypes DEF WalletShare
<1>2. Total(WalletShare(event), S \union {r})
        = Total(WalletShare(event), S) + Total(WalletShare(event), {r})
  BY <1>1, RowsAssumption, TotalDisjointUnion
<1>3. Total(WalletShare(event), {r}) = WalletPortion(event[r])
  <2>1. Total(WalletShare(event), {r}) = WalletShare(event)[r]
    BY <1>1, TotalSingleton
  <2> QED BY <2>1 DEF WalletShare
<1>4. WalletPortion(event[r]) \in Nat /\ balance \in Nat
  BY InvFacts, PortionTypes
<1>5. /\ Prepaid!Returned(S) = balance + Total(WalletShare(event), S)
      /\ Total(WalletShare(event), S) \in Nat
  BY ReturnedIs
<1>6. Prepaid!Returned(S \union {r}) = balance + Total(WalletShare(event), S \union {r})
  <2>1. S \union {r} \in SUBSET Requests
    OBVIOUS
  <2> HIDE DEF Prepaid!Returned
  <2> QED BY <2>1, ReturnedIs
<1> QED BY <1>2, <1>3, <1>4, <1>5, <1>6

(* expire_stale_reservations voids the holds of the stale reservations. *)
LEMMA ExpiryVoids ==
    ASSUME LedgerInv
    PROVE  /\ Stale \in SUBSET Prepaid!Held
           /\ Stale \in SUBSET Requests
           /\ Prepaid!Voided(Stale) = HoldsOf(ExpiredEvent)
           /\ Prepaid!Returned(Stale) = ExpiredBalance
<1>1. Stale \in SUBSET Requests
  BY DEF LedgerInv, TypeOK, Stale
<1>2. Stale \in SUBSET Prepaid!Held
  BY <1>1, HeldIsReserved DEF Stale
<1>3. ASSUME NEW r \in Requests
      PROVE  Prepaid!Voided(Stale)[r] = HoldOf(ExpiredEvent[r])
  <2>1. CASE r \in Stale
    <3>1. ExpiredEvent[r].status = "expired"
      BY <2>1, InvFacts DEF ExpiredEvent, GoodRows, EventRows
    <3> QED BY <2>1, <3>1 DEF Prepaid!Voided, HoldOf, HoldState, WalletPortion
  <2>2. CASE r \notin Stale
    BY <2>2 DEF Prepaid!Voided, HoldOf, ExpiredEvent
  <2> QED BY <2>1, <2>2
<1>4. Prepaid!Voided(Stale) = HoldsOf(ExpiredEvent)
  BY <1>3 DEF Prepaid!Voided, HoldsOf
<1>5. Prepaid!Returned(Stale) = ExpiredBalance
  BY <1>1, ReturnedIs DEF ExpiredBalance
<1> QED BY <1>1, <1>2, <1>4, <1>5

(* Without an expiry no hold is voided. *)
LEMMA NothingVoided ==
    ASSUME LedgerInv
    PROVE  /\ {} \in SUBSET Prepaid!Held
           /\ Prepaid!Voided({}) = HoldsOf(event)
           /\ Prepaid!Returned({}) = balance
<1>1. Prepaid!Voided({}) = HoldsOf(event)
  BY DEF Prepaid!Voided, HoldsOf, HoldOf
<1>2. Total(WalletShare(event), {}) = 0
  BY TotalZero
<1>3. Prepaid!Returned({}) = balance + Total(WalletShare(event), {})
  BY ReturnedIs
<1> QED BY <1>1, <1>2, <1>3, InvFacts

-----------------------------------------------------------------------------
(* 5. The steps. *)

(* The wallet is empty at first and nothing is held. *)
LEMMA InitMaps == Init => Prepaid!Init
BY DEF Init, NoRow, Prepaid!Init, HoldState, WalletPortion

(* An expiry, as part of a recalculation or of a refused release. *)
LEMMA ExpireMaps ==
    ASSUME LedgerInv, event' = ExpiredEvent, balance' = ExpiredBalance
    PROVE  Prepaid!Void(Stale)
BY ExpiryVoids DEF Prepaid!Void, HoldsOf, HoldOf

(* A reservation opens a hold for its wallet portion. *)
LEMMA ReserveMaps ==
    ASSUME LedgerInv, NEW r \in Requests, NEW k \in Keys, NEW n \in Amounts,
           Reserve(r, k, n)
    PROVE  Prepaid!Open(Stale, r)
<1> DEFINE fresh == Recalculated(ExpiredEvent, current)
           split == Split(n, fresh.remaining)
           row == [status |-> "reserved", period |-> current, key |-> k,
                   window |-> window, reserved |-> n,
                   wallet |-> split.wallet, charged |-> 0]
<1>1. /\ event[r].status = "none"
      /\ split.wallet =< ExpiredBalance
      /\ event' = [ExpiredEvent EXCEPT ![r] = row]
      /\ balance' = ExpiredBalance - split.wallet
  BY DEF Reserve
<1>2. split.wallet \in Nat
  <2>1. fresh \in PeriodRows
    BY Expiry, InvFacts, RecalculatedType
  <2>2. fresh.remaining \in Nat
    BY <2>1 DEF PeriodRows
  <2>3. n \in Nat
    BY AmountsAssumption
  <2> HIDE DEF fresh
  <2> QED BY <2>2, <2>3, SplitSound
<1>3. HoldOf(row) = [state |-> "held", amount |-> split.wallet]
  BY DEF HoldOf, HoldState, WalletPortion
<1> HIDE DEF split, row
<1>4. ExpiredBalance \in Nat
  BY Expiry
<1>5. /\ 0 =< balance'
      /\ balance' =< Prepaid!Returned(Stale)
      /\ Prepaid!Returned(Stale) - balance' = split.wallet
  BY <1>1, <1>2, <1>4, ExpiryVoids
<1>6. HoldsOf(event)' = [HoldsOf(ExpiredEvent) EXCEPT ![r] = HoldOf(row)]
  BY <1>1, Expiry DEF HoldsOf
<1> QED BY <1>1, <1>3, <1>5, <1>6, ExpiryVoids DEF Prepaid!Open, HoldsOf, HoldOf, HoldState

(* A settlement captures the hold: the row keeps what the wallet pays, and *)
(* the rest of what was held, and of the balance, is in the balance.       *)
LEMMA CaptureMaps ==
    ASSUME LedgerInv, NEW S \in SUBSET Requests, NEW r \in Requests \ S,
           NEW c \in Nat, NEW STATE ev, NEW STATE row,
           event[r].status = "reserved",
           ev \in [Requests -> GoodRows],
           Prepaid!Voided(S) = HoldsOf(ev),
           row.status = "settled", row.wallet \in Nat,
           event' = [ev EXCEPT ![r] = row],
           balance' \in Nat,
           balance' + row.wallet = Prepaid!Returned(S) + WalletPortion(event[r])
    PROVE  Prepaid!Capture(S, r)
<1>1. r \in Prepaid!Held \ S
  BY HeldIsReserved
<1>2. HoldOf(row) = [state |-> "captured", amount |-> row.wallet]
  BY DEF HoldOf, HoldState, WalletPortion
<1>3. Prepaid!Returned(S \union {r}) = balance' + row.wallet
  BY ReturnedWith
<1>4. /\ 0 =< balance'
      /\ balance' =< Prepaid!Returned(S \union {r})
      /\ Prepaid!Returned(S \union {r}) - balance' = row.wallet
  BY <1>3
<1>5. HoldsOf(event)' = [HoldsOf(ev) EXCEPT ![r] = HoldOf(row)]
  BY DEF HoldsOf
<1> QED BY <1>1, <1>2, <1>4, <1>5 DEF Prepaid!Capture, HoldsOf, HoldOf

(* settle_inference_usage on the streaming and sealed planes. *)
LEMMA SettleMaps ==
    ASSUME LedgerInv, NEW r \in Requests, NEW c \in Nat, Settle(r, c)
    PROVE  Prepaid!Capture({}, r)
<1> DEFINE s == Settlement(r, c, period[event[r].period], balance)
<1>1. /\ event[r].status = "reserved"
      /\ s.ok
      /\ event' = [event EXCEPT ![r] = s.event]
      /\ balance' = s.funds
  BY DEF Settle
<1>2. event \in [Requests -> GoodRows] /\ balance \in Nat
  BY InvFacts
<1>3. period[event[r].period] \in PeriodRows
  BY InvFacts DEF GoodRows, EventRows
<1>4. /\ s.event \in GoodRows
      /\ s.funds \in Nat
      /\ s.funds + WalletPortion(s.event) = balance + WalletPortion(event[r])
  BY <1>1, <1>2, <1>3, SettlementSound
<1>5. s.event.status = "settled"
  BY <1>2 DEF Settlement, GoodRows, EventRows
<1> HIDE DEF s
<1>6. s.event.wallet \in Nat /\ WalletPortion(s.event) = s.event.wallet
  BY <1>4, <1>5, PortionTypes DEF WalletPortion
<1>7. /\ Prepaid!Voided({}) = HoldsOf(event)
      /\ Prepaid!Returned({}) = balance
  BY NothingVoided
<1>8. /\ balance' \in Nat
      /\ balance' + s.event.wallet = Prepaid!Returned({}) + WalletPortion(event[r])
  BY <1>1, <1>4, <1>6, <1>7
<1> QED BY <1>1, <1>2, <1>5, <1>6, <1>7, <1>8, CaptureMaps

(* RouterInferenceService.settle_usage: the stale reservations are voided  *)
(* in the step that captures this one.                                     *)
LEMMA RouterSettleMaps ==
    ASSUME LedgerInv, NEW r \in Requests, NEW c \in Nat, RouterSettle(r, c)
    PROVE  Prepaid!Capture(Stale, r)
<1> DEFINE s == Settlement(r, c, ExpiredPeriod[event[r].period], ExpiredBalance)
<1>1. /\ event[r].status = "reserved"
      /\ r \notin due
      /\ s.ok
      /\ event' = [ExpiredEvent EXCEPT ![r] = s.event]
      /\ balance' = s.funds
  BY DEF RouterSettle
<1>2. /\ event \in [Requests -> GoodRows]
      /\ ExpiredEvent \in [Requests -> GoodRows]
      /\ ExpiredBalance \in Nat
  BY InvFacts, Expiry
<1>3. ExpiredPeriod[event[r].period] \in PeriodRows
  BY <1>2, Expiry DEF GoodRows, EventRows
<1>4. /\ s.event \in GoodRows
      /\ s.funds \in Nat
      /\ s.funds + WalletPortion(s.event) = ExpiredBalance + WalletPortion(event[r])
  BY <1>1, <1>2, <1>3, SettlementSound
<1>5. s.event.status = "settled"
  BY <1>2 DEF Settlement, GoodRows, EventRows
<1> HIDE DEF s
<1>6. s.event.wallet \in Nat /\ WalletPortion(s.event) = s.event.wallet
  BY <1>4, <1>5, PortionTypes DEF WalletPortion
<1>7. r \in Requests \ Stale
  BY <1>1 DEF Stale
<1>8. /\ Stale \in SUBSET Requests
      /\ Prepaid!Voided(Stale) = HoldsOf(ExpiredEvent)
      /\ Prepaid!Returned(Stale) = ExpiredBalance
  BY ExpiryVoids
<1>9. /\ balance' \in Nat
      /\ balance' + s.event.wallet = Prepaid!Returned(Stale) + WalletPortion(event[r])
  BY <1>1, <1>4, <1>6, <1>8
<1> QED BY <1>1, <1>2, <1>5, <1>6, <1>7, <1>8, <1>9, CaptureMaps

(* A release voids one hold more than the expiry before it did. *)
LEMMA VoidMaps ==
    ASSUME LedgerInv, NEW S \in SUBSET Requests, NEW r \in Requests \ S,
           NEW STATE ev, NEW STATE funds,
           S \in SUBSET Prepaid!Held,
           event[r].status = "reserved",
           ev \in [Requests -> GoodRows],
           Prepaid!Voided(S) = HoldsOf(ev),
           Prepaid!Returned(S) = funds,
           event' = [ev EXCEPT ![r].status = "released"],
           balance' = funds + event[r].wallet
    PROVE  Prepaid!Void(S \union {r})
<1>1. balance' = Prepaid!Returned(S \union {r})
  <2>1. WalletPortion(event[r]) = event[r].wallet
    BY DEF WalletPortion
  <2> QED BY <2>1, ReturnedWith
<1>2. ASSUME NEW x \in Requests
      PROVE  HoldOf(event[x])' = Prepaid!Voided(S \union {r})[x]
  <2>1. CASE x = r
    <3>1. event'[x].status = "released"
      BY <2>1 DEF GoodRows, EventRows
    <3> QED BY <2>1, <3>1 DEF Prepaid!Voided, HoldOf, HoldState, WalletPortion
  <2>2. CASE x # r
    <3>1. event'[x] = ev[x]
      BY <2>2
    <3>2. HoldOf(ev[x]) = Prepaid!Voided(S)[x]
      BY DEF HoldsOf
    <3>3. Prepaid!Voided(S)[x] = Prepaid!Voided(S \union {r})[x]
      BY <2>2 DEF Prepaid!Voided
    <3> QED BY <3>1, <3>2, <3>3 DEF HoldOf
  <2> QED BY <2>1, <2>2
<1>3. HoldsOf(event)' = Prepaid!Voided(S \union {r})
  BY <1>2 DEF HoldsOf, Prepaid!Voided
<1> QED BY <1>1, <1>3 DEF Prepaid!Void, HoldsOf, HoldOf

(* Every step of the ledger is a step of the wallet, or none. *)
LEMMA StepMaps ==
    ASSUME LedgerInv, [Next]_vars
    PROVE  [Prepaid!Next]_(Prepaid!vars)
<1> DEFINE Voids == \E S \in SUBSET Prepaid!Held : Prepaid!Void(S)
           Captures == \E S \in SUBSET Prepaid!Held, r \in Requests : Prepaid!Capture(S, r)
<1>1. Voids => Prepaid!Next
  BY DEF Prepaid!Next
<1>2. Captures => Prepaid!Next
  BY DEF Prepaid!Next
<1>3. Stale \in SUBSET Prepaid!Held /\ {} \in SUBSET Prepaid!Held
  BY ExpiryVoids
<1>4. CASE RecalculateCurrentPeriod
  BY <1>1, <1>3, <1>4, ExpireMaps DEF RecalculateCurrentPeriod
<1>5. ASSUME NEW r \in Requests, NEW k \in Keys, NEW n \in Amounts, Reserve(r, k, n)
      PROVE  Prepaid!Next
  BY <1>3, <1>5, ReserveMaps DEF Prepaid!Next
<1>6. ASSUME NEW r \in Requests, NEW c \in 1 .. (event[r].reserved + Overrun),
             Settle(r, c) \/ RouterSettle(r, c)
      PROVE  Prepaid!Next
  <2>1. c \in Nat
    BY InvFacts, AmountsAssumption DEF GoodRows, EventRows
  <2> QED BY <1>2, <1>3, <1>6, <2>1, SettleMaps, RouterSettleMaps
<1>7. ASSUME NEW r \in Requests, Release(r)
      PROVE  Prepaid!Next
  <2>1. /\ event[r].status = "reserved"
        /\ event' = [event EXCEPT ![r].status = "released"]
        /\ balance' = balance + event[r].wallet
    BY <1>7 DEF Release
  <2>2. Prepaid!Void({} \union {r})
    BY <1>3, <2>1, InvFacts, NothingVoided, VoidMaps
  <2>3. {} \union {r} \in SUBSET Prepaid!Held
    BY <2>1, HeldIsReserved
  <2> QED BY <1>1, <2>2, <2>3
<1>8. ASSUME NEW r \in Requests, ReleaseOverdue(r)
      PROVE  Prepaid!Next
  BY <1>1, <1>3, <1>8, ExpireMaps DEF ReleaseOverdue
<1>9. ASSUME NEW r \in Requests, RouterRelease(r)
      PROVE  Prepaid!Next
  <2>1. /\ event[r].status = "reserved"
        /\ r \notin due
        /\ event' = [ExpiredEvent EXCEPT ![r].status = "released"]
        /\ balance' = ExpiredBalance + event[r].wallet
    BY <1>9 DEF RouterRelease
  <2>2. r \in Requests \ Stale
    BY <2>1 DEF Stale
  <2>3. Prepaid!Void(Stale \union {r})
    BY <1>3, <2>1, <2>2, Expiry, ExpiryVoids, VoidMaps
  <2>4. Stale \union {r} \in SUBSET Prepaid!Held
    BY <1>3, <2>1, HeldIsReserved
  <2> QED BY <1>1, <2>3, <2>4
<1>10. ASSUME NEW n \in TopUps, TopUp(n)
       PROVE  Prepaid!Next
  <2>1. balance' = balance + n /\ event' = event
    BY <1>10 DEF TopUp
  <2>2. n \in Nat /\ balance \in Nat
    BY AmountsAssumption, InvFacts
  <2> QED BY <2>1, <2>2 DEF Prepaid!Next, Prepaid!Purchase
<1>11. ASSUME UNCHANGED <<event, balance>>
       PROVE  UNCHANGED Prepaid!vars
  BY <1>11 DEF Prepaid!vars
<1>12. ASSUME \/ \E r \in Requests : Lapse(r)
              \/ \E a \in Allowances : ChangeAllowance(a)
              \/ \E p \in Periods, u \in BOOLEAN : ChangeSubscription(p, u)
              \/ NextWindow
              \/ UNCHANGED vars
       PROVE  UNCHANGED Prepaid!vars
  BY <1>11, <1>12 DEF Lapse, ChangeAllowance, ChangeSubscription, NextWindow, vars
<1> QED BY <1>4, <1>5, <1>6, <1>7, <1>8, <1>9, <1>10, <1>12 DEF Next

-----------------------------------------------------------------------------
(* 6. The theorem of the wallet. *)

(* UsageService implements the wallet with holds: a hold is opened once and *)
(* closed once, tokens leave the balance only into holds, and what a hold  *)
(* does not keep is back in the balance in the same step, for any number   *)
(* of requests and whatever the allowance does (usage.py).                 *)
THEOREM LedgerIsPrepaid == Spec => PrepaidSpec
<1>1. Init => Prepaid!Init
  BY InitMaps
<1>2. LedgerInv /\ [Next]_vars => [Prepaid!Next]_(Prepaid!vars)
  BY StepMaps
<1> QED BY <1>1, <1>2, Inductive, PTL DEF Spec, PrepaidSpec, Prepaid!Spec

-----------------------------------------------------------------------------
(* 7. The periods. *)

(* PeriodExact, of rows and periods that need not be the stored ones. *)
Exact(ev, per) ==
    \A p \in Periods :
        /\ per[p].used = PeriodUsed(ev, p)
        /\ per[p].remaining = Max0(per[p].total - per[p].used)

(* What a row draws from period p. *)
ShareOf(row, p) == IF row.period = p THEN PeriodPortion(row) ELSE 0

-----------------------------------------------------------------------------
(* A sum over the events of a period is a token count. *)
LEMMA PeriodUsedType ==
    ASSUME NEW ev \in [Requests -> GoodRows], NEW p \in Periods
    PROVE  PeriodUsed(ev, p) \in Nat
<1>1. PeriodShare(ev, p) \in [Requests -> Nat]
  BY ShareTypes
<1> QED BY <1>1, RowsAssumption, TotalNat DEF PeriodUsed

(* Changing the row of one request changes a period's sum by its share. *)
LEMMA PeriodUpdate ==
    ASSUME NEW ev \in [Requests -> GoodRows], NEW x \in Requests,
           NEW row \in GoodRows, NEW p \in Periods
    PROVE  PeriodUsed([ev EXCEPT ![x] = row], p) + ShareOf(ev[x], p)
             = PeriodUsed(ev, p) + ShareOf(row, p)
<1> DEFINE new == [ev EXCEPT ![x] = row]
<1>1. new \in [Requests -> GoodRows]
  OBVIOUS
<1>2. \A y \in Requests \ {x} : PeriodShare(new, p)[y] = PeriodShare(ev, p)[y]
  BY DEF PeriodShare
<1>3. /\ PeriodShare(ev, p)[x] = ShareOf(ev[x], p)
      /\ PeriodShare(new, p)[x] = ShareOf(row, p)
  BY DEF PeriodShare, ShareOf
<1> HIDE DEF new
<1>4. /\ PeriodShare(ev, p) \in [Requests -> Nat]
      /\ PeriodShare(new, p) \in [Requests -> Nat]
  BY <1>1, ShareTypes
<1>5. Total(PeriodShare(new, p), Requests) + PeriodShare(ev, p)[x]
        = Total(PeriodShare(ev, p), Requests) + PeriodShare(new, p)[x]
  BY <1>2, <1>4, RowsAssumption, TotalUpdate
<1> QED BY <1>3, <1>5 DEF PeriodUsed, new

(* A period draws at least what any one of its rows does. *)
LEMMA ShareBounded ==
    ASSUME NEW ev \in [Requests -> GoodRows], NEW x \in Requests, NEW p \in Periods
    PROVE  /\ ShareOf(ev[x], p) \in Nat
           /\ ShareOf(ev[x], p) =< PeriodUsed(ev, p)
<1>1. PeriodShare(ev, p) \in [Requests -> Nat]
  BY ShareTypes
<1>2. PeriodShare(ev, p)[x] = ShareOf(ev[x], p)
  BY DEF PeriodShare, ShareOf
<1>3. Total(PeriodShare(ev, p), Requests)
        = Total(PeriodShare(ev, p), {x}) + Total(PeriodShare(ev, p), Requests \ {x})
  BY <1>1, RowsAssumption, TotalSplit
<1>4. Total(PeriodShare(ev, p), {x}) = PeriodShare(ev, p)[x]
  BY <1>1, TotalSingleton
<1>5. Total(PeriodShare(ev, p), Requests \ {x}) \in Nat
  BY <1>1, RowsAssumption, TotalNat
<1>6. PeriodShare(ev, p)[x] \in Nat
  BY <1>1
<1> QED BY <1>2, <1>3, <1>4, <1>5, <1>6 DEF PeriodUsed

(* Writing one row, and moving the counters of its period by the difference *)
(* between what it draws and what the old row drew, keeps them exact.      *)
LEMMA WriteExact ==
    ASSUME NEW ev \in [Requests -> GoodRows], NEW per \in [Periods -> PeriodRows],
           Exact(ev, per),
           NEW x \in Requests, NEW row \in GoodRows, NEW q \in Periods,
           row.period = q,
           PeriodPortion(ev[x]) = 0 \/ ev[x].period = q,
           NEW t \in Int
    PROVE  Exact([ev EXCEPT ![x] = row],
                 [per EXCEPT ![q] = Booked(t, per[q].used - PeriodPortion(ev[x])
                                                + PeriodPortion(row))])
<1> DEFINE new == [ev EXCEPT ![x] = row]
           moved == per[q].used - PeriodPortion(ev[x]) + PeriodPortion(row)
           next == [per EXCEPT ![q] = Booked(t, moved)]
<1>1. new \in [Requests -> GoodRows]
  OBVIOUS
<1>2. ASSUME NEW p \in Periods, p # q
      PROVE  /\ next[p].used = PeriodUsed(new, p)
             /\ next[p].remaining = Max0(next[p].total - next[p].used)
  <2>1. next[p] = per[p]
    BY <1>2
  <2>2. ShareOf(ev[x], p) = 0 /\ ShareOf(row, p) = 0
    BY <1>2 DEF ShareOf
  <2>3. PeriodUsed(new, p) + ShareOf(ev[x], p) = PeriodUsed(ev, p) + ShareOf(row, p)
    BY PeriodUpdate
  <2> HIDE DEF new, next
  <2>4. PeriodUsed(new, p) \in Nat /\ PeriodUsed(ev, p) \in Nat
    BY <1>1, PeriodUsedType
  <2>5. PeriodUsed(new, p) = PeriodUsed(ev, p)
    BY ONLY <2>2, <2>3, <2>4
  <2> QED BY <2>1, <2>5 DEF Exact
<1>3. /\ next[q].used = PeriodUsed(new, q)
      /\ next[q].remaining = Max0(next[q].total - next[q].used)
  <2>1. next[q] = Booked(t, moved)
    OBVIOUS
  <2>2. ShareOf(ev[x], q) = PeriodPortion(ev[x]) /\ ShareOf(row, q) = PeriodPortion(row)
    BY DEF ShareOf
  <2>3. PeriodUsed(new, q) + ShareOf(ev[x], q) = PeriodUsed(ev, q) + ShareOf(row, q)
    BY PeriodUpdate
  <2>4. per[q].used = PeriodUsed(ev, q)
    BY DEF Exact
  <2>5. PeriodPortion(ev[x]) \in Nat /\ PeriodPortion(row) \in Nat
    BY PortionTypes
  <2> HIDE DEF new, next
  <2>6. PeriodUsed(new, q) \in Nat /\ PeriodUsed(ev, q) \in Nat
    BY <1>1, PeriodUsedType
  <2>7. moved = PeriodUsed(new, q)
    BY ONLY <2>2, <2>3, <2>4, <2>5, <2>6
  <2> HIDE DEF moved
  <2>8. Max0(moved) = moved
    BY <2>6, <2>7 DEF Max0
  <2> QED BY <2>1, <2>7, <2>8 DEF Booked
<1> QED BY <1>2, <1>3 DEF Exact

(* A recalculated period is exact by construction, and the others stay.    *)
LEMMA RecalculateExact ==
    ASSUME NEW ev \in [Requests -> GoodRows], NEW per \in [Periods -> PeriodRows],
           Exact(ev, per), NEW q \in Periods
    PROVE  Exact(ev, [per EXCEPT ![q] = Recalculated(ev, q)])
<1>1. PeriodUsed(ev, q) \in Nat
  BY PeriodUsedType
<1>2. Max0(PeriodUsed(ev, q)) = PeriodUsed(ev, q)
  BY <1>1 DEF Max0
<1> QED BY <1>2 DEF Exact, Recalculated, Booked

(* expire_stale_reservations gives every period back what its stale rows   *)
(* drew from it.                                                           *)
LEMMA ExpiryExact ==
    ASSUME LedgerInv, PeriodExact
    PROVE  Exact(ExpiredEvent, ExpiredPeriod)
<1> SUFFICES ASSUME NEW p \in Periods
             PROVE  /\ ExpiredPeriod[p].used = PeriodUsed(ExpiredEvent, p)
                    /\ ExpiredPeriod[p].remaining
                         = Max0(ExpiredPeriod[p].total - ExpiredPeriod[p].used)
  BY DEF Exact
<1> DEFINE given == Total(PeriodShare(event, p), Stale)
<1>1. /\ event \in [Requests -> GoodRows]
      /\ ExpiredEvent \in [Requests -> GoodRows]
      /\ Stale \in SUBSET Requests
  BY InvFacts, Expiry DEF Stale
<1>2. /\ PeriodShare(event, p) \in [Requests -> Nat]
      /\ PeriodShare(ExpiredEvent, p) \in [Requests -> Nat]
  BY <1>1, ShareTypes
<1>3. given \in Nat
  BY <1>1, <1>2, RowsAssumption, TotalNat
<1>4. \A r \in Stale : PeriodShare(ExpiredEvent, p)[r] = 0
  BY <1>1 DEF PeriodShare, PeriodPortion, ExpiredEvent, GoodRows, EventRows
<1>5. \A r \in Requests \ Stale :
          PeriodShare(ExpiredEvent, p)[r] = PeriodShare(event, p)[r]
  BY DEF PeriodShare, ExpiredEvent
<1>6. PeriodUsed(ExpiredEvent, p) + given = PeriodUsed(event, p)
  BY <1>1, <1>2, <1>4, <1>5, RowsAssumption, TotalZeroed DEF PeriodUsed
<1>7. PeriodUsed(ExpiredEvent, p) \in Nat /\ PeriodUsed(event, p) \in Nat
  BY <1>1, PeriodUsedType
<1>8. /\ period[p].used = PeriodUsed(event, p)
      /\ period[p].remaining = Max0(period[p].total - period[p].used)
  BY DEF PeriodExact
<1>9. period[p].used - given = PeriodUsed(ExpiredEvent, p)
  <2> HIDE DEF given
  <2> QED BY ONLY <1>3, <1>6, <1>7, <1>8
<1>10. CASE \E r \in Stale : event[r].period = p
  <2>1. ExpiredPeriod[p] = Booked(period[p].total, period[p].used - given)
    BY <1>10 DEF ExpiredPeriod
  <2>2. Max0(period[p].used - given) = period[p].used - given
    BY <1>7, <1>9 DEF Max0
  <2> HIDE DEF given
  <2> QED BY <1>9, <2>1, <2>2 DEF Booked
<1>11. CASE ~ \E r \in Stale : event[r].period = p
  <2>1. ExpiredPeriod[p] = period[p]
    BY <1>11 DEF ExpiredPeriod
  <2>2. \A r \in Stale : PeriodShare(event, p)[r] = 0
    BY <1>1, <1>11 DEF PeriodShare
  <2>3. given = 0
    BY <2>2, TotalZero
  <2> HIDE DEF given
  <2>4. period[p].used = PeriodUsed(ExpiredEvent, p)
    BY ONLY <1>6, <1>7, <1>8, <2>3
  <2> QED BY <1>8, <2>1, <2>4
<1> QED BY <1>10, <1>11

-----------------------------------------------------------------------------
(* The actions. *)

(* What every action has to show. *)
LEMMA ExactNext ==
    ASSUME NEW STATE ev, NEW STATE per,
           event' = ev, period' = per, Exact(ev, per)
    PROVE  PeriodExact'
<1>1. \A p \in Periods : PeriodUsed(event, p)' = PeriodUsed(ev, p)
  BY DEF PeriodUsed, PeriodShare
<1> QED BY <1>1 DEF PeriodExact, Exact

(* The row a settlement writes draws what it adds to its period. *)
LEMMA SettlementPortion ==
    ASSUME NEW r \in Requests, NEW c \in Nat, NEW row \in PeriodRows, NEW funds \in Nat,
           event \in [Requests -> GoodRows], event[r].status = "reserved"
    PROVE  LET s == Settlement(r, c, row, funds)
           IN  /\ s.event.period = event[r].period
               /\ s.period = Booked(row.total,
                     row.used - PeriodPortion(event[r]) + PeriodPortion(s.event))
<1> DEFINE s == Settlement(r, c, row, funds)
           free == row.remaining + PeriodPortion(event[r])
           split == Split(c, free)
<1>1. event[r] \in EventRows /\ PeriodPortion(event[r]) \in Nat
  BY PortionTypes DEF GoodRows
<1>2. free \in Nat
  BY <1>1 DEF PeriodRows
<1>3. /\ split.period \in Nat
      /\ split.wallet \in Nat
      /\ split.period + split.wallet = c
  <2> HIDE DEF free
  <2> QED BY <1>2, SplitSound
<1>4. s.event = [event[r] EXCEPT !.status = "settled", !.charged = c,
                                 !.wallet = split.wallet]
  BY DEF Settlement
<1>5. s.period = Booked(row.total, row.used - PeriodPortion(event[r]) + split.period)
  BY DEF Settlement
<1> HIDE DEF s, split
<1>6. /\ s.event.period = event[r].period
      /\ s.event.status = "settled"
      /\ s.event.charged = c
      /\ s.event.wallet = split.wallet
  BY <1>1, <1>4 DEF EventRows
<1>7. PeriodPortion(s.event) = c - split.wallet
  BY <1>6 DEF PeriodPortion
<1>8. PeriodPortion(s.event) = split.period
  BY ONLY <1>3, <1>7, c \in Nat
<1> QED BY <1>5, <1>6, <1>8 DEF s

(* recalculate_current_period *)
LEMMA RecalculatePeriods ==
    ASSUME LedgerInv, PeriodExact, RecalculateCurrentPeriod
    PROVE  PeriodExact'
<1>1. /\ ExpiredEvent \in [Requests -> GoodRows]
      /\ ExpiredPeriod \in [Periods -> PeriodRows]
      /\ current \in Periods
  BY Expiry, InvFacts
<1>2. Exact(ExpiredEvent, ExpiredPeriod)
  BY ExpiryExact
<1>3. Exact(ExpiredEvent,
            [ExpiredPeriod EXCEPT ![current] = Recalculated(ExpiredEvent, current)])
  BY <1>1, <1>2, RecalculateExact
<1>4. /\ event' = ExpiredEvent
      /\ period' = [ExpiredPeriod EXCEPT ![current] = Recalculated(ExpiredEvent, current)]
  BY DEF RecalculateCurrentPeriod
<1> QED BY <1>3, <1>4, ExactNext

(* reserve_inference_tokens *)
LEMMA ReservePeriods ==
    ASSUME LedgerInv, PeriodExact, NEW r \in Requests, NEW k \in Keys,
           NEW n \in Amounts, Reserve(r, k, n)
    PROVE  PeriodExact'
<1> DEFINE fresh == Recalculated(ExpiredEvent, current)
           split == Split(n, fresh.remaining)
           row == [status |-> "reserved", period |-> current, key |-> k,
                   window |-> window, reserved |-> n,
                   wallet |-> split.wallet, charged |-> 0]
           booked == Booked(fresh.total, fresh.used + split.period)
           next == [ExpiredPeriod EXCEPT ![current] = booked]
           after == [ExpiredEvent EXCEPT ![r] = row]
<1>1. /\ ExpiredEvent \in [Requests -> GoodRows]
      /\ ExpiredPeriod \in [Periods -> PeriodRows]
      /\ current \in Periods /\ window \in Nat /\ allowance \in Int
      /\ n \in Nat
  BY Expiry, InvFacts, AmountsAssumption
<1>2. /\ event[r].status = "none"
      /\ event' = after
      /\ period' = next
  BY DEF Reserve
<1>3. Exact(ExpiredEvent, ExpiredPeriod)
  BY ExpiryExact
<1>4. fresh \in PeriodRows
  BY <1>1, RecalculatedType
<1>5. PeriodUsed(ExpiredEvent, current) \in Nat
  BY <1>1, PeriodUsedType
<1>6. fresh.used = ExpiredPeriod[current].used
  BY <1>1, <1>3, <1>5 DEF Exact, Recalculated, Booked, Max0
<1>7. fresh.total \in Int /\ fresh.used \in Nat /\ fresh.remaining \in Nat
  BY <1>4 DEF PeriodRows
<1> HIDE DEF fresh
<1>8. /\ split.period \in Nat /\ split.wallet \in Nat
      /\ split.period + split.wallet = n
  BY <1>1, <1>7, SplitSound
<1> HIDE DEF split
<1>9. row \in GoodRows
  <2>1. split.wallet =< n
    BY ONLY <1>1, <1>8
  <2>2. row \in EventRows
    BY <1>1, <1>8 DEF EventRows, Statuses
  <2> QED BY <2>1, <2>2 DEF GoodRows, Covered
<1>10. PeriodPortion(row) = n - split.wallet /\ row.period = current
  BY DEF PeriodPortion
<1>11. PeriodPortion(row) = split.period
  BY ONLY <1>1, <1>8, <1>10
<1>12. PeriodPortion(ExpiredEvent[r]) = 0
  BY <1>2 DEF ExpiredEvent, Stale, PeriodPortion
<1> HIDE DEF row
<1>13. booked = Booked(fresh.total, ExpiredPeriod[current].used
                          - PeriodPortion(ExpiredEvent[r]) + PeriodPortion(row))
  BY <1>6, <1>7, <1>8, <1>11, <1>12
<1>14. Exact(after, next)
  <2> HIDE DEF booked
  <2> QED BY <1>1, <1>3, <1>7, <1>9, <1>10, <1>12, <1>13, WriteExact
<1> HIDE DEF after, next
<1> QED BY <1>2, <1>14, ExactNext

(* settle_inference_usage *)
LEMMA SettlePeriods ==
    ASSUME LedgerInv, PeriodExact, NEW r \in Requests, NEW c \in Nat, Settle(r, c)
    PROVE  PeriodExact'
<1> DEFINE p == event[r].period
           s == Settlement(r, c, period[p], balance)
<1>1. /\ event \in [Requests -> GoodRows]
      /\ period \in [Periods -> PeriodRows]
      /\ balance \in Nat
  BY InvFacts
<1>2. p \in Periods
  BY <1>1 DEF GoodRows, EventRows
<1>3. /\ event[r].status = "reserved"
      /\ s.ok
      /\ event' = [event EXCEPT ![r] = s.event]
      /\ period' = [period EXCEPT ![p] = s.period]
  BY DEF Settle
<1>4. period[p] \in PeriodRows
  BY <1>1, <1>2
<1>5. s.event \in GoodRows
  <2> HIDE DEF p
  <2> QED BY <1>1, <1>3, <1>4, SettlementSound
<1>6. /\ s.event.period = p
      /\ s.period = Booked(period[p].total, period[p].used - PeriodPortion(event[r])
                               + PeriodPortion(s.event))
  BY <1>1, <1>3, <1>4, SettlementPortion
<1>7. period[p].total \in Int
  BY <1>4 DEF PeriodRows
<1>8. Exact(event, period)
  BY DEF PeriodExact, Exact
<1>9. event[r].period = p
  OBVIOUS
<1> HIDE DEF s, p
<1>10. Exact([event EXCEPT ![r] = s.event], [period EXCEPT ![p] = s.period])
  BY <1>1, <1>2, <1>5, <1>6, <1>7, <1>8, <1>9, WriteExact
<1> QED BY <1>3, <1>10, ExactNext

(* RouterInferenceService.settle_usage *)
LEMMA RouterSettlePeriods ==
    ASSUME LedgerInv, PeriodExact, NEW r \in Requests, NEW c \in Nat, RouterSettle(r, c)
    PROVE  PeriodExact'
<1> DEFINE p == event[r].period
           s == Settlement(r, c, ExpiredPeriod[p], ExpiredBalance)
           after == [ExpiredEvent EXCEPT ![r] = s.event]
           moved == [ExpiredPeriod EXCEPT ![p] = s.period]
           fresh == Recalculated(after, current)
<1>1. /\ event \in [Requests -> GoodRows]
      /\ ExpiredEvent \in [Requests -> GoodRows]
      /\ ExpiredPeriod \in [Periods -> PeriodRows]
      /\ ExpiredBalance \in Nat
      /\ current \in Periods
  BY Expiry, InvFacts
<1>2. p \in Periods
  BY <1>1 DEF GoodRows, EventRows
<1>3. /\ event[r].status = "reserved"
      /\ r \notin due
      /\ s.ok
      /\ event' = after
      /\ period' = [ExpiredPeriod EXCEPT ![p] = s.period, ![current] = fresh]
  BY DEF RouterSettle
<1>4. ExpiredEvent[r] = event[r]
  BY <1>3 DEF ExpiredEvent, Stale
<1>5. ExpiredPeriod[p] \in PeriodRows
  BY <1>1, <1>2
<1>6. s.event \in GoodRows /\ s.period \in PeriodRows
  <2> HIDE DEF p
  <2> QED BY <1>1, <1>3, <1>5, SettlementSound
<1>7. /\ s.event.period = p
      /\ s.period = Booked(ExpiredPeriod[p].total,
            ExpiredPeriod[p].used - PeriodPortion(ExpiredEvent[r]) + PeriodPortion(s.event))
  BY <1>1, <1>3, <1>4, <1>5, SettlementPortion
<1>8. ExpiredPeriod[p].total \in Int
  BY <1>5 DEF PeriodRows
<1>9. Exact(ExpiredEvent, ExpiredPeriod)
  BY ExpiryExact
<1>10. ExpiredEvent[r].period = p
  BY <1>4
<1> HIDE DEF s, p
<1>11. Exact(after, moved)
  BY <1>1, <1>2, <1>6, <1>7, <1>8, <1>9, <1>10, WriteExact
<1>12. after \in [Requests -> GoodRows] /\ moved \in [Periods -> PeriodRows]
  BY <1>1, <1>2, <1>6
<1>13. period' = [moved EXCEPT ![current] = fresh]
  BY <1>3
<1> HIDE DEF after, moved
<1>14. Exact(after, [moved EXCEPT ![current] = Recalculated(after, current)])
  BY <1>1, <1>11, <1>12, RecalculateExact
<1> HIDE DEF fresh
<1>15. Exact(after, [moved EXCEPT ![current] = fresh])
  BY <1>14 DEF fresh
<1> QED BY <1>3, <1>13, <1>15, ExactNext

(* release_inference_reservation *)
LEMMA ReleasePeriods ==
    ASSUME LedgerInv, PeriodExact, NEW r \in Requests, Release(r)
    PROVE  PeriodExact'
<1> DEFINE p == event[r].period
           row == [event[r] EXCEPT !.status = "released"]
           booked == Booked(period[p].total, period[p].used - PeriodPortion(event[r]))
<1>1. /\ event \in [Requests -> GoodRows]
      /\ period \in [Periods -> PeriodRows]
  BY InvFacts
<1>2. /\ event' = [event EXCEPT ![r] = row]
      /\ period' = [period EXCEPT ![p] = booked]
  BY DEF Release
<1>3. /\ p \in Periods
      /\ row \in GoodRows
      /\ row.period = p
      /\ PeriodPortion(row) = 0
  BY <1>1 DEF GoodRows, EventRows, Statuses, Covered, PeriodPortion
<1>4. PeriodPortion(event[r]) \in Nat
  BY <1>1, PortionTypes
<1>5. period[p].total \in Int /\ period[p].used \in Nat
  BY <1>1, <1>3 DEF PeriodRows
<1>6. Exact(event, period)
  BY DEF PeriodExact, Exact
<1>7. event[r].period = p
  OBVIOUS
<1> HIDE DEF row, p
<1>8. booked = Booked(period[p].total,
                      period[p].used - PeriodPortion(event[r]) + PeriodPortion(row))
  BY <1>3, <1>4, <1>5
<1> HIDE DEF booked
<1>9. Exact([event EXCEPT ![r] = row], [period EXCEPT ![p] = booked])
  BY <1>1, <1>3, <1>5, <1>6, <1>7, <1>8, WriteExact
<1> QED BY <1>2, <1>9, ExactNext

(* release_inference_reservation of an overdue reservation *)
LEMMA ReleaseOverduePeriods ==
    ASSUME LedgerInv, PeriodExact, NEW r \in Requests, ReleaseOverdue(r)
    PROVE  PeriodExact'
<1>1. Exact(ExpiredEvent, ExpiredPeriod)
  BY ExpiryExact
<1>2. event' = ExpiredEvent /\ period' = ExpiredPeriod
  BY DEF ReleaseOverdue
<1> QED BY <1>1, <1>2, ExactNext

(* RouterInferenceService.release_reservation *)
LEMMA RouterReleasePeriods ==
    ASSUME LedgerInv, PeriodExact, NEW r \in Requests, RouterRelease(r)
    PROVE  PeriodExact'
<1> DEFINE p == event[r].period
           row == [ExpiredEvent[r] EXCEPT !.status = "released"]
           after == [ExpiredEvent EXCEPT ![r] = row]
           booked == Booked(ExpiredPeriod[p].total,
                            ExpiredPeriod[p].used - PeriodPortion(event[r]))
           moved == [ExpiredPeriod EXCEPT ![p] = booked]
           fresh == Recalculated(after, current)
<1>1. /\ event \in [Requests -> GoodRows]
      /\ ExpiredEvent \in [Requests -> GoodRows]
      /\ ExpiredPeriod \in [Periods -> PeriodRows]
      /\ current \in Periods
  BY Expiry, InvFacts
<1>2. /\ event[r].status = "reserved"
      /\ r \notin due
      /\ event' = after
      /\ period' = [ExpiredPeriod EXCEPT ![p] = booked, ![current] = fresh]
  BY DEF RouterRelease
<1>3. ExpiredEvent[r] = event[r]
  BY <1>2 DEF ExpiredEvent, Stale
<1>4. /\ p \in Periods
      /\ row \in GoodRows
      /\ row.period = p
      /\ PeriodPortion(row) = 0
  BY <1>1, <1>3 DEF GoodRows, EventRows, Statuses, Covered, PeriodPortion
<1>5. PeriodPortion(event[r]) \in Nat
  BY <1>1, PortionTypes
<1>6. ExpiredPeriod[p].total \in Int /\ ExpiredPeriod[p].used \in Nat
  BY <1>1, <1>4 DEF PeriodRows
<1>7. Exact(ExpiredEvent, ExpiredPeriod)
  BY ExpiryExact
<1>8. ExpiredEvent[r].period = p
  BY <1>3
<1> HIDE DEF row, p
<1>9. booked = Booked(ExpiredPeriod[p].total,
          ExpiredPeriod[p].used - PeriodPortion(ExpiredEvent[r]) + PeriodPortion(row))
  BY <1>3, <1>4, <1>5, <1>6
<1>10. booked \in PeriodRows
  BY <1>5, <1>6, BookedType
<1> HIDE DEF booked
<1>11. Exact(after, moved)
  BY <1>1, <1>4, <1>6, <1>7, <1>8, <1>9, WriteExact
<1>12. after \in [Requests -> GoodRows] /\ moved \in [Periods -> PeriodRows]
  BY <1>1, <1>4, <1>10
<1>13. period' = [moved EXCEPT ![current] = fresh]
  BY <1>2
<1> HIDE DEF after, moved
<1>14. Exact(after, [moved EXCEPT ![current] = Recalculated(after, current)])
  BY <1>1, <1>11, <1>12, RecalculateExact
<1> HIDE DEF fresh
<1>15. Exact(after, [moved EXCEPT ![current] = fresh])
  BY <1>14 DEF fresh
<1> QED BY <1>2, <1>13, <1>15, ExactNext

(* Steps that touch neither an event nor a period. *)
LEMMA AroundPeriods ==
    ASSUME PeriodExact, UNCHANGED <<event, period>>
    PROVE  PeriodExact'
<1>1. Exact(event, period)
  BY DEF PeriodExact, Exact
<1> QED BY <1>1, ExactNext

(* No row is in use before the first reservation. *)
LEMMA PeriodsInit == Init => PeriodExact
<1> SUFFICES ASSUME Init, NEW p \in Periods
             PROVE  /\ period[p].used = PeriodUsed(event, p)
                    /\ period[p].remaining = Max0(period[p].total - period[p].used)
  BY DEF PeriodExact
<1>1. \A r \in Requests : PeriodShare(event, p)[r] = 0
  BY DEF Init, NoRow, PeriodShare, PeriodPortion
<1>2. PeriodUsed(event, p) = 0
  BY <1>1, TotalZero DEF PeriodUsed
<1> QED BY <1>2 DEF Init, Booked, Max0

(* The counters stay exact: one step per action of Next. *)
LEMMA PeriodsStep == LedgerInv /\ PeriodExact /\ [Next]_vars => PeriodExact'
<1> SUFFICES ASSUME LedgerInv, PeriodExact, [Next]_vars
             PROVE  PeriodExact'
  OBVIOUS
<1>1. CASE RecalculateCurrentPeriod
  BY <1>1, RecalculatePeriods
<1>2. ASSUME NEW r \in Requests, NEW k \in Keys, NEW n \in Amounts, Reserve(r, k, n)
      PROVE  PeriodExact'
  BY <1>2, ReservePeriods
<1>3. ASSUME NEW r \in Requests, NEW c \in 1 .. (event[r].reserved + Overrun),
             Settle(r, c) \/ RouterSettle(r, c)
      PROVE  PeriodExact'
  <2>1. c \in Nat
    BY InvFacts, AmountsAssumption DEF GoodRows, EventRows
  <2> QED BY <1>3, <2>1, SettlePeriods, RouterSettlePeriods
<1>4. ASSUME NEW r \in Requests, Release(r)
      PROVE  PeriodExact'
  BY <1>4, ReleasePeriods
<1>5. ASSUME NEW r \in Requests, ReleaseOverdue(r)
      PROVE  PeriodExact'
  BY <1>5, ReleaseOverduePeriods
<1>6. ASSUME NEW r \in Requests, RouterRelease(r)
      PROVE  PeriodExact'
  BY <1>6, RouterReleasePeriods
<1>7. ASSUME NEW r \in Requests, Lapse(r)
      PROVE  PeriodExact'
  BY <1>7, AroundPeriods DEF Lapse
<1>8. ASSUME NEW n \in TopUps, TopUp(n)
      PROVE  PeriodExact'
  BY <1>8, AroundPeriods DEF TopUp
<1>9. ASSUME NEW a \in Allowances, ChangeAllowance(a)
      PROVE  PeriodExact'
  BY <1>9, AroundPeriods DEF ChangeAllowance
<1>10. ASSUME NEW p \in Periods, NEW u \in BOOLEAN, ChangeSubscription(p, u)
       PROVE  PeriodExact'
  BY <1>10, AroundPeriods DEF ChangeSubscription
<1>11. CASE NextWindow
  BY <1>11, AroundPeriods DEF NextWindow
<1>12. CASE UNCHANGED vars
  BY <1>12, AroundPeriods DEF vars
<1> QED BY <1>1, <1>2, <1>3, <1>4, <1>5, <1>6, <1>7, <1>8, <1>9, <1>10, <1>11,
           <1>12 DEF Next

-----------------------------------------------------------------------------
(* What a step may draw. *)

(* An expiry draws from no period. *)
LEMMA ExpiryDrawsNothing ==
    ASSUME LedgerInv, NEW p \in Periods
    PROVE  PeriodUsed(ExpiredEvent, p) =< PeriodUsed(event, p)
<1>1. /\ event \in [Requests -> GoodRows]
      /\ ExpiredEvent \in [Requests -> GoodRows]
      /\ Stale \in SUBSET Requests
  BY InvFacts, Expiry DEF Stale
<1>2. /\ PeriodShare(event, p) \in [Requests -> Nat]
      /\ PeriodShare(ExpiredEvent, p) \in [Requests -> Nat]
  BY <1>1, ShareTypes
<1>3. \A r \in Stale : PeriodShare(ExpiredEvent, p)[r] = 0
  BY <1>1 DEF PeriodShare, PeriodPortion, ExpiredEvent, GoodRows, EventRows
<1>4. \A r \in Requests \ Stale :
          PeriodShare(ExpiredEvent, p)[r] = PeriodShare(event, p)[r]
  BY DEF PeriodShare, ExpiredEvent
<1>5. PeriodUsed(ExpiredEvent, p) + Total(PeriodShare(event, p), Stale)
        = PeriodUsed(event, p)
  BY <1>1, <1>2, <1>3, <1>4, RowsAssumption, TotalZeroed DEF PeriodUsed
<1>6. Total(PeriodShare(event, p), Stale) \in Nat
  BY <1>1, <1>2, RowsAssumption, TotalNat
<1>7. PeriodUsed(ExpiredEvent, p) \in Nat /\ PeriodUsed(event, p) \in Nat
  BY <1>1, PeriodUsedType
<1> QED BY ONLY <1>5, <1>6, <1>7

(* A row that draws no more than the row before it and what its period has *)
(* left of t tokens takes the period past t only if it was past it.        *)
LEMMA DrawBounded ==
    ASSUME NEW ev \in [Requests -> GoodRows], NEW x \in Requests,
           NEW row \in GoodRows, NEW t \in Int,
           PeriodPortion(ev[x]) = 0 \/ ev[x].period = row.period,
           PeriodPortion(row)
             =< PeriodPortion(ev[x]) + Max0(t - PeriodUsed(ev, row.period)),
           NEW p \in Periods
    PROVE  LET new == [ev EXCEPT ![x] = row]
           IN  \/ PeriodUsed(new, p) =< PeriodUsed(ev, p)
               \/ row.period = p /\ PeriodUsed(new, p) =< t
<1> DEFINE new == [ev EXCEPT ![x] = row]
<1>1. new \in [Requests -> GoodRows]
  OBVIOUS
<1>2. PeriodUsed(new, p) + ShareOf(ev[x], p) = PeriodUsed(ev, p) + ShareOf(row, p)
  BY PeriodUpdate
<1> HIDE DEF new
<1>3. PeriodUsed(new, p) \in Nat /\ PeriodUsed(ev, p) \in Nat
  BY <1>1, PeriodUsedType
<1>4. PeriodPortion(ev[x]) \in Nat /\ PeriodPortion(row) \in Nat
  BY PortionTypes
<1>5. CASE row.period = p
  <2>1. ShareOf(ev[x], p) = PeriodPortion(ev[x]) /\ ShareOf(row, p) = PeriodPortion(row)
    BY <1>5 DEF ShareOf
  <2>2. PeriodPortion(row) =< PeriodPortion(ev[x]) + Max0(t - PeriodUsed(ev, p))
    BY <1>5
  <2>3. PeriodUsed(new, p) =< PeriodUsed(ev, p) \/ PeriodUsed(new, p) =< t
    BY ONLY <1>2, <1>3, <1>4, <2>1, <2>2, t \in Int DEF Max0
  <2> QED BY <1>5, <2>3 DEF new
<1>6. CASE row.period # p
  <2>1. ShareOf(row, p) = 0 /\ ShareOf(ev[x], p) \in Nat
    BY <1>4, <1>6 DEF ShareOf
  <2>2. PeriodUsed(new, p) =< PeriodUsed(ev, p)
    BY ONLY <1>2, <1>3, <2>1
  <2> QED BY <2>2 DEF new
<1> QED BY <1>5, <1>6

(* Reservations and settlements draw at most what a period has left.       *)
LEMMA SplitWithin ==
    ASSUME NEW n \in Nat, NEW free \in Nat, ~ unlimited
    PROVE  Split(n, free).period =< free
BY DEF Split, Lesser

(* What every action has to show of the rows it leaves behind. *)
LEMMA WithinNext ==
    ASSUME PeriodExact, PeriodExact',
           NEW STATE ev, event' = ev,
           \A p \in Periods :
               \/ PeriodUsed(ev, p) =< PeriodUsed(event, p)
               \/ PeriodUsed(ev, p) =< period[p].total
               \/ PeriodUsed(ev, p) =< period'[p].total,
           \A p \in Periods : PeriodUsed(ev, p) \in Nat /\ PeriodUsed(event, p) \in Nat
    PROVE  DrawsWithinAllowance
<1>1. ASSUME NEW p \in Periods
      PROVE  /\ period[p].used = PeriodUsed(event, p)
             /\ period'[p].used = PeriodUsed(ev, p)
  <2>1. PeriodUsed(event, p)' = PeriodUsed(ev, p)
    BY DEF PeriodUsed, PeriodShare
  <2> QED BY <2>1 DEF PeriodExact
<1> QED BY <1>1 DEF DrawsWithinAllowance

(* A step that only expires, or touches no row, draws nothing. *)
LEMMA NothingWithin ==
    ASSUME LedgerInv, PeriodExact, PeriodExact',
           event' = ExpiredEvent \/ event' = event
    PROVE  DrawsWithinAllowance
<1>1. /\ event \in [Requests -> GoodRows]
      /\ ExpiredEvent \in [Requests -> GoodRows]
  BY InvFacts, Expiry
<1>2. \A p \in Periods :
          /\ PeriodUsed(event, p) \in Nat
          /\ PeriodUsed(ExpiredEvent, p) \in Nat
          /\ PeriodUsed(ExpiredEvent, p) =< PeriodUsed(event, p)
  BY <1>1, PeriodUsedType, ExpiryDrawsNothing
<1>3. CASE event' = ExpiredEvent
  BY <1>2, <1>3, WithinNext
<1>4. CASE event' = event
  BY <1>2, <1>4, WithinNext
<1> QED BY <1>3, <1>4

(* A step that writes one row, after an expiry or none: enough that the row *)
(* draws no more than the row before it and what its period has left.      *)
LEMMA WriteWithin ==
    ASSUME LedgerInv, PeriodExact, PeriodExact',
           NEW STATE ev, ev = ExpiredEvent \/ ev = event,
           NEW x \in Requests, NEW STATE row, row \in GoodRows, NEW STATE t, t \in Int,
           event' = [ev EXCEPT ![x] = row],
           PeriodPortion(ev[x]) = 0 \/ ev[x].period = row.period,
           PeriodPortion(row)
             =< PeriodPortion(ev[x]) + Max0(t - PeriodUsed(ev, row.period)),
           t = period[row.period].total \/ t = period'[row.period].total
    PROVE  DrawsWithinAllowance
<1> DEFINE new == [ev EXCEPT ![x] = row]
<1>1. /\ event \in [Requests -> GoodRows]
      /\ ev \in [Requests -> GoodRows]
  BY InvFacts, Expiry
<1>2. new \in [Requests -> GoodRows]
  BY <1>1
<1>3. \A p \in Periods :
          \/ PeriodUsed(new, p) =< PeriodUsed(ev, p)
          \/ row.period = p /\ PeriodUsed(new, p) =< t
  BY <1>1, DrawBounded
<1> HIDE DEF new
<1>4. \A p \in Periods :
          /\ PeriodUsed(new, p) \in Nat
          /\ PeriodUsed(ev, p) \in Nat
          /\ PeriodUsed(event, p) \in Nat
          /\ PeriodUsed(ev, p) =< PeriodUsed(event, p)
  BY <1>1, <1>2, PeriodUsedType, ExpiryDrawsNothing
<1>5. ASSUME NEW p \in Periods
      PROVE  \/ PeriodUsed(new, p) =< PeriodUsed(event, p)
             \/ PeriodUsed(new, p) =< period[p].total
             \/ PeriodUsed(new, p) =< period'[p].total
  <2>1. CASE PeriodUsed(new, p) =< PeriodUsed(ev, p)
    BY <1>4, <2>1
  <2>2. CASE row.period = p /\ PeriodUsed(new, p) =< t
    BY <2>2
  <2> QED BY <1>3, <2>1, <2>2
<1>6. event' = new
  BY DEF new
<1> QED BY <1>4, <1>5, <1>6, WithinNext

(* reserve_inference_tokens *)
LEMMA ReserveWithin ==
    ASSUME LedgerInv, PeriodExact, PeriodExact', ~ unlimited,
           NEW r \in Requests, NEW k \in Keys, NEW n \in Amounts, Reserve(r, k, n)
    PROVE  DrawsWithinAllowance
<1> DEFINE fresh == Recalculated(ExpiredEvent, current)
           split == Split(n, fresh.remaining)
           row == [status |-> "reserved", period |-> current, key |-> k,
                   window |-> window, reserved |-> n,
                   wallet |-> split.wallet, charged |-> 0]
<1>1. /\ ExpiredEvent \in [Requests -> GoodRows]
      /\ ExpiredPeriod \in [Periods -> PeriodRows]
      /\ current \in Periods /\ window \in Nat /\ allowance \in Int
      /\ n \in Nat
  BY Expiry, InvFacts, AmountsAssumption
<1>2. /\ event[r].status = "none"
      /\ event' = [ExpiredEvent EXCEPT ![r] = row]
      /\ period' = [ExpiredPeriod EXCEPT ![current] =
                       Booked(fresh.total, fresh.used + split.period)]
  BY DEF Reserve
<1>3. PeriodUsed(ExpiredEvent, current) \in Nat
  BY <1>1, PeriodUsedType
<1>4. /\ fresh.total = allowance
      /\ fresh.remaining = Max0(allowance - PeriodUsed(ExpiredEvent, current))
  BY <1>3 DEF Recalculated, Booked, Max0
<1>5. period'[current].total = allowance
  BY <1>1, <1>2, <1>4 DEF Booked
<1>6. fresh.remaining \in Nat
  BY <1>1, <1>3, <1>4 DEF Max0
<1> HIDE DEF fresh
<1>7. /\ split.period \in Nat /\ split.wallet \in Nat
      /\ split.period + split.wallet = n
      /\ split.period =< fresh.remaining
  BY <1>1, <1>6, SplitSound, SplitWithin
<1> HIDE DEF split
<1>8. row \in GoodRows
  <2>1. split.wallet =< n
    BY ONLY <1>1, <1>7
  <2>2. row \in EventRows
    BY <1>1, <1>7 DEF EventRows, Statuses
  <2> QED BY <2>1, <2>2 DEF GoodRows, Covered
<1>9. PeriodPortion(row) = n - split.wallet /\ row.period = current
  BY DEF PeriodPortion
<1>10. PeriodPortion(row) = split.period
  BY ONLY <1>1, <1>7, <1>9
<1>11. PeriodPortion(ExpiredEvent[r]) = 0
  BY <1>2 DEF ExpiredEvent, Stale, PeriodPortion
<1> HIDE DEF row
<1>12. PeriodPortion(row) =< PeriodPortion(ExpiredEvent[r])
                               + Max0(allowance - PeriodUsed(ExpiredEvent, row.period))
  BY <1>4, <1>6, <1>7, <1>9, <1>10, <1>11
<1> QED BY <1>1, <1>2, <1>5, <1>8, <1>9, <1>11, <1>12, WriteWithin

(* What a settlement draws from a period row whose counters are exact. *)
LEMMA SettlementWithin ==
    ASSUME NEW r \in Requests, NEW c \in Nat, NEW row \in PeriodRows, NEW funds \in Nat,
           event \in [Requests -> GoodRows], event[r].status = "reserved", ~ unlimited
    PROVE  PeriodPortion(Settlement(r, c, row, funds).event)
             =< row.remaining + PeriodPortion(event[r])
<1> DEFINE s == Settlement(r, c, row, funds)
           free == row.remaining + PeriodPortion(event[r])
           split == Split(c, free)
<1>1. event[r] \in EventRows /\ PeriodPortion(event[r]) \in Nat
  BY PortionTypes DEF GoodRows
<1>2. free \in Nat
  BY <1>1 DEF PeriodRows
<1>3. /\ split.period \in Nat
      /\ split.wallet \in Nat
      /\ split.period + split.wallet = c
      /\ split.period =< free
  <2> HIDE DEF free
  <2> QED BY <1>2, SplitSound, SplitWithin
<1>4. s.event = [event[r] EXCEPT !.status = "settled", !.charged = c,
                                 !.wallet = split.wallet]
  BY DEF Settlement
<1> HIDE DEF s, split
<1>5. /\ s.event.status = "settled"
      /\ s.event.charged = c
      /\ s.event.wallet = split.wallet
  BY <1>1, <1>4 DEF EventRows
<1>6. PeriodPortion(s.event) = c - split.wallet
  BY <1>5 DEF PeriodPortion
<1>7. PeriodPortion(s.event) =< free
  BY ONLY <1>2, <1>3, <1>6, c \in Nat
<1> QED BY <1>7 DEF s

(* settle_inference_usage *)
LEMMA SettleWithin ==
    ASSUME LedgerInv, PeriodExact, PeriodExact', ~ unlimited,
           NEW r \in Requests, NEW c \in Nat, Settle(r, c)
    PROVE  DrawsWithinAllowance
<1> DEFINE p == event[r].period
           s == Settlement(r, c, period[p], balance)
<1>1. /\ event \in [Requests -> GoodRows]
      /\ period \in [Periods -> PeriodRows]
      /\ balance \in Nat
  BY InvFacts
<1>2. p \in Periods
  BY <1>1 DEF GoodRows, EventRows
<1>3. /\ event[r].status = "reserved"
      /\ s.ok
      /\ event' = [event EXCEPT ![r] = s.event]
  BY DEF Settle
<1>4. period[p] \in PeriodRows
  BY <1>1, <1>2
<1>5. s.event \in GoodRows
  <2> HIDE DEF p
  <2> QED BY <1>1, <1>3, <1>4, SettlementSound
<1>6. s.event.period = p
  BY <1>1, <1>3, <1>4, SettlementPortion
<1>7. PeriodPortion(s.event) =< period[p].remaining + PeriodPortion(event[r])
  BY <1>1, <1>3, <1>4, SettlementWithin
<1>8. period[p].total \in Int
  BY <1>4 DEF PeriodRows
<1>9. period[p].remaining = Max0(period[p].total - PeriodUsed(event, p))
  BY <1>2 DEF PeriodExact
<1>10. PeriodPortion(event[r]) \in Nat /\ period[p].remaining \in Nat
  BY <1>1, <1>4, PortionTypes DEF PeriodRows
<1>11. event[r].period = s.event.period
  BY <1>6
<1> HIDE DEF s, p
<1>12. PeriodPortion(s.event) =< PeriodPortion(event[r])
           + Max0(period[p].total - PeriodUsed(event, s.event.period))
  <2>1. PeriodPortion(s.event) \in Nat
    BY <1>5, PortionTypes
  <2> QED BY <1>6, <1>7, <1>9, <1>10, <2>1
<1> QED BY <1>1, <1>3, <1>5, <1>6, <1>8, <1>11, <1>12, WriteWithin

(* RouterInferenceService.settle_usage *)
LEMMA RouterSettleWithin ==
    ASSUME LedgerInv, PeriodExact, PeriodExact', ~ unlimited,
           NEW r \in Requests, NEW c \in Nat, RouterSettle(r, c)
    PROVE  DrawsWithinAllowance
<1> DEFINE p == event[r].period
           s == Settlement(r, c, ExpiredPeriod[p], ExpiredBalance)
<1>1. /\ event \in [Requests -> GoodRows]
      /\ ExpiredEvent \in [Requests -> GoodRows]
      /\ ExpiredPeriod \in [Periods -> PeriodRows]
      /\ ExpiredBalance \in Nat
  BY Expiry, InvFacts
<1>2. p \in Periods
  BY <1>1 DEF GoodRows, EventRows
<1>3. /\ event[r].status = "reserved"
      /\ r \notin due
      /\ s.ok
      /\ event' = [ExpiredEvent EXCEPT ![r] = s.event]
  BY DEF RouterSettle
<1>4. ExpiredEvent[r] = event[r]
  BY <1>3 DEF ExpiredEvent, Stale
<1>5. ExpiredPeriod[p] \in PeriodRows
  BY <1>1, <1>2
<1>6. s.event \in GoodRows
  <2> HIDE DEF p
  <2> QED BY <1>1, <1>3, <1>5, SettlementSound
<1>7. s.event.period = p
  BY <1>1, <1>3, <1>5, SettlementPortion
<1>8. PeriodPortion(s.event) =< ExpiredPeriod[p].remaining + PeriodPortion(event[r])
  BY <1>1, <1>3, <1>5, SettlementWithin
<1>9. ExpiredPeriod[p].total = period[p].total /\ period[p].total \in Int
  <2>1. period[p] \in PeriodRows
    BY <1>2, InvFacts
  <2> QED BY <1>2, <2>1 DEF ExpiredPeriod, Booked, PeriodRows
<1>10. ExpiredPeriod[p].remaining
         = Max0(period[p].total - PeriodUsed(ExpiredEvent, p))
  BY <1>2, <1>9, ExpiryExact DEF Exact
<1>11. /\ PeriodPortion(event[r]) \in Nat
       /\ ExpiredPeriod[p].remaining \in Nat
  BY <1>1, <1>5, PortionTypes DEF PeriodRows
<1>12. ExpiredEvent[r].period = s.event.period
  BY <1>4, <1>7
<1> HIDE DEF s, p
<1>13. PeriodPortion(s.event) =< PeriodPortion(ExpiredEvent[r])
           + Max0(period[p].total - PeriodUsed(ExpiredEvent, s.event.period))
  <2>1. PeriodPortion(s.event) \in Nat
    BY <1>6, PortionTypes
  <2> QED BY <1>4, <1>7, <1>8, <1>10, <1>11, <2>1
<1> QED BY <1>1, <1>3, <1>6, <1>7, <1>9, <1>12, <1>13, WriteWithin

(* A release draws nothing: the row it leaves has no portion. *)
LEMMA ReleaseWithin ==
    ASSUME LedgerInv, PeriodExact, PeriodExact',
           NEW STATE ev, ev = ExpiredEvent \/ ev = event,
           NEW r \in Requests,
           event' = [ev EXCEPT ![r].status = "released"]
    PROVE  DrawsWithinAllowance
<1> DEFINE row == [ev[r] EXCEPT !.status = "released"]
<1>1. ev \in [Requests -> GoodRows]
  BY InvFacts, Expiry
<1>2. /\ row \in GoodRows
      /\ row.period = ev[r].period
      /\ row.period \in Periods
      /\ PeriodPortion(row) = 0
  BY <1>1 DEF GoodRows, EventRows, Statuses, Covered, PeriodPortion
<1>3. event' = [ev EXCEPT ![r] = row]
  BY <1>1
<1> HIDE DEF row
<1> DEFINE total == period[row.period].total
<1>4. total \in Int
  BY <1>2, InvFacts DEF PeriodRows
<1>5. PeriodPortion(ev[r]) \in Nat /\ PeriodUsed(ev, row.period) \in Nat
  BY <1>1, <1>2, PortionTypes, PeriodUsedType
<1> HIDE DEF total
<1>6. PeriodPortion(row)
        =< PeriodPortion(ev[r]) + Max0(total - PeriodUsed(ev, row.period))
  BY <1>2, <1>4, <1>5 DEF Max0
<1>7. /\ PeriodPortion(ev[r]) = 0 \/ ev[r].period = row.period
      /\ total = period[row.period].total
  BY <1>2 DEF total
<1> QED BY <1>2, <1>3, <1>4, <1>6, <1>7, WriteWithin

(* One step per action of Next. *)
LEMMA WithinStep ==
    ASSUME LedgerInv, PeriodExact, PeriodExact', [Next]_vars
    PROVE  [DrawsWithinAllowance]_vars
<1>1. CASE unlimited
  BY <1>1 DEF DrawsWithinAllowance
<1>2. CASE ~ unlimited
  <2>1. CASE RecalculateCurrentPeriod
    BY <2>1, NothingWithin DEF RecalculateCurrentPeriod
  <2>2. ASSUME NEW r \in Requests, NEW k \in Keys, NEW n \in Amounts, Reserve(r, k, n)
        PROVE  DrawsWithinAllowance
    BY <1>2, <2>2, ReserveWithin
  <2>3. ASSUME NEW r \in Requests, NEW c \in 1 .. (event[r].reserved + Overrun),
               Settle(r, c) \/ RouterSettle(r, c)
        PROVE  DrawsWithinAllowance
    <3>1. c \in Nat
      BY InvFacts, AmountsAssumption DEF GoodRows, EventRows
    <3> QED BY <1>2, <2>3, <3>1, SettleWithin, RouterSettleWithin
  <2>4. ASSUME NEW r \in Requests, Release(r) \/ RouterRelease(r)
        PROVE  DrawsWithinAllowance
    BY <2>4, ReleaseWithin DEF Release, RouterRelease
  <2>5. ASSUME NEW r \in Requests, ReleaseOverdue(r)
        PROVE  DrawsWithinAllowance
    BY <2>5, NothingWithin DEF ReleaseOverdue
  <2>6. ASSUME \/ \E r \in Requests : Lapse(r)
               \/ \E n \in TopUps : TopUp(n)
               \/ \E a \in Allowances : ChangeAllowance(a)
               \/ \E p \in Periods, u \in BOOLEAN : ChangeSubscription(p, u)
               \/ NextWindow
        PROVE  DrawsWithinAllowance
    <3>1. event' = event
      BY <2>6 DEF Lapse, TopUp, ChangeAllowance, ChangeSubscription, NextWindow
    <3> QED BY <3>1, NothingWithin
  <2> QED BY <2>1, <2>2, <2>3, <2>4, <2>5, <2>6 DEF Next
<1>3. unlimited \in BOOLEAN
  BY InvFacts
<1> QED BY <1>1, <1>2, <1>3

-----------------------------------------------------------------------------
(* The theorems. *)

(* used_tokens and remaining_tokens of every usage_periods row, moved by   *)
(* increments in reserve, settle, release and expire_stale_reservations,   *)
(* are always what _period_used_tokens would recompute.                    *)
THEOREM PeriodsStayExact == Spec => []PeriodExact
BY PeriodsInit, PeriodsStep, Inductive, PTL DEF Spec

(* A live reservation settles for anything up to its size without a 402,   *)
(* unless the plan has become unlimited: what its allowance no longer pays *)
(* for, its own wallet portion does (settle_inference_usage).              *)
THEOREM HoldsCoverSettlements == Spec => []ReservationCoversSettlement
<1>1. LedgerInv => ReservationCoversSettlement
  <2> SUFFICES ASSUME LedgerInv, NEW r \in Requests,
                      event[r].status = "reserved", ~ unlimited,
                      NEW c \in 1 .. event[r].reserved
               PROVE  Settlement(r, c, period[event[r].period], balance).ok
    BY DEF ReservationCoversSettlement
  <2> DEFINE row == period[event[r].period]
             free == row.remaining + PeriodPortion(event[r])
  <2>1. /\ event[r] \in EventRows
        /\ Covered(event[r])
        /\ balance \in Nat
        /\ row \in PeriodRows
    BY InvFacts DEF GoodRows, EventRows
  <2>2. /\ event[r].reserved \in Nat
        /\ event[r].wallet \in Nat
        /\ row.remaining \in Nat
        /\ c \in Nat
        /\ c =< event[r].reserved
    BY <2>1 DEF EventRows, PeriodRows
  <2>3. PeriodPortion(event[r]) = event[r].reserved - event[r].wallet
    BY DEF PeriodPortion
  <2>4. Settlement(r, c, row, balance).ok
          = /\ unlimited => event[r].wallet = 0
            /\ Split(c, free).wallet =< balance + event[r].wallet
    BY DEF Settlement
  <2>5. event[r].wallet =< event[r].reserved
    BY <2>1 DEF Covered
  <2>6. Split(c, free).wallet = c - Lesser(c, free)
    BY DEF Split
  <2>7. free \in Nat /\ c - free =< event[r].wallet
    BY <2>2, <2>3, <2>5
  <2> HIDE DEF free, row
  <2>8. Split(c, free).wallet =< balance + event[r].wallet
    BY <2>1, <2>2, <2>6, <2>7 DEF Lesser
  <2> QED BY <2>4, <2>8 DEF row
<1> QED BY <1>1, Inductive, PTL

(* No step takes a period past an allowance it had before the step or has  *)
(* after it, unless the plan is unlimited: neither a reservation nor a     *)
(* settlement that draws more than it reserved, nor one on a period whose  *)
(* total was recalculated long before (reserve, settle_inference_usage).   *)
THEOREM DrawsStayWithin == Spec => AllowanceRespected
<1>1. LedgerInv /\ PeriodExact /\ PeriodExact' /\ [Next]_vars
        => [DrawsWithinAllowance]_vars
  BY WithinStep
<1> QED BY <1>1, Inductive, PeriodsStayExact, PTL DEF Spec, AllowanceRespected

-----------------------------------------------------------------------------
(* 8. Sums over the rows of a key. *)

(* Whether key_spend counts a row for key k. *)
Counts(row, k) == row.key = k /\ (k \in Windowed => row.window = window)

KeyCredits(row, k) == IF Counts(row, k) THEN Credits(row) ELSE 0
KeyWallet(row, k) == IF Counts(row, k) THEN WalletPortion(row) ELSE 0

CreditShare(ev, k) == [r \in Requests |-> KeyCredits(ev[r], k)]
KeyWalletShare(ev, k) == [r \in Requests |-> KeyWallet(ev[r], k)]

(* The settled requests of a key, and how far they may take it past a cap. *)
SettledOf(ev, k) == {r \in Requests : ev[r].status = "settled" /\ ev[r].key = k}
Excess(ev, k) == Overrun * Cardinality(SettledOf(ev, k))

(* KeysWithinLimits, of one key and of rows that need not be the stored ones. *)
Within(ev, k) ==
    /\ CreditsUsed(ev, k) =< CreditLimit[k] + Excess(ev, k)
    /\ WalletUsed(ev, k) =< WalletLimit[k] + Excess(ev, k)

(* No row has been written in a window to come. *)
InWindow(ev) == \A r \in Requests : ev[r].window =< window

KeyInv ==
    /\ KeysWithinLimits
    /\ InWindow(event)

(* A sum over some rows is a sum over all, the others counting nothing. *)
LEMMA TotalMasked ==
    ASSUME NEW S, NEW T \in SUBSET S, NEW f, NEW g,
           \A x \in T : g[x] = f[x],
           \A x \in S \ T : g[x] = 0
    PROVE  Total(f, T) = Total(g, S)
<1>1. Units(f, T) \subseteq Units(g, S)
  BY DEF Units
<1>2. Units(g, S) \subseteq Units(f, T)
  <2> SUFFICES ASSUME NEW x \in S, NEW u \in {x} \X (1 .. g[x])
               PROVE  u \in Units(f, T)
    BY DEF Units
  <2>1. CASE x \in T
    BY <2>1 DEF Units
  <2>2. CASE x \notin T
    BY <2>2
  <2> QED BY <2>1, <2>2
<1> QED BY <1>1, <1>2 DEF Total

(* What a row counts is a number of tokens. *)
LEMMA KeyTypes ==
    ASSUME NEW row \in GoodRows, NEW k \in Keys
    PROVE  /\ Credits(row) \in Nat
           /\ KeyCredits(row, k) \in Nat
           /\ KeyWallet(row, k) \in Nat
<1>1. row.reserved \in Nat /\ row.charged \in Nat /\ WalletPortion(row) \in Nat
  BY PortionTypes
<1>2. Credits(row) \in Nat
  BY <1>1 DEF Credits
<1> QED BY <1>1, <1>2 DEF KeyCredits, KeyWallet

(* The sums of key_spend, over all requests. *)
LEMMA UsedIs ==
    ASSUME NEW ev \in [Requests -> GoodRows], NEW k \in Keys
    PROVE  /\ CreditsUsed(ev, k) = Total(CreditShare(ev, k), Requests)
           /\ WalletUsed(ev, k) = Total(KeyWalletShare(ev, k), Requests)
           /\ CreditShare(ev, k) \in [Requests -> Nat]
           /\ KeyWalletShare(ev, k) \in [Requests -> Nat]
           /\ CreditsUsed(ev, k) \in Nat
           /\ WalletUsed(ev, k) \in Nat
<1> DEFINE T == Counted(ev, k)
           f == [r \in Requests |-> Credits(ev[r])]
<1>1. T \in SUBSET Requests
  BY DEF Counted
<1>2. /\ \A x \in T : CreditShare(ev, k)[x] = f[x]
      /\ \A x \in Requests \ T : CreditShare(ev, k)[x] = 0
  BY DEF Counted, CreditShare, KeyCredits, Counts
<1>3. /\ \A x \in T : KeyWalletShare(ev, k)[x] = WalletShare(ev)[x]
      /\ \A x \in Requests \ T : KeyWalletShare(ev, k)[x] = 0
  BY DEF Counted, KeyWalletShare, KeyWallet, Counts, WalletShare
<1> HIDE DEF T, f
<1>4. Total(f, T) = Total(CreditShare(ev, k), Requests)
  BY <1>1, <1>2, TotalMasked
<1>5. Total(WalletShare(ev), T) = Total(KeyWalletShare(ev, k), Requests)
  BY <1>1, <1>3, TotalMasked
<1>6. /\ CreditShare(ev, k) \in [Requests -> Nat]
      /\ KeyWalletShare(ev, k) \in [Requests -> Nat]
  BY KeyTypes DEF CreditShare, KeyWalletShare
<1>7. /\ Total(CreditShare(ev, k), Requests) \in Nat
      /\ Total(KeyWalletShare(ev, k), Requests) \in Nat
  BY <1>6, RowsAssumption, TotalNat
<1> QED BY <1>4, <1>5, <1>6, <1>7 DEF CreditsUsed, WalletUsed, T, f

(* Changing the row of one request changes the sums by what it counts. *)
LEMMA KeyUpdate ==
    ASSUME NEW ev \in [Requests -> GoodRows], NEW x \in Requests,
           NEW row \in GoodRows, NEW k \in Keys
    PROVE  LET new == [ev EXCEPT ![x] = row]
           IN  /\ CreditsUsed(new, k) + KeyCredits(ev[x], k)
                    = CreditsUsed(ev, k) + KeyCredits(row, k)
               /\ WalletUsed(new, k) + KeyWallet(ev[x], k)
                    = WalletUsed(ev, k) + KeyWallet(row, k)
<1> DEFINE new == [ev EXCEPT ![x] = row]
<1>1. new \in [Requests -> GoodRows]
  OBVIOUS
<1>2. /\ \A y \in Requests \ {x} : CreditShare(new, k)[y] = CreditShare(ev, k)[y]
      /\ \A y \in Requests \ {x} : KeyWalletShare(new, k)[y] = KeyWalletShare(ev, k)[y]
  BY DEF CreditShare, KeyWalletShare
<1>3. /\ CreditShare(ev, k)[x] = KeyCredits(ev[x], k)
      /\ CreditShare(new, k)[x] = KeyCredits(row, k)
      /\ KeyWalletShare(ev, k)[x] = KeyWallet(ev[x], k)
      /\ KeyWalletShare(new, k)[x] = KeyWallet(row, k)
  BY DEF CreditShare, KeyWalletShare
<1> HIDE DEF new
<1>4. Total(CreditShare(new, k), Requests) + CreditShare(ev, k)[x]
        = Total(CreditShare(ev, k), Requests) + CreditShare(new, k)[x]
  BY <1>1, <1>2, UsedIs, RowsAssumption, TotalUpdate
<1>5. Total(KeyWalletShare(new, k), Requests) + KeyWalletShare(ev, k)[x]
        = Total(KeyWalletShare(ev, k), Requests) + KeyWalletShare(new, k)[x]
  BY <1>1, <1>2, UsedIs, RowsAssumption, TotalUpdate
<1> QED BY <1>1, <1>3, <1>4, <1>5, UsedIs DEF new

(* The excess is a number of tokens, and each settlement adds an overrun. *)
LEMMA ExcessType ==
    ASSUME NEW ev, NEW k
    PROVE  Excess(ev, k) \in Nat
<1>1. SettledOf(ev, k) \in SUBSET Requests
  BY DEF SettledOf
<1>2. Cardinality(SettledOf(ev, k)) \in Nat
  BY <1>1, RowsAssumption, FS_Subset, FS_CardinalityType
<1> QED BY <1>2, AmountsAssumption DEF Excess

LEMMA ExcessGrows ==
    ASSUME NEW ev, NEW new, NEW k, NEW x \in Requests,
           SettledOf(new, k) = SettledOf(ev, k) \union {x},
           x \notin SettledOf(ev, k)
    PROVE  Excess(new, k) = Excess(ev, k) + Overrun
<1>1. IsFiniteSet(SettledOf(ev, k))
  BY RowsAssumption, FS_Subset DEF SettledOf
<1>2. Cardinality(SettledOf(new, k)) = Cardinality(SettledOf(ev, k)) + 1
  BY <1>1, FS_AddElement
<1>3. Cardinality(SettledOf(ev, k)) \in Nat
  BY <1>1, FS_CardinalityType
<1> QED BY <1>2, <1>3, AmountsAssumption DEF Excess

-----------------------------------------------------------------------------
(* 9. What a step does to the rows. *)

(* An expiry takes rows out of the sums and settles none. *)
LEMMA ExpiryKeepsLimits ==
    ASSUME LedgerInv, KeyInv
    PROVE  /\ \A k \in Keys : Within(ExpiredEvent, k)
           /\ InWindow(ExpiredEvent)
<1>1. /\ event \in [Requests -> GoodRows]
      /\ ExpiredEvent \in [Requests -> GoodRows]
      /\ Stale \in SUBSET Requests
  BY InvFacts, Expiry DEF Stale
<1>2. \A r \in Requests :
          /\ ExpiredEvent[r].key = event[r].key
          /\ ExpiredEvent[r].window = event[r].window
          /\ r \in Stale => ExpiredEvent[r].status = "expired"
          /\ r \in Stale => event[r].status = "reserved"
          /\ r \notin Stale => ExpiredEvent[r] = event[r]
  BY <1>1 DEF ExpiredEvent, Stale, GoodRows, EventRows
<1>3. ASSUME NEW k \in Keys
      PROVE  Within(ExpiredEvent, k)
  <2>1. \A r \in Stale : /\ CreditShare(ExpiredEvent, k)[r] = 0
                         /\ KeyWalletShare(ExpiredEvent, k)[r] = 0
    BY <1>1, <1>2 DEF CreditShare, KeyWalletShare, KeyCredits, KeyWallet,
                      Credits, WalletPortion
  <2>2. \A r \in Requests \ Stale :
            /\ CreditShare(ExpiredEvent, k)[r] = CreditShare(event, k)[r]
            /\ KeyWalletShare(ExpiredEvent, k)[r] = KeyWalletShare(event, k)[r]
    BY <1>2 DEF CreditShare, KeyWalletShare
  <2>3. CreditsUsed(ExpiredEvent, k) =< CreditsUsed(event, k)
    <3>1. Total(CreditShare(ExpiredEvent, k), Requests) + Total(CreditShare(event, k), Stale)
            = Total(CreditShare(event, k), Requests)
      BY <1>1, <2>1, <2>2, UsedIs, RowsAssumption, TotalZeroed
    <3>2. Total(CreditShare(event, k), Stale) \in Nat
      BY <1>1, UsedIs, RowsAssumption, TotalNat
    <3>3. /\ CreditsUsed(event, k) = Total(CreditShare(event, k), Requests)
          /\ CreditsUsed(ExpiredEvent, k) = Total(CreditShare(ExpiredEvent, k), Requests)
          /\ CreditsUsed(event, k) \in Nat /\ CreditsUsed(ExpiredEvent, k) \in Nat
      BY <1>1, UsedIs
    <3> QED BY ONLY <3>1, <3>2, <3>3
  <2>4. WalletUsed(ExpiredEvent, k) =< WalletUsed(event, k)
    <3>1. Total(KeyWalletShare(ExpiredEvent, k), Requests)
              + Total(KeyWalletShare(event, k), Stale)
            = Total(KeyWalletShare(event, k), Requests)
      BY <1>1, <2>1, <2>2, UsedIs, RowsAssumption, TotalZeroed
    <3>2. Total(KeyWalletShare(event, k), Stale) \in Nat
      BY <1>1, UsedIs, RowsAssumption, TotalNat
    <3>3. /\ WalletUsed(event, k) = Total(KeyWalletShare(event, k), Requests)
          /\ WalletUsed(ExpiredEvent, k) = Total(KeyWalletShare(ExpiredEvent, k), Requests)
          /\ WalletUsed(event, k) \in Nat /\ WalletUsed(ExpiredEvent, k) \in Nat
      BY <1>1, UsedIs
    <3> QED BY ONLY <3>1, <3>2, <3>3
  <2>5. SettledOf(ExpiredEvent, k) = SettledOf(event, k)
    BY <1>2 DEF SettledOf
  <2>6. Excess(ExpiredEvent, k) = Excess(event, k)
    BY <2>5 DEF Excess
  <2>7. Within(event, k)
    BY DEF KeyInv, KeysWithinLimits, Within, Excess, SettledOf
  <2>8. /\ CreditsUsed(event, k) \in Nat /\ CreditsUsed(ExpiredEvent, k) \in Nat
        /\ WalletUsed(event, k) \in Nat /\ WalletUsed(ExpiredEvent, k) \in Nat
        /\ Excess(event, k) \in Nat
        /\ CreditLimit[k] \in Nat /\ WalletLimit[k] \in Nat
    BY <1>1, UsedIs, ExcessType, LimitsAssumption
  <2> QED BY <2>3, <2>4, <2>6, <2>7, <2>8 DEF Within
<1>4. InWindow(ExpiredEvent)
  BY <1>2 DEF KeyInv, InWindow
<1> QED BY <1>3, <1>4

(* A row of another key, or one that draws nothing before and after, or    *)
(* less than before, takes no key further.                                 *)
LEMMA NoFurther ==
    ASSUME NEW ev \in [Requests -> GoodRows], NEW x \in Requests,
           NEW row \in GoodRows, NEW k \in Keys,
           Within(ev, k),
           KeyCredits(row, k) =< KeyCredits(ev[x], k),
           KeyWallet(row, k) =< KeyWallet(ev[x], k),
           SettledOf([ev EXCEPT ![x] = row], k) = SettledOf(ev, k)
    PROVE  Within([ev EXCEPT ![x] = row], k)
<1> DEFINE new == [ev EXCEPT ![x] = row]
<1>1. new \in [Requests -> GoodRows]
  OBVIOUS
<1>2. /\ CreditsUsed(new, k) + KeyCredits(ev[x], k)
           = CreditsUsed(ev, k) + KeyCredits(row, k)
      /\ WalletUsed(new, k) + KeyWallet(ev[x], k) = WalletUsed(ev, k) + KeyWallet(row, k)
  BY KeyUpdate
<1>3. Excess(new, k) = Excess(ev, k)
  BY DEF Excess
<1> HIDE DEF new
<1>4. /\ CreditsUsed(new, k) \in Nat /\ CreditsUsed(ev, k) \in Nat
      /\ WalletUsed(new, k) \in Nat /\ WalletUsed(ev, k) \in Nat
      /\ KeyCredits(ev[x], k) \in Nat /\ KeyCredits(row, k) \in Nat
      /\ KeyWallet(ev[x], k) \in Nat /\ KeyWallet(row, k) \in Nat
      /\ Excess(ev, k) \in Nat
      /\ CreditLimit[k] \in Nat /\ WalletLimit[k] \in Nat
  BY <1>1, UsedIs, KeyTypes, ExcessType, LimitsAssumption
<1>5. /\ CreditsUsed(new, k) =< CreditsUsed(ev, k)
      /\ WalletUsed(new, k) =< WalletUsed(ev, k)
  BY <1>2, <1>4
<1>6. Within(new, k)
  BY <1>3, <1>4, <1>5 DEF Within
<1> QED BY <1>6 DEF new

(* A settlement takes its key further by an overrun at most, and is one    *)
(* settlement more.                                                        *)
LEMMA SettledFurther ==
    ASSUME NEW ev \in [Requests -> GoodRows], NEW x \in Requests,
           NEW row \in GoodRows, NEW k \in Keys,
           Within(ev, k),
           ev[x].status = "reserved", row.status = "settled",
           row.key = ev[x].key, row.window = ev[x].window,
           row.charged =< ev[x].reserved + Overrun,
           row.wallet =< ev[x].wallet + Overrun
    PROVE  Within([ev EXCEPT ![x] = row], k)
<1> DEFINE new == [ev EXCEPT ![x] = row]
<1>1. new \in [Requests -> GoodRows]
  OBVIOUS
<1>2. CASE row.key # k
  <2>1. KeyCredits(row, k) = 0 /\ KeyWallet(row, k) = 0
    BY <1>2 DEF KeyCredits, KeyWallet, Counts
  <2>2. KeyCredits(ev[x], k) = 0 /\ KeyWallet(ev[x], k) = 0
    BY <1>2 DEF KeyCredits, KeyWallet, Counts
  <2>3. SettledOf(new, k) = SettledOf(ev, k)
    BY <1>2 DEF SettledOf
  <2>4. /\ KeyCredits(row, k) =< KeyCredits(ev[x], k)
        /\ KeyWallet(row, k) =< KeyWallet(ev[x], k)
    BY <2>1, <2>2
  <2>5. SettledOf([ev EXCEPT ![x] = row], k) = SettledOf(ev, k)
    BY <2>3
  <2> HIDE DEF new
  <2> QED BY <2>4, <2>5, NoFurther
<1>3. CASE row.key = k
  <2>1. /\ SettledOf(new, k) = SettledOf(ev, k) \union {x}
        /\ x \notin SettledOf(ev, k)
    BY <1>3 DEF SettledOf
  <2>2. Excess(new, k) = Excess(ev, k) + Overrun
    <3> HIDE DEF new
    <3> QED BY <2>1, ExcessGrows
  <2>3. /\ CreditsUsed(new, k) + KeyCredits(ev[x], k)
             = CreditsUsed(ev, k) + KeyCredits(row, k)
        /\ WalletUsed(new, k) + KeyWallet(ev[x], k) = WalletUsed(ev, k) + KeyWallet(row, k)
    BY KeyUpdate
  <2> HIDE DEF new
  <2>4. /\ CreditsUsed(new, k) \in Nat /\ CreditsUsed(ev, k) \in Nat
        /\ WalletUsed(new, k) \in Nat /\ WalletUsed(ev, k) \in Nat
        /\ KeyCredits(ev[x], k) \in Nat /\ KeyCredits(row, k) \in Nat
        /\ KeyWallet(ev[x], k) \in Nat /\ KeyWallet(row, k) \in Nat
        /\ Excess(ev, k) \in Nat /\ Overrun \in Nat
        /\ CreditLimit[k] \in Nat /\ WalletLimit[k] \in Nat
    BY <1>1, UsedIs, KeyTypes, ExcessType, LimitsAssumption, AmountsAssumption
  <2>5. /\ KeyCredits(row, k) =< KeyCredits(ev[x], k) + Overrun
        /\ KeyWallet(row, k) =< KeyWallet(ev[x], k) + Overrun
    <3>1. Counts(row, k) <=> Counts(ev[x], k)
      BY DEF Counts
    <3>2. CASE Counts(row, k)
      <4>1. KeyCredits(row, k) = row.charged /\ KeyCredits(ev[x], k) = ev[x].reserved
        BY <3>1, <3>2 DEF KeyCredits, Credits
      <4>2. KeyWallet(row, k) = row.wallet /\ KeyWallet(ev[x], k) = ev[x].wallet
        BY <3>1, <3>2 DEF KeyWallet, WalletPortion
      <4> QED BY <4>1, <4>2
    <3>3. CASE ~ Counts(row, k)
      BY <2>4, <3>3 DEF KeyCredits, KeyWallet
    <3> QED BY <3>2, <3>3
  <2>6. /\ CreditsUsed(new, k) =< CreditsUsed(ev, k) + Overrun
        /\ WalletUsed(new, k) =< WalletUsed(ev, k) + Overrun
    BY <2>3, <2>4, <2>5
  <2>7. Within(new, k)
    BY <2>2, <2>4, <2>6 DEF Within
  <2> QED BY <2>7 DEF new
<1> QED BY <1>2, <1>3

(* What every action that stays in the window has to show. *)
LEMMA KeyNext ==
    ASSUME NEW STATE ev, event' = ev, window' = window,
           \A k \in Keys : Within(ev, k), InWindow(ev)
    PROVE  KeyInv'
<1>1. ASSUME NEW k \in Keys
      PROVE  /\ CreditsUsed(event, k)' = CreditsUsed(ev, k)
             /\ WalletUsed(event, k)' = WalletUsed(ev, k)
  BY DEF CreditsUsed, WalletUsed, WalletShare, Counted
<1>2. ASSUME NEW k \in Keys
      PROVE  (Overrun * Cardinality({r \in Requests : event[r].status = "settled"
                                                    /\ event[r].key = k}))' = Excess(ev, k)
  BY DEF Excess, SettledOf
<1>3. KeysWithinLimits'
  BY <1>1, <1>2 DEF KeysWithinLimits, Within
<1>4. InWindow(event)'
  BY DEF InWindow
<1> QED BY <1>3, <1>4 DEF KeyInv

-----------------------------------------------------------------------------
(* 10. The actions. *)

(* No key has used anything at first. *)
LEMMA KeyInit == Init => KeyInv
<1> SUFFICES ASSUME Init
             PROVE  KeyInv
  OBVIOUS
<1>1. LedgerInv
  BY InvInit
<1>2. event \in [Requests -> GoodRows]
  BY <1>1, InvFacts
<1>3. ASSUME NEW k \in Keys
      PROVE  Within(event, k)
  <2>1. \A r \in Requests : CreditShare(event, k)[r] = 0 /\ KeyWalletShare(event, k)[r] = 0
    BY DEF Init, NoRow, CreditShare, KeyWalletShare, KeyCredits, KeyWallet,
           Credits, WalletPortion
  <2>2. CreditsUsed(event, k) = 0 /\ WalletUsed(event, k) = 0
    BY <1>2, <2>1, UsedIs, TotalZero
  <2>3. Excess(event, k) \in Nat /\ CreditLimit[k] \in Nat /\ WalletLimit[k] \in Nat
    BY ExcessType, LimitsAssumption
  <2> QED BY <2>2, <2>3 DEF Within
<1>4. KeysWithinLimits
  BY <1>3 DEF KeysWithinLimits, Within, Excess, SettledOf
<1>5. InWindow(event)
  BY DEF Init, NoRow, InWindow
<1> QED BY <1>4, <1>5 DEF KeyInv

(* What a step may rely on. *)
LEMMA KeyFacts ==
    ASSUME KeyInv
    PROVE  /\ \A k \in Keys : Within(event, k)
           /\ InWindow(event)
BY DEF KeyInv, KeysWithinLimits, Within, Excess, SettledOf

(* reserve_inference_tokens: the caps are checked with the request, on the *)
(* rows that the expiry left.                                              *)
LEMMA ReserveKeys ==
    ASSUME LedgerInv, KeyInv, NEW r \in Requests, NEW k \in Keys, NEW n \in Amounts,
           Reserve(r, k, n)
    PROVE  KeyInv'
<1> DEFINE fresh == Recalculated(ExpiredEvent, current)
           split == Split(n, fresh.remaining)
           row == [status |-> "reserved", period |-> current, key |-> k,
                   window |-> window, reserved |-> n,
                   wallet |-> split.wallet, charged |-> 0]
           new == [ExpiredEvent EXCEPT ![r] = row]
<1>1. /\ ExpiredEvent \in [Requests -> GoodRows]
      /\ current \in Periods /\ window \in Nat /\ allowance \in Int
      /\ n \in Nat
  BY Expiry, InvFacts, AmountsAssumption
<1>2. /\ event[r].status = "none"
      /\ WithinLimits(ExpiredEvent, k, n, split.wallet)
      /\ event' = new
      /\ window' = window
  BY DEF Reserve
<1>3. fresh.remaining \in Nat
  <2>1. fresh \in PeriodRows
    BY <1>1, RecalculatedType
  <2> QED BY <2>1 DEF PeriodRows
<1> HIDE DEF fresh
<1>4. split.wallet \in Nat /\ split.wallet =< n
  BY <1>1, <1>3, SplitSound
<1> HIDE DEF split
<1>5. row \in GoodRows
  <2>1. row \in EventRows
    BY <1>1, <1>4 DEF EventRows, Statuses
  <2> QED BY <1>4, <2>1 DEF GoodRows, Covered
<1>6. /\ row.key = k /\ row.window = window /\ row.status = "reserved"
      /\ Credits(row) = n /\ WalletPortion(row) = split.wallet
  BY DEF Credits, WalletPortion
<1>7. ExpiredEvent[r].status = "none"
  BY <1>2 DEF ExpiredEvent, Stale
<1>8. /\ \A j \in Keys : Within(ExpiredEvent, j)
      /\ InWindow(ExpiredEvent)
  BY ExpiryKeepsLimits
<1> HIDE DEF row
<1>9. ASSUME NEW j \in Keys
      PROVE  Within(new, j)
  <2>1. KeyCredits(ExpiredEvent[r], j) = 0 /\ KeyWallet(ExpiredEvent[r], j) = 0
    BY <1>7 DEF KeyCredits, KeyWallet, Credits, WalletPortion
  <2>2. SettledOf(new, j) = SettledOf(ExpiredEvent, j)
    BY <1>1, <1>6, <1>7 DEF SettledOf
  <2>3. CASE j # k
    <3>1. KeyCredits(row, j) = 0 /\ KeyWallet(row, j) = 0
      BY <1>6, <2>3 DEF KeyCredits, KeyWallet, Counts
    <3>2. /\ KeyCredits(row, j) =< KeyCredits(ExpiredEvent[r], j)
          /\ KeyWallet(row, j) =< KeyWallet(ExpiredEvent[r], j)
      BY <2>1, <3>1
    <3> QED BY <1>1, <1>5, <1>8, <2>2, <3>2, NoFurther
  <2>4. CASE j = k
    <3>1. KeyCredits(row, k) = n /\ KeyWallet(row, k) = split.wallet
      BY <1>6 DEF KeyCredits, KeyWallet, Counts
    <3>2. /\ CreditsUsed(new, k) + KeyCredits(ExpiredEvent[r], k)
               = CreditsUsed(ExpiredEvent, k) + KeyCredits(row, k)
          /\ WalletUsed(new, k) + KeyWallet(ExpiredEvent[r], k)
               = WalletUsed(ExpiredEvent, k) + KeyWallet(row, k)
      BY <1>1, <1>5, KeyUpdate
    <3>3. new \in [Requests -> GoodRows]
      BY <1>1, <1>5
    <3>4. Excess(new, k) = Excess(ExpiredEvent, k)
      BY <2>2, <2>4 DEF Excess
    <3> HIDE DEF new
    <3>5. /\ CreditsUsed(new, k) \in Nat /\ CreditsUsed(ExpiredEvent, k) \in Nat
          /\ WalletUsed(new, k) \in Nat /\ WalletUsed(ExpiredEvent, k) \in Nat
          /\ Excess(ExpiredEvent, k) \in Nat
          /\ CreditLimit[k] \in Nat /\ WalletLimit[k] \in Nat
      BY <1>1, <3>3, UsedIs, ExcessType, LimitsAssumption
    <3>6. /\ CreditsUsed(new, k) = CreditsUsed(ExpiredEvent, k) + n
          /\ WalletUsed(new, k) = WalletUsed(ExpiredEvent, k) + split.wallet
      BY <1>1, <1>4, <2>1, <2>4, <3>1, <3>2, <3>5
    <3>7. CreditsUsed(new, k) =< CreditLimit[k]
      BY <1>2, <3>6 DEF WithinLimits
    <3>8. CASE split.wallet = 0
      BY <1>8, <2>4, <3>4, <3>5, <3>6, <3>7, <3>8 DEF Within
    <3>9. CASE split.wallet > 0
      <4>1. WalletUsed(new, k) =< WalletLimit[k]
        BY <1>2, <3>6, <3>9 DEF WithinLimits
      <4> QED BY <2>4, <3>4, <3>5, <3>7, <4>1 DEF Within
    <3> QED BY <1>4, <3>8, <3>9
  <2> QED BY <2>3, <2>4
<1>10. InWindow(new)
  BY <1>1, <1>6, <1>8 DEF InWindow
<1> HIDE DEF new
<1> QED BY <1>2, <1>9, <1>10, KeyNext

(* A settlement takes from the wallet at most an overrun more than it held. *)
LEMMA SettlementTakes ==
    ASSUME NEW r \in Requests, NEW c \in 0 .. (event[r].reserved + Overrun),
           NEW row \in PeriodRows, NEW funds \in Nat,
           event \in [Requests -> GoodRows], event[r].status = "reserved"
    PROVE  LET s == Settlement(r, c, row, funds).event
           IN  /\ s.status = "settled"
               /\ s.key = event[r].key
               /\ s.window = event[r].window
               /\ s.charged =< event[r].reserved + Overrun
               /\ s.wallet =< event[r].wallet + Overrun
<1> DEFINE s == Settlement(r, c, row, funds).event
           free == row.remaining + PeriodPortion(event[r])
           split == Split(c, free)
<1>1. /\ event[r] \in EventRows
      /\ event[r].reserved \in Nat /\ event[r].wallet \in Nat
      /\ event[r].wallet =< event[r].reserved
      /\ row.remaining \in Nat
      /\ Overrun \in Nat /\ c \in Nat /\ c =< event[r].reserved + Overrun
  BY AmountsAssumption DEF GoodRows, EventRows, PeriodRows, Covered
<1>2. PeriodPortion(event[r]) = event[r].reserved - event[r].wallet
  BY DEF PeriodPortion
<1>3. free \in Nat /\ event[r].reserved - event[r].wallet =< free
  BY <1>1, <1>2
<1>4. split.wallet =< event[r].wallet + Overrun
  <2> HIDE DEF free
  <2>1. split.wallet = c - (IF unlimited THEN c ELSE Lesser(c, free))
    BY DEF Split
  <2> HIDE DEF split
  <2>2. CASE unlimited
    BY <1>1, <2>1, <2>2
  <2>3. CASE ~ unlimited
    BY <1>1, <1>3, <2>1, <2>3 DEF Lesser
  <2> QED BY <2>2, <2>3
<1>5. s = [event[r] EXCEPT !.status = "settled", !.charged = c, !.wallet = split.wallet]
  BY DEF Settlement
<1> HIDE DEF s, split
<1>6. /\ s.status = "settled" /\ s.key = event[r].key /\ s.window = event[r].window
      /\ s.charged = c /\ s.wallet = split.wallet
  BY <1>1, <1>5 DEF EventRows
<1> QED BY <1>1, <1>4, <1>6 DEF s

(* A settlement, after an expiry or none. *)
LEMMA SettleRowKeys ==
    ASSUME LedgerInv, KeyInv,
           NEW STATE ev, ev = ExpiredEvent \/ ev = event,
           NEW r \in Requests, ev[r] = event[r], event[r].status = "reserved",
           NEW c \in 0 .. (event[r].reserved + Overrun),
           NEW STATE row, row \in PeriodRows, NEW STATE funds, funds \in Nat,
           Settlement(r, c, row, funds).ok,
           event' = [ev EXCEPT ![r] = Settlement(r, c, row, funds).event],
           window' = window
    PROVE  KeyInv'
<1> DEFINE s == Settlement(r, c, row, funds).event
           new == [ev EXCEPT ![r] = s]
<1>1. /\ event \in [Requests -> GoodRows]
      /\ ev \in [Requests -> GoodRows]
      /\ c \in Nat
  BY InvFacts, Expiry, AmountsAssumption DEF GoodRows, EventRows
<1>2. s \in GoodRows
  BY <1>1, SettlementSound
<1>3. /\ s.status = "settled"
      /\ s.key = event[r].key
      /\ s.window = event[r].window
      /\ s.charged =< event[r].reserved + Overrun
      /\ s.wallet =< event[r].wallet + Overrun
  BY <1>1, SettlementTakes
<1>4. /\ \A k \in Keys : Within(ev, k)
      /\ InWindow(ev)
  BY ExpiryKeepsLimits, KeyFacts
<1>5. event' = new
  OBVIOUS
<1> HIDE DEF s
<1>6. \A k \in Keys : Within(new, k)
  BY <1>1, <1>2, <1>3, <1>4, SettledFurther
<1>7. InWindow(new)
  BY <1>1, <1>3, <1>4 DEF InWindow
<1> HIDE DEF new
<1> QED BY <1>5, <1>6, <1>7, KeyNext

(* settle_inference_usage, on the streaming, sealed and router planes. *)
LEMMA SettleKeys ==
    ASSUME LedgerInv, KeyInv, NEW r \in Requests,
           NEW c \in 1 .. (event[r].reserved + Overrun),
           Settle(r, c) \/ RouterSettle(r, c)
    PROVE  KeyInv'
<1>1. /\ event \in [Requests -> GoodRows]
      /\ period \in [Periods -> PeriodRows]
      /\ ExpiredPeriod \in [Periods -> PeriodRows]
      /\ balance \in Nat /\ ExpiredBalance \in Nat
  BY InvFacts, Expiry
<1>2. event[r].period \in Periods
  BY <1>1 DEF GoodRows, EventRows
<1>3. c \in 0 .. (event[r].reserved + Overrun)
  OBVIOUS
<1>4. CASE Settle(r, c)
  <2> DEFINE row == period[event[r].period]
  <2>1. /\ event[r].status = "reserved"
        /\ Settlement(r, c, row, balance).ok
        /\ event' = [event EXCEPT ![r] = Settlement(r, c, row, balance).event]
        /\ window' = window
    BY <1>4 DEF Settle
  <2>2. row \in PeriodRows
    BY <1>1, <1>2
  <2> HIDE DEF row
  <2> QED BY <1>1, <1>3, <2>1, <2>2, SettleRowKeys
<1>5. CASE RouterSettle(r, c)
  <2> DEFINE row == ExpiredPeriod[event[r].period]
  <2>1. /\ event[r].status = "reserved"
        /\ r \notin due
        /\ Settlement(r, c, row, ExpiredBalance).ok
        /\ event' = [ExpiredEvent EXCEPT ![r] =
                        Settlement(r, c, row, ExpiredBalance).event]
        /\ window' = window
    BY <1>5 DEF RouterSettle
  <2>2. row \in PeriodRows
    BY <1>1, <1>2
  <2>3. ExpiredEvent[r] = event[r]
    BY <2>1 DEF ExpiredEvent, Stale
  <2> HIDE DEF row
  <2> QED BY <1>1, <1>3, <2>1, <2>2, <2>3, SettleRowKeys
<1> QED BY <1>4, <1>5

(* release_inference_reservation and RouterInferenceService: a released    *)
(* row counts for nothing.                                                 *)
LEMMA ReleaseKeys ==
    ASSUME LedgerInv, KeyInv,
           NEW STATE ev, ev = ExpiredEvent \/ ev = event,
           NEW r \in Requests, ev[r].status = "reserved",
           event' = [ev EXCEPT ![r].status = "released"],
           window' = window
    PROVE  KeyInv'
<1> DEFINE row == [ev[r] EXCEPT !.status = "released"]
           new == [ev EXCEPT ![r] = row]
<1>1. ev \in [Requests -> GoodRows]
  BY InvFacts, Expiry
<1>2. /\ row \in GoodRows
      /\ row.status = "released"
      /\ row.window = ev[r].window
  BY <1>1 DEF GoodRows, EventRows, Statuses, Covered
<1>3. /\ \A k \in Keys : Within(ev, k)
      /\ InWindow(ev)
  BY ExpiryKeepsLimits, KeyFacts
<1>4. event' = new
  BY <1>1
<1> HIDE DEF row
<1>5. ASSUME NEW k \in Keys
      PROVE  Within(new, k)
  <2>1. KeyCredits(row, k) = 0 /\ KeyWallet(row, k) = 0
    BY <1>2 DEF KeyCredits, KeyWallet, Credits, WalletPortion
  <2>2. KeyCredits(ev[r], k) \in Nat /\ KeyWallet(ev[r], k) \in Nat
    BY <1>1, KeyTypes
  <2>3. /\ KeyCredits(row, k) =< KeyCredits(ev[r], k)
        /\ KeyWallet(row, k) =< KeyWallet(ev[r], k)
    BY <2>1, <2>2
  <2>4. SettledOf(new, k) = SettledOf(ev, k)
    BY <1>1, <1>2 DEF SettledOf
  <2> QED BY <1>1, <1>2, <1>3, <2>3, <2>4, NoFurther
<1>6. InWindow(new)
  BY <1>1, <1>2, <1>3 DEF InWindow
<1> HIDE DEF new
<1> QED BY <1>4, <1>5, <1>6, KeyNext

(* A day or month begins: a windowed key has used nothing in it yet. *)
LEMMA WindowKeys ==
    ASSUME LedgerInv, KeyInv, NextWindow
    PROVE  KeyInv'
<1>1. /\ event' = event /\ window' = window + 1 /\ window \in Nat
      /\ event \in [Requests -> GoodRows]
  BY InvFacts DEF NextWindow
<1>2. \A r \in Requests : event[r].window \in Nat /\ event[r].window =< window
  BY <1>1, KeyFacts DEF InWindow, GoodRows, EventRows
<1>3. InWindow(event)'
  BY <1>1, <1>2 DEF InWindow
<1>4. ASSUME NEW k \in Keys
      PROVE  /\ CreditsUsed(event, k)' =< CreditLimit[k] + Excess(event, k)
             /\ WalletUsed(event, k)' =< WalletLimit[k] + Excess(event, k)
  <2>1. Excess(event, k) \in Nat /\ CreditLimit[k] \in Nat /\ WalletLimit[k] \in Nat
    BY ExcessType, LimitsAssumption
  <2>2. CASE k \in Windowed
    <3>1. Counted(event, k)' = {}
      BY <1>1, <1>2, <2>2 DEF Counted
    <3>2. CreditsUsed(event, k)' = 0 /\ WalletUsed(event, k)' = 0
      BY <3>1, TotalZero DEF CreditsUsed, WalletUsed
    <3> QED BY <2>1, <3>2
  <2>3. CASE k \notin Windowed
    <3>1. Counted(event, k)' = Counted(event, k)
      BY <1>1, <2>3 DEF Counted
    <3>2. /\ CreditsUsed(event, k)' = CreditsUsed(event, k)
          /\ WalletUsed(event, k)' = WalletUsed(event, k)
      BY <1>1, <3>1 DEF CreditsUsed, WalletUsed, WalletShare
    <3> QED BY <3>2, KeyFacts DEF Within
  <2> QED BY <2>2, <2>3
<1>5. KeysWithinLimits'
  BY <1>1, <1>4 DEF KeysWithinLimits, Excess, SettledOf
<1> QED BY <1>3, <1>5 DEF KeyInv

(* Whatever only expires, or touches no row and no window. *)
LEMMA AroundKeys ==
    ASSUME LedgerInv, KeyInv,
           event' = ExpiredEvent \/ event' = event,
           window' = window
    PROVE  KeyInv'
BY ExpiryKeepsLimits, KeyFacts, KeyNext

(* One step per action of Next. *)
LEMMA KeyStep == LedgerInv /\ KeyInv /\ [Next]_vars => KeyInv'
<1> SUFFICES ASSUME LedgerInv, KeyInv, [Next]_vars
             PROVE  KeyInv'
  OBVIOUS
<1>1. CASE RecalculateCurrentPeriod
  BY <1>1, AroundKeys DEF RecalculateCurrentPeriod
<1>2. ASSUME NEW r \in Requests, NEW k \in Keys, NEW n \in Amounts, Reserve(r, k, n)
      PROVE  KeyInv'
  BY <1>2, ReserveKeys
<1>3. ASSUME NEW r \in Requests, NEW c \in 1 .. (event[r].reserved + Overrun),
             Settle(r, c) \/ RouterSettle(r, c)
      PROVE  KeyInv'
  BY <1>3, SettleKeys
<1>4. ASSUME NEW r \in Requests, Release(r)
      PROVE  KeyInv'
  BY <1>4, ReleaseKeys DEF Release
<1>5. ASSUME NEW r \in Requests, ReleaseOverdue(r)
      PROVE  KeyInv'
  BY <1>5, AroundKeys DEF ReleaseOverdue
<1>6. ASSUME NEW r \in Requests, RouterRelease(r)
      PROVE  KeyInv'
  <2>1. /\ event[r].status = "reserved"
        /\ r \notin due
        /\ event' = [ExpiredEvent EXCEPT ![r].status = "released"]
        /\ window' = window
    BY <1>6 DEF RouterRelease
  <2>2. ExpiredEvent[r].status = "reserved"
    BY <2>1 DEF ExpiredEvent, Stale
  <2> QED BY <2>1, <2>2, ReleaseKeys
<1>7. ASSUME \/ \E r \in Requests : Lapse(r)
             \/ \E n \in TopUps : TopUp(n)
             \/ \E a \in Allowances : ChangeAllowance(a)
             \/ \E p \in Periods, u \in BOOLEAN : ChangeSubscription(p, u)
             \/ UNCHANGED vars
      PROVE  KeyInv'
  <2>1. event' = event /\ window' = window
    BY <1>7 DEF Lapse, TopUp, ChangeAllowance, ChangeSubscription, vars
  <2> QED BY <2>1, AroundKeys
<1>8. CASE NextWindow
  BY <1>8, WindowKeys
<1> QED BY <1>1, <1>2, <1>3, <1>4, <1>5, <1>6, <1>7, <1>8 DEF Next

-----------------------------------------------------------------------------
(* 11. The theorem of the caps. *)

(* A key is past its credit cap or its USD cap by no more than its         *)
(* settlements overran their reservations, for any number of keys and      *)
(* requests, whatever is expired, released, re-split or settled, and       *)
(* whenever its day or month begins (enforce_spend_limits, key_spend).     *)
THEOREM CapsHold == Spec => []KeysWithinLimits
<1>1. KeyInv => KeysWithinLimits
  BY DEF KeyInv
<1> QED BY <1>1, KeyInit, KeyStep, Inductive, PTL DEF Spec

=============================================================================
