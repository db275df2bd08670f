--------------------------- MODULE LedgerTxProofs ---------------------------
(***************************************************************************)
(* The router plane's transactions keep the wallet and close a reservation *)
(* once, and a key stays under its cap beside the streaming planes, for    *)
(* any sessions, requests and periods.                                     *)
(*                                                                         *)
(* None of it is inductive: what a transaction commits it has read and     *)
(* computed several statements before.  The invariant of the router plane  *)
(* says what a session may rely on in between.  What it has changed it has *)
(* locked, so no other commit touches it; the row it settles is the        *)
(* committed one, read under its lock; it has checked the balance only     *)
(* under the lock of the wallet, and whoever has changed the balance has   *)
(* that lock, so the balance is still the one it checked; and its books    *)
(* balance: what it puts on the wallet is what its rows hold less.         *)
(*                                                                         *)
(* Beside the streams this fails, since a stream settles a copy (the run   *)
(* TxStream).  What stays is the cap: a reservation sums up what the key   *)
(* has reserved and commits under one lock of the period.                  *)
(***************************************************************************)
EXTENDS MCLedgerTx, FiniteSetTheorems, TLAPS

-----------------------------------------------------------------------------
(* 0. Sums over any finite set of rows, as in UsageLedgerProofs; the       *)
(* portions summed may be any integers where only the type matters.        *)

(* The tokens of finitely many rows are finitely many.                     *)
LEMMA UnitsFinite ==
    ASSUME NEW S, IsFiniteSet(S), NEW f \in [S -> Int], NEW T \in SUBSET S
    PROVE  IsFiniteSet(Units(f, T))
<1> DEFINE Row(x) == {x} \X (1 .. f[x])
           Blocks == {Row(x) : x \in T}
           g == [x \in T |-> Row(x)]
<1>1. IsFiniteSet(T)
  BY FS_Subset
<1>2. g \in Surjection(T, Blocks)
  BY DEF Surjection
<1>3. IsFiniteSet(Blocks)
  <2> HIDE DEF g, Blocks
  <2> QED BY <1>1, <1>2, FS_Surjection
<1>4. \A B \in Blocks : IsFiniteSet(B)
  <2> SUFFICES ASSUME NEW x \in T
               PROVE  IsFiniteSet(Row(x))
    OBVIOUS
  <2>1. IsFiniteSet({x})
    BY FS_Singleton
  <2>2. IsFiniteSet(1 .. f[x])
    BY FS_Interval
  <2> QED BY <2>1, <2>2, FS_Product
<1> QED
  <2>1. Units(f, T) = UNION Blocks
    BY DEF Units
  <2> HIDE DEF Blocks
  <2> QED BY <2>1, <1>3, <1>4, FS_UNION

(* A SUM over some of the rows is a token count (usage.py:514).            *)
LEMMA TotalNat ==
    ASSUME NEW S, IsFiniteSet(S), NEW f \in [S -> Int], NEW T \in SUBSET S
    PROVE  Total(f, T) \in Nat
BY UnitsFinite, FS_CardinalityType DEF Total

(* The sum depends on nothing but the counts of the rows summed.           *)
LEMMA TotalAgree ==
    ASSUME NEW T, NEW f, NEW g, \A x \in T : f[x] = g[x]
    PROVE  Total(f, T) = Total(g, T)
<1>1. Units(f, T) = Units(g, T)
  BY DEF Units
<1> QED BY <1>1 DEF Total

(* No rows sum to nothing.                                                 *)
LEMMA TotalEmpty == ASSUME NEW f PROVE Total(f, {}) = 0
<1>1. Units(f, {}) = {}
  BY DEF Units
<1> QED BY <1>1, FS_EmptySet DEF Total

(* One row sums to its own count.                                          *)
LEMMA TotalSingleton ==
    ASSUME NEW S, NEW f \in [S -> Nat], NEW x \in S
    PROVE  Total(f, {x}) = f[x]
<1>1. Units(f, {x}) = {x} \X (1 .. f[x])
  BY DEF Units
<1>2. IsFiniteSet({x}) /\ Cardinality({x}) = 1
  BY FS_Singleton
<1>3. IsFiniteSet(1 .. f[x]) /\ Cardinality(1 .. f[x]) = f[x]
  BY FS_Interval
<1>4. Cardinality({x} \X (1 .. f[x])) = 1 * f[x]
  BY <1>2, <1>3, FS_Product, ZenonT(60)
<1>5. f[x] \in Nat
  OBVIOUS
<1>6. 1 * f[x] = f[x]
  BY <1>5
<1> QED BY <1>1, <1>4, <1>6 DEF Total

(* The sum over two disjoint sets of rows is the sum of the sums.          *)
LEMMA TotalDisjointUnion ==
    ASSUME NEW S, IsFiniteSet(S), NEW f \in [S -> Nat],
           NEW T \in SUBSET S, NEW U \in SUBSET S, T \cap U = {}
    PROVE  Total(f, T \union U) = Total(f, T) + Total(f, U)
<1> DEFINE A == Units(f, T)
           B == Units(f, U)
<1>1. IsFiniteSet(A) /\ IsFiniteSet(B)
  <2>1. f \in [S -> Int]
    OBVIOUS
  <2> QED BY <2>1, UnitsFinite
<1>2. Units(f, T \union U) = A \union B
  BY DEF Units
<1>3. A \cap B = {}
  BY DEF Units
<1> HIDE DEF A, B
<1>4. Cardinality(A \union B) = Cardinality(A) + Cardinality(B)
  <2>1. Cardinality(A \union B) =
          Cardinality(A) + Cardinality(B) - Cardinality(A \cap B)
    BY <1>1, FS_Union
  <2>2. Cardinality(A \cap B) = 0
    BY <1>3, FS_EmptySet
  <2>3. Cardinality(A) \in Nat /\ Cardinality(B) \in Nat
    BY <1>1, FS_CardinalityType
  <2> QED BY <2>1, <2>2, <2>3
<1>5. Total(f, T \union U) = Cardinality(A \union B)
  BY <1>2, Zenon DEF Total
<1>6. Total(f, T) = Cardinality(A) /\ Total(f, U) = Cardinality(B)
  BY DEF Total, A, B
<1> QED BY <1>4, <1>5, <1>6, Zenon

(* One more row adds its count.                                            *)
LEMMA TotalAdd ==
    ASSUME NEW S, IsFiniteSet(S), NEW f \in [S -> Nat],
           NEW T \in SUBSET S, NEW x \in S, x \notin T
    PROVE  Total(f, T \union {x}) = Total(f, T) + f[x]
<1>1. Total(f, T \union {x}) = Total(f, T) + Total(f, {x})
  BY TotalDisjointUnion
<1> QED BY <1>1, TotalSingleton

(* Rows set aside: the sum over all is theirs and the others'.             *)
LEMMA TotalSplit ==
    ASSUME NEW S, IsFiniteSet(S), NEW f \in [S -> Nat], NEW T \in SUBSET S
    PROVE  Total(f, S) = Total(f, T) + Total(f, S \ T)
<1>1. S = T \union (S \ T)
  OBVIOUS
<1>2. Total(f, T \union (S \ T)) = Total(f, T) + Total(f, S \ T)
  BY TotalDisjointUnion
<1> QED BY <1>1, <1>2

-----------------------------------------------------------------------------
(* 1. Types. *)

(* A call concerns one request and charges a number of tokens.             *)
LEMMA PlanTypes ==
    ASSUME NEW s \in Sessions
    PROVE  /\ Kind(s) \in Kinds
           /\ Target(s) \in Requests
           /\ Plan[s].tokens \in Nat
BY PlanAssumption DEF Kind, Target

(* A row that has nothing in it yet is a row.                              *)
LEMMA NoRowType == ASSUME NEW p \in Periods PROVE NoRow(p) \in EventRows
BY DEF NoRow, EventRows, Statuses

(* A session without a transaction has read nothing.                       *)
LEMMA BlankType == Blank \in WorkSpaces
<1>1. (CHOOSE p \in Periods : TRUE) \in Periods
  BY PlanAssumption
<1> QED BY <1>1, NoRowType DEF Blank, WorkSpaces

(* What a session holds are values of their types.                         *)
LEMMA WorkTypes ==
    ASSUME TypeOK, NEW s \in Sessions
    PROVE  /\ work[s].todo \subseteq Requests
           /\ work[s].locked \subseteq Requests
           /\ work[s].expired \subseteq Requests
           /\ work[s].view \in [Periods -> Nat]
           /\ work[s].dirty \subseteq Periods
           /\ work[s].refund \in Nat
           /\ work[s].credit \in Int
           /\ work[s].row \in EventRows
           /\ work[s].written \in BOOLEAN
BY DEF TypeOK, WorkSpaces

(* The rows a session sees are rows.                                       *)
LEMMA SeenType ==
    ASSUME TypeOK, NEW s \in Sessions
    PROVE  Seen(s) \in [Requests -> EventRows]
<1>1. \A r \in Requests : Seen(s)[r] \in EventRows
  <2> SUFFICES ASSUME NEW r \in Requests
               PROVE  Seen(s)[r] \in EventRows
    OBVIOUS
  <2>1. event[r] \in EventRows /\ work[s].row \in EventRows
    BY WorkTypes DEF TypeOK
  <2>2. [event[r] EXCEPT !.status = "expired"] \in EventRows
    BY <2>1 DEF EventRows, Statuses
  <2> QED BY <2>1, <2>2 DEF Seen
<1> QED BY <1>1 DEF Seen

(* What a session is going to write is a row of the same period.           *)
LEMMA OutcomeType ==
    ASSUME TypeOK, NEW s \in Sessions
    PROVE  /\ Outcome(s) \in EventRows
           /\ Outcome(s).period = work[s].row.period
<1> DEFINE row == work[s].row
           free == Max0(Total0 - work[s].view[row.period]) + PeriodPortion(row)
           n == Plan[s].tokens
<1>1. row \in EventRows /\ n \in Nat /\ work[s].view \in [Periods -> Nat]
  BY WorkTypes, PlanTypes
<1>2. free \in Int
  BY <1>1, PlanAssumption DEF Max0, PeriodPortion, EventRows
<1>3. n - Lesser(n, free) \in Nat
  <2> HIDE DEF free, n
  <2> QED BY <1>1, <1>2 DEF Lesser
<1> DEFINE w == n - Lesser(n, free)
<1>4. /\ [row EXCEPT !.status = "reserved", !.tokens = n, !.wallet = w] \in EventRows
      /\ [row EXCEPT !.status = "reserved", !.tokens = n, !.wallet = w].period = row.period
      /\ [row EXCEPT !.status = "settled", !.tokens = n, !.wallet = w] \in EventRows
      /\ [row EXCEPT !.status = "settled", !.tokens = n, !.wallet = w].period = row.period
      /\ [row EXCEPT !.status = "released"] \in EventRows
      /\ [row EXCEPT !.status = "released"].period = row.period
  <2> HIDE DEF row, w, n
  <2> QED BY <1>1, <1>3 DEF EventRows, Statuses, w
<1>5. Outcome(s) \in {[row EXCEPT !.status = "reserved", !.tokens = n, !.wallet = w],
                      [row EXCEPT !.status = "settled", !.tokens = n, !.wallet = w],
                      [row EXCEPT !.status = "released"]}
  <2>1. CASE Kind(s) = "reserve"
    BY <2>1 DEF Outcome, Settles
  <2>2. CASE Settles(s)
    BY <2>2 DEF Outcome, Settles
  <2>3. CASE Kind(s) # "reserve" /\ ~ Settles(s)
    BY <2>3 DEF Outcome
  <2> QED BY <2>1, <2>2, <2>3
<1> HIDE DEF row, w, n
<1> QED BY <1>4, <1>5 DEF row

-----------------------------------------------------------------------------
(* 2. The inductive invariant of the router plane, and who may disturb it. *)

(* No session is a stream: every call goes through the router plane.       *)
RouterOnly == \A s \in Sessions : ~ Streaming(s)

(* What the rows hold of the wallet. *)
Holds(ev) == [r \in Requests |-> WalletPortion(ev[r])]

(* The rows a session has changed and not committed. *)
Changed(s) == work[s].expired \union (IF work[s].written THEN {Target(s)} ELSE {})

(* Which statements a call of each kind comes to. *)
Placed(s) ==
    /\ pc[s] # "load"
    /\ pc[s] \in {"event", "period"} => Router(s)
    /\ pc[s] \in {"wallet", "flush"} => Router(s) \/ Kind(s) = "reserve"
    /\ pc[s] = "limits" => Kind(s) = "reserve"
    /\ work[s].written => /\ pc[s] \in {"sum", "update", "commit"}
                          /\ Kind(s) = "reserve" => pc[s] = "commit"
    /\ pc[s] # "refund" => work[s].refund = 0

(* What it has changed it has locked, and no closed row is among that.     *)
RowsLocked(s) ==
    /\ work[s].expired \subseteq work[s].locked
    /\ \A r \in work[s].locked : owner[r] = s /\ event[r].status = "reserved"
    /\ work[s].written => /\ owner[Target(s)] = s
                          /\ Target(s) \notin work[s].expired
                          /\ event[Target(s)].status \in {"none", "reserved"}

(* The row a settlement or release acts on is the committed one, read      *)
(* under its lock; a reservation acts on a row that is not there yet.      *)
RowRead(s) ==
    /\ Router(s) /\ pc[s] \in {"period", "wallet", "flush"} =>
          /\ owner[Target(s)] = s
          /\ Target(s) \notin work[s].expired
          /\ work[s].row = event[Target(s)]
          /\ work[s].row.status = "reserved"
    /\ Kind(s) = "reserve" /\ pc[s] \in {"update", "wallet", "limits", "flush"} =>
          work[s].row.status = "none"

(* Its transaction may check the balance only under the lock of the wallet. *)
Affords(s) ==
    pc[s] \in {"limits", "flush"} /\ TouchesWallet(s) =>
        /\ owner[Wallet] = s
        /\ WalletPortion(Outcome(s))
             =< balance + work[s].credit + WalletPortion(work[s].row)

(* Whoever has changed the balance has the wallet, and leaves it in funds. *)
Pays(s) ==
    /\ work[s].credit # 0 => owner[Wallet] = s
    /\ balance + work[s].credit >= 0

(* What a session adds to the wallet is what its rows hold less than before. *)
Balanced(s) ==
    work[s].credit + work[s].refund + Total(Holds(Seen(s)), Changed(s))
      = Total(Holds(event), Changed(s))

SessionInv(s) ==
    /\ Placed(s)
    /\ RowsLocked(s)
    /\ RowRead(s)
    /\ Affords(s)
    /\ Pays(s)
    /\ Balanced(s)

RouterInv ==
    /\ TypeOK
    /\ WalletConservation
    /\ \A s \in Sessions : SessionInv(s)

(* A step of s leaves the work and the row locks of the others alone.      *)
KeepsOthers(s) ==
    /\ \A t \in Sessions \ {s} : work'[t] = work[t] /\ pc'[t] = pc[t]
    /\ \A row \in Rows : owner[row] \notin {s, Nobody} => owner'[row] = owner[row]

(* The amounts are natural numbers. *)
LEMMA HoldsType ==
    ASSUME NEW ev \in [Requests -> EventRows]
    PROVE  Holds(ev) \in [Requests -> Nat]
BY DEF Holds, WalletPortion, EventRows

(* Only its own requests are among the rows a session has changed.         *)
LEMMA ChangedType ==
    ASSUME TypeOK, NEW s \in Sessions
    PROVE  Changed(s) \subseteq Requests
BY WorkTypes, PlanTypes DEF Changed

(* A session whose work, statement and locks stay, whose rows nobody else  *)
(* writes and whose wallet nobody spends keeps its invariant.              *)
LEMMA Undisturbed ==
    ASSUME TypeOK, TypeOK', NEW s \in Sessions, SessionInv(s),
           work'[s] = work[s], pc'[s] = pc[s],
           \A row \in Rows : owner[row] = s => owner'[row] = s,
           \A r \in Requests : owner[r] = s => event'[r] = event[r],
           owner[Wallet] = s => balance' = balance,
           balance' + work[s].credit >= 0
    PROVE  SessionInv(s)'
<1> USE DEF SessionInv
<1>1. /\ Target(s) \in Requests
      /\ Requests \subseteq Rows
      /\ Wallet \in Rows
      /\ work[s].locked \subseteq Requests
  BY PlanTypes, WorkTypes DEF Rows
<1>2. Placed(s)'
  BY DEF Placed, Router, Kind
<1>3. RowsLocked(s)'
  BY <1>1 DEF RowsLocked, Target
<1>4. RowRead(s)'
  BY <1>1 DEF RowRead, Target, Router, Kind
<1>5. Affords(s)'
  <2>1. Outcome(s)' = Outcome(s)
    BY DEF Outcome, Settles, Kind
  <2>2. TouchesWallet(s)' = TouchesWallet(s)
    BY <2>1 DEF TouchesWallet
  <2> QED BY <1>1, <2>1, <2>2 DEF Affords
<1>6. Pays(s)'
  BY <1>1 DEF Pays
<1>7. Balanced(s)'
  <2>1. Changed(s)' = Changed(s)
    BY DEF Changed, Target
  <2>2. Changed(s) \subseteq Requests
    BY ChangedType
  <2>3. \A r \in Changed(s) : owner[r] = s
    BY DEF Changed, RowsLocked
  <2>4. \A r \in Changed(s) : event'[r] = event[r]
    BY <2>2, <2>3
  <2>5. Total(Holds(event)', Changed(s)) = Total(Holds(event), Changed(s))
    BY <2>2, <2>4, TotalAgree DEF Holds
  <2>6. \A r \in Changed(s) : Seen(s)'[r] = Seen(s)[r]
    BY <2>2, <2>4 DEF Seen, Target
  <2>7. Total(Holds(Seen(s))', Changed(s)) = Total(Holds(Seen(s)), Changed(s))
    BY <2>2, <2>6, TotalAgree DEF Holds
  <2> QED BY <2>1, <2>5, <2>7 DEF Balanced
<1> QED BY <1>2, <1>3, <1>4, <1>5, <1>6, <1>7

(* So the others are not disturbed by a statement that commits nothing.    *)
LEMMA OthersKeep ==
    ASSUME TypeOK, TypeOK', NEW s \in Sessions, KeepsOthers(s),
           event' = event, balance' = balance,
           NEW t \in Sessions, t # s, SessionInv(t)
    PROVE  SessionInv(t)'
<1>1. \A row \in Rows : owner[row] = t => owner'[row] = t
  BY PlanAssumption DEF KeepsOthers
<1>2. work'[t] = work[t] /\ pc'[t] = pc[t]
  BY DEF KeepsOthers
<1>3. balance' + work[t].credit >= 0
  BY DEF SessionInv, Pays
<1> QED BY <1>1, <1>2, <1>3, Undisturbed

(* A session whose transaction has ended has nothing to keep.              *)
LEMMA Ended ==
    ASSUME NEW s \in Sessions, work'[s] = Blank, pc'[s] = "done", balance' \in Nat
    PROVE  SessionInv(s)'
<1>1. /\ Blank.expired = {} /\ Blank.locked = {} /\ Blank.written = FALSE
      /\ Blank.refund = 0 /\ Blank.credit = 0
  BY DEF Blank
<1>2. Placed(s)' /\ RowsLocked(s)'
  BY <1>1 DEF Placed, RowsLocked
<1>3. RowRead(s)' /\ Affords(s)'
  BY DEF RowRead, Affords
<1>4. Pays(s)'
  <2>1. work'[s].credit = 0
    BY <1>1
  <2>2. \A n \in Nat : n + 0 >= 0
    OBVIOUS
  <2>3. balance' + work'[s].credit >= 0
    BY <2>1, <2>2
  <2> QED BY <2>1, <2>3 DEF Pays
<1>5. Changed(s)' = {}
  BY <1>1 DEF Changed
<1>6. Balanced(s)'
  BY <1>1, <1>5, TotalEmpty DEF Balanced
<1> QED BY <1>2, <1>3, <1>4, <1>6 DEF SessionInv

(* A statement that changes no row and no wallet leaves the books balanced. *)
LEMMA Quiet ==
    ASSUME TypeOK, NEW s \in Sessions, SessionInv(s),
           event' = event, balance' = balance,
           work'[s].expired = work[s].expired,
           work'[s].written = work[s].written,
           work'[s].credit = work[s].credit,
           work'[s].refund = work[s].refund,
           work[s].written => work'[s].row = work[s].row,
           \A row \in Rows : owner[row] = s => owner'[row] = s,
           work[s].locked \subseteq work'[s].locked,
           \A r \in work'[s].locked \ work[s].locked :
               owner'[r] = s /\ event[r].status = "reserved"
    PROVE  RowsLocked(s)' /\ Pays(s)' /\ Balanced(s)'
<1> USE DEF SessionInv
<1>1. /\ Target(s) \in Requests
      /\ Requests \subseteq Rows
      /\ Wallet \in Rows
      /\ work[s].locked \subseteq Requests
  BY PlanTypes, WorkTypes DEF Rows
<1>2. RowsLocked(s)'
  BY <1>1 DEF RowsLocked, Target
<1>3. Pays(s)'
  BY <1>1 DEF Pays
<1>4. Balanced(s)'
  <2>1. Changed(s)' = Changed(s)
    BY DEF Changed, Target
  <2>2. Seen(s)' = Seen(s)
    BY DEF Seen, Target
  <2> QED BY <2>1, <2>2 DEF Balanced, Holds
<1> QED BY <1>2, <1>3, <1>4

-----------------------------------------------------------------------------
(* 3. Every statement of the router plane keeps the invariant. *)

(* A statement of s that commits nothing: what s holds is all there is to  *)
(* look at.                                                                *)
LEMMA OwnStep ==
    ASSUME RouterInv, TypeOK', NEW s \in Sessions, KeepsOthers(s),
           event' = event, balance' = balance, SessionInv(s)'
    PROVE  RouterInv'
<1>1. \A t \in Sessions \ {s} : SessionInv(t)'
  BY OthersKeep DEF RouterInv
<1>2. WalletConservation'
  BY DEF WalletConservation, WalletHeld, RouterInv
<1> QED BY <1>1, <1>2 DEF RouterInv

(* A statement that changes no row and no wallet.                          *)
LEMMA QuietStep ==
    ASSUME RouterInv, TypeOK', NEW s \in Sessions, KeepsOthers(s),
           event' = event, balance' = balance,
           work'[s].expired = work[s].expired,
           work'[s].written = work[s].written,
           work'[s].credit = work[s].credit,
           work'[s].refund = work[s].refund,
           work[s].written => work'[s].row = work[s].row,
           \A row \in Rows : owner[row] = s => owner'[row] = s,
           work[s].locked \subseteq work'[s].locked,
           \A r \in work'[s].locked \ work[s].locked :
               owner'[r] = s /\ event[r].status = "reserved",
           Placed(s)', RowRead(s)', Affords(s)'
    PROVE  RouterInv'
<1>1. RowsLocked(s)' /\ Pays(s)' /\ Balanced(s)'
  BY Quiet DEF RouterInv
<1>2. SessionInv(s)'
  BY <1>1 DEF SessionInv
<1> QED BY <1>2, OwnStep

(* A transaction that ends without effect.                                 *)
LEMMA RollBackStep ==
    ASSUME RouterInv, NEW s \in Sessions, RollBack(s), Uncommitted
    PROVE  RouterInv'
<1> USE DEF RouterInv
<1>1. event' = event /\ used' = used /\ balance' = balance /\ due' = due
  BY DEF Uncommitted
<1>2. work'[s] = Blank /\ pc'[s] = "done" /\ KeepsOthers(s)
  BY DEF RollBack, Goto, KeepsOthers, TypeOK
<1>3. TypeOK'
  <2>1. work' \in [Sessions -> WorkSpaces] /\ pc' \in [Sessions -> Statements]
    BY BlankType DEF RollBack, Goto, TypeOK, Statements
  <2>2. owner' \in [Rows -> Sessions \union {Nobody}]
    BY DEF RollBack, TypeOK
  <2> QED BY <1>1, <2>1, <2>2 DEF TypeOK
<1>4. SessionInv(s)'
  BY <1>1, <1>2, Ended DEF TypeOK
<1> QED BY <1>1, <1>2, <1>3, <1>4, OwnStep

(* Begin: the SELECT of the stale reservations.                            *)
LEMMA BeginStep ==
    ASSUME RouterOnly, RouterInv, NEW s \in Sessions, Begin(s)
    PROVE  RouterInv'
<1> USE DEF RouterInv
<1>1. event' = event /\ used' = used /\ balance' = balance /\ due' = due /\ owner' = owner
  BY DEF Begin, Uncommitted
<1>2. /\ pc[s] = "begin"
      /\ pc' = [pc EXCEPT ![s] = "expire"]
      /\ work' = [work EXCEPT ![s].todo = Stale]
  BY DEF Begin, RouterOnly, Goto
<1>3. TypeOK'
  <2>1. Stale \subseteq Requests
    BY DEF Stale, TypeOK
  <2>2. work' \in [Sessions -> WorkSpaces]
    <3>1. work \in [Sessions -> WorkSpaces] /\ work[s] \in WorkSpaces
      BY DEF TypeOK
    <3>2. [work[s] EXCEPT !.todo = Stale] \in WorkSpaces
      BY <2>1, <3>1 DEF WorkSpaces
    <3> QED BY <1>2, <3>1, <3>2
  <2> QED BY <1>1, <1>2, <2>2 DEF TypeOK, Statements
<1>4. KeepsOthers(s)
  BY <1>1, <1>2 DEF KeepsOthers, TypeOK
<1>5. /\ work'[s].expired = work[s].expired
      /\ work'[s].locked = work[s].locked
      /\ work'[s].written = work[s].written
      /\ work'[s].credit = work[s].credit
      /\ work'[s].refund = work[s].refund
      /\ work'[s].row = work[s].row
      /\ pc'[s] = "expire"
  BY <1>2 DEF TypeOK, WorkSpaces
<1>6. Placed(s)'
  BY <1>2, <1>5 DEF SessionInv, Placed
<1>7. RowRead(s)' /\ Affords(s)'
  BY <1>5 DEF RowRead, Affords
<1> QED BY <1>1, <1>3, <1>4, <1>5, <1>6, <1>7, QuietStep

(* A stale row is locked, or passed over as no longer reserved.            *)
LEMMA LockStaleStep ==
    ASSUME RouterInv, NEW s \in Sessions, NEW r \in Requests, LockStale(s, r)
    PROVE  RouterInv'
<1> USE DEF RouterInv
<1>1. /\ event' = event /\ used' = used /\ balance' = balance /\ due' = due
      /\ pc' = pc /\ pc[s] = "expire"
  BY DEF LockStale, Uncommitted
<1>2. r \in Rows
  BY DEF Rows
<1>3. CASE event[r].status = "reserved"
  <2>1. /\ owner[r] \in {s, Nobody}
        /\ owner' = [owner EXCEPT ![r] = s]
        /\ work' = [work EXCEPT ![s].todo = @ \ {r}, ![s].locked = @ \union {r}]
    BY <1>3 DEF LockStale, CanLock
  <2>2. TypeOK'
    <3>1. work' \in [Sessions -> WorkSpaces]
      <4>1. work \in [Sessions -> WorkSpaces] /\ work[s] \in WorkSpaces
        BY DEF TypeOK
      <4>2. [work[s] EXCEPT !.todo = @ \ {r}, !.locked = @ \union {r}] \in WorkSpaces
        BY <4>1 DEF WorkSpaces
      <4> QED BY <2>1, <4>1, <4>2
    <3>2. owner' \in [Rows -> Sessions \union {Nobody}]
      BY <2>1 DEF TypeOK
    <3> QED BY <1>1, <3>1, <3>2 DEF TypeOK
  <2>3. KeepsOthers(s) /\ \A row \in Rows : owner[row] = s => owner'[row] = s
    BY <1>1, <1>2, <2>1 DEF KeepsOthers, TypeOK
  <2>4. /\ work'[s].expired = work[s].expired
        /\ work'[s].locked = work[s].locked \union {r}
        /\ work'[s].written = work[s].written
        /\ work'[s].credit = work[s].credit
        /\ work'[s].refund = work[s].refund
        /\ work'[s].row = work[s].row
        /\ owner'[r] = s
    BY <1>2, <2>1 DEF TypeOK, WorkSpaces
  <2>5. Placed(s)'
    BY <1>1, <2>4 DEF SessionInv, Placed, Router, Kind
  <2>6. RowRead(s)' /\ Affords(s)'
    BY <1>1 DEF RowRead, Affords
  <2>7. /\ work[s].locked \subseteq work'[s].locked
        /\ \A x \in work'[s].locked \ work[s].locked :
               owner'[x] = s /\ event[x].status = "reserved"
    BY <1>3, <2>4
  <2> QED BY <1>1, <2>2, <2>3, <2>4, <2>5, <2>6, <2>7, QuietStep
<1>4. CASE event[r].status # "reserved"
  <2>1. /\ owner' = owner
        /\ work' = [work EXCEPT ![s].todo = @ \ {r}]
    BY <1>4 DEF LockStale
  <2>2. TypeOK'
    <3>1. work' \in [Sessions -> WorkSpaces]
      <4>1. work \in [Sessions -> WorkSpaces] /\ work[s] \in WorkSpaces
        BY DEF TypeOK
      <4>2. [work[s] EXCEPT !.todo = @ \ {r}] \in WorkSpaces
        BY <4>1 DEF WorkSpaces
      <4> QED BY <2>1, <4>1, <4>2
    <3> QED BY <1>1, <2>1, <3>1 DEF TypeOK
  <2>3. KeepsOthers(s)
    BY <1>1, <2>1 DEF KeepsOthers, TypeOK
  <2>4. /\ work'[s].expired = work[s].expired
        /\ work'[s].locked = work[s].locked
        /\ work'[s].written = work[s].written
        /\ work'[s].credit = work[s].credit
        /\ work'[s].refund = work[s].refund
        /\ work'[s].row = work[s].row
    BY <2>1 DEF TypeOK, WorkSpaces
  <2>5. Placed(s)'
    BY <1>1, <2>4 DEF SessionInv, Placed, Router, Kind
  <2>6. RowRead(s)' /\ Affords(s)'
    BY <1>1 DEF RowRead, Affords
  <2> QED BY <1>1, <2>1, <2>2, <2>3, <2>4, <2>5, <2>6, QuietStep
<1> QED BY <1>3, <1>4

(* The loop of the expiry: the row's period is locked, and the row counts  *)
(* as expired; what it held of the wallet is still to be refunded.         *)
LEMMA ExpireOneStep ==
    ASSUME RouterInv, NEW s \in Sessions, NEW r \in Requests, ExpireOne(s, r)
    PROVE  RouterInv'
<1> USE DEF RouterInv
<1> DEFINE p == event[r].period
           left == Max0(LockedUsed(s, p) - PeriodPortion(event[r]))
<1>1. /\ event' = event /\ used' = used /\ balance' = balance /\ due' = due
      /\ pc[s] = "expire"
      /\ r \in work[s].locked \ work[s].expired
      /\ owner[p] \in {s, Nobody}
      /\ owner' = [owner EXCEPT ![p] = s]
      /\ work' = [work EXCEPT ![s].view[p] = left,
                              ![s].dirty = @ \union {p},
                              ![s].expired = @ \union {r},
                              ![s].refund = event[r].wallet]
      /\ IF event[r].wallet > 0 THEN pc' = [pc EXCEPT ![s] = "refund"] ELSE pc' = pc
  BY DEF ExpireOne, Uncommitted, Lock, CanLock, Goto
<1>2. event[r] \in EventRows /\ p \in Periods /\ p \in Rows /\ event[r].wallet \in Nat
  BY DEF TypeOK, EventRows, Rows
<1>3. left \in Nat
  <2>1. LockedUsed(s, p) \in Nat
    BY <1>2, WorkTypes DEF LockedUsed, TypeOK
  <2>2. PeriodPortion(event[r]) \in Int
    BY <1>2 DEF PeriodPortion, EventRows
  <2> QED BY <2>1, <2>2 DEF Max0
<1> HIDE DEF p, left
<1>4. TypeOK'
  <2> DEFINE a == [work EXCEPT ![s].view[p] = left]
             b == [a EXCEPT ![s].dirty = work[s].dirty \union {p}]
             c == [b EXCEPT ![s].expired = work[s].expired \union {r}]
             d == [c EXCEPT ![s].refund = event[r].wallet]
  <2>1. work \in [Sessions -> WorkSpaces]
    BY DEF TypeOK
  <2>2. a \in [Sessions -> WorkSpaces]
    BY <1>2, <1>3, <2>1 DEF WorkSpaces
  <2>3. work' = d
    BY <1>1
  <2> HIDE DEF a
  <2>4. b \in [Sessions -> WorkSpaces]
    BY <1>2, <2>1, <2>2 DEF WorkSpaces
  <2> HIDE DEF b
  <2>5. c \in [Sessions -> WorkSpaces]
    BY <2>1, <2>4 DEF WorkSpaces
  <2> HIDE DEF c
  <2>6. d \in [Sessions -> WorkSpaces]
    BY <1>2, <2>5 DEF WorkSpaces
  <2>7. owner' \in [Rows -> Sessions \union {Nobody}] /\ pc' \in [Sessions -> Statements]
    BY <1>1, <1>2 DEF TypeOK, Statements
  <2> HIDE DEF d
  <2> QED BY <1>1, <2>3, <2>6, <2>7 DEF TypeOK
<1>5. /\ \A t \in Sessions \ {s} : work'[t] = work[t]
      /\ work'[s].locked = work[s].locked
      /\ work'[s].expired = work[s].expired \union {r}
      /\ work'[s].refund = event[r].wallet
      /\ work'[s].credit = work[s].credit
      /\ work'[s].written = work[s].written
  BY <1>1 DEF TypeOK, WorkSpaces
<1>6. /\ pc'[s] = IF event[r].wallet > 0 THEN "refund" ELSE "expire"
      /\ \A t \in Sessions \ {s} : pc'[t] = pc[t]
  BY <1>1 DEF TypeOK
<1>7. KeepsOthers(s) /\ \A row \in Rows : owner[row] = s => owner'[row] = s
  BY <1>1, <1>2, <1>5, <1>6 DEF KeepsOthers, TypeOK
<1>8. SessionInv(s) /\ ~ work[s].written /\ work[s].refund = 0
  BY <1>1, WorkTypes DEF SessionInv, Placed
<1>9. event[r].status = "reserved"
  BY <1>1, <1>8 DEF SessionInv, RowsLocked
<1>10. Placed(s)'
  BY <1>2, <1>5, <1>6, <1>8 DEF Placed
<1>11. RowsLocked(s)'
  BY <1>1, <1>5, <1>7, <1>8, WorkTypes DEF SessionInv, RowsLocked, Rows
<1>12. RowRead(s)' /\ Affords(s)'
  BY <1>6 DEF RowRead, Affords
<1>13. Pays(s)'
  BY <1>1, <1>5, <1>7, <1>8 DEF SessionInv, Pays, Rows
<1>14. Balanced(s)'
  <2> DEFINE C == Changed(s)
             f == Holds(event)
             g == Holds(Seen(s))
             h == Holds(Seen(s)')
  <2>1. /\ C = work[s].expired /\ Changed(s)' = C \union {r}
        /\ r \notin C /\ C \subseteq Requests
    BY <1>1, <1>5, <1>8, ChangedType DEF Changed
  <2>2. f \in [Requests -> Nat] /\ g \in [Requests -> Nat]
    BY SeenType, HoldsType DEF TypeOK
  <2>3. f[r] = event[r].wallet
    BY <1>9 DEF Holds, WalletPortion, Live
  <2>4. h[r] = 0
    BY <1>1, <1>2, <1>5, <1>8 DEF Holds, Seen, WalletPortion, Live, EventRows
  <2>5. \A x \in Requests \ {r} : h[x] = g[x]
    BY <1>1, <1>5, <1>8 DEF Holds, Seen
  <2> HIDE DEF C, f, g
  <2>6. h \in [Requests -> Nat]
    <3>1. h = [x \in Requests |-> h[x]]
      BY DEF Holds
    <3> HIDE DEF h
    <3> QED BY <3>1, <2>2, <2>4, <2>5
  <2> HIDE DEF h
  <2>7. Total(h, C \union {r}) = Total(h, C) + h[r]
    BY <2>1, <2>6, PlanAssumption, TotalAdd
  <2>8. Total(f, C \union {r}) = Total(f, C) + f[r]
    BY <2>1, <2>2, PlanAssumption, TotalAdd
  <2>9. Total(h, C) = Total(g, C)
    BY <2>1, <2>5, TotalAgree
  <2>10. work[s].credit + 0 + Total(g, C) = Total(f, C)
    BY <1>8 DEF SessionInv, Balanced, C, f, g
  <2>11. /\ Total(f, C) \in Nat /\ Total(h, C) \in Nat /\ work[s].credit \in Int
         /\ event[r].wallet \in Nat
    <3>1. f \in [Requests -> Int] /\ h \in [Requests -> Int]
      BY <2>2, <2>6
    <3> QED BY <1>2, <2>1, <3>1, PlanAssumption, TotalNat, WorkTypes
  <2>12. work[s].credit + event[r].wallet + Total(h, C \union {r}) = Total(f, C \union {r})
    BY <2>3, <2>4, <2>7, <2>8, <2>9, <2>10, <2>11
  <2>13. Holds(event)' = f
    BY <1>1 DEF f, Holds
  <2>14. Holds(Seen(s))' = h
    BY DEF h, Holds
  <2> QED BY <1>5, <2>1, <2>12, <2>13, <2>14 DEF Balanced
<1>15. SessionInv(s)'
  BY <1>10, <1>11, <1>12, <1>13, <1>14 DEF SessionInv
<1> QED BY <1>1, <1>4, <1>7, <1>15, OwnStep

(* _refund_wallet: the wallet is locked and what the row held goes back.   *)
LEMMA RefundStep ==
    ASSUME RouterInv, NEW s \in Sessions, Refund(s)
    PROVE  RouterInv'
<1> USE DEF RouterInv
<1>1. /\ event' = event /\ used' = used /\ balance' = balance /\ due' = due
      /\ pc[s] = "refund"
      /\ owner[Wallet] \in {s, Nobody}
      /\ owner' = [owner EXCEPT ![Wallet] = s]
      /\ work' = [work EXCEPT ![s].credit = @ + work[s].refund, ![s].refund = 0]
      /\ pc' = [pc EXCEPT ![s] = "expire"]
  BY DEF Refund, Uncommitted, Lock, CanLock, Goto
<1>2. Wallet \in Rows
  BY DEF Rows
<1>3. work[s].credit \in Int /\ work[s].refund \in Nat
  BY WorkTypes
<1>4. TypeOK'
  <2>1. work' \in [Sessions -> WorkSpaces]
    <3>1. /\ work \in [Sessions -> WorkSpaces] /\ work[s] \in WorkSpaces
          /\ work[s].credit + work[s].refund \in Int
      BY <1>3 DEF TypeOK
    <3>2. [work[s] EXCEPT !.credit = @ + work[s].refund, !.refund = 0] \in WorkSpaces
      BY <3>1 DEF WorkSpaces
    <3> QED BY <1>1, <3>1, <3>2
  <2>2. owner' \in [Rows -> Sessions \union {Nobody}] /\ pc' \in [Sessions -> Statements]
    BY <1>1 DEF TypeOK, Statements
  <2> QED BY <1>1, <2>1, <2>2 DEF TypeOK
<1>5. /\ \A t \in Sessions \ {s} : work'[t] = work[t]
      /\ work'[s].locked = work[s].locked
      /\ work'[s].expired = work[s].expired
      /\ work'[s].refund = 0
      /\ work'[s].credit = work[s].credit + work[s].refund
      /\ work'[s].written = work[s].written
  BY <1>1 DEF TypeOK, WorkSpaces
<1>6. pc'[s] = "expire" /\ \A t \in Sessions \ {s} : pc'[t] = pc[t]
  BY <1>1 DEF TypeOK
<1>7. /\ KeepsOthers(s)
      /\ \A row \in Rows : owner[row] = s => owner'[row] = s
      /\ owner'[Wallet] = s
  BY <1>1, <1>2, <1>5, <1>6 DEF KeepsOthers, TypeOK
<1>8. SessionInv(s) /\ ~ work[s].written
  BY <1>1, WorkTypes DEF SessionInv, Placed
<1>9. Placed(s)'
  BY <1>5, <1>6, <1>8 DEF Placed
<1>10. RowsLocked(s)'
  BY <1>1, <1>5, <1>7, <1>8, WorkTypes DEF SessionInv, RowsLocked, Rows
<1>11. RowRead(s)' /\ Affords(s)'
  BY <1>6 DEF RowRead, Affords
<1>12. Pays(s)'
  <2>1. balance + (work[s].credit + work[s].refund) >= 0
    BY <1>3, <1>8 DEF SessionInv, Pays, TypeOK
  <2> QED BY <1>1, <1>5, <1>7, <2>1 DEF Pays
<1>13. Balanced(s)'
  <2>1. Changed(s)' = Changed(s)
    BY <1>5, <1>8 DEF Changed
  <2>2. Seen(s)' = Seen(s)
    BY <1>1, <1>5, <1>8 DEF Seen
  <2>3. (work[s].credit + work[s].refund) + 0 = work[s].credit + work[s].refund
    BY <1>3
  <2> QED BY <1>1, <1>5, <1>8, <2>1, <2>2, <2>3 DEF SessionInv, Balanced, Holds
<1>14. SessionInv(s)'
  BY <1>9, <1>10, <1>11, <1>12, <1>13 DEF SessionInv
<1> QED BY <1>1, <1>4, <1>7, <1>14, OwnStep

(* A session whose work and locks stay and whose statement is the next.    *)
LEMMA NextStatement ==
    ASSUME RouterInv, NEW s \in Sessions, NEW x \in Statements,
           event' = event, used' = used, balance' = balance, due' = due,
           work' = work, pc' = [pc EXCEPT ![s] = x],
           owner' \in [Rows -> Sessions \union {Nobody}],
           \A row \in Rows : owner[row] = s => owner'[row] = s,
           \A row \in Rows : owner[row] \notin {s, Nobody} => owner'[row] = owner[row],
           Placed(s)', RowRead(s)', Affords(s)'
    PROVE  RouterInv'
<1>1. TypeOK'
  BY DEF RouterInv, TypeOK
<1>2. KeepsOthers(s)
  BY DEF RouterInv, KeepsOthers, TypeOK
<1>3. \A r \in work'[s].locked \ work[s].locked :
          owner'[r] = s /\ event[r].status = "reserved"
  OBVIOUS
<1> QED BY <1>1, <1>2, <1>3, QuietStep

(* Nothing stale is left: on to what the call is for.                      *)
LEMMA ExpiredStep ==
    ASSUME RouterInv, NEW s \in Sessions, Expired(s)
    PROVE  RouterInv'
<1> DEFINE x == CASE Router(s) -> "event"
                  [] Kind(s) = "recalculate" -> "sum"
                  [] Kind(s) = "reserve" /\ Seen(s)[Target(s)].status = "none" -> "sum"
                  [] OTHER -> "commit"
<1>1. /\ event' = event /\ used' = used /\ balance' = balance /\ due' = due
      /\ owner' = owner /\ work' = work
      /\ pc[s] = "expire"
      /\ pc' = [pc EXCEPT ![s] = x]
  BY DEF Expired, Uncommitted, Goto
<1>2. x \in {"event", "sum", "commit"} /\ (x = "event" => Router(s))
  <2>1. CASE Router(s)
    BY <2>1 DEF Router
  <2>2. CASE Kind(s) = "recalculate"
    BY <2>2 DEF Router
  <2>3. CASE Kind(s) = "reserve" /\ Seen(s)[Target(s)].status = "none"
    BY <2>3 DEF Router
  <2>4. CASE ~ Router(s) /\ Kind(s) # "recalculate"
             /\ ~ (Kind(s) = "reserve" /\ Seen(s)[Target(s)].status = "none")
    BY <2>4
  <2> QED BY <2>1, <2>2, <2>3, <2>4
<1> HIDE DEF x
<1>3. pc'[s] = x /\ x \in Statements
  BY <1>1, <1>2 DEF RouterInv, TypeOK, Statements
<1>4. Placed(s)'
  BY <1>1, <1>2, <1>3 DEF RouterInv, SessionInv, Placed, Router, Kind
<1>5. RowRead(s)' /\ Affords(s)'
  BY <1>2, <1>3 DEF RowRead, Affords
<1>6. owner \in [Rows -> Sessions \union {Nobody}]
  BY DEF RouterInv, TypeOK
<1> QED BY <1>1, <1>3, <1>4, <1>5, <1>6, NextStatement

(* enforce_spend_limits.                                                   *)
LEMMA EnforceLimitsStep ==
    ASSUME RouterInv, NEW s \in Sessions, EnforceLimits(s)
    PROVE  RouterInv'
<1>1. CASE RollBack(s)
  BY <1>1, RollBackStep DEF EnforceLimits
<1>2. CASE Goto(s, "flush") /\ UNCHANGED <<owner, work>>
  <2>1. /\ event' = event /\ used' = used /\ balance' = balance /\ due' = due
        /\ owner' = owner /\ work' = work
        /\ pc[s] = "limits"
        /\ pc' = [pc EXCEPT ![s] = "flush"]
    BY <1>2 DEF EnforceLimits, Uncommitted, Goto
  <2>2. pc'[s] = "flush" /\ "flush" \in Statements
    BY <2>1 DEF RouterInv, TypeOK, Statements
  <2>3. SessionInv(s) /\ Kind(s) = "reserve" /\ ~ Router(s)
    BY <2>1 DEF RouterInv, SessionInv, Placed, Router
  <2>4. Placed(s)'
    BY <2>1, <2>2, <2>3 DEF SessionInv, Placed, Router, Kind
  <2>5. RowRead(s)'
    BY <2>1, <2>2, <2>3 DEF SessionInv, RowRead, Router, Kind
  <2>6. Affords(s)'
    <3>1. TouchesWallet(s)' = TouchesWallet(s) /\ Outcome(s)' = Outcome(s)
      BY <2>1 DEF TouchesWallet, Outcome, Settles, Kind
    <3> QED BY <2>1, <2>3, <3>1 DEF SessionInv, Affords
  <2>7. owner \in [Rows -> Sessions \union {Nobody}]
    BY DEF RouterInv, TypeOK
  <2> QED BY <2>1, <2>2, <2>4, <2>5, <2>6, <2>7, NextStatement
<1> QED BY <1>1, <1>2 DEF EnforceLimits

(* recalculate_current_period: two reads that lock nothing.                *)
LEMMA SumStep ==
    ASSUME RouterInv, NEW s \in Sessions, NEW p \in Periods, Sum(s, p)
    PROVE  RouterInv'
<1> DEFINE sum == PeriodUsed(Seen(s), p)
           dirty == IF sum = LockedUsed(s, p) THEN work[s].dirty
                    ELSE work[s].dirty \union {p}
           row == IF work[s].written THEN work[s].row ELSE NoRow(p)
<1>1. /\ event' = event /\ used' = used /\ balance' = balance /\ due' = due
      /\ owner' = owner
      /\ pc[s] = "sum"
      /\ pc' = [pc EXCEPT ![s] = "update"]
      /\ work' = [work EXCEPT ![s].view[p] = sum, ![s].dirty = dirty, ![s].row = row]
  BY DEF Sum, Uncommitted, Goto
<1>2. TypeOK
  BY DEF RouterInv
<1>3. sum \in Nat
  <2> DEFINE f == [r \in Requests |-> PeriodPortion(Seen(s)[r])]
             T == {r \in Requests : Counts(Seen(s), r) /\ Seen(s)[r].period = p}
  <2>1. Seen(s) \in [Requests -> EventRows]
    BY <1>2, SeenType
  <2>2. f \in [Requests -> Int]
    BY <2>1 DEF PeriodPortion, EventRows
  <2>3. T \in SUBSET Requests
    OBVIOUS
  <2> HIDE DEF f, T
  <2>4. Total(f, T) \in Nat
    BY <2>2, <2>3, PlanAssumption, TotalNat
  <2> QED BY <2>4 DEF PeriodUsed, f, T
<1>4. dirty \subseteq Periods /\ row \in EventRows
  BY <1>2, WorkTypes, NoRowType
<1>5. ~ work[s].written => row.status = "none"
  BY DEF NoRow
<1>6. work[s].written => row = work[s].row
  OBVIOUS
<1> HIDE DEF sum, dirty, row
<1>7. TypeOK'
  <2> DEFINE a == [work EXCEPT ![s].view[p] = sum]
             b == [a EXCEPT ![s].dirty = dirty]
             c == [b EXCEPT ![s].row = row]
  <2>1. work \in [Sessions -> WorkSpaces]
    BY <1>2 DEF TypeOK
  <2>2. a \in [Sessions -> WorkSpaces]
    BY <1>3, <2>1 DEF WorkSpaces
  <2>3. work' = c
    BY <1>1
  <2> HIDE DEF a
  <2>4. b \in [Sessions -> WorkSpaces]
    BY <1>4, <2>2 DEF WorkSpaces
  <2> HIDE DEF b
  <2>5. c \in [Sessions -> WorkSpaces]
    BY <1>4, <2>4 DEF WorkSpaces
  <2> HIDE DEF c
  <2>6. pc' \in [Sessions -> Statements]
    BY <1>1, <1>2 DEF TypeOK, Statements
  <2> QED BY <1>1, <1>2, <2>3, <2>5, <2>6 DEF TypeOK
<1>8. /\ \A t \in Sessions \ {s} : work'[t] = work[t]
      /\ work'[s].locked = work[s].locked
      /\ work'[s].expired = work[s].expired
      /\ work'[s].refund = work[s].refund
      /\ work'[s].credit = work[s].credit
      /\ work'[s].written = work[s].written
      /\ work'[s].row = row
  BY <1>1, <1>2 DEF TypeOK, WorkSpaces
<1>9. pc'[s] = "update" /\ \A t \in Sessions \ {s} : pc'[t] = pc[t]
  BY <1>1, <1>2 DEF TypeOK
<1>10. KeepsOthers(s)
  BY <1>1, <1>8, <1>9 DEF KeepsOthers
<1>11. SessionInv(s)
  BY DEF RouterInv
<1>12. Placed(s)'
  BY <1>1, <1>8, <1>9, <1>11 DEF SessionInv, Placed, Kind
<1>13. Kind(s) = "reserve" => ~ work[s].written
  BY <1>1, <1>11 DEF SessionInv, Placed
<1>14. RowRead(s)'
  BY <1>5, <1>8, <1>9, <1>13 DEF RowRead, Kind
<1>15. Affords(s)'
  BY <1>9 DEF Affords
<1> QED BY <1>1, <1>6, <1>7, <1>8, <1>10, <1>12, <1>14, <1>15, QuietStep

(* Its UPDATE takes the lock of the period.                                *)
LEMMA UpdateStep ==
    ASSUME RouterInv, NEW s \in Sessions, Update(s)
    PROVE  RouterInv'
<1> DEFINE p == work[s].row.period
           x == IF Kind(s) # "reserve" \/ Seen(s)[Target(s)].status # "none"
                THEN "commit"
                ELSE IF TouchesWallet(s) THEN "wallet" ELSE "limits"
<1>1. /\ event' = event /\ used' = used /\ balance' = balance /\ due' = due
      /\ work' = work
      /\ pc[s] = "update"
      /\ owner[p] \in {s, Nobody}
      /\ owner' = [owner EXCEPT ![p] = s]
      /\ pc' = [pc EXCEPT ![s] = x]
  BY DEF Update, Uncommitted, Goto, Lock, CanLock
<1>2. /\ x \in {"commit", "wallet", "limits"}
      /\ x # "commit" => Kind(s) = "reserve"
      /\ x = "limits" => ~ TouchesWallet(s)
  OBVIOUS
<1>3. TypeOK /\ SessionInv(s)
  BY DEF RouterInv
<1>4. p \in Rows
  BY <1>3, WorkTypes DEF EventRows, Rows
<1> HIDE DEF x, p
<1>5. pc'[s] = x /\ x \in Statements
  BY <1>1, <1>2, <1>3 DEF TypeOK, Statements
<1>6. /\ owner' \in [Rows -> Sessions \union {Nobody}]
      /\ \A row \in Rows : owner[row] = s => owner'[row] = s
      /\ \A row \in Rows : owner[row] \notin {s, Nobody} => owner'[row] = owner[row]
  BY <1>1, <1>3, <1>4 DEF TypeOK
<1>7. Placed(s)'
  BY <1>1, <1>2, <1>3, <1>5 DEF SessionInv, Placed, Router, Kind
<1>8. RowRead(s)'
  BY <1>1, <1>2, <1>3, <1>5 DEF SessionInv, RowRead, Router, Kind
<1>9. Affords(s)'
  <2>1. TouchesWallet(s)' = TouchesWallet(s)
    BY <1>1 DEF TouchesWallet, Outcome, Settles, Kind
  <2> QED BY <1>2, <1>5, <2>1 DEF Affords
<1> QED BY <1>1, <1>5, <1>6, <1>7, <1>8, <1>9, NextStatement

(* _get_router_event, FOR UPDATE: what is read stays so to the commit.     *)
LEMMA LoadForUpdateStep ==
    ASSUME RouterInv, NEW s \in Sessions, LoadForUpdate(s)
    PROVE  RouterInv'
<1> DEFINE row == Seen(s)[Target(s)]
           overdue == row.status = "reserved" /\ Target(s) \in due
           todo == IF overdue THEN Stale ELSE {}
           x == CASE overdue -> "expire"
                  [] row.status = "reserved" /\ ~ overdue -> "period"
                  [] OTHER -> "sum"
<1>1. CASE RollBack(s)
  BY <1>1, RollBackStep DEF LoadForUpdate
<1>2. CASE /\ owner' = [owner EXCEPT ![Target(s)] = s]
           /\ work' = [work EXCEPT ![s].row = row, ![s].todo = todo]
           /\ Goto(s, x)
  <2>1. /\ event' = event /\ used' = used /\ balance' = balance /\ due' = due
        /\ pc[s] = "event"
        /\ owner[Target(s)] \in {s, Nobody}
        /\ pc' = [pc EXCEPT ![s] = x]
    BY <1>2 DEF LoadForUpdate, Uncommitted, Goto, CanLock
  <2>2. TypeOK /\ SessionInv(s) /\ Target(s) \in Requests /\ Target(s) \in Rows
    BY PlanTypes DEF RouterInv, Rows
  <2>3. Router(s) /\ Kind(s) # "reserve" /\ work[s].written = FALSE
    BY <2>1, <2>2, WorkTypes DEF SessionInv, Placed, Router
  <2>4. row \in EventRows /\ todo \subseteq Requests
    BY <2>2, SeenType DEF Stale, TypeOK
  <2>5. x \in {"expire", "period", "sum"} /\ (x = "period" => row.status = "reserved")
    <3>1. CASE overdue
      BY <3>1
    <3>2. CASE row.status = "reserved" /\ ~ overdue
      BY <3>2
    <3>3. CASE row.status # "reserved"
      BY <3>3
    <3> QED BY <3>1, <3>2, <3>3
  <2>6. row.status = "reserved" => /\ row = event[Target(s)]
                                   /\ Target(s) \notin work[s].expired
    BY <2>2, <2>3 DEF Seen, TypeOK, EventRows
  <2> HIDE DEF row, todo, x
  <2>7. TypeOK'
    <3>1. work' \in [Sessions -> WorkSpaces]
      <4>1. work \in [Sessions -> WorkSpaces] /\ work[s] \in WorkSpaces
        BY <2>2 DEF TypeOK
      <4>2. [work[s] EXCEPT !.row = row, !.todo = todo] \in WorkSpaces
        BY <2>4, <4>1 DEF WorkSpaces
      <4> QED BY <1>2, <4>1, <4>2
    <3>2. /\ owner' \in [Rows -> Sessions \union {Nobody}]
          /\ pc' \in [Sessions -> Statements]
      BY <1>2, <2>1, <2>2, <2>5 DEF TypeOK, Statements
    <3> QED BY <2>1, <2>2, <3>1, <3>2 DEF TypeOK
  <2>8. /\ \A t \in Sessions \ {s} : work'[t] = work[t]
        /\ work'[s].locked = work[s].locked
        /\ work'[s].expired = work[s].expired
        /\ work'[s].refund = work[s].refund
        /\ work'[s].credit = work[s].credit
        /\ work'[s].written = work[s].written
        /\ work'[s].row = row
    BY <1>2, <2>2 DEF TypeOK, WorkSpaces
  <2>9. pc'[s] = x /\ \A t \in Sessions \ {s} : pc'[t] = pc[t]
    BY <2>1, <2>2 DEF TypeOK
  <2>10. /\ KeepsOthers(s)
         /\ \A y \in Rows : owner[y] = s => owner'[y] = s
         /\ owner'[Target(s)] = s
    BY <1>2, <2>1, <2>2, <2>8, <2>9 DEF KeepsOthers, TypeOK
  <2>11. Placed(s)'
    BY <2>1, <2>2, <2>3, <2>5, <2>8, <2>9 DEF SessionInv, Placed, Router, Kind
  <2>12. RowRead(s)'
    BY <2>1, <2>3, <2>5, <2>6, <2>8, <2>9, <2>10 DEF RowRead, Router, Kind, Target
  <2>13. Affords(s)'
    BY <2>5, <2>9 DEF Affords
  <2> QED BY <2>1, <2>3, <2>7, <2>8, <2>10, <2>11, <2>12, <2>13, QuietStep
<1> QED BY <1>1, <1>2 DEF LoadForUpdate

(* _lock_period: the counter is read under its lock.                       *)
LEMMA LockPeriodStep ==
    ASSUME RouterInv, NEW s \in Sessions, LockPeriod(s)
    PROVE  RouterInv'
<1> DEFINE p == work[s].row.period
           seen == LockedUsed(s, p)
<1>1. /\ event' = event /\ used' = used /\ balance' = balance /\ due' = due
      /\ pc[s] = "period"
      /\ owner[p] \in {s, Nobody}
      /\ owner' = [owner EXCEPT ![p] = s]
      /\ work' = [work EXCEPT ![s].view[p] = seen]
      /\ pc' = [pc EXCEPT ![s] = "wallet"]
  BY DEF LockPeriod, Uncommitted, Goto, Lock, CanLock
<1>2. TypeOK /\ SessionInv(s)
  BY DEF RouterInv
<1>3. p \in Periods /\ p \in Rows
  BY <1>2, WorkTypes DEF EventRows, Rows
<1>4. seen \in Nat
  BY <1>2, <1>3, WorkTypes DEF LockedUsed, TypeOK
<1> HIDE DEF p, seen
<1>5. TypeOK'
  <2>1. work' \in [Sessions -> WorkSpaces]
    <3>1. work \in [Sessions -> WorkSpaces] /\ work[s] \in WorkSpaces
      BY <1>2 DEF TypeOK
    <3>2. [work[s] EXCEPT !.view[p] = seen] \in WorkSpaces
      BY <1>3, <1>4, <3>1 DEF WorkSpaces
    <3> QED BY <1>1, <3>1, <3>2
  <2>2. /\ owner' \in [Rows -> Sessions \union {Nobody}]
        /\ pc' \in [Sessions -> Statements]
    BY <1>1, <1>2 DEF TypeOK, Statements
  <2> QED BY <1>1, <1>2, <2>1, <2>2 DEF TypeOK
<1>6. /\ \A t \in Sessions \ {s} : work'[t] = work[t]
      /\ work'[s].locked = work[s].locked
      /\ work'[s].expired = work[s].expired
      /\ work'[s].refund = work[s].refund
      /\ work'[s].credit = work[s].credit
      /\ work'[s].written = work[s].written
      /\ work'[s].row = work[s].row
  BY <1>1, <1>2 DEF TypeOK, WorkSpaces
<1>7. pc'[s] = "wallet" /\ \A t \in Sessions \ {s} : pc'[t] = pc[t]
  BY <1>1, <1>2 DEF TypeOK
<1>8. KeepsOthers(s) /\ \A y \in Rows : owner[y] = s => owner'[y] = s
  BY <1>1, <1>2, <1>3, <1>6, <1>7 DEF KeepsOthers, TypeOK
<1>9. Router(s) /\ Kind(s) # "reserve"
  BY <1>1, <1>2 DEF SessionInv, Placed, Router
<1>10. Placed(s)'
  BY <1>1, <1>2, <1>6, <1>7, <1>9 DEF SessionInv, Placed, Router, Kind
<1>11. RowRead(s)'
  <2>1. Target(s) \in Rows
    BY PlanTypes DEF Rows
  <2> QED BY <1>1, <1>2, <1>6, <1>7, <1>8, <1>9, <2>1
             DEF SessionInv, RowRead, Router, Kind, Target
<1>12. Affords(s)'
  BY <1>7 DEF Affords
<1> QED BY <1>1, <1>5, <1>6, <1>8, <1>10, <1>11, <1>12, QuietStep

(* _lock_or_create_wallet and the 402: the balance that is checked stays   *)
(* there until the commit.                                                 *)
LEMMA LockWalletStep ==
    ASSUME RouterInv, NEW s \in Sessions, LockWallet(s)
    PROVE  RouterInv'
<1> DEFINE x == IF Kind(s) = "reserve" THEN "limits" ELSE "flush"
           drawn == WalletPortion(Outcome(s))
           there == balance + work[s].credit + WalletPortion(work[s].row)
<1>1. CASE drawn > there
  BY <1>1, RollBackStep DEF LockWallet
<1>2. CASE ~ (drawn > there)
  <2>1. /\ event' = event /\ used' = used /\ balance' = balance /\ due' = due
        /\ pc[s] = "wallet"
        /\ work' = work
        /\ TouchesWallet(s) => owner[Wallet] \in {s, Nobody}
        /\ owner' = IF TouchesWallet(s) THEN [owner EXCEPT ![Wallet] = s] ELSE owner
        /\ pc' = [pc EXCEPT ![s] = x]
    BY <1>2 DEF LockWallet, Uncommitted, Goto, CanLock
  <2>2. TypeOK /\ SessionInv(s) /\ Wallet \in Rows /\ Target(s) \in Rows
    BY PlanTypes DEF RouterInv, Rows
  <2>3. drawn =< there
    <3>1. drawn \in Int
      BY <2>2, OutcomeType DEF WalletPortion, EventRows
    <3>2. there \in Int
      <4>1. WalletPortion(work[s].row) \in Int
        BY <2>2, WorkTypes DEF WalletPortion, EventRows
      <4>2. balance \in Int /\ work[s].credit \in Int
        BY <2>2, WorkTypes DEF TypeOK
      <4> QED BY <4>1, <4>2
    <3> HIDE DEF drawn, there
    <3> QED BY <1>2, <3>1, <3>2
  <2>4. x \in {"limits", "flush"} /\ (x = "limits" <=> Kind(s) = "reserve")
    OBVIOUS
  <2>5. Router(s) \/ Kind(s) = "reserve"
    BY <2>1, <2>2 DEF SessionInv, Placed
  <2> HIDE DEF x
  <2>6. pc'[s] = x /\ x \in Statements
    BY <2>1, <2>2, <2>4 DEF TypeOK, Statements
  <2>7. /\ owner' \in [Rows -> Sessions \union {Nobody}]
        /\ \A row \in Rows : owner[row] = s => owner'[row] = s
        /\ \A row \in Rows : owner[row] \notin {s, Nobody} => owner'[row] = owner[row]
    BY <2>1, <2>2 DEF TypeOK
  <2>8. Placed(s)'
    BY <2>1, <2>2, <2>4, <2>5, <2>6 DEF SessionInv, Placed, Router, Kind
  <2>9. RowRead(s)'
    BY <2>1, <2>2, <2>4, <2>6, <2>7 DEF SessionInv, RowRead, Router, Kind, Target
  <2>10. Affords(s)'
    <3>1. TouchesWallet(s)' = TouchesWallet(s) /\ Outcome(s)' = Outcome(s)
      BY <2>1 DEF TouchesWallet, Outcome, Settles, Kind
    <3>2. TouchesWallet(s) => owner'[Wallet] = s
      BY <2>1, <2>2 DEF TypeOK
    <3> QED BY <2>1, <2>3, <3>1, <3>2 DEF Affords
  <2> QED BY <2>1, <2>6, <2>7, <2>8, <2>9, <2>10, NextStatement
<1> QED BY <1>1, <1>2

(* INSERT or UPDATE of the event: what the row holds less or more of the   *)
(* wallet than before is added to the balance or taken from it.            *)
LEMMA FlushStep ==
    ASSUME RouterInv, NEW s \in Sessions, Flush(s)
    PROVE  RouterInv'
<1> DEFINE row == work[s].row
           out == Outcome(s)
           p == row.period
           booked == Max0(work[s].view[p] - PeriodPortion(row) + PeriodPortion(out))
           dirty == IF booked = work[s].view[p] THEN work[s].dirty
                    ELSE work[s].dirty \union {p}
           credit == work[s].credit + WalletPortion(row) - WalletPortion(out)
           x == IF Router(s) THEN "sum" ELSE "commit"
           r == Target(s)
<1>1. CASE RollBack(s)
  BY <1>1, RollBackStep DEF Flush
<1>2. CASE ~ RollBack(s)
  <2>1. /\ event' = event /\ used' = used /\ balance' = balance /\ due' = due
        /\ pc[s] = "flush"
        /\ owner[r] \in {s, Nobody}
        /\ ~ (Kind(s) = "reserve" /\ event[r].status # "none")
        /\ owner' = [owner EXCEPT ![r] = s]
        /\ work' = [work EXCEPT ![s].view[p] = booked,
                                ![s].dirty = dirty,
                                ![s].credit = @ + WalletPortion(row) - WalletPortion(out),
                                ![s].row = out,
                                ![s].written = TRUE]
        /\ pc' = [pc EXCEPT ![s] = x]
    BY <1>2 DEF Flush, Uncommitted, Goto, CanLock
  <2>2. TypeOK /\ SessionInv(s) /\ r \in Requests /\ r \in Rows
    BY PlanTypes DEF RouterInv, Rows
  <2>3. row \in EventRows /\ out \in EventRows /\ p \in Periods
    BY <2>2, OutcomeType, WorkTypes DEF EventRows
  <2>4. WalletPortion(row) \in Nat /\ WalletPortion(out) \in Nat /\ work[s].credit \in Int
    BY <2>2, <2>3, WorkTypes DEF WalletPortion, EventRows
  <2>5. booked \in Nat /\ dirty \subseteq Periods
    <3>1. PeriodPortion(row) \in Int /\ PeriodPortion(out) \in Int
      BY <2>3 DEF PeriodPortion, EventRows
    <3> QED BY <2>2, <2>3, <3>1, WorkTypes DEF Max0
  <2>6. credit \in Int
    <3> HIDE DEF row, out
    <3> QED BY <2>4
  <2>7. ~ work[s].written /\ (Router(s) \/ Kind(s) = "reserve")
    BY <2>1, <2>2 DEF SessionInv, Placed
  <2>8. /\ WalletPortion(row) = WalletPortion(event[r])
        /\ event[r].status \in {"none", "reserved"}
        /\ r \notin work[s].expired
    <3>1. CASE Router(s)
      BY <2>1, <2>2, <3>1 DEF SessionInv, RowRead
    <3>2. CASE Kind(s) = "reserve"
      <4>1. row.status = "none" /\ event[r].status = "none"
        BY <2>1, <2>2, <3>2 DEF SessionInv, RowRead
      <4>2. WalletPortion(row) = 0 /\ WalletPortion(event[r]) = 0
        BY <4>1 DEF WalletPortion, Live
      <4>3. r \notin work[s].expired
        BY <2>2, <4>1 DEF SessionInv, RowsLocked
      <4> QED BY <4>1, <4>2, <4>3
    <3> QED BY <2>7, <3>1, <3>2
  <2>9. balance + credit >= 0 /\ (credit # 0 => owner[Wallet] = s)
    <3>1. balance \in Nat
      BY <2>2 DEF TypeOK
    <3>2. /\ balance + work[s].credit >= 0
          /\ work[s].credit # 0 => owner[Wallet] = s
      BY <2>2 DEF SessionInv, Pays
    <3>3. CASE TouchesWallet(s)
      <4>1. /\ owner[Wallet] = s
            /\ WalletPortion(out) =< balance + work[s].credit + WalletPortion(row)
        BY <2>1, <2>2, <3>3 DEF SessionInv, Affords
      <4> HIDE DEF row, out
      <4> QED BY <2>4, <3>1, <4>1
    <3>4. CASE ~ TouchesWallet(s)
      <4>1. WalletPortion(row) = 0 /\ WalletPortion(out) = 0
        <5>1. ~ (WalletPortion(row) > 0) /\ ~ (WalletPortion(out) > 0)
          BY <3>4 DEF TouchesWallet
        <5> HIDE DEF row, out
        <5> QED BY <2>4, <5>1
      <4>2. credit = work[s].credit
        <5> HIDE DEF row, out
        <5> QED BY <2>4, <4>1
      <4> QED BY <3>2, <4>2
    <3> QED BY <3>3, <3>4
  <2>10. x \in {"sum", "commit"} /\ (Kind(s) = "reserve" => x = "commit")
    BY DEF Router
  <2> HIDE DEF row, out, p, booked, dirty, x, r
  <2>11. TypeOK'
    <3> DEFINE a == [work EXCEPT ![s].view[p] = booked]
               b == [a EXCEPT ![s].dirty = dirty]
               c == [b EXCEPT ![s].credit = work[s].credit + WalletPortion(row)
                                              - WalletPortion(out)]
               d == [c EXCEPT ![s].row = out]
               e == [d EXCEPT ![s].written = TRUE]
    <3>1. work \in [Sessions -> WorkSpaces]
      BY <2>2 DEF TypeOK
    <3>2. a \in [Sessions -> WorkSpaces]
      BY <2>3, <2>5, <3>1 DEF WorkSpaces
    <3>3. work' = e
      BY <2>1
    <3> HIDE DEF a
    <3>4. b \in [Sessions -> WorkSpaces]
      BY <2>5, <3>2 DEF WorkSpaces
    <3> HIDE DEF b
    <3>5. c \in [Sessions -> WorkSpaces]
      BY <2>6, <3>4 DEF WorkSpaces
    <3> HIDE DEF c
    <3>6. d \in [Sessions -> WorkSpaces]
      BY <2>3, <3>5 DEF WorkSpaces
    <3> HIDE DEF d
    <3>7. e \in [Sessions -> WorkSpaces]
      BY <3>6 DEF WorkSpaces
    <3> HIDE DEF e
    <3>8. /\ owner' \in [Rows -> Sessions \union {Nobody}]
          /\ pc' \in [Sessions -> Statements]
      BY <2>1, <2>2, <2>10 DEF TypeOK, Statements
    <3> QED BY <2>1, <2>2, <3>3, <3>7, <3>8 DEF TypeOK
  <2>12. /\ \A t \in Sessions \ {s} : work'[t] = work[t]
         /\ work'[s].locked = work[s].locked
         /\ work'[s].expired = work[s].expired
         /\ work'[s].refund = work[s].refund
         /\ work'[s].credit = credit
         /\ work'[s].row = out
         /\ work'[s].written = TRUE
    BY <2>1, <2>2 DEF TypeOK, WorkSpaces
  <2>13. pc'[s] = x /\ \A t \in Sessions \ {s} : pc'[t] = pc[t]
    BY <2>1, <2>2 DEF TypeOK
  <2>14. /\ KeepsOthers(s)
         /\ \A y \in Rows : owner[y] = s => owner'[y] = s
         /\ owner'[r] = s
    BY <2>1, <2>2, <2>12, <2>13 DEF KeepsOthers, TypeOK
  <2>15. Placed(s)'
    BY <2>1, <2>2, <2>10, <2>12, <2>13 DEF SessionInv, Placed, Router, Kind
  <2>16. RowsLocked(s)'
    BY <2>1, <2>2, <2>8, <2>12, <2>14, WorkTypes DEF SessionInv, RowsLocked, Rows, Target, r
  <2>17. RowRead(s)' /\ Affords(s)'
    BY <2>10, <2>13 DEF RowRead, Affords, Kind, Router
  <2>18. Pays(s)'
    <3>1. Wallet \in Rows
      BY DEF Rows
    <3> HIDE DEF credit
    <3> QED BY <2>1, <2>9, <2>12, <2>14, <3>1 DEF Pays
  <2>19. Balanced(s)'
    <3> DEFINE C == Changed(s)
               f == Holds(event)
               g == Holds(Seen(s))
               h == Holds(Seen(s)')
    <3>1. /\ C = work[s].expired /\ Changed(s)' = C \union {r}
          /\ r \notin C /\ C \subseteq Requests
      BY <2>2, <2>7, <2>8, <2>12, ChangedType DEF Changed, Target, r
    <3>2. f \in [Requests -> Nat] /\ g \in [Requests -> Nat]
      BY <2>2, SeenType, HoldsType DEF TypeOK
    <3>3. f[r] = WalletPortion(row)
      BY <2>2, <2>8 DEF Holds
    <3>4. h[r] = WalletPortion(out)
      BY <2>2, <2>12 DEF Holds, Seen, Target, r
    <3>5. \A y \in Requests \ {r} : h[y] = g[y]
      BY <2>1, <2>7, <2>12 DEF Holds, Seen, Target, r
    <3> HIDE DEF C, f, g
    <3>6. h \in [Requests -> Nat]
      <4>1. h = [y \in Requests |-> h[y]]
        BY DEF Holds
      <4> HIDE DEF h
      <4> QED BY <2>4, <4>1, <3>2, <3>4, <3>5
    <3> HIDE DEF h
    <3>7. Total(h, C \union {r}) = Total(h, C) + h[r]
      BY <2>2, <3>1, <3>6, PlanAssumption, TotalAdd
    <3>8. Total(f, C \union {r}) = Total(f, C) + f[r]
      BY <2>2, <3>1, <3>2, PlanAssumption, TotalAdd
    <3>9. Total(h, C) = Total(g, C)
      BY <3>1, <3>5, TotalAgree
    <3>10. work[s].credit + work[s].refund + Total(g, C) = Total(f, C)
      BY <2>2 DEF SessionInv, Balanced, C, f, g
    <3>11. Total(f, C) \in Nat /\ Total(h, C) \in Nat
      <4>1. f \in [Requests -> Int] /\ h \in [Requests -> Int]
        BY <3>2, <3>6
      <4> QED BY <3>1, <4>1, PlanAssumption, TotalNat
    <3>12. work[s].refund \in Nat
      BY <2>2, WorkTypes
    <3>13. credit + work[s].refund + Total(h, C \union {r}) = Total(f, C \union {r})
      BY <2>4, <3>3, <3>4, <3>7, <3>8, <3>9, <3>10, <3>11, <3>12
    <3>14. Holds(event)' = f
      BY <2>1 DEF f, Holds
    <3>15. Holds(Seen(s))' = h
      BY DEF h, Holds
    <3> QED BY <2>12, <3>1, <3>13, <3>14, <3>15 DEF Balanced
  <2>20. SessionInv(s)'
    BY <2>15, <2>16, <2>17, <2>18, <2>19 DEF SessionInv
  <2> QED BY <2>1, <2>11, <2>14, <2>20, OwnStep DEF RouterInv
<1> QED BY <1>1, <1>2

(* What a session sees differs from what is committed in its own rows only. *)
LEMMA SeenOutside ==
    ASSUME NEW s \in Sessions, NEW r \in Requests, r \notin Changed(s)
    PROVE  Seen(s)[r] = event[r]
BY DEF Seen, Changed

(* Commit: rows and balance change together, and only rows that are locked. *)
LEMMA CommitStep ==
    ASSUME RouterInv, NEW s \in Sessions, Commit(s)
    PROVE  RouterInv'
<1>1. /\ event' = Seen(s) /\ due' = due
      /\ pc[s] = "commit"
      /\ used' = [p \in Periods |-> IF p \in work[s].dirty THEN work[s].view[p] ELSE used[p]]
      /\ balance' = balance + work[s].credit
      /\ owner' = [row \in Rows |-> IF owner[row] = s THEN Nobody ELSE owner[row]]
      /\ work' = [work EXCEPT ![s] = Blank]
      /\ pc' = [pc EXCEPT ![s] = "done"]
  BY DEF Commit, Goto
<1>2. TypeOK /\ SessionInv(s)
  BY DEF RouterInv
<1>3. balance \in Nat /\ work[s].credit \in Int /\ balance + work[s].credit >= 0
  BY <1>2, WorkTypes DEF TypeOK, SessionInv, Pays
<1>4. balance' \in Nat
  <2>1. \A m \in Nat, n \in Int : m + n >= 0 => m + n \in Nat
    OBVIOUS
  <2> QED BY <1>1, <1>3, <2>1
<1>5. TypeOK'
  <2>1. event' \in [Requests -> EventRows]
    BY <1>1, <1>2, SeenType
  <2>2. used' \in [Periods -> Nat]
    BY <1>1, <1>2, WorkTypes DEF TypeOK
  <2>3. /\ work' \in [Sessions -> WorkSpaces]
        /\ pc' \in [Sessions -> Statements]
    BY <1>1, <1>2, BlankType DEF TypeOK, Statements
  <2>4. owner' \in [Rows -> Sessions \union {Nobody}]
    BY <1>1, <1>2 DEF TypeOK
  <2> QED BY <1>1, <1>2, <1>4, <2>1, <2>2, <2>3, <2>4 DEF TypeOK
<1>6. SessionInv(s)'
  <2>1. work'[s] = Blank /\ pc'[s] = "done"
    BY <1>1, <1>2 DEF TypeOK
  <2> QED BY <2>1, <1>4, Ended
<1>7. ASSUME NEW t \in Sessions, t # s
      PROVE  SessionInv(t)'
  <2>1. SessionInv(t) /\ Wallet \in Rows /\ Requests \subseteq Rows
    BY DEF RouterInv, Rows
  <2>2. work'[t] = work[t] /\ pc'[t] = pc[t]
    BY <1>1, <1>2, <1>7 DEF TypeOK
  <2>3. \A row \in Rows : owner[row] = t => owner'[row] = t
    BY <1>1, <1>7
  <2>4. \A r \in Requests : owner[r] = t => event'[r] = event[r]
    <3>1. \A r \in Changed(s) : owner[r] = s
      BY <1>2 DEF SessionInv, RowsLocked, Changed
    <3> QED BY <1>1, <1>7, <3>1, SeenOutside
  <2>5. work[s].credit # 0 => owner[Wallet] = s
    BY <1>2 DEF SessionInv, Pays
  <2>6. work[s].credit = 0 => balance' = balance
    BY <1>1, <1>3
  <2>7. owner[Wallet] = t => balance' = balance
    BY <1>7, <2>5, <2>6
  <2>8. balance' + work[t].credit >= 0
    <3>1. CASE work[s].credit = 0
      BY <2>1, <2>6, <3>1 DEF SessionInv, Pays
    <3>2. CASE work[s].credit # 0
      <4>1. work[t].credit = 0
        BY <1>7, <2>1, <2>5, <3>2 DEF SessionInv, Pays
      <4>2. \A n \in Nat : n + 0 >= 0
        OBVIOUS
      <4> QED BY <1>4, <4>1, <4>2
    <3> QED BY <3>1, <3>2
  <2> QED BY <1>2, <1>5, <2>1, <2>2, <2>3, <2>4, <2>7, <2>8, Undisturbed
<1>8. WalletConservation'
  <2> DEFINE C == Changed(s)
             f == Holds(event)
             g == Holds(Seen(s))
  <2>1. C \in SUBSET Requests
    BY <1>2, ChangedType
  <2>2. f \in [Requests -> Nat] /\ g \in [Requests -> Nat]
    BY <1>2, SeenType, HoldsType DEF TypeOK
  <2>3. \A r \in Requests \ C : g[r] = f[r]
    BY SeenOutside DEF Holds
  <2>4. WalletHeld(event) = Total(f, Requests)
    BY DEF WalletHeld, Holds
  <2>5. WalletHeld(event)' = Total(g, Requests)
    BY <1>1 DEF WalletHeld, Holds
  <2>6. work[s].credit + 0 + Total(g, C) = Total(f, C)
    BY <1>1, <1>2 DEF SessionInv, Balanced, Placed
  <2>7. balance + WalletHeld(event) = Funds
    BY DEF RouterInv, WalletConservation
  <2> HIDE DEF C, f, g
  <2>8. Total(f, Requests) = Total(f, C) + Total(f, Requests \ C)
    BY <2>1, <2>2, PlanAssumption, TotalSplit
  <2>9. Total(g, Requests) = Total(g, C) + Total(g, Requests \ C)
    BY <2>1, <2>2, PlanAssumption, TotalSplit
  <2>10. Total(g, Requests \ C) = Total(f, Requests \ C)
    BY <2>3, TotalAgree
  <2>11. /\ Total(f, C) \in Nat /\ Total(g, C) \in Nat
         /\ Total(f, Requests \ C) \in Nat
    <3>1. f \in [Requests -> Int] /\ g \in [Requests -> Int]
      BY <2>2
    <3>2. Requests \ C \in SUBSET Requests
      OBVIOUS
    <3> QED BY <2>1, <3>1, <3>2, PlanAssumption, TotalNat
  <2>12. (balance + work[s].credit) + Total(g, Requests) = Funds
    BY <1>3, <2>4, <2>6, <2>7, <2>8, <2>9, <2>10, <2>11
  <2> QED BY <1>1, <2>5, <2>12 DEF WalletConservation
<1> QED BY <1>5, <1>6, <1>7, <1>8 DEF RouterInv

(* The rows a step does not commit stay, and what it commits was not       *)
(* closed before: it closes what it has locked as reserved, or opens it.   *)
LEMMA CommitClosesOnce ==
    ASSUME RouterInv, NEW s \in Sessions, Commit(s)
    PROVE  ClosedStay
<1>1. SessionInv(s) /\ event' = Seen(s)
  BY DEF RouterInv, Commit
<1>2. \A r \in Changed(s) : event[r].status \in {"none", "reserved"}
  BY <1>1 DEF SessionInv, RowsLocked, Changed
<1>3. ASSUME NEW r \in Requests, event[r].status \in {"settled", "released", "expired"}
      PROVE  event'[r] = event[r]
  <2>1. r \notin Changed(s)
    BY <1>2, <1>3
  <2> QED BY <1>1, <2>1, SeenOutside
<1> QED BY <1>3 DEF ClosedStay

(* Time passing disturbs nobody.                                           *)
LEMMA IdleStep ==
    ASSUME RouterInv, due' \subseteq Requests,
           UNCHANGED <<event, used, balance, owner, pc, work>>
    PROVE  RouterInv'
<1>1. TypeOK'
  BY DEF RouterInv, TypeOK
<1>2. \A s \in Sessions : SessionInv(s)'
  <2> SUFFICES ASSUME NEW s \in Sessions
               PROVE  SessionInv(s)'
    OBVIOUS
  <2>1. TypeOK /\ SessionInv(s)
    BY DEF RouterInv
  <2>2. balance' + work[s].credit >= 0
    BY <2>1 DEF SessionInv, Pays
  <2> QED BY <1>1, <2>1, <2>2, Undisturbed
<1>3. WalletConservation'
  BY DEF RouterInv, WalletConservation, WalletHeld
<1> QED BY <1>1, <1>2, <1>3 DEF RouterInv

(* Every step of the router plane.                                         *)
LEMMA RouterStep ==
    ASSUME RouterOnly, RouterInv, Next
    PROVE  RouterInv' /\ ClosedStay
<1>1. ASSUME NEW s \in Sessions, Step(s) \/ Crash(s), ~ Commit(s)
      PROVE  RouterInv' /\ event' = event
  <2>1. CASE Begin(s)
    BY <2>1, BeginStep DEF Begin, Uncommitted
  <2>2. ASSUME NEW r \in Requests, LockStale(s, r)
        PROVE  RouterInv' /\ event' = event
    BY <2>2, LockStaleStep DEF LockStale, Uncommitted
  <2>3. ASSUME NEW r \in Requests, ExpireOne(s, r)
        PROVE  RouterInv' /\ event' = event
    BY <2>3, ExpireOneStep DEF ExpireOne, Uncommitted
  <2>4. CASE Refund(s)
    BY <2>4, RefundStep DEF Refund, Uncommitted
  <2>5. CASE Expired(s)
    BY <2>5, ExpiredStep DEF Expired, Uncommitted
  <2>6. ASSUME NEW p \in Periods, Sum(s, p)
        PROVE  RouterInv' /\ event' = event
    BY <2>6, SumStep DEF Sum, Uncommitted
  <2>7. CASE Update(s)
    BY <2>7, UpdateStep DEF Update, Uncommitted
  <2>8. CASE Load(s)
    BY <2>8 DEF Load, RouterInv, SessionInv, Placed
  <2>9. CASE LoadForUpdate(s)
    BY <2>9, LoadForUpdateStep DEF LoadForUpdate, Uncommitted
  <2>10. CASE LockPeriod(s)
    BY <2>10, LockPeriodStep DEF LockPeriod, Uncommitted
  <2>11. CASE LockWallet(s)
    BY <2>11, LockWalletStep DEF LockWallet, Uncommitted
  <2>12. CASE EnforceLimits(s)
    BY <2>12, EnforceLimitsStep DEF EnforceLimits, Uncommitted
  <2>13. CASE Flush(s)
    BY <2>13, FlushStep DEF Flush, Uncommitted
  <2>14. CASE DeadlockVictim(s)
    BY <2>14, RollBackStep DEF DeadlockVictim, Uncommitted
  <2>15. CASE Crash(s)
    BY <2>15, RollBackStep DEF Crash, Uncommitted
  <2> QED BY <1>1, <2>1, <2>2, <2>3, <2>4, <2>5, <2>6, <2>7, <2>8, <2>9, <2>10,
             <2>11, <2>12, <2>13, <2>14, <2>15 DEF Step
<1>2. ASSUME NEW s \in Sessions, Commit(s)
      PROVE  RouterInv' /\ ClosedStay
  BY <1>2, CommitStep, CommitClosesOnce
<1>3. ASSUME NEW r \in Requests, Lapse(r)
      PROVE  RouterInv' /\ event' = event
  <2>1. due' \subseteq Requests
    BY <1>3 DEF Lapse, RouterInv, TypeOK
  <2> QED BY <1>3, <2>1, IdleStep DEF Lapse
<1>4. CASE Finished
  <2>1. due' \subseteq Requests
    BY <1>4 DEF Finished, vars, RouterInv, TypeOK
  <2> QED BY <1>4, <2>1, IdleStep DEF Finished, vars, ClosedStay
<1>5. event' = event => ClosedStay
  BY DEF ClosedStay
<1> QED BY <1>1, <1>2, <1>3, <1>4, <1>5 DEF Next

(* Nothing is held and nothing has been read when the sessions start.      *)
LEMMA RouterInit ==
    ASSUME Init PROVE RouterInv
<1>1. (CHOOSE p \in Periods : TRUE) \in Periods
  BY PlanAssumption
<1>2. TypeOK
  BY <1>1, NoRowType, BlankType, PlanAssumption DEF Init, TypeOK, Statements
<1>3. WalletConservation
  <2>1. Holds(event) = [r \in Requests |-> 0]
    BY DEF Init, Holds, WalletPortion, Live, NoRow
  <2>2. Total([r \in Requests |-> 0], Requests) = 0
    <3>1. Units([r \in Requests |-> 0], Requests) = {}
      BY DEF Units
    <3> QED BY <3>1, FS_EmptySet DEF Total
  <2>3. WalletHeld(event) = 0
    BY <2>1, <2>2 DEF WalletHeld, Holds
  <2> QED BY <2>3, PlanAssumption DEF WalletConservation, Init
<1>4. ASSUME NEW s \in Sessions
      PROVE  SessionInv(s)
  <2>1. /\ work[s] = Blank /\ pc[s] = "begin"
        /\ Blank.expired = {} /\ Blank.locked = {} /\ Blank.written = FALSE
        /\ Blank.refund = 0 /\ Blank.credit = 0
    BY DEF Init, Blank
  <2>2. Placed(s) /\ RowsLocked(s)
    BY <2>1 DEF Placed, RowsLocked
  <2>3. RowRead(s) /\ Affords(s)
    BY <2>1 DEF RowRead, Affords
  <2>4. Pays(s)
    BY <2>1, PlanAssumption DEF Pays, Init
  <2>5. Changed(s) = {}
    BY <2>1 DEF Changed
  <2>6. Balanced(s)
    BY <2>1, <2>5, TotalEmpty DEF Balanced
  <2> QED BY <2>2, <2>3, <2>4, <2>6 DEF SessionInv
<1> QED BY <1>2, <1>3, <1>4 DEF RouterInv

(* The invariant holds for all calls of the router plane.                  *)
LEMMA ScenesRouterInv == ScenesSpec => [](scene = "router" => RouterInv)
<1>1. SceneInit => (scene = "router" => RouterInv)
  BY RouterInit DEF SceneInit
<1>2. (scene = "router" => RouterInv) /\ [SceneNext]_<<vars, scene>>
        => (scene = "router" => RouterInv)'
  <2> SUFFICES ASSUME scene = "router", RouterInv, [SceneNext]_<<vars, scene>>
               PROVE  RouterInv'
    BY DEF SceneNext
  <2>1. CASE SceneNext
    BY <2>1, RouterStep, SceneAssumption DEF SceneNext, RouterOnly
  <2>2. CASE UNCHANGED <<vars, scene>>
    <3>1. due' \subseteq Requests
      BY <2>2 DEF vars, RouterInv, TypeOK
    <3> QED BY <2>2, <3>1, IdleStep DEF vars
  <2> QED BY <2>1, <2>2
<1> QED BY <1>1, <1>2, PTL DEF ScenesSpec

(* Wallet tokens are neither made nor lost and never run short on the      *)
(* router plane, for any number of sessions and requests, whatever         *)
(* overlaps, fails or crashes (settle_router_usage,                        *)
(* release_router_reservation, _refund_wallet).                            *)
THEOREM RouterKeepsWallet == ScenesSpec => []RouterConservesWallet
<1>1. (scene = "router" => RouterInv) => RouterConservesWallet
  <2> SUFFICES ASSUME RouterInv
               PROVE  WalletConservation /\ NoOverdraft
    BY DEF RouterConservesWallet
  <2>1. TypeOK /\ balance \in Nat
    BY DEF RouterInv, TypeOK
  <2>2. \A n \in Nat : n >= 0
    OBVIOUS
  <2> QED BY <2>1, <2>2 DEF RouterInv, NoOverdraft
<1> QED BY <1>1, ScenesRouterInv, PTL

(* No step of the router plane closes a reservation that is closed, also   *)
(* not one that another transaction closed after it was read               *)
(* (_get_router_event, expire_stale_reservations).                         *)
THEOREM RouterClosesEachOnce == ScenesSpec => RouterClosesOnce
<1>1. (scene = "router" => RouterInv) /\ [SceneNext]_<<vars, scene>>
        => [scene = "router" => ClosedStay]_vars
  <2> SUFFICES ASSUME scene = "router" => RouterInv, SceneNext, scene = "router"
               PROVE  ClosedStay
    BY DEF vars
  <2> QED BY RouterStep, SceneAssumption DEF SceneNext, RouterOnly
<1> QED BY <1>1, ScenesRouterInv, PTL DEF ScenesSpec, RouterClosesOnce

-----------------------------------------------------------------------------
(* 4. The cap of a key beside the streaming planes, while no reservation   *)
(* has lapsed.  Rows that are settled may come back to life there (a       *)
(* stream is settled from a copy), rows that are reserved may not, so it   *)
(* is the reserved ones that the lock of the period protects.              *)

Tokens(ev) == [r \in Requests |-> ev[r].tokens]
Open(ev) == {r \in Requests : ev[r].status = "reserved"}
Reserved(ev) == Total(Tokens(ev), Open(ev))

(* What the calls of the scene reserve and settle. *)
KnownRow(r, row) ==
    /\ row.status = "reserved" => \/ r = r1 /\ row.tokens = 3
                                  \/ r = r2 /\ row.tokens = 2
    /\ row.status = "settled" => r = r1 /\ row.tokens = 2

StreamTyped ==
    /\ event \in [Requests -> Stream!EventRows]
    /\ used \in [{p1} -> Nat]
    /\ balance \in Int
    /\ owner \in [Stream!Rows -> Streamers \union {Nobody}]
    /\ pc \in [Streamers -> Stream!Statements]
    /\ work \in [Streamers -> Stream!WorkSpaces]

Reserves(s) == Stream!Kind(s) = "reserve"

StreamSession(s) ==
    /\ work[s].todo = {} /\ work[s].locked = {} /\ work[s].expired = {}
    /\ pc[s] \notin {"refund", "event"}
    /\ work[s].written => /\ pc[s] = "commit"
                          /\ KnownRow(Stream!Target(s), work[s].row)
                          /\ work[s].row.status = "reserved" => Reserves(s)
    /\ Reserves(s) /\ (pc[s] \in {"wallet", "limits", "flush"} \/ work[s].written) =>
          owner[p1] = s
    /\ Reserves(s) /\ (pc[s] = "flush" \/ work[s].written) =>
          Reserved(event) + StreamPlan[s].tokens =< 4
    /\ Reserves(s) /\ work[s].written => work[s].row.tokens = StreamPlan[s].tokens

CapInv ==
    /\ StreamTyped
    /\ \A r \in Requests : KnownRow(r, event[r])
    /\ Reserved(event) =< 4
    /\ \A s \in Streamers : StreamSession(s)

(* The sums of the scene are those of this module.                         *)
LEMMA StreamTotal ==
    ASSUME NEW f, NEW S
    PROVE  Stream!Total(f, S) = Total(f, S)
BY DEF Stream!Total, Stream!Units, Stream!Cardinality, Total, Units, Cardinality

(* What the calls of the scene are.                                        *)
LEMMA StreamPlanTypes ==
    ASSUME NEW s \in Streamers
    PROVE  /\ StreamPlan[s].tokens \in Nat
           /\ Stream!Target(s) \in Requests
           /\ ~ Stream!Router(s)
           /\ Reserves(s) => \/ Stream!Target(s) = r1 /\ StreamPlan[s].tokens = 3
                             \/ Stream!Target(s) = r2 /\ StreamPlan[s].tokens = 2
           /\ Stream!Settles(s) => Stream!Target(s) = r1 /\ StreamPlan[s].tokens = 2
           /\ Reserves(s) \/ Stream!Streaming(s)
           /\ ~ (Reserves(s) /\ Stream!Streaming(s))
<1>1. StreamPlan[s] \in {Call("reserve", r1, 3), Call("reserve", r2, 2),
                         Call("streamSettle", r1, 2), Call("streamRelease", r1, 0)}
  <2>1. CASE s = s1
    BY <2>1 DEF StreamPlan
  <2>2. CASE s = s2
    BY <2>2 DEF StreamPlan
  <2>3. CASE s = s3
    BY <2>3 DEF StreamPlan
  <2>4. CASE s \notin {s1, s2, s3}
    BY <2>4 DEF StreamPlan
  <2> QED BY <2>1, <2>2, <2>3, <2>4
<1> QED BY <1>1, SceneAssumption
           DEF Call, Reserves, Stream!Target, Stream!Kind, Stream!Router, Stream!Settles,
               Stream!Streaming

(* What the reserved rows add up to.                                       *)
LEMMA ReservedType ==
    ASSUME NEW ev \in [Requests -> Stream!EventRows]
    PROVE  /\ Tokens(ev) \in [Requests -> Nat]
           /\ Reserved(ev) \in Nat
<1>1. Tokens(ev) \in [Requests -> Nat]
  BY DEF Tokens, Stream!EventRows
<1>2. Open(ev) \in SUBSET Requests
  BY DEF Open
<1>3. Tokens(ev) \in [Requests -> Int]
  BY <1>1
<1> QED BY <1>1, <1>2, <1>3, PlanAssumption, TotalNat DEF Reserved

(* A sum over fewer rows is no larger.                                     *)
LEMMA TotalSubset ==
    ASSUME NEW S, IsFiniteSet(S), NEW f \in [S -> Nat],
           NEW T \in SUBSET S, NEW U \in SUBSET T
    PROVE  Total(f, U) =< Total(f, T)
<1>1. T = U \union (T \ U) /\ U \in SUBSET S /\ T \ U \in SUBSET S /\ U \cap (T \ U) = {}
  OBVIOUS
<1>2. Total(f, U \union (T \ U)) = Total(f, U) + Total(f, T \ U)
  BY <1>1, TotalDisjointUnion
<1>3. f \in [S -> Int]
  OBVIOUS
<1>4. Total(f, U) \in Nat /\ Total(f, T \ U) \in Nat
  BY <1>1, <1>3, TotalNat
<1>5. Total(f, T) = Total(f, U) + Total(f, T \ U)
  BY <1>1, <1>2
<1> QED BY <1>4, <1>5

(* Rows that are written without being reserved reserve nothing more, and  *)
(* a row that is reserved adds what it reserves.                           *)
LEMMA ReservedAfter ==
    ASSUME NEW old \in [Requests -> Stream!EventRows],
           NEW new \in [Requests -> Stream!EventRows],
           NEW x \in Requests,
           \A r \in Requests \ {x} : new[r] = old[r]
    PROVE  /\ new[x].status # "reserved" => Reserved(new) =< Reserved(old)
           /\ Reserved(new) =< Reserved(old) + new[x].tokens
<1> DEFINE f == Tokens(old)
           g == Tokens(new)
           rest == Open(old) \ {x}
<1>1. f \in [Requests -> Nat] /\ g \in [Requests -> Nat] /\ g[x] = new[x].tokens
  BY ReservedType DEF Tokens
<1>2. \A r \in Requests \ {x} : f[r] = g[r]
  BY DEF Tokens
<1>3. /\ Open(old) \in SUBSET Requests /\ rest \in SUBSET Requests
      /\ rest \in SUBSET Open(old) /\ x \notin rest
      /\ Open(new) \in SUBSET (rest \union {x})
      /\ new[x].status # "reserved" => Open(new) = rest
      /\ rest \union {x} \in SUBSET Requests
      /\ rest \in SUBSET (Requests \ {x})
  BY DEF Open
<1>4. Reserved(new) = Total(g, Open(new)) /\ Reserved(old) = Total(f, Open(old))
  BY DEF Reserved
<1> HIDE DEF f, g, rest
<1>5. Total(f, rest) =< Total(f, Open(old))
  BY <1>1, <1>3, PlanAssumption, TotalSubset
<1>6. Total(g, rest) = Total(f, rest)
  BY <1>2, <1>3, TotalAgree
<1>7. Total(g, rest \union {x}) = Total(g, rest) + g[x]
  BY <1>1, <1>3, PlanAssumption, TotalAdd
<1>8. Total(g, Open(new)) =< Total(g, rest \union {x})
  BY <1>1, <1>3, PlanAssumption, TotalSubset
<1>9. /\ Total(f, rest) \in Nat /\ Total(f, Open(old)) \in Nat
      /\ Total(g, Open(new)) \in Nat /\ Total(g, rest) \in Nat
  <2>1. f \in [Requests -> Int] /\ g \in [Requests -> Int] /\ Open(new) \in SUBSET Requests
    BY <1>1, <1>3
  <2> QED BY <2>1, <1>3, PlanAssumption, TotalNat
<1>10. g[x] \in Nat
  BY <1>1
<1>11. Reserved(new) =< Reserved(old) + g[x]
  BY <1>4, <1>5, <1>6, <1>7, <1>8, <1>9, <1>10
<1>12. new[x].status # "reserved" => Reserved(new) =< Reserved(old)
  BY <1>3, <1>4, <1>5, <1>6
<1> QED BY <1>1, <1>11, <1>12

(* A step of s leaves the other sessions and their hold on the period.     *)
KeepsStreams(s) ==
    \A t \in Streamers \ {s} : /\ work'[t] = work[t] /\ pc'[t] = pc[t]
                               /\ owner[p1] = t => owner'[p1] = t

(* A statement of s that commits nothing.                                  *)
LEMMA StreamOwnStep ==
    ASSUME CapInv, StreamTyped', NEW s \in Streamers, event' = event,
           KeepsStreams(s), StreamSession(s)'
    PROVE  CapInv'
<1>1. \A r \in Requests : KnownRow(r, event'[r])
  BY DEF CapInv
<1>2. Reserved(event') =< 4
  BY DEF CapInv
<1>3. ASSUME NEW t \in Streamers, t # s
      PROVE  StreamSession(t)'
  <2>1. /\ StreamSession(t) /\ work'[t] = work[t] /\ pc'[t] = pc[t]
        /\ owner[p1] = t => owner'[p1] = t
    BY <1>3 DEF CapInv, KeepsStreams
  <2> QED BY <2>1 DEF StreamSession, Reserves, Stream!Kind, Stream!Target, KnownRow
<1> QED BY <1>1, <1>2, <1>3 DEF CapInv, KnownRow

(* What a stream session holds are values of their types.                  *)
LEMMA StreamWorkTypes ==
    ASSUME StreamTyped, NEW s \in Streamers
    PROVE  /\ work[s].view \in [{p1} -> Nat]
           /\ work[s].dirty \subseteq {p1}
           /\ work[s].refund \in Nat
           /\ work[s].credit \in Int
           /\ work[s].row \in Stream!EventRows
           /\ work[s].row.period = p1
           /\ work[s].written \in BOOLEAN
BY DEF StreamTyped, Stream!WorkSpaces, Stream!EventRows

(* While nothing has lapsed a session sees what is committed, and its row. *)
LEMMA StreamSees ==
    ASSUME StreamTyped, NEW s \in Streamers, work[s].expired = {}
    PROVE  /\ Stream!Seen(s) \in [Requests -> Stream!EventRows]
           /\ ~ work[s].written => Stream!Seen(s) = event
           /\ \A r \in Requests \ {Stream!Target(s)} : Stream!Seen(s)[r] = event[r]
           /\ work[s].written => Stream!Seen(s)[Stream!Target(s)] = work[s].row
<1>1. Stream!Target(s) \in Requests /\ work[s].row \in Stream!EventRows
  BY StreamPlanTypes, StreamWorkTypes
<1>2. event \in [Requests -> Stream!EventRows]
  BY DEF StreamTyped
<1>3. Stream!Seen(s) = [r \in Requests |->
          IF r = Stream!Target(s) /\ work[s].written THEN work[s].row ELSE event[r]]
  BY DEF Stream!Seen
<1>4. ~ work[s].written => Stream!Seen(s) = event
  BY <1>2, <1>3
<1> QED BY <1>1, <1>2, <1>3, <1>4

(* What a session is going to write.                                       *)
LEMMA StreamOutcome ==
    ASSUME StreamTyped, NEW s \in Streamers
    PROVE  /\ Stream!Outcome(s) \in Stream!EventRows
           /\ KnownRow(Stream!Target(s), Stream!Outcome(s))
           /\ Stream!Outcome(s).status = "reserved" => Reserves(s)
           /\ Reserves(s) => Stream!Outcome(s).tokens = StreamPlan[s].tokens
<1> DEFINE row == work[s].row
           free == Stream!Max0(2 - work[s].view[row.period]) + Stream!PeriodPortion(row)
           n == StreamPlan[s].tokens
           w == n - Stream!Lesser(n, free)
           opened == [row EXCEPT !.status = "reserved", !.tokens = n, !.wallet = w]
           settled == [row EXCEPT !.status = "settled", !.tokens = n, !.wallet = w]
           released == [row EXCEPT !.status = "released"]
<1>1. /\ row \in Stream!EventRows /\ row.period = p1 /\ n \in Nat
      /\ work[s].view \in [{p1} -> Nat]
  BY StreamWorkTypes, StreamPlanTypes
<1>2. free \in Int
  BY <1>1 DEF Stream!Max0, Stream!PeriodPortion, Stream!EventRows
<1>3. w \in Nat
  <2> HIDE DEF free, n
  <2> QED BY <1>1, <1>2 DEF Stream!Lesser
<1>4. /\ opened \in Stream!EventRows /\ opened.status = "reserved" /\ opened.tokens = n
      /\ settled \in Stream!EventRows /\ settled.status = "settled" /\ settled.tokens = n
      /\ released \in Stream!EventRows /\ released.status = "released"
  <2> HIDE DEF row, w, n
  <2> QED BY <1>1, <1>3 DEF Stream!EventRows, Stream!Statuses
<1>5. /\ Reserves(s) => Stream!Outcome(s) = opened
      /\ Stream!Settles(s) => Stream!Outcome(s) = settled
      /\ ~ Reserves(s) /\ ~ Stream!Settles(s) => Stream!Outcome(s) = released
  <2>1. CASE Reserves(s)
    BY <2>1 DEF Stream!Outcome, Stream!Settles, Reserves
  <2>2. CASE Stream!Settles(s)
    BY <2>2 DEF Stream!Outcome, Stream!Settles, Reserves
  <2>3. CASE ~ Reserves(s) /\ ~ Stream!Settles(s)
    BY <2>3 DEF Stream!Outcome, Reserves
  <2>4. ~ (Reserves(s) /\ Stream!Settles(s))
    BY DEF Reserves, Stream!Settles
  <2> QED BY <2>1, <2>2, <2>3, <2>4
<1>6. /\ Reserves(s) => \/ Stream!Target(s) = r1 /\ n = 3
                        \/ Stream!Target(s) = r2 /\ n = 2
      /\ Stream!Settles(s) => Stream!Target(s) = r1 /\ n = 2
  BY StreamPlanTypes
<1> HIDE DEF opened, settled, released, n
<1>7. CASE Reserves(s)
  BY <1>4, <1>5, <1>6, <1>7 DEF KnownRow, n
<1>8. CASE Stream!Settles(s) /\ ~ Reserves(s)
  BY <1>4, <1>5, <1>6, <1>8 DEF KnownRow
<1>9. CASE ~ Reserves(s) /\ ~ Stream!Settles(s)
  BY <1>4, <1>5, <1>9 DEF KnownRow
<1> QED BY <1>7, <1>8, <1>9

(* A session without a transaction has nothing to keep.                    *)
LEMMA StreamBlank ==
    /\ Stream!Blank \in Stream!WorkSpaces
    /\ Stream!Blank.todo = {} /\ Stream!Blank.locked = {} /\ Stream!Blank.expired = {}
    /\ Stream!Blank.written = FALSE
<1>1. (CHOOSE p \in {p1} : TRUE) = p1
  OBVIOUS
<1>2. Stream!NoRow(p1) \in Stream!EventRows
  BY DEF Stream!NoRow, Stream!EventRows, Stream!Statuses
<1> QED BY <1>1, <1>2 DEF Stream!Blank, Stream!WorkSpaces

(* A transaction that ends without effect gives its locks back.            *)
LEMMA StreamRollBack ==
    ASSUME CapInv, NEW s \in Streamers, Stream!RollBack(s), Stream!Uncommitted
    PROVE  CapInv'
<1>1. /\ event' = event /\ used' = used /\ balance' = balance
      /\ owner' = [row \in Stream!Rows |-> IF owner[row] = s THEN Nobody ELSE owner[row]]
      /\ work' = [work EXCEPT ![s] = Stream!Blank]
      /\ pc' = [pc EXCEPT ![s] = "done"]
      /\ StreamTyped
  BY DEF Stream!RollBack, Stream!Uncommitted, Stream!Goto, CapInv
<1>2. StreamTyped'
  <2>1. work' \in [Streamers -> Stream!WorkSpaces]
    BY <1>1, StreamBlank DEF StreamTyped
  <2>2. /\ pc' \in [Streamers -> Stream!Statements]
        /\ owner' \in [Stream!Rows -> Streamers \union {Nobody}]
    BY <1>1 DEF StreamTyped, Stream!Statements
  <2> QED BY <1>1, <2>1, <2>2 DEF StreamTyped
<1>3. p1 \in Stream!Rows
  BY DEF Stream!Rows
<1>4. KeepsStreams(s)
  BY <1>1, <1>3 DEF KeepsStreams, StreamTyped
<1>5. work'[s] = Stream!Blank /\ pc'[s] = "done"
  BY <1>1 DEF StreamTyped
<1>6. StreamSession(s)'
  BY <1>5, StreamBlank DEF StreamSession
<1> QED BY <1>1, <1>2, <1>4, <1>6, StreamOwnStep

(* Statements that change no lock but perhaps their own, and of the work   *)
(* nothing but what the type says.                                         *)
LEMMA StreamLocks ==
    ASSUME StreamTyped, NEW s \in Streamers, NEW row \in Stream!Rows, Stream!Lock(s, row)
    PROVE  /\ owner' \in [Stream!Rows -> Streamers \union {Nobody}]
           /\ owner'[row] = s
           /\ owner[p1] = s => owner'[p1] = s
           /\ \A t \in Streamers \ {s} : owner[p1] = t => owner'[p1] = t
<1>1. p1 \in Stream!Rows
  BY DEF Stream!Rows
<1>2. Nobody \notin Streamers
  BY PlanAssumption DEF Streamers
<1>3. /\ owner \in [Stream!Rows -> Streamers \union {Nobody}]
      /\ owner[row] \in {s, Nobody}
      /\ owner' = [owner EXCEPT ![row] = s]
  BY DEF Stream!Lock, Stream!CanLock, StreamTyped
<1>4. owner' \in [Stream!Rows -> Streamers \union {Nobody}] /\ owner'[row] = s
  BY <1>3
<1>5. owner[p1] = s => owner'[p1] = s
  BY <1>1, <1>3
<1>6. ASSUME NEW t \in Streamers \ {s}, owner[p1] = t
      PROVE  owner'[p1] = t
  BY <1>1, <1>2, <1>3, <1>6
<1> QED BY <1>4, <1>5, <1>6

(* Begin: nothing is stale.                                                *)
LEMMA StreamBegin ==
    ASSUME CapInv, due = {}, NEW s \in Streamers, Stream!Begin(s)
    PROVE  CapInv'
<1> DEFINE x == IF Stream!Streaming(s) THEN "load" ELSE "expire"
<1>1. /\ event' = event /\ used' = used /\ balance' = balance /\ owner' = owner
      /\ pc[s] = "begin"
      /\ work' = [work EXCEPT ![s].todo = {}]
      /\ pc' = [pc EXCEPT ![s] = x]
      /\ StreamTyped /\ StreamSession(s)
  BY DEF Stream!Begin, Stream!Uncommitted, Stream!Goto, Stream!Stale, CapInv
<1>2. x \in Stream!Statements /\ x \in {"load", "expire"}
  BY DEF Stream!Statements
<1> HIDE DEF x
<1>3. StreamTyped'
  <2>1. work' \in [Streamers -> Stream!WorkSpaces]
    <3>1. work \in [Streamers -> Stream!WorkSpaces] /\ work[s] \in Stream!WorkSpaces
      BY <1>1 DEF StreamTyped
    <3>2. [work[s] EXCEPT !.todo = {}] \in Stream!WorkSpaces
      BY <3>1 DEF Stream!WorkSpaces
    <3> QED BY <1>1, <3>1, <3>2
  <2> QED BY <1>1, <1>2, <2>1 DEF StreamTyped
<1>4. /\ KeepsStreams(s)
      /\ pc'[s] = x
      /\ work'[s].todo = {}
      /\ work'[s].locked = work[s].locked
      /\ work'[s].expired = work[s].expired
      /\ work'[s].written = work[s].written
  BY <1>1 DEF KeepsStreams, StreamTyped, Stream!WorkSpaces
<1>5. StreamSession(s)'
  BY <1>1, <1>2, <1>4 DEF StreamSession
<1> QED BY <1>1, <1>3, <1>4, <1>5, StreamOwnStep

(* A session whose work stays goes on to its next statement.               *)
LEMMA StreamNextStatement ==
    ASSUME CapInv, NEW s \in Streamers, NEW x \in Stream!Statements,
           event' = event, used' = used, balance' = balance, work' = work,
           pc' = [pc EXCEPT ![s] = x],
           owner' \in [Stream!Rows -> Streamers \union {Nobody}],
           \A t \in Streamers \ {s} : owner[p1] = t => owner'[p1] = t,
           StreamSession(s)'
    PROVE  CapInv'
<1>1. StreamTyped'
  BY DEF CapInv, StreamTyped
<1>2. KeepsStreams(s)
  BY DEF CapInv, KeepsStreams, StreamTyped
<1> QED BY <1>1, <1>2, StreamOwnStep

(* There was nothing to expire: a reservation goes on to recalculate.      *)
LEMMA StreamExpired ==
    ASSUME CapInv, NEW s \in Streamers, Stream!Expired(s)
    PROVE  CapInv'
<1> DEFINE x == CASE Stream!Router(s) -> "event"
                  [] Stream!Kind(s) = "recalculate" -> "sum"
                  [] Stream!Kind(s) = "reserve"
                       /\ Stream!Seen(s)[Stream!Target(s)].status = "none" -> "sum"
                  [] OTHER -> "commit"
<1>1. /\ event' = event /\ used' = used /\ balance' = balance /\ owner' = owner
      /\ work' = work
      /\ pc[s] = "expire"
      /\ pc' = [pc EXCEPT ![s] = x]
      /\ StreamTyped /\ StreamSession(s)
  BY DEF Stream!Expired, Stream!Uncommitted, Stream!Goto, CapInv
<1>2. x \in {"sum", "commit"}
  <2>1. ~ Stream!Router(s)
    BY StreamPlanTypes
  <2>2. CASE Stream!Kind(s) = "recalculate"
    BY <2>1, <2>2
  <2>3. CASE Stream!Kind(s) = "reserve"
    BY <2>1, <2>3
  <2>4. CASE Stream!Kind(s) \notin {"recalculate", "reserve"}
    BY <2>1, <2>4
  <2> QED BY <2>2, <2>3, <2>4
<1> HIDE DEF x
<1>3. x \in Stream!Statements /\ pc'[s] = x
  BY <1>1, <1>2 DEF Stream!Statements, StreamTyped
<1>4. StreamSession(s)'
  BY <1>1, <1>2, <1>3 DEF StreamSession, Reserves, Stream!Kind
<1>5. owner \in [Stream!Rows -> Streamers \union {Nobody}]
  BY <1>1 DEF StreamTyped
<1> QED BY <1>1, <1>3, <1>4, <1>5, StreamNextStatement

(* The recalculation, and a view of the counter that may be stale.         *)
LEMMA StreamSum ==
    ASSUME CapInv, NEW s \in Streamers, NEW p \in {p1}, Stream!Sum(s, p)
    PROVE  CapInv'
<1> DEFINE sum == Stream!PeriodUsed(Stream!Seen(s), p)
           dirty == IF sum = Stream!LockedUsed(s, p) THEN work[s].dirty
                    ELSE work[s].dirty \union {p}
           row == IF work[s].written THEN work[s].row ELSE Stream!NoRow(p)
<1>1. /\ event' = event /\ used' = used /\ balance' = balance /\ owner' = owner
      /\ pc[s] = "sum"
      /\ pc' = [pc EXCEPT ![s] = "update"]
      /\ work' = [work EXCEPT ![s].view[p] = sum, ![s].dirty = dirty, ![s].row = row]
      /\ StreamTyped /\ StreamSession(s)
  BY DEF Stream!Sum, Stream!Uncommitted, Stream!Goto, CapInv
<1>2. ~ work[s].written
  BY <1>1 DEF StreamSession
<1>3. sum \in Nat
  <2> DEFINE f == [r \in Requests |-> Stream!PeriodPortion(Stream!Seen(s)[r])]
             T == {r \in Requests : /\ Stream!Counts(Stream!Seen(s), r)
                                    /\ Stream!Seen(s)[r].period = p}
  <2>1. Stream!Seen(s) \in [Requests -> Stream!EventRows]
    BY <1>1, StreamSees DEF StreamSession
  <2>2. f \in [Requests -> Int]
    BY <2>1 DEF Stream!PeriodPortion, Stream!EventRows
  <2>3. T \in SUBSET Requests
    OBVIOUS
  <2>4. sum = Stream!Total(f, T)
    BY DEF Stream!PeriodUsed
  <2> HIDE DEF f, T, sum
  <2>5. Total(f, T) \in Nat
    BY <2>2, <2>3, PlanAssumption, TotalNat
  <2> QED BY <2>4, <2>5, StreamTotal
<1>4. dirty \subseteq {p1} /\ row \in Stream!EventRows
  <2>1. Stream!NoRow(p) \in Stream!EventRows
    BY DEF Stream!NoRow, Stream!EventRows, Stream!Statuses
  <2> QED BY <1>1, <2>1, StreamWorkTypes
<1> HIDE DEF sum, dirty, row
<1>5. StreamTyped'
  <2> DEFINE a == [work EXCEPT ![s].view[p] = sum]
             b == [a EXCEPT ![s].dirty = dirty]
             c == [b EXCEPT ![s].row = row]
  <2>1. work \in [Streamers -> Stream!WorkSpaces]
    BY <1>1 DEF StreamTyped
  <2>2. a \in [Streamers -> Stream!WorkSpaces]
    BY <1>3, <2>1 DEF Stream!WorkSpaces
  <2>3. work' = c
    BY <1>1
  <2> HIDE DEF a
  <2>4. b \in [Streamers -> Stream!WorkSpaces]
    BY <1>4, <2>2 DEF Stream!WorkSpaces
  <2> HIDE DEF b
  <2>5. c \in [Streamers -> Stream!WorkSpaces]
    BY <1>4, <2>4 DEF Stream!WorkSpaces
  <2> HIDE DEF c
  <2>6. pc' \in [Streamers -> Stream!Statements]
    BY <1>1 DEF StreamTyped, Stream!Statements
  <2> QED BY <1>1, <2>3, <2>5, <2>6 DEF StreamTyped
<1>6. /\ KeepsStreams(s)
      /\ pc'[s] = "update"
      /\ work'[s].todo = work[s].todo
      /\ work'[s].locked = work[s].locked
      /\ work'[s].expired = work[s].expired
      /\ work'[s].written = work[s].written
  BY <1>1 DEF KeepsStreams, StreamTyped, Stream!WorkSpaces
<1>7. StreamSession(s)'
  BY <1>1, <1>2, <1>6 DEF StreamSession
<1> QED BY <1>1, <1>5, <1>6, <1>7, StreamOwnStep

(* The UPDATE locks the period, and from there the session has it.         *)
LEMMA StreamUpdate ==
    ASSUME CapInv, NEW s \in Streamers, Stream!Update(s)
    PROVE  CapInv'
<1> DEFINE x == IF \/ Stream!Kind(s) # "reserve"
                   \/ Stream!Seen(s)[Stream!Target(s)].status # "none"
                THEN "commit"
                ELSE IF Stream!TouchesWallet(s) THEN "wallet" ELSE "limits"
<1>1. /\ event' = event /\ used' = used /\ balance' = balance /\ work' = work
      /\ pc[s] = "update"
      /\ pc' = [pc EXCEPT ![s] = x]
      /\ Stream!Lock(s, work[s].row.period)
      /\ StreamTyped /\ StreamSession(s)
  BY DEF Stream!Update, Stream!Uncommitted, Stream!Goto, CapInv
<1>2. x \in {"commit", "wallet", "limits"}
  OBVIOUS
<1> HIDE DEF x
<1>3. x \in Stream!Statements /\ pc'[s] = x
  BY <1>1, <1>2 DEF Stream!Statements, StreamTyped
<1>4. work[s].row.period = p1 /\ p1 \in Stream!Rows
  BY <1>1, StreamWorkTypes DEF Stream!Rows
<1>5. /\ owner' \in [Stream!Rows -> Streamers \union {Nobody}]
      /\ owner'[p1] = s
      /\ \A t \in Streamers \ {s} : owner[p1] = t => owner'[p1] = t
  BY <1>1, <1>4, StreamLocks
<1>6. StreamSession(s)'
  BY <1>1, <1>2, <1>3, <1>5 DEF StreamSession, Reserves, Stream!Kind
<1> QED BY <1>1, <1>3, <1>5, <1>6, StreamNextStatement


(* A stream reads its event; nothing is overdue.                           *)
LEMMA StreamLoad ==
    ASSUME CapInv, due = {}, NEW s \in Streamers, Stream!Load(s)
    PROVE  CapInv'
<1> DEFINE row == event[Stream!Target(s)]
           x == IF row.status = "reserved" THEN "period" ELSE "done"
<1>1. /\ event' = event /\ used' = used /\ balance' = balance /\ owner' = owner
      /\ pc[s] = "load"
      /\ work' = [work EXCEPT ![s].row = row]
      /\ pc' = [pc EXCEPT ![s] = x]
      /\ StreamTyped /\ StreamSession(s)
  BY DEF Stream!Load, Stream!Uncommitted, Stream!Goto, CapInv
<1>2. x \in Stream!Statements /\ x \in {"period", "done"}
  BY DEF Stream!Statements
<1>3. row \in Stream!EventRows
  BY <1>1, StreamPlanTypes DEF StreamTyped
<1> HIDE DEF x, row
<1>4. StreamTyped'
  <2>1. work \in [Streamers -> Stream!WorkSpaces]
    BY <1>1 DEF StreamTyped
  <2>2. work' \in [Streamers -> Stream!WorkSpaces]
    BY <1>1, <1>3, <2>1 DEF Stream!WorkSpaces
  <2> QED BY <1>1, <1>2, <2>2 DEF StreamTyped
<1>5. /\ KeepsStreams(s)
      /\ pc'[s] = x
      /\ work'[s].todo = work[s].todo
      /\ work'[s].locked = work[s].locked
      /\ work'[s].expired = work[s].expired
      /\ work'[s].written = work[s].written
  BY <1>1 DEF KeepsStreams, StreamTyped, Stream!WorkSpaces
<1>6. StreamSession(s)'
  BY <1>1, <1>2, <1>5 DEF StreamSession
<1> QED BY <1>1, <1>4, <1>5, <1>6, StreamOwnStep

(* A stream locks the period and reads it.                                 *)
LEMMA StreamLockPeriod ==
    ASSUME CapInv, NEW s \in Streamers, Stream!LockPeriod(s)
    PROVE  CapInv'
<1> DEFINE p == work[s].row.period
           v == Stream!LockedUsed(s, p)
<1>1. /\ event' = event /\ used' = used /\ balance' = balance
      /\ Stream!Lock(s, p)
      /\ pc[s] = "period"
      /\ work' = [work EXCEPT ![s].view[p] = v]
      /\ pc' = [pc EXCEPT ![s] = "wallet"]
      /\ StreamTyped /\ StreamSession(s)
  BY DEF Stream!LockPeriod, Stream!Uncommitted, Stream!Goto, CapInv
<1>2. p = p1 /\ p1 \in Stream!Rows
  BY <1>1, StreamWorkTypes DEF Stream!Rows
<1>3. v \in Nat
  BY <1>1, <1>2, StreamWorkTypes DEF Stream!LockedUsed, StreamTyped
<1> HIDE DEF v, p
<1>4. /\ owner' \in [Stream!Rows -> Streamers \union {Nobody}]
      /\ owner'[p1] = s
      /\ \A t \in Streamers \ {s} : owner[p1] = t => owner'[p1] = t
  BY <1>1, <1>2, StreamLocks
<1>5. StreamTyped'
  <2>1. work \in [Streamers -> Stream!WorkSpaces]
    BY <1>1 DEF StreamTyped
  <2>2. work' \in [Streamers -> Stream!WorkSpaces]
    BY <1>1, <1>3, <2>1 DEF Stream!WorkSpaces
  <2>3. pc' \in [Streamers -> Stream!Statements]
    BY <1>1 DEF StreamTyped, Stream!Statements
  <2> QED BY <1>1, <1>4, <2>2, <2>3 DEF StreamTyped
<1>6. /\ KeepsStreams(s)
      /\ pc'[s] = "wallet"
      /\ work'[s].todo = work[s].todo
      /\ work'[s].locked = work[s].locked
      /\ work'[s].expired = work[s].expired
      /\ work'[s].written = work[s].written
  BY <1>1, <1>4 DEF KeepsStreams, StreamTyped, Stream!WorkSpaces
<1>7. StreamSession(s)'
  BY <1>1, <1>4, <1>6 DEF StreamSession
<1> QED BY <1>1, <1>5, <1>6, <1>7, StreamOwnStep

(* The wallet is locked beside the period, or the call fails.              *)
LEMMA StreamLockWallet ==
    ASSUME CapInv, NEW s \in Streamers, Stream!LockWallet(s)
    PROVE  CapInv'
<1> DEFINE x == IF Stream!Kind(s) = "reserve" THEN "limits" ELSE "flush"
<1>1. /\ pc[s] = "wallet"
      /\ Stream!TouchesWallet(s) => Stream!CanLock(s, Wallet)
      /\ Stream!Uncommitted
      /\ StreamTyped /\ StreamSession(s)
  BY DEF Stream!LockWallet, CapInv
<1>2. CASE Stream!RollBack(s)
  BY <1>1, <1>2, StreamRollBack
<1>3. CASE ~ Stream!RollBack(s)
  <2>1. /\ owner' = IF Stream!TouchesWallet(s) THEN [owner EXCEPT ![Wallet] = s] ELSE owner
        /\ pc' = [pc EXCEPT ![s] = x]
        /\ work' = work /\ event' = event /\ used' = used /\ balance' = balance
    BY <1>1, <1>3 DEF Stream!LockWallet, Stream!Goto, Stream!Uncommitted
  <2>2. x \in Stream!Statements /\ x \in {"limits", "flush"}
    BY DEF Stream!Statements
  <2>3. x = "flush" => ~ Reserves(s)
    BY DEF Reserves
  <2> HIDE DEF x
  <2>4. pc'[s] = x
    BY <1>1, <2>1 DEF StreamTyped
  <2>5. /\ owner' \in [Stream!Rows -> Streamers \union {Nobody}]
        /\ owner[p1] = s => owner'[p1] = s
        /\ \A t \in Streamers \ {s} : owner[p1] = t => owner'[p1] = t
    <3>1. CASE Stream!TouchesWallet(s)
      <4>1. Stream!Lock(s, Wallet) /\ Wallet \in Stream!Rows
        BY <1>1, <2>1, <3>1 DEF Stream!Lock, Stream!Rows
      <4> QED BY <1>1, <4>1, StreamLocks
    <3>2. CASE ~ Stream!TouchesWallet(s)
      BY <1>1, <2>1, <3>2 DEF StreamTyped
    <3> QED BY <3>1, <3>2
  <2>6. StreamSession(s)'
    BY <1>1, <2>1, <2>2, <2>3, <2>4, <2>5 DEF StreamSession, Reserves, Stream!Kind
  <2> QED BY <2>1, <2>2, <2>5, <2>6, StreamNextStatement
<1> QED BY <1>2, <1>3

(* What a capped key has spent counts at least what is reserved.           *)
LEMMA CreditsCoverReserved ==
    ASSUME StreamTyped, due = {}
    PROVE  /\ Stream!CreditsUsed(event) \in Nat
           /\ Reserved(event) =< Stream!CreditsUsed(event)
<1> DEFINE T == {r \in Requests : Stream!Counts(event, r)}
<1>1. Tokens(event) \in [Requests -> Nat] /\ Tokens(event) \in [Requests -> Int]
  BY ReservedType DEF StreamTyped
<1>2. T \in SUBSET Requests /\ Open(event) \in SUBSET T
  BY DEF Open, Stream!Counts, Stream!Live
<1>3. Stream!CreditsUsed(event) = Stream!Total(Tokens(event), T)
  BY DEF Stream!CreditsUsed, Tokens
<1> HIDE DEF T
<1>4. Total(Tokens(event), Open(event)) =< Total(Tokens(event), T)
  BY <1>1, <1>2, PlanAssumption, TotalSubset
<1>5. Total(Tokens(event), T) \in Nat
  BY <1>1, <1>2, PlanAssumption, TotalNat
<1> QED BY <1>3, <1>4, <1>5, StreamTotal DEF Reserved

(* Under the lock of the period the key has room for what is reserved.     *)
LEMMA StreamEnforceLimits ==
    ASSUME CapInv, due = {}, NEW s \in Streamers, Stream!EnforceLimits(s)
    PROVE  CapInv'
<1>1. /\ pc[s] = "limits"
      /\ Stream!Uncommitted
      /\ StreamTyped /\ StreamSession(s)
  BY DEF Stream!EnforceLimits, CapInv
<1>2. CASE Stream!RollBack(s)
  BY <1>1, <1>2, StreamRollBack
<1>3. CASE ~ Stream!RollBack(s)
  <2>1. /\ pc' = [pc EXCEPT ![s] = "flush"]
        /\ work' = work /\ event' = event /\ used' = used /\ balance' = balance
        /\ owner' = owner
        /\ ~ (Stream!CreditsUsed(Stream!Seen(s)) + StreamPlan[s].tokens > 4)
    BY <1>1, <1>3 DEF Stream!EnforceLimits, Stream!Goto, Stream!Uncommitted
  <2>2. Stream!Seen(s) = event
    BY <1>1, StreamSees DEF StreamSession
  <2>3. Reserved(event) + StreamPlan[s].tokens =< 4
    <3>1. Stream!CreditsUsed(event) \in Nat /\ Reserved(event) =< Stream!CreditsUsed(event)
      BY <1>1, CreditsCoverReserved
    <3>2. Reserved(event) \in Nat /\ StreamPlan[s].tokens \in Nat
      BY <1>1, ReservedType, StreamPlanTypes DEF StreamTyped
    <3>3. ~ (Stream!CreditsUsed(event) + StreamPlan[s].tokens > 4)
      BY <2>1, <2>2
    <3> QED BY <3>1, <3>2, <3>3
  <2>4. pc'[s] = "flush" /\ "flush" \in Stream!Statements
    BY <1>1, <2>1 DEF StreamTyped, Stream!Statements
  <2>5. /\ owner \in [Stream!Rows -> Streamers \union {Nobody}]
        /\ \A t \in Streamers \ {s} : owner[p1] = t => owner'[p1] = t
    BY <1>1, <2>1 DEF StreamTyped
  <2>6. Reserved(event') = Reserved(event)
    BY <2>1
  <2>7. StreamSession(s)'
    BY <1>1, <2>1, <2>3, <2>4, <2>6 DEF StreamSession, Reserves, Stream!Kind
  <2> QED BY <2>1, <2>4, <2>5, <2>7, StreamNextStatement
<1> QED BY <1>2, <1>3


(* The write of the event: what was reserved fits under the cap.           *)
LEMMA StreamFlush ==
    ASSUME CapInv, NEW s \in Streamers, Stream!Flush(s)
    PROVE  CapInv'
<1> DEFINE row == work[s].row
           out == Stream!Outcome(s)
           p == row.period
           t == Stream!Target(s)
           booked == Stream!Max0(work[s].view[p] - Stream!PeriodPortion(row)
                                   + Stream!PeriodPortion(out))
           dirty == IF booked = work[s].view[p] THEN work[s].dirty
                    ELSE work[s].dirty \union {p}
           credit == work[s].credit + Stream!WalletPortion(row) - Stream!WalletPortion(out)
<1>1. /\ pc[s] = "flush"
      /\ Stream!CanLock(s, t)
      /\ Stream!Uncommitted
      /\ StreamTyped /\ StreamSession(s)
  BY DEF Stream!Flush, CapInv
<1>2. CASE Stream!RollBack(s)
  BY <1>1, <1>2, StreamRollBack
<1>3. CASE ~ Stream!RollBack(s)
  <2>1. /\ owner' = [owner EXCEPT ![t] = s]
        /\ work' = [work EXCEPT ![s].view[p] = booked,
                                ![s].dirty = dirty,
                                ![s].credit = credit,
                                ![s].row = out,
                                ![s].written = TRUE]
        /\ pc' = [pc EXCEPT ![s] = "commit"]
        /\ event' = event /\ used' = used /\ balance' = balance
    BY <1>1, <1>3, StreamPlanTypes DEF Stream!Flush, Stream!Goto, Stream!Uncommitted
  <2>2. /\ out \in Stream!EventRows
        /\ KnownRow(t, out)
        /\ out.status = "reserved" => Reserves(s)
        /\ Reserves(s) => out.tokens = StreamPlan[s].tokens
    BY <1>1, StreamOutcome
  <2>3. /\ row \in Stream!EventRows /\ p = p1
        /\ work[s].view \in [{p1} -> Nat] /\ work[s].dirty \subseteq {p1}
        /\ work[s].credit \in Int
    BY <1>1, StreamWorkTypes
  <2>4. t \in Requests /\ t \in Stream!Rows
    BY StreamPlanTypes DEF Stream!Rows
  <2> HIDE DEF row, out, t
  <2>5. booked \in Nat
    BY <2>2, <2>3 DEF Stream!Max0, Stream!PeriodPortion, Stream!EventRows
  <2>6. credit \in Int
    BY <2>2, <2>3 DEF Stream!WalletPortion, Stream!EventRows
  <2>7. dirty \subseteq {p1}
    BY <2>3
  <2> HIDE DEF p, booked, dirty, credit
  <2>8. work' \in [Streamers -> Stream!WorkSpaces]
    <3> DEFINE a == [work EXCEPT ![s].view[p] = booked]
               b == [a EXCEPT ![s].dirty = dirty]
               c == [b EXCEPT ![s].credit = credit]
               d == [c EXCEPT ![s].row = out]
               e == [d EXCEPT ![s].written = TRUE]
    <3>1. work \in [Streamers -> Stream!WorkSpaces]
      BY <1>1 DEF StreamTyped
    <3>2. work' = e
      BY <2>1
    <3>3. a \in [Streamers -> Stream!WorkSpaces]
      BY <2>3, <2>5, <3>1 DEF Stream!WorkSpaces
    <3> HIDE DEF a
    <3>4. b \in [Streamers -> Stream!WorkSpaces]
      BY <2>7, <3>3 DEF Stream!WorkSpaces
    <3> HIDE DEF b
    <3>5. c \in [Streamers -> Stream!WorkSpaces]
      BY <2>6, <3>4 DEF Stream!WorkSpaces
    <3> HIDE DEF c
    <3>6. d \in [Streamers -> Stream!WorkSpaces]
      BY <2>2, <3>5 DEF Stream!WorkSpaces
    <3> HIDE DEF d
    <3>7. e \in [Streamers -> Stream!WorkSpaces]
      BY <3>6 DEF Stream!WorkSpaces
    <3> HIDE DEF e
    <3> QED BY <3>2, <3>7
  <2>9. /\ owner' \in [Stream!Rows -> Streamers \union {Nobody}]
        /\ owner[p1] = s => owner'[p1] = s
        /\ \A z \in Streamers \ {s} : owner[p1] = z => owner'[p1] = z
    <3>1. Stream!Lock(s, t)
      BY <1>1, <2>1 DEF Stream!Lock
    <3> QED BY <1>1, <2>4, <3>1, StreamLocks
  <2>10. StreamTyped'
    <3>1. pc' \in [Streamers -> Stream!Statements]
      BY <1>1, <2>1 DEF StreamTyped, Stream!Statements
    <3> QED BY <1>1, <2>1, <2>8, <2>9, <3>1 DEF StreamTyped
  <2>11. /\ \A z \in Streamers \ {s} : work'[z] = work[z] /\ pc'[z] = pc[z]
         /\ pc'[s] = "commit"
         /\ work'[s].todo = work[s].todo
         /\ work'[s].locked = work[s].locked
         /\ work'[s].expired = work[s].expired
         /\ work'[s].written = TRUE
         /\ work'[s].row = out
    BY <1>1, <2>1 DEF StreamTyped, Stream!WorkSpaces
  <2>12. KeepsStreams(s)
    BY <2>9, <2>11 DEF KeepsStreams
  <2>13. Reserved(event') = Reserved(event) /\ Stream!Target(s) = t
    BY <2>1 DEF t
  <2>14. StreamSession(s)'
    BY <1>1, <2>2, <2>9, <2>11, <2>13
       DEF StreamSession, Reserves, Stream!Kind, Stream!Target, KnownRow
  <2> QED BY <2>1, <2>10, <2>12, <2>14, StreamOwnStep
<1> QED BY <1>2, <1>3

(* What another session knows of the sum of the reserved rows outlives a   *)
(* commit: a session that adds to the sum holds the period, and then no    *)
(* other does.                                                             *)
LEMMA StreamCommit ==
    ASSUME CapInv, NEW s \in Streamers, Stream!Commit(s)
    PROVE  CapInv'
<1> DEFINE t == Stream!Target(s)
<1>1. /\ event' = Stream!Seen(s)
      /\ used' = [p \in {p1} |-> IF p \in work[s].dirty THEN work[s].view[p] ELSE used[p]]
      /\ balance' = balance + work[s].credit
      /\ owner' = [row \in Stream!Rows |-> IF owner[row] = s THEN Nobody ELSE owner[row]]
      /\ work' = [work EXCEPT ![s] = Stream!Blank]
      /\ pc' = [pc EXCEPT ![s] = "done"]
      /\ StreamTyped /\ StreamSession(s) /\ work[s].expired = {}
      /\ t \in Requests
  BY StreamPlanTypes DEF Stream!Commit, Stream!Goto, CapInv, StreamSession
<1>2. /\ event \in [Requests -> Stream!EventRows]
      /\ event' \in [Requests -> Stream!EventRows]
      /\ ~ work[s].written => event' = event
      /\ \A r \in Requests \ {t} : event'[r] = event[r]
      /\ work[s].written => event'[t] = work[s].row
  BY <1>1, StreamSees DEF StreamTyped
<1>3. StreamTyped'
  <2>1. work' \in [Streamers -> Stream!WorkSpaces]
    BY <1>1, StreamBlank DEF StreamTyped
  <2>2. /\ pc' \in [Streamers -> Stream!Statements]
        /\ owner' \in [Stream!Rows -> Streamers \union {Nobody}]
    BY <1>1 DEF StreamTyped, Stream!Statements
  <2>3. used' \in [{p1} -> Nat] /\ balance' \in Int
    <3>1. /\ work[s].view \in [{p1} -> Nat] /\ work[s].credit \in Int
          /\ used \in [{p1} -> Nat] /\ balance \in Int
      BY <1>1, StreamWorkTypes DEF StreamTyped
    <3> QED BY <1>1, <3>1
  <2> QED BY <1>2, <2>1, <2>2, <2>3 DEF StreamTyped
<1>4. \A r \in Requests : KnownRow(r, event[r])
  BY DEF CapInv
<1>5. ASSUME NEW r \in Requests
      PROVE  KnownRow(r, event'[r])
  <2>1. CASE r = t /\ work[s].written
    <3>1. KnownRow(t, work[s].row)
      BY <1>1, <2>1 DEF StreamSession
    <3> QED BY <1>2, <2>1, <3>1
  <2>2. CASE ~ (r = t /\ work[s].written)
    BY <1>2, <1>4, <2>2
  <2> QED BY <2>1, <2>2
<1>6. Reserved(event) \in Nat /\ Reserved(event') \in Nat /\ Reserved(event) =< 4
  BY <1>2, ReservedType DEF CapInv
<1>7. CASE Reserves(s) /\ work[s].written
  <2>1. /\ owner[p1] = s
        /\ Reserved(event) + StreamPlan[s].tokens =< 4
        /\ event'[t].tokens = StreamPlan[s].tokens
    BY <1>1, <1>2, <1>7 DEF StreamSession
  <2>2. Reserved(event') =< Reserved(event) + event'[t].tokens
    BY <1>1, <1>2, ReservedAfter
  <2>3. Reserved(event') =< 4
    <3>1. StreamPlan[s].tokens \in Nat
      BY StreamPlanTypes
    <3> QED BY <1>6, <2>1, <2>2, <3>1
  <2>4. ASSUME NEW z \in Streamers
        PROVE  StreamSession(z)'
    <3>1. CASE z = s
      <4>1. work'[z] = Stream!Blank /\ pc'[z] = "done"
        BY <1>1, <3>1 DEF StreamTyped
      <4> QED BY <4>1, StreamBlank DEF StreamSession
    <3>2. CASE z # s
      <4>1. StreamSession(z) /\ work'[z] = work[z] /\ pc'[z] = pc[z] /\ owner[p1] # z
        BY <1>1, <2>1, <3>2 DEF CapInv, StreamTyped
      <4> QED BY <4>1 DEF StreamSession, Reserves, Stream!Kind, Stream!Target, KnownRow
    <3> QED BY <3>1, <3>2
  <2> QED BY <1>3, <1>5, <2>3, <2>4 DEF CapInv, KnownRow
<1>8. CASE ~ (Reserves(s) /\ work[s].written)
  <2>1. Reserved(event') =< Reserved(event)
    <3>1. CASE ~ work[s].written
      BY <1>2, <1>6, <3>1
    <3>2. CASE work[s].written
      <4>1. event'[t].status # "reserved"
        BY <1>1, <1>2, <1>8, <3>2 DEF StreamSession
      <4> QED BY <1>1, <1>2, <4>1, ReservedAfter
    <3> QED BY <3>1, <3>2
  <2>2. ASSUME NEW z \in Streamers
        PROVE  StreamSession(z)'
    <3>1. CASE z = s
      <4>1. work'[z] = Stream!Blank /\ pc'[z] = "done"
        BY <1>1, <3>1 DEF StreamTyped
      <4> QED BY <4>1, StreamBlank DEF StreamSession
    <3>2. CASE z # s
      <4>1. StreamSession(z) /\ work'[z] = work[z] /\ pc'[z] = pc[z]
        BY <1>1, <3>2 DEF CapInv, StreamTyped
      <4>2. owner[p1] = z => owner'[p1] = z
        BY <1>1, <3>2 DEF Stream!Rows
      <4>3. Reserved(event) + StreamPlan[z].tokens =< 4
              => Reserved(event') + StreamPlan[z].tokens =< 4
        <5>1. StreamPlan[z].tokens \in Nat
          BY StreamPlanTypes
        <5> QED BY <1>6, <2>1, <5>1
      <4> QED BY <4>1, <4>2, <4>3
              DEF StreamSession, Reserves, Stream!Kind, Stream!Target, KnownRow
    <3> QED BY <3>1, <3>2
  <2>3. Reserved(event') =< 4
    BY <1>6, <2>1
  <2> QED BY <1>3, <1>5, <2>2, <2>3 DEF CapInv, KnownRow
<1> QED BY <1>7, <1>8


(* A step that changes nothing of the scene.                               *)
LEMMA StreamIdle ==
    ASSUME CapInv, UNCHANGED <<event, used, balance, owner, pc, work>>
    PROVE  CapInv'
<1>1. /\ event' = event /\ used' = used /\ balance' = balance
      /\ owner' = owner /\ pc' = pc /\ work' = work
  OBVIOUS
<1>2. StreamTyped'
  BY <1>1 DEF CapInv, StreamTyped
<1>3. \A s \in Streamers : StreamSession(s)'
  BY <1>1 DEF CapInv, StreamSession, Reserves, Stream!Kind, Stream!Target, KnownRow
<1> QED BY <1>1, <1>2, <1>3 DEF CapInv, KnownRow


(* What has fallen due stays so.                                           *)
LEMMA StreamDueGrows ==
    ASSUME Stream!Next, due' = {}
    PROVE  due = {}
<1>1. ASSUME NEW s \in Streamers, Stream!Step(s) \/ Stream!Crash(s)
      PROVE  due' = due
  BY <1>1 DEF Stream!Step, Stream!Begin, Stream!LockStale, Stream!ExpireOne, Stream!Refund,
     Stream!Expired, Stream!Sum, Stream!Update, Stream!Load, Stream!LoadForUpdate,
     Stream!LockPeriod, Stream!LockWallet, Stream!EnforceLimits, Stream!Flush,
     Stream!Commit, Stream!DeadlockVictim, Stream!Crash, Stream!Uncommitted
<1>2. ASSUME NEW r \in Requests, Stream!Lapse(r)
      PROVE  due' # {}
  BY <1>2 DEF Stream!Lapse
<1>3. Stream!Finished => due' = due
  BY DEF Stream!Finished, Stream!vars
<1> QED BY <1>1, <1>2, <1>3 DEF Stream!Next

(* Every step of the scene, while nothing has lapsed, keeps the invariant. *)
LEMMA StreamStep ==
    ASSUME CapInv, due = {}, due' = {}, Stream!Next
    PROVE  CapInv'
<1>1. ASSUME NEW s \in Streamers, Stream!Step(s) \/ Stream!Crash(s)
      PROVE  CapInv'
  <2>1. StreamSession(s)
    BY DEF CapInv
  <2>2. CASE Stream!Begin(s)
    BY <2>2, StreamBegin
  <2>3. ASSUME NEW r \in Requests, Stream!LockStale(s, r) \/ Stream!ExpireOne(s, r)
        PROVE  CapInv'
    BY <2>1, <2>3 DEF StreamSession, Stream!LockStale, Stream!ExpireOne
  <2>4. CASE Stream!Refund(s)
    BY <2>1, <2>4 DEF StreamSession, Stream!Refund
  <2>5. CASE Stream!Expired(s)
    BY <2>5, StreamExpired
  <2>6. ASSUME NEW p \in {p1}, Stream!Sum(s, p)
        PROVE  CapInv'
    BY <2>6, StreamSum
  <2>7. CASE Stream!Update(s)
    BY <2>7, StreamUpdate
  <2>8. CASE Stream!Load(s)
    BY <2>8, StreamLoad
  <2>9. CASE Stream!LoadForUpdate(s)
    BY <2>1, <2>9 DEF StreamSession, Stream!LoadForUpdate
  <2>10. CASE Stream!LockPeriod(s)
    BY <2>10, StreamLockPeriod
  <2>11. CASE Stream!LockWallet(s)
    BY <2>11, StreamLockWallet
  <2>12. CASE Stream!EnforceLimits(s)
    BY <2>12, StreamEnforceLimits
  <2>13. CASE Stream!Flush(s)
    BY <2>13, StreamFlush
  <2>14. CASE Stream!Commit(s)
    BY <2>14, StreamCommit
  <2>15. CASE Stream!DeadlockVictim(s)
    BY <2>15, StreamRollBack DEF Stream!DeadlockVictim
  <2>16. CASE Stream!Crash(s)
    BY <2>16, StreamRollBack DEF Stream!Crash
  <2> QED BY <1>1, <2>2, <2>3, <2>4, <2>5, <2>6, <2>7, <2>8, <2>9, <2>10, <2>11,
             <2>12, <2>13, <2>14, <2>15, <2>16 DEF Stream!Step
<1>2. ASSUME NEW r \in Requests, Stream!Lapse(r)
      PROVE  CapInv'
  BY <1>2 DEF Stream!Lapse
<1>3. CASE Stream!Finished
  BY <1>3, StreamIdle DEF Stream!Finished, Stream!vars
<1> QED BY <1>1, <1>2, <1>3 DEF Stream!Next

(* Nothing is reserved when the sessions start.                            *)
LEMMA CapInit ==
    ASSUME Stream!Init
    PROVE  CapInv
<1>1. (CHOOSE p \in {p1} : TRUE) = p1
  OBVIOUS
<1>2. /\ Stream!NoRow(p1) \in Stream!EventRows
      /\ Stream!NoRow(p1).status = "none"
  BY DEF Stream!NoRow, Stream!EventRows, Stream!Statuses
<1>3. event = [r \in Requests |-> Stream!NoRow(p1)]
  BY <1>1 DEF Stream!Init
<1>4. StreamTyped
  <2>1. event \in [Requests -> Stream!EventRows]
    BY <1>2, <1>3
  <2>2. used \in [{p1} -> Nat] /\ balance \in Int
    BY PlanAssumption DEF Stream!Init
  <2>3. /\ owner \in [Stream!Rows -> Streamers \union {Nobody}]
        /\ pc \in [Streamers -> Stream!Statements]
        /\ work \in [Streamers -> Stream!WorkSpaces]
    BY StreamBlank DEF Stream!Init, Stream!Statements
  <2> QED BY <2>1, <2>2, <2>3 DEF StreamTyped
<1>5. \A r \in Requests : KnownRow(r, event[r])
  BY <1>2, <1>3 DEF KnownRow
<1>6. Reserved(event) =< 4
  <2>1. Open(event) = {}
    BY <1>2, <1>3 DEF Open
  <2> QED BY <2>1, TotalEmpty DEF Reserved
<1>7. ASSUME NEW s \in Streamers
      PROVE  StreamSession(s)
  <2>1. work[s] = Stream!Blank /\ pc[s] = "begin"
    BY DEF Stream!Init
  <2> QED BY <2>1, StreamBlank DEF StreamSession
<1> QED BY <1>4, <1>5, <1>6, <1>7 DEF CapInv

(* The invariant holds in the scene as long as nothing has lapsed.         *)
LEMMA ScenesCapInv == ScenesSpec => [](scene = "stream" /\ due = {} => CapInv)
<1>1. SceneInit => (scene = "stream" /\ due = {} => CapInv)
  BY CapInit DEF SceneInit
<1>2. (scene = "stream" /\ due = {} => CapInv) /\ [SceneNext]_<<vars, scene>>
        => (scene = "stream" /\ due = {} => CapInv)'
  <2> SUFFICES ASSUME scene = "stream" /\ due = {} => CapInv,
                      [SceneNext]_<<vars, scene>>, scene' = "stream", due' = {}
               PROVE  CapInv'
    OBVIOUS
  <2>1. CASE SceneNext
    <3>1. Stream!Next /\ scene = "stream"
      BY <2>1 DEF SceneNext
    <3> QED BY <3>1, StreamDueGrows, StreamStep
  <2>2. CASE UNCHANGED <<vars, scene>>
    BY <2>2, StreamIdle DEF vars
  <2> QED BY <2>1, <2>2
<1> QED BY <1>1, <1>2, PTL DEF ScenesSpec

(* While no reservation has lapsed, the requests of a period are not       *)
(* jointly past the cap of their key, also beside streams, for any set of  *)
(* sessions of the scene and any request, whatever overlaps, fails or      *)
(* crashes (enforce_spend_limits under _lock_period).                      *)
THEOREM CapStaysHeld == ScenesSpec => []CapHolds
<1>1. (scene = "stream" /\ due = {} => CapInv) => CapHolds
  <2> SUFFICES ASSUME CapInv
               PROVE  Total(Tokens(event), {r \in Requests : /\ Stream!Live(event[r])
                                                             /\ event[r].period = p1})
                        =< 4
    BY StreamTotal DEF CapHolds, Stream!KeyWithinLimitPerPeriod, Tokens
  <2> DEFINE f == Tokens(event)
             T == {r \in Requests : Stream!Live(event[r]) /\ event[r].period = p1}
  <2>1. /\ event \in [Requests -> Stream!EventRows]
        /\ f \in [Requests -> Nat] /\ f \in [Requests -> Int]
        /\ \A r \in Requests : f[r] = event[r].tokens /\ event[r].period = p1
    BY ReservedType DEF CapInv, StreamTyped, Tokens, Stream!EventRows
  <2>2. \A r \in Requests : KnownRow(r, event[r])
    BY DEF CapInv
  <2>3. CASE event[r1].status # "settled"
    <3>1. T = Open(event)
      BY <2>1, <2>2, <2>3 DEF Open, Stream!Live, KnownRow
    <3> QED BY <3>1 DEF CapInv, Reserved
  <2>4. CASE event[r1].status = "settled"
    <3>1. /\ T \in SUBSET {r1, r2} /\ {r1, r2} \in SUBSET Requests
          /\ {r2} \in SUBSET Requests
          /\ f[r1] = 2
          /\ r2 \in T => f[r2] = 2
      BY <2>1, <2>2, <2>4, SceneAssumption DEF Stream!Live, KnownRow
    <3> SUFFICES Total(f, T) =< 4
      OBVIOUS
    <3> HIDE DEF f, T
    <3>2. Total(f, {r1}) = 2
      BY <2>1, <3>1, SceneAssumption, TotalSingleton
    <3>3. CASE r2 \in T /\ r2 # r1
      <4>1. Total(f, {r2}) = 2
        BY <2>1, <3>1, <3>3, SceneAssumption, TotalSingleton
      <4>2. Total(f, {r2} \union {r1}) = Total(f, {r2}) + f[r1]
        <5> DEFINE U == {r2}
        <5>1. /\ r1 \in Requests /\ r1 \notin U /\ U \in SUBSET Requests
              /\ IsFiniteSet(Requests) /\ f \in [Requests -> Nat]
          BY <2>1, <3>1, <3>3, SceneAssumption, PlanAssumption
        <5> HIDE DEF U
        <5>2. Total(f, U \union {r1}) = Total(f, U) + f[r1]
          BY <5>1, TotalAdd
        <5> QED BY <5>2 DEF U
      <4>3. Total(f, {r1, r2}) = 4 /\ {r2} \union {r1} = {r1, r2}
        BY <3>1, <4>1, <4>2
      <4>4. Total(f, T) =< Total(f, {r1, r2})
        BY <2>1, <3>1, PlanAssumption, TotalSubset
      <4> QED BY <4>3, <4>4
    <3>4. CASE ~ (r2 \in T /\ r2 # r1)
      <4>1. T \in SUBSET {r1} /\ {r1} \in SUBSET Requests
        BY <3>1, <3>4
      <4>2. Total(f, T) =< Total(f, {r1})
        BY <2>1, <4>1, PlanAssumption, TotalSubset
      <4>3. Total(f, T) \in Nat
        BY <2>1, <3>1, PlanAssumption, TotalNat
      <4> QED BY <3>2, <4>2, <4>3
    <3> QED BY <3>3, <3>4
  <2> QED BY <2>3, <2>4
<1> QED BY <1>1, ScenesCapInv, PTL
=============================================================================
