------------------------- MODULE MaintenanceProofs -------------------------
(***************************************************************************)
(* What a pass of the maintenance loop leaves: what a receipt corroborates *)
(* and what is published of an epoch, by which miners are rewarded, and    *)
(* the tokens granted for stake.                                           *)
(*                                                                         *)
(* 1. "A token count is verified only when it appears in BOTH sources"     *)
(* (receipts.py:11), for all values of the constants and whatever the      *)
(* enclave's restarts, if no two attempts carry the same request id.  The  *)
(* assumption is needed: a row is looked up by an id that clients choose,  *)
(* and a cursor that starts again reads a receipt twice.  The property     *)
(* relates a row to a receipt that may be gone from the chain by then, so  *)
(* the invariant says of every receipt there is, in the chain or in a      *)
(* reply on its way, that it is the one of its attempt.                    *)
(*                                                                         *)
(* 2. An epoch's artifact is complete and final: the settle lag is long    *)
(* enough if no row and no receipt is later than it.  PublishedIsComplete  *)
(* is not inductive: a row could be committed to an epoch that has been    *)
(* published.  The invariant adds that whatever a pass touches lies more   *)
(* than the settle lag in the past, while a row that is not committed yet  *)
(* lies within it.                                                         *)
(*                                                                         *)
(* 3. What is granted anew for stake was due at one moment of the read, if *)
(* the log of an account fits a page.  What is due is said of every moment *)
(* since an event, and what is granted comes of a replay from the first    *)
(* event, so that this needs an induction over the log: the replayed       *)
(* streak is the one by definition.  The invariant says of a read that     *)
(* what it has in hand is the stake after some event, and that all that    *)
(* has been due since that event is noted.                                 *)
(***************************************************************************)
EXTENDS MCMinerStats, MCStakeQuota, FiniteSetTheorems, WellFoundedInduction, Functions, TLAPS

(* Every receipt of s is what the enclave counted for its attempt. *)
Genuine(s) ==
    \A i \in DOMAIN s : LET a == s[i].attempt
                        IN  attempt[a].stage # "open" /\ attempt[a].receipt = s[i].tokens

BothSources ==
    \A a \in Attempts : attempt[a].verified =>
       attempt[a].stage = "recorded" /\ attempt[a].receipt = attempt[a].tokens

(* What an enclave has answered it has counted. *)
Answered == \A a \in Attempts : attempt[a].stage = "served" => attempt[a].receipt \in Nat

ReceiptInv ==
    /\ TypeOK
    /\ Answered
    /\ Genuine(chain)
    /\ page # Nothing => Genuine(page.rows)
    /\ BothSources

-----------------------------------------------------------------------------
(* Type correctness. *)

(* The initial state is well typed. *)
LEMMA InitTyped == Init => TypeOK /\ Answered
<1> SUFFICES ASSUME Init PROVE TypeOK /\ Answered
  OBVIOUS
<1>1. lost \in BOOLEAN
  BY Zenon DEF Init
<1>2. attempt \in [Attempts -> AttemptRows] /\ Answered
  BY DEF Init, Answered, AttemptRows, Unknown
<1>3. model \in ModelRows
  BY DEF Init, ModelRows
<1>4. chain \in Seq(Receipts) /\ key \in Nat /\ restarts \in 0 .. MaxRestarts
  BY ReceiptAssumption DEF Init
<1>5. page = Nothing /\ late \subseteq Attempts
  BY DEF Init
<1> QED
  BY <1>1, <1>2, <1>3, <1>4, <1>5, Zenon DEF TypeOK

(* The reply of the enclave: its receipts past the cursor. *)
LEMMA SuffixType ==
    ASSUME NEW S, NEW s \in Seq(S), NEW n \in Nat
    PROVE  /\ SubSeq(s, n + 1, Len(s)) \in Seq(S)
           /\ \A i \in DOMAIN SubSeq(s, n + 1, Len(s)) :
                 /\ n + i \in DOMAIN s
                 /\ SubSeq(s, n + 1, Len(s))[i] = s[n + i]
  OBVIOUS

(* The part of a sequence that is kept or read. *)
LEMMA PrefixType ==
    ASSUME NEW S, NEW s \in Seq(S), NEW n \in 0 .. Len(s)
    PROVE  /\ SubSeq(s, 1, n) \in Seq(S)
           /\ Len(SubSeq(s, 1, n)) = n
           /\ \A i \in DOMAIN SubSeq(s, 1, n) :
                 /\ i \in DOMAIN s
                 /\ SubSeq(s, 1, n)[i] = s[i]
  OBVIOUS

(* What one pull reads is a page of receipts. *)
LEMMA ReadType ==
    ASSUME TypeOK, page # Nothing
    PROVE  /\ Read \in Seq(Receipts)
           /\ Len(Read) \in Nat
           /\ \A i \in DOMAIN Read : i \in DOMAIN page.rows /\ Read[i] = page.rows[i]
<1> DEFINE n == Lesser(PageLimit, Len(page.rows))
<1>1. page.rows \in Seq(Receipts)
  BY DEF TypeOK
<1>2. n \in 0 .. Len(page.rows)
  BY <1>1, ReceiptAssumption DEF Lesser
<1> QED BY <1>1, <1>2, PrefixType DEF Read

(* A pull changes nothing of a row but its verified flag. *)
LEMMA ReconcileRows ==
    ASSUME TypeOK, Reconcile
    PROVE  \E new \in [Attempts -> BOOLEAN] :
              attempt' = [a \in Attempts |-> [attempt[a] EXCEPT !.verified = new[a]]]
<1>1. PICK first \in [DOMAIN Read -> Attempts] :
        attempt' = [a \in Attempts |->
          [attempt[a] EXCEPT !.verified =
             @ \/ \E i \in {j \in DOMAIN Read : Candidates(Read[j]) # {}} :
                     first[i] = a /\ TokensMatch(a, Read[i])]]
  BY DEF Reconcile
<1> DEFINE new == [a \in Attempts |->
             attempt[a].verified
               \/ \E i \in {j \in DOMAIN Read : Candidates(Read[j]) # {}} :
                     first[i] = a /\ TokensMatch(a, Read[i])]
<1>2. new \in [Attempts -> BOOLEAN]
  OBVIOUS
<1>3. attempt' = [a \in Attempts |-> [attempt[a] EXCEPT !.verified = new[a]]]
  BY <1>1
<1> HIDE DEF new
<1> QED BY <1>2, <1>3

(* Every step keeps the types. *)
LEMMA StepTyped == TypeOK /\ Answered /\ [Next]_vars => (TypeOK /\ Answered)'
<1> SUFFICES ASSUME TypeOK, Answered, [Next]_vars
             PROVE  TypeOK' /\ Answered'
  OBVIOUS
<1> USE ReceiptAssumption
<1>1. ASSUME NEW a \in Attempts, Serve(a)
      PROVE  TypeOK' /\ Answered'
  <2>1. PICK n \in Tokens :
          /\ attempt' = [attempt EXCEPT ![a].stage = "served", ![a].receipt = n]
          /\ chain' = Append(chain, [attempt |-> a, tokens |-> n])
    BY <1>1 DEF Serve
  <2>2. n \in Nat
    OBVIOUS
  <2>3. attempt' \in [Attempts -> AttemptRows]
    BY <2>1, <2>2, ZenonT(60) DEF TypeOK, AttemptRows
  <2>5. Answered'
    BY <2>1, <2>2 DEF TypeOK, Answered, AttemptRows
  <2>4. chain' \in Seq(Receipts)
    BY <2>1, <2>2 DEF TypeOK, Receipts
  <2> QED BY <1>1, <2>3, <2>4, <2>5 DEF Serve, TypeOK
<1>2. ASSUME NEW a \in Attempts, RecordSuccess(a)
      PROVE  TypeOK' /\ Answered'
  <2>1. PICK n \in {attempt[a].receipt} \cup Estimates :
          attempt' = [attempt EXCEPT ![a].stage = "recorded",
                                     ![a].success = TRUE, ![a].tokens = n]
    BY <1>2 DEF RecordSuccess
  <2>2. n \in Nat
    BY <1>2 DEF RecordSuccess, Answered
  <2>3. attempt[a] \in AttemptRows /\ attempt \in [Attempts -> AttemptRows]
    BY DEF TypeOK
  <2>4. /\ attempt'[a] \in AttemptRows
        /\ attempt'[a].stage = "recorded"
    BY <2>1, <2>2, <2>3 DEF AttemptRows
  <2>5. attempt' \in [Attempts -> AttemptRows] /\ Answered'
    BY <2>1, <2>3, <2>4 DEF Answered
  <2> QED BY <1>2, <2>5 DEF RecordSuccess, TypeOK
<1>3. ASSUME NEW a \in Attempts, RecordFailure(a)
      PROVE  TypeOK' /\ Answered'
  <2>1. attempt' \in [Attempts -> AttemptRows] /\ Answered'
    BY <1>3 DEF RecordFailure, TypeOK, Answered, AttemptRows
  <2> QED BY <1>3, <2>1 DEF RecordFailure, TypeOK
<1>4. ASSUME NEW a \in Attempts, LoseRow(a)
      PROVE  TypeOK' /\ Answered'
  <2>1. attempt' \in [Attempts -> AttemptRows] /\ Answered'
    BY <1>4 DEF LoseRow, TypeOK, Answered, AttemptRows
  <2> QED BY <1>4, <2>1 DEF LoseRow, TypeOK
<1>5. CASE Restart
  <2>1. Len(chain) \in Nat
    BY DEF TypeOK
  <2>2. chain' \in Seq(Receipts)
    BY <1>5, <2>1, PrefixType DEF Restart, TypeOK
  <2>3. key' \in Nat /\ restarts' \in 0 .. MaxRestarts
    BY <1>5 DEF Restart, TypeOK
  <2> QED BY <1>5, <2>2, <2>3 DEF Restart, TypeOK, Answered
<1>6. CASE Register
  BY <1>6 DEF Register, TypeOK, Answered, ModelRows, Unknown
<1>7. CASE Provision
  <2>1. Len(chain) \in Nat
    BY DEF TypeOK
  <2>2. model' \in ModelRows
    BY <1>7, <2>1 DEF Provision, TypeOK, ModelRows
  <2> QED BY <1>7, <2>2 DEF Provision, TypeOK, Answered
<1>8. CASE Fetch
  <2>1. model.cursor \in Nat /\ Len(chain) \in Nat
    BY DEF TypeOK, ModelRows
  <2>2. SubSeq(chain, model.cursor + 1, Len(chain)) \in Seq(Receipts)
    BY <2>1, SuffixType DEF TypeOK
  <2>3. /\ page'.pulling /\ page'.loaded \in ModelRows /\ page'.rows \in Seq(Receipts)
        /\ page'.count \in Nat /\ page'.key \in Nat
    BY <1>8, <2>1, <2>2 DEF Fetch, TypeOK
  <2> QED BY <1>8, <2>3 DEF Fetch, TypeOK, Answered
<1>9. CASE Abandon
  BY <1>9 DEF Abandon, TypeOK, Answered
<1>10. CASE Reconcile
  <2>1. PICK new \in [Attempts -> BOOLEAN] :
           attempt' = [a \in Attempts |-> [attempt[a] EXCEPT !.verified = new[a]]]
    BY <1>10, ReconcileRows
  <2>2. /\ attempt' \in [Attempts -> AttemptRows]
        /\ Answered'
    BY <2>1, ZenonT(60) DEF TypeOK, Answered, AttemptRows
  <2>3. page # Nothing /\ page.loaded \in ModelRows /\ page.count \in Nat
    BY <1>10 DEF Reconcile, TypeOK
  <2>4. NewCursor \in Nat
    BY <2>3, ReadType DEF NewCursor, ModelRows
  <2>5. /\ Written(NewCursor, page.loaded.cursor, model.cursor) \in Nat
        /\ Written(page.count, page.loaded.count, model.count) \in Nat \cup {Unknown}
    BY <2>3, <2>4 DEF Written, TypeOK, ModelRows
  <2>6. model' \in ModelRows
    BY <1>10, <2>5 DEF Reconcile, TypeOK, ModelRows
  <2>7. late' \subseteq Attempts
    BY <1>10 DEF Reconcile, TypeOK
  <2> QED BY <1>10, <2>2, <2>6, <2>7 DEF Reconcile, TypeOK
<1>11. CASE UNCHANGED vars
  BY <1>11 DEF vars, TypeOK, Answered
<1> QED
  BY <1>1, <1>2, <1>3, <1>4, <1>5, <1>6, <1>7, <1>8, <1>9, <1>10, <1>11
     DEF Next, RequestPath

(* Rows, receipts, the cursor and the reply on its way are well formed in  *)
(* every state.  (models.py: MinerRequestStat, MinerModel.)                *)
THEOREM ReceiptsTyped == Spec => []TypeOK
BY InitTyped, StepTyped, PTL DEF Spec

-----------------------------------------------------------------------------
(* Corroboration. *)

(* No two attempts carry the same X-Request-Id. *)
DistinctRequests ==
    \A a, b \in Attempts : RequestId[a] = RequestId[b] => a = b

(* What is known of an answered attempt does not change: neither its       *)
(* receipt nor, once its row is committed, its counts.                     *)
Kept ==
    \A a \in Attempts :
       /\ attempt[a].stage # "open"
             => attempt'[a].stage # "open" /\ attempt'[a].receipt = attempt[a].receipt
       /\ attempt[a].stage = "recorded"
             => attempt'[a].stage = "recorded" /\ attempt'[a].tokens = attempt[a].tokens

(* Receipts stay genuine while Kept holds. *)
LEMMA GenuineKept ==
    ASSUME NEW s \in Seq(Receipts), Genuine(s), Kept
    PROVE  \A i \in DOMAIN s : /\ attempt'[s[i].attempt].stage # "open"
                               /\ attempt'[s[i].attempt].receipt = s[i].tokens
<1> SUFFICES ASSUME NEW i \in DOMAIN s
             PROVE  /\ attempt'[s[i].attempt].stage # "open"
                    /\ attempt'[s[i].attempt].receipt = s[i].tokens
  OBVIOUS
<1>1. s[i] \in Receipts
  OBVIOUS
<1>2. s[i].attempt \in Attempts
  BY <1>1 DEF Receipts
<1> QED BY <1>2 DEF Genuine, Kept

(* No step goes back on an answered attempt. *)
LEMMA StepKeeps == TypeOK /\ [Next]_vars => Kept
<1> SUFFICES ASSUME TypeOK, [Next]_vars
             PROVE  Kept
  OBVIOUS
<1>1. attempt \in [Attempts -> AttemptRows]
  BY DEF TypeOK
<1>2. ASSUME NEW a \in Attempts, Serve(a)
      PROVE  Kept
  <2>1. attempt[a].stage = "open" /\ \A b \in Attempts \ {a} : attempt'[b] = attempt[b]
    BY <1>1, <1>2 DEF Serve
  <2> QED BY <2>1 DEF Kept
<1>3. ASSUME NEW a \in Attempts, RecordSuccess(a) \/ RecordFailure(a) \/ LoseRow(a)
      PROVE  Kept
  <2>1. /\ attempt[a].stage \in {"open", "served"}
        /\ \A b \in Attempts \ {a} : attempt'[b] = attempt[b]
    BY <1>1, <1>3 DEF RecordSuccess, RecordFailure, LoseRow
  <2>2. attempt'[a].stage # "open" /\ attempt'[a].receipt = attempt[a].receipt
    <3>1. CASE RecordSuccess(a)
      BY <1>1, <3>1 DEF RecordSuccess, AttemptRows
    <3>2. CASE RecordFailure(a)
      BY <1>1, <3>2 DEF RecordFailure, AttemptRows
    <3>3. CASE LoseRow(a)
      BY <1>1, <3>3 DEF LoseRow, AttemptRows
    <3> QED BY <1>3, <3>1, <3>2, <3>3
  <2> QED BY <2>1, <2>2 DEF Kept
<1>4. CASE Reconcile
  <2>1. PICK new \in [Attempts -> BOOLEAN] :
           attempt' = [a \in Attempts |-> [attempt[a] EXCEPT !.verified = new[a]]]
    BY <1>4, ReconcileRows
  <2> QED BY <1>1, <2>1 DEF Kept, AttemptRows
<1>5. CASE Restart \/ Register \/ Provision \/ Fetch \/ Abandon \/ UNCHANGED vars
  <2>1. attempt' = attempt
    BY <1>5 DEF Restart, Register, Provision, Fetch, Abandon, vars
  <2> QED BY <2>1 DEF Kept
<1> QED BY <1>2, <1>3, <1>4, <1>5 DEF Next, RequestPath

(* The chain and the reply on its way stay genuine. *)
LEMMA StepGenuine ==
    ASSUME ReceiptInv, [Next]_vars
    PROVE  Genuine(chain)' /\ (page # Nothing => Genuine(page.rows))'
<1> USE ReceiptAssumption
<1>1. /\ TypeOK /\ Answered
      /\ TypeOK'
      /\ Kept
  BY StepTyped, StepKeeps DEF ReceiptInv
<1>2. chain \in Seq(Receipts) /\ Genuine(chain)
  BY DEF ReceiptInv, TypeOK
<1>3. \A i \in DOMAIN chain : /\ attempt'[chain[i].attempt].stage # "open"
                              /\ attempt'[chain[i].attempt].receipt = chain[i].tokens
  BY <1>1, <1>2, GenuineKept
<1>4. Genuine(chain)'
  <2>1. ASSUME NEW a \in Attempts, Serve(a)
        PROVE  Genuine(chain)'
    <3>1. PICK n \in Tokens :
            /\ attempt' = [attempt EXCEPT ![a].stage = "served", ![a].receipt = n]
            /\ chain' = Append(chain, [attempt |-> a, tokens |-> n])
      BY <2>1 DEF Serve
    <3>2. attempt'[a].stage = "served" /\ attempt'[a].receipt = n
      BY <1>1, <3>1 DEF TypeOK, AttemptRows
    <3>3. /\ \A i \in DOMAIN chain : chain'[i] = chain[i]
          /\ DOMAIN chain' = DOMAIN chain \cup {Len(chain) + 1}
          /\ chain'[Len(chain) + 1] = [attempt |-> a, tokens |-> n]
      BY <1>2, <3>1
    <3> QED BY <1>3, <3>2, <3>3 DEF Genuine
  <2>2. CASE Restart
    <3>1. Len(chain) \in Nat
      BY <1>2
    <3>2. PICK n \in 0 .. Len(chain) : chain' = SubSeq(chain, 1, n)
      BY <2>2 DEF Restart
    <3>3. \A i \in DOMAIN chain' : i \in DOMAIN chain /\ chain'[i] = chain[i]
      BY <1>2, <3>2, PrefixType
    <3> QED BY <1>3, <3>3 DEF Genuine
  <2>3. CASE chain' = chain
    BY <1>3, <2>3 DEF Genuine
  <2> QED
    BY <2>1, <2>2, <2>3
       DEF Next, RequestPath, RecordSuccess, RecordFailure, LoseRow, Register,
           Provision, Fetch, Abandon, Reconcile, vars
<1>5. (page # Nothing => Genuine(page.rows))'
  <2>1. CASE Fetch
    <3>1. model.cursor \in Nat
      BY <1>1 DEF TypeOK, ModelRows
    <3>2. page'.rows = SubSeq(chain, model.cursor + 1, Len(chain)) /\ attempt' = attempt
      BY <2>1 DEF Fetch
    <3>3. \A i \in DOMAIN page'.rows : /\ model.cursor + i \in DOMAIN chain
                                       /\ page'.rows[i] = chain[model.cursor + i]
      BY <1>2, <3>1, <3>2, SuffixType
    <3> QED BY <1>3, <3>2, <3>3 DEF Genuine
  <2>2. CASE page' = Nothing
    BY <2>2
  <2>3. CASE page' = page /\ page # Nothing
    <3>1. page.rows \in Seq(Receipts) /\ Genuine(page.rows)
      BY <2>3 DEF ReceiptInv, TypeOK
    <3>2. \A i \in DOMAIN page.rows :
             /\ attempt'[page.rows[i].attempt].stage # "open"
             /\ attempt'[page.rows[i].attempt].receipt = page.rows[i].tokens
      BY <1>1, <3>1, GenuineKept
    <3> QED BY <2>3, <3>2 DEF Genuine
  <2> QED
    BY <2>1, <2>2, <2>3
       DEF Next, RequestPath, Serve, RecordSuccess, RecordFailure, LoseRow, Restart,
           Register, Provision, Abandon, Reconcile, vars
<1> QED BY <1>4, <1>5

(* The row that the lookup finds is the one the receipt is of. *)
LEMMA LookupFindsTheRow ==
    ASSUME DistinctRequests, ReceiptInv, page # Nothing, NEW i \in DOMAIN Read,
           NEW a \in Attempts, a \in Candidates(Read[i]), TokensMatch(a, Read[i])
    PROVE  attempt[a].stage = "recorded" /\ attempt[a].receipt = attempt[a].tokens
<1>1. /\ page.rows \in Seq(Receipts) /\ Genuine(page.rows)
      /\ i \in DOMAIN page.rows /\ Read[i] = page.rows[i]
  BY ReadType DEF ReceiptInv, TypeOK
<1>2. Read[i].attempt \in Attempts
  <2>1. Read[i] \in Receipts
    BY <1>1
  <2> QED BY <2>1 DEF Receipts
<1>3. attempt[a].stage = "recorded" /\ a = Read[i].attempt
  BY <1>2 DEF Candidates, DistinctRequests
<1>4. attempt[a].receipt = Read[i].tokens
  BY <1>1, <1>3 DEF Genuine
<1> QED BY <1>3, <1>4 DEF TokensMatch

(* A row that is verified stays in both sources. *)
LEMMA StepBothSources ==
    ASSUME DistinctRequests, ReceiptInv, [Next]_vars
    PROVE  BothSources'
<1>1. TypeOK /\ BothSources /\ attempt \in [Attempts -> AttemptRows]
  BY DEF ReceiptInv, TypeOK
<1>2. Kept
  BY <1>1, StepKeeps
<1>3. CASE Reconcile
  <2>1. page # Nothing
    BY <1>3 DEF Reconcile
  <2>2. PICK first \in [DOMAIN Read -> Attempts] :
          /\ \A i \in {j \in DOMAIN Read : Candidates(Read[j]) # {}} :
                first[i] \in Candidates(Read[i])
          /\ attempt' = [a \in Attempts |->
               [attempt[a] EXCEPT !.verified =
                  @ \/ \E i \in {j \in DOMAIN Read : Candidates(Read[j]) # {}} :
                          first[i] = a /\ TokensMatch(a, Read[i])]]
    BY <1>3 DEF Reconcile
  <2>3. ASSUME NEW a \in Attempts, attempt'[a].verified
        PROVE  attempt[a].stage = "recorded" /\ attempt[a].receipt = attempt[a].tokens
    <3>1. CASE attempt[a].verified
      BY <1>1, <3>1 DEF BothSources
    <3>2. CASE ~attempt[a].verified
      <4>1. PICK i \in {j \in DOMAIN Read : Candidates(Read[j]) # {}} :
               first[i] = a /\ TokensMatch(a, Read[i])
        <5> DEFINE hit == \E i \in {j \in DOMAIN Read : Candidates(Read[j]) # {}} :
                             first[i] = a /\ TokensMatch(a, Read[i])
        <5>1. attempt'[a] = [attempt[a] EXCEPT !.verified = @ \/ hit]
          BY <2>2
        <5> HIDE DEF hit
        <5>2. attempt[a] \in AttemptRows
          BY <1>1
        <5>3. attempt'[a].verified = (attempt[a].verified \/ hit)
          BY <5>1, <5>2 DEF AttemptRows
        <5>4. hit
          BY <2>3, <3>2, <5>3
        <5> QED BY <5>4 DEF hit
      <4>2. i \in DOMAIN Read /\ a \in Candidates(Read[i])
        BY <2>2, <4>1
      <4> QED BY <2>1, <4>1, <4>2, LookupFindsTheRow
    <3> QED BY <3>1, <3>2
  <2> QED BY <1>2, <2>3 DEF BothSources, Kept
<1>4. CASE ~Reconcile
  <2>1. \A a \in Attempts : attempt'[a].verified = attempt[a].verified
    <3>1. ASSUME NEW b \in Attempts,
                 Serve(b) \/ RecordSuccess(b) \/ RecordFailure(b) \/ LoseRow(b)
          PROVE  \A a \in Attempts : attempt'[a].verified = attempt[a].verified
      <4>1. CASE Serve(b)
        BY <1>1, <4>1 DEF Serve, AttemptRows
      <4>2. CASE RecordSuccess(b)
        BY <1>1, <4>2 DEF RecordSuccess, AttemptRows
      <4>3. CASE RecordFailure(b)
        BY <1>1, <4>3 DEF RecordFailure, AttemptRows
      <4>4. CASE LoseRow(b)
        BY <1>1, <4>4 DEF LoseRow, AttemptRows
      <4> QED BY <3>1, <4>1, <4>2, <4>3, <4>4
    <3>2. CASE attempt' = attempt
      BY <3>2
    <3> QED
      BY <1>4, <3>1, <3>2
         DEF Next, RequestPath, Restart, Register, Provision, Fetch, Abandon, vars
  <2> QED BY <1>1, <1>2, <2>1 DEF BothSources, Kept
<1> QED BY <1>3, <1>4

(* A count that is in both sources of its own attempt is vouched for. *)
LEMMA VouchedFor ==
    ASSUME DistinctRequests, BothSources
    PROVE  VerifiedInBothSources
<1> SUFFICES ASSUME NEW a \in Attempts, attempt[a].verified
             PROVE  Cardinality({b \in Attempts :
                                   /\ RequestId[b] = RequestId[a]
                                   /\ attempt[b].tokens = attempt[a].tokens
                                   /\ attempt[b].verified})
                      <= Cardinality(Vouched(a))
  BY DEF VerifiedInBothSources
<1> DEFINE Verified == {b \in Attempts : /\ RequestId[b] = RequestId[a]
                                        /\ attempt[b].tokens = attempt[a].tokens
                                        /\ attempt[b].verified}
<1>1. Verified = {a} /\ Vouched(a) = {a}
  BY DEF Vouched, BothSources, DistinctRequests
<1>2. Cardinality({a}) = 1
  BY FS_Singleton
<1> HIDE DEF Verified
<1>3. Cardinality(Verified) <= Cardinality(Vouched(a))
  BY <1>1, <1>2
<1> QED BY <1>3 DEF Verified

(* Receipts are genuine and what is verified is in both sources. *)
LEMMA Corroborated ==
    ASSUME DistinctRequests
    PROVE  Spec => []ReceiptInv
<1>1. Init => ReceiptInv
  <2>1. Init => BothSources /\ page = Nothing
    BY DEF Init, BothSources
  <2>2. Init => Genuine(chain)
    BY DEF Init, Genuine
  <2> QED BY <2>1, <2>2, InitTyped DEF ReceiptInv
<1>2. ReceiptInv /\ [Next]_vars => ReceiptInv'
  BY StepTyped, StepGenuine, StepBothSources DEF ReceiptInv
<1> QED BY <1>1, <1>2, PTL DEF Spec

(* No reward for a count that the enclave did not sign, whatever order the *)
(* rows, receipts, pages, restarts and registrations come in.              *)
(* (receipts.py: _reconcile, _tokens_match.)                               *)
THEOREM RewardsAreCorroborated ==
    ASSUME DistinctRequests
    PROVE  Spec => []VerifiedInBothSources
<1>1. ReceiptInv => VerifiedInBothSources
  BY VouchedFor DEF ReceiptInv
<1> QED BY <1>1, Corroborated, PTL

-----------------------------------------------------------------------------
(* The cursor. *)

(* Nothing is left to do about a receipt: its row is verified, came late,  *)
(* or is there and counts something else.                                  *)
Done(i) ==
    LET a == chain[i].attempt
    IN  \/ attempt[a].verified
        \/ a \in late
        \/ attempt[a].stage = "recorded" /\ attempt[a].tokens # chain[i].tokens

(* A reply on its way is the piece of the chain that follows the cursor it *)
(* was asked for, which is the stored one unless the row was replaced.     *)
InPlace ==
    /\ page.loaded.row =< model.row
    /\ page.loaded.row = model.row => page.loaded.cursor = model.cursor
    /\ page.loaded.cursor + Len(page.rows) =< Len(chain)
    /\ \A i \in 1 .. Len(page.rows) : page.rows[i] = chain[page.loaded.cursor + i]

CursorInv ==
    ~lost =>
       /\ model.cursor =< Len(chain)
       /\ \A i \in 1 .. model.cursor : Done(i)
       /\ page # Nothing => InPlace

(* The chain only grows, until the enclave comes back with an older one. *)
LEMMA ChainGrows ==
    ASSUME TypeOK, [Next]_vars, ~lost'
    PROVE  /\ ~lost
           /\ Len(chain) =< Len(chain')
           /\ \A i \in 1 .. Len(chain) : chain'[i] = chain[i]
<1>1. chain \in Seq(Receipts)
  BY DEF TypeOK
<1>2. ASSUME NEW a \in Attempts, Serve(a)
      PROVE  ~lost /\ \E r \in Receipts : chain' = Append(chain, r)
  <2>1. PICK n \in Tokens : chain' = Append(chain, [attempt |-> a, tokens |-> n])
    BY <1>2 DEF Serve
  <2>2. [attempt |-> a, tokens |-> n] \in Receipts
    BY ReceiptAssumption DEF Receipts
  <2> QED BY <1>2, <2>1, <2>2 DEF Serve
<1>3. CASE Restart
  <2>1. ~lost /\ chain' = chain
    BY <1>3, Zenon DEF Restart
  <2> QED BY <1>1, <2>1
<1>4. CASE lost' = lost /\ chain' = chain
  BY <1>1, <1>4
<1>5. CASE ~lost /\ \E r \in Receipts : chain' = Append(chain, r)
  BY <1>1, <1>5
<1> QED
  BY <1>2, <1>3, <1>4, <1>5
     DEF Next, RequestPath, RecordSuccess, RecordFailure, LoseRow, Register,
         Provision, Fetch, Abandon, Reconcile, vars

(* A row that is verified, or was late, is so for good. *)
LEMMA VerifiedStays ==
    ASSUME TypeOK, [Next]_vars
    PROVE  /\ \A a \in Attempts : attempt[a].verified => attempt'[a].verified
           /\ late \subseteq late'
<1>1. attempt \in [Attempts -> AttemptRows]
  BY DEF TypeOK
<1>2. late \subseteq late'
  BY DEF Next, RequestPath, Serve, RecordSuccess, RecordFailure, LoseRow, Restart,
         Register, Provision, Fetch, Abandon, Reconcile, vars
<1>3. ASSUME NEW a \in Attempts, attempt[a].verified
      PROVE  attempt'[a].verified
  <2>1. ASSUME NEW b \in Attempts,
               Serve(b) \/ RecordSuccess(b) \/ RecordFailure(b) \/ LoseRow(b)
        PROVE  attempt'[a].verified
    <3>1. CASE Serve(b)
      BY <1>1, <1>3, <3>1 DEF Serve, AttemptRows
    <3>2. CASE RecordSuccess(b)
      BY <1>1, <1>3, <3>2 DEF RecordSuccess, AttemptRows
    <3>3. CASE RecordFailure(b)
      BY <1>1, <1>3, <3>3 DEF RecordFailure, AttemptRows
    <3>4. CASE LoseRow(b)
      BY <1>1, <1>3, <3>4 DEF LoseRow, AttemptRows
    <3> QED BY <2>1, <3>1, <3>2, <3>3, <3>4
  <2>2. CASE Reconcile
    <3>1. PICK first \in [DOMAIN Read -> Attempts] :
            attempt' = [b \in Attempts |->
              [attempt[b] EXCEPT !.verified =
                 @ \/ \E i \in {j \in DOMAIN Read : Candidates(Read[j]) # {}} :
                         first[i] = b /\ TokensMatch(b, Read[i])]]
      BY <2>2 DEF Reconcile
    <3> DEFINE hit == \E i \in {j \in DOMAIN Read : Candidates(Read[j]) # {}} :
                         first[i] = a /\ TokensMatch(a, Read[i])
    <3>2. attempt'[a] = [attempt[a] EXCEPT !.verified = @ \/ hit]
      BY <3>1
    <3> HIDE DEF hit
    <3> QED BY <1>1, <1>3, <3>2 DEF AttemptRows
  <2>3. CASE attempt' = attempt
    BY <1>3, <2>3
  <2> QED
    BY <2>1, <2>2, <2>3
       DEF Next, RequestPath, Restart, Register, Provision, Fetch, Abandon, vars
<1> QED BY <1>2, <1>3

(* What is done stays done. *)
LEMMA DoneStays ==
    ASSUME TypeOK, [Next]_vars, ~lost', NEW i \in 1 .. Len(chain), Done(i)
    PROVE  Done(i)'
<1>1. chain'[i] = chain[i] /\ chain[i] \in Receipts
  BY ChainGrows DEF TypeOK
<1>2. chain[i].attempt \in Attempts
  BY <1>1 DEF Receipts
<1>3. Kept
  BY StepKeeps
<1> QED BY <1>1, <1>2, <1>3, VerifiedStays DEF Done, Kept

(* A pull leaves nothing to do about the receipts it reads. *)
LEMMA ReadIsDone ==
    ASSUME DistinctRequests, ReceiptInv, Reconcile, NEW j \in DOMAIN Read,
           NEW a, a = Read[j].attempt
    PROVE  \/ attempt'[a].verified
           \/ a \in late'
           \/ attempt'[a].stage = "recorded" /\ attempt'[a].tokens # Read[j].tokens
<1>1. TypeOK /\ page # Nothing /\ attempt \in [Attempts -> AttemptRows]
  BY DEF ReceiptInv, TypeOK, Reconcile
<1>2. a \in Attempts
  <2>1. Read[j] \in Receipts
    BY <1>1, ReadType
  <2> QED BY <2>1 DEF Receipts
<1>3. Kept
  BY <1>1, StepKeeps DEF Next
<1>4. CASE attempt[a].stage # "recorded"
  BY <1>2, <1>4 DEF Reconcile
<1>5. CASE attempt[a].stage = "recorded" /\ attempt[a].tokens # Read[j].tokens
  BY <1>2, <1>3, <1>5 DEF Kept
<1>6. CASE attempt[a].stage = "recorded" /\ attempt[a].tokens = Read[j].tokens
  <2>1. PICK first \in [DOMAIN Read -> Attempts] :
          /\ \A i \in {k \in DOMAIN Read : Candidates(Read[k]) # {}} :
                first[i] \in Candidates(Read[i])
          /\ attempt' = [b \in Attempts |->
               [attempt[b] EXCEPT !.verified =
                  @ \/ \E i \in {k \in DOMAIN Read : Candidates(Read[k]) # {}} :
                          first[i] = b /\ TokensMatch(b, Read[i])]]
    BY DEF Reconcile
  <2>2. Candidates(Read[j]) = {a}
    BY <1>2, <1>6 DEF Candidates, DistinctRequests
  <2>3. first[j] = a /\ TokensMatch(a, Read[j])
    BY <1>6, <2>1, <2>2 DEF TokensMatch
  <2> DEFINE hit == \E i \in {k \in DOMAIN Read : Candidates(Read[k]) # {}} :
                       first[i] = a /\ TokensMatch(a, Read[i])
  <2>4. hit
    BY <2>2, <2>3
  <2>5. attempt'[a] = [attempt[a] EXCEPT !.verified = @ \/ hit]
    BY <1>2, <2>1
  <2> HIDE DEF hit
  <2>6. attempt[a] \in AttemptRows
    BY <1>1, <1>2
  <2>7. attempt'[a].verified = (attempt[a].verified \/ hit)
    BY <2>5, <2>6 DEF AttemptRows
  <2> QED BY <2>4, <2>7
<1> QED BY <1>4, <1>5, <1>6

(* The stored cursor is past receipts that are done only. *)
LEMMA StepPassed ==
    ASSUME DistinctRequests, ReceiptInv, CursorInv, [Next]_vars, ~lost'
    PROVE  /\ model'.cursor =< Len(chain')
           /\ \A i \in 1 .. model'.cursor : Done(i)'
<1>1. /\ TypeOK
      /\ chain \in Seq(Receipts) /\ chain' \in Seq(Receipts)
      /\ model.cursor \in Nat
  BY StepTyped DEF ReceiptInv, TypeOK, ModelRows
<1>2. /\ ~lost
      /\ Len(chain) =< Len(chain')
  BY <1>1, ChainGrows
<1>3. /\ model.cursor =< Len(chain)
      /\ page # Nothing => InPlace
  BY <1>2 DEF CursorInv
<1>4. \A i \in 1 .. model.cursor : Done(i)'
  <2> SUFFICES ASSUME NEW i \in 1 .. model.cursor
               PROVE  Done(i)'
    OBVIOUS
  <2>1. i \in 1 .. Len(chain) /\ Done(i)
    BY <1>1, <1>2, <1>3 DEF CursorInv
  <2> QED BY <1>1, <2>1, DoneStays
<1>5. CASE Reconcile
  <2>1. /\ page # Nothing /\ InPlace
        /\ page.loaded.cursor = model.cursor
        /\ chain' = chain
    BY <1>3, <1>5 DEF Reconcile, InPlace
  <2>2. /\ Len(Read) \in Nat
        /\ \A j \in DOMAIN Read : j \in DOMAIN page.rows /\ Read[j] = page.rows[j]
        /\ Read \in Seq(Receipts) /\ page.rows \in Seq(Receipts)
    BY <1>1, <2>1, ReadType DEF TypeOK
  <2>3. Len(Read) =< Len(page.rows)
    BY <2>2
  <2>4. model'.cursor = model.cursor + Len(Read)
    <3>1. Written(NewCursor, page.loaded.cursor, model.cursor) = model.cursor + Len(Read)
      BY <2>1 DEF Written, NewCursor
    <3>2. model'.cursor = Written(NewCursor, page.loaded.cursor, model.cursor)
      BY <1>1, <1>5 DEF Reconcile, TypeOK, ModelRows
    <3> QED BY <3>1, <3>2
  <2>5. ASSUME NEW i \in 1 .. model'.cursor
        PROVE  Done(i)'
    <3>1. CASE i \in 1 .. model.cursor
      BY <1>4, <3>1
    <3>2. CASE i \notin 1 .. model.cursor
      <4>1. PICK j \in DOMAIN Read : i = model.cursor + j
        <5>1. i - model.cursor \in 1 .. Len(Read)
          BY <1>1, <2>2, <2>4, <3>2
        <5>2. i - model.cursor \in DOMAIN Read
          BY <2>2, <5>1
        <5> QED BY <1>1, <5>2
      <4>2. chain'[i] = Read[j]
        BY <2>1, <2>2, <4>1 DEF InPlace
      <4> QED BY <1>5, <4>2, ReadIsDone DEF Done
    <3> QED BY <3>1, <3>2
  <2>6. model'.cursor =< Len(chain')
    BY <1>1, <2>1, <2>2, <2>3, <2>4 DEF InPlace
  <2> QED BY <2>5, <2>6
<1>6. CASE Register
  <2>1. model'.cursor = 0
    BY <1>6 DEF Register
  <2> QED BY <1>1, <2>1
<1>7. CASE model'.cursor = model.cursor
  BY <1>1, <1>2, <1>3, <1>4, <1>7
<1>8. Provision => model'.cursor = model.cursor
  BY <1>1 DEF Provision, TypeOK, ModelRows
<1> QED
  BY <1>5, <1>6, <1>7, <1>8
     DEF Next, RequestPath, Serve, RecordSuccess, RecordFailure, LoseRow, Restart,
         Fetch, Abandon, vars

(* A reply stays in place until it is dealt with. *)
LEMMA StepInPlace ==
    ASSUME ReceiptInv, CursorInv, [Next]_vars, ~lost'
    PROVE  (page # Nothing => InPlace)'
<1>1. /\ ~lost
      /\ Len(chain) =< Len(chain')
      /\ \A i \in 1 .. Len(chain) : chain'[i] = chain[i]
  BY ChainGrows DEF ReceiptInv
<1>2. /\ chain \in Seq(Receipts) /\ Len(chain) \in Nat /\ Len(chain') \in Nat
      /\ model \in ModelRows /\ model.cursor \in Nat /\ model.row \in Nat
  BY SMTT(30), StepTyped DEF ReceiptInv, TypeOK, ModelRows
<1>3. CASE Fetch
  <2>1. /\ page'.loaded = model /\ model' = model /\ chain' = chain
        /\ page'.rows = SubSeq(chain, model.cursor + 1, Len(chain))
    BY <1>3 DEF Fetch
  <2>2. model.cursor =< Len(chain)
    BY <1>1 DEF CursorInv
  <2>3. Len(page'.rows) = Len(chain) - model.cursor
    BY <1>2, <2>1, <2>2
  <2>4. \A i \in 1 .. Len(page'.rows) : page'.rows[i] = chain[model.cursor + i]
    BY SMTT(30), <1>2, <2>1, <2>3
  <2> QED BY <1>2, <2>1, <2>2, <2>3, <2>4 DEF InPlace
<1>4. CASE page' = Nothing
  BY <1>4
<1>5. CASE page' = page /\ page # Nothing
  <2>1. /\ InPlace
        /\ page.loaded \in ModelRows
        /\ page.rows \in Seq(Receipts)
    BY <1>1, <1>5 DEF CursorInv, ReceiptInv, TypeOK
  <2>2. /\ page.loaded.row \in Nat /\ page.loaded.cursor \in Nat
        /\ Len(page.rows) \in Nat
    BY <2>1 DEF ModelRows
  <2>3. \/ model'.row = model.row /\ model'.cursor = model.cursor
        \/ model'.row = model.row + 1
    <3>1. Register => model'.row = model.row + 1
      BY DEF Register
    <3>2. Provision => model'.row = model.row /\ model'.cursor = model.cursor
      BY <1>2 DEF Provision, ModelRows
    <3>3. ~Reconcile
      BY <1>5 DEF Reconcile
    <3> QED
      BY <3>1, <3>2, <3>3
         DEF Next, RequestPath, Serve, RecordSuccess, RecordFailure, LoseRow, Restart,
             Fetch, Abandon, vars
  <2>4. /\ page.loaded.row =< model'.row
        /\ page.loaded.row = model'.row => page.loaded.cursor = model'.cursor
    BY <1>2, <2>1, <2>2, <2>3 DEF InPlace
  <2>5. page.loaded.cursor + Len(page.rows) =< Len(chain')
    BY <1>1, <1>2, <2>1, <2>2 DEF InPlace
  <2>6. ASSUME NEW i \in 1 .. Len(page.rows)
        PROVE  page.rows[i] = chain'[page.loaded.cursor + i]
    <3>1. page.loaded.cursor + i \in 1 .. Len(chain)
      BY <1>2, <2>1, <2>2 DEF InPlace
    <3> QED BY <1>1, <2>1, <3>1 DEF InPlace
  <2> QED BY <1>5, <2>4, <2>5, <2>6 DEF InPlace
<1> QED
  BY <1>3, <1>4, <1>5
     DEF Next, RequestPath, Serve, RecordSuccess, RecordFailure, LoseRow, Restart,
         Register, Provision, Abandon, Reconcile, vars

(* No receipt is left behind by the cursor, whatever the page limit, the   *)
(* order of rows and receipts, the pulls that fail and the registrations   *)
(* in between, but for rows that came late and for an enclave that came    *)
(* back with an older chain.  (receipts.py: collect_model, _reconcile.)    *)
THEOREM CursorSkipsNothing ==
    ASSUME DistinctRequests
    PROVE  Spec => []NoReceiptSkipped
<1>1. Init => CursorInv
  <2> SUFFICES ASSUME Init PROVE CursorInv
    OBVIOUS
  <2>1. model.cursor = 0 /\ chain = <<>> /\ page = Nothing
    BY DEF Init
  <2> QED BY <2>1 DEF CursorInv
<1>2. ReceiptInv /\ CursorInv /\ [Next]_vars => CursorInv'
  <2> SUFFICES ASSUME ReceiptInv, CursorInv, [Next]_vars, ~lost'
               PROVE  /\ model'.cursor =< Len(chain')
                      /\ \A i \in 1 .. model'.cursor : Done(i)'
                      /\ (page # Nothing => InPlace)'
    BY DEF CursorInv
  <2> QED BY StepPassed, StepInPlace
<1>3. ReceiptInv /\ CursorInv => NoReceiptSkipped
  <2> SUFFICES ASSUME CursorInv, ~lost, NEW i \in 1 .. model.cursor
               PROVE  LET a == chain[i].attempt
                      IN  (attempt[a].stage = "recorded" /\ TokensMatch(a, chain[i])
                              /\ a \notin late) => attempt[a].verified
    BY DEF NoReceiptSkipped
  <2> QED BY DEF CursorInv, Done, TokensMatch
<1> QED BY <1>1, <1>2, <1>3, Corroborated, PTL DEF Spec

-----------------------------------------------------------------------------
(* The artifacts of the epochs. *)

(* The counts of an artifact are those of the rows of epoch e. *)
Counts(art, e) ==
    /\ art.ok = Stats!Cardinality(Stats!Served(e))
    /\ art.failed = Stats!Cardinality(Stats!RowsOf(e) \ Stats!Served(e))
    /\ art.verified = Stats!Total(Stats!TokensOf, {a \in Stats!Served(e) : row[a].verified})

Closed(e) == e + SettleLag < epoch

(* What finalize_due has read, added or committed is of closed epochs. *)
PassInv ==
    /\ pass.running => Closed(pass.next)
    /\ ~pass.running => DOMAIN drafts = {}
    /\ \A e \in DOMAIN drafts : Closed(e)
    /\ \A e \in DOMAIN snapshot : Closed(e)
    /\ DOMAIN drafts \cap DOMAIN snapshot = {}

(* A row that is not committed yet is not late. *)
Timely ==
    \A a \in Attempts :
       row[a].stage = "stamped" /\ row[a].epoch # Stats!NoEpoch
         => epoch <= row[a].epoch + SettleEpochs

StatsInv ==
    /\ Stats!TypeOK
    /\ PassInv
    /\ Timely
    /\ \A e \in DOMAIN drafts : Counts(drafts[e], e)
    /\ \A e \in DOMAIN snapshot : Counts(snapshot[e], e)

-----------------------------------------------------------------------------
(* Type correctness of the statistics. *)

(* The counts of EpochStats are the library's.                              *)
LEMMA StatsCardinality == ASSUME NEW S PROVE Stats!Cardinality(S) = Cardinality(S)
BY DEF Stats!Cardinality, Cardinality

(* The tokens an epoch's rows count are finitely many (_aggregate: sum). *)
LEMMA StatsTotalNat ==
    ASSUME NEW f \in [Attempts -> Nat], NEW T \in SUBSET Attempts
    PROVE  Stats!Total(f, T) \in Nat
<1> DEFINE Row(x) == {x} \X (1 .. f[x])
           g == [x \in T |-> Row(x)]
           Blocks == {Row(x) : x \in T}
<1>1. IsFiniteSet(T) /\ g \in Surjection(T, Blocks)
  BY ReceiptAssumption, FS_Subset DEF Surjection
<1>2. IsFiniteSet(Blocks)
  <2> HIDE DEF g, Blocks
  <2> QED BY <1>1, FS_Surjection
<1>3. \A B \in Blocks : IsFiniteSet(B)
  <2> SUFFICES ASSUME NEW x \in T  PROVE IsFiniteSet(Row(x))
    OBVIOUS
  <2>1. IsFiniteSet({x})
    BY FS_Singleton
  <2>2. IsFiniteSet(1 .. f[x])
    BY FS_Interval
  <2> QED BY <2>1, <2>2, FS_Product
<1>4. IsFiniteSet(Stats!Units(f, T))
  <2>1. Stats!Units(f, T) = UNION Blocks
    BY DEF Stats!Units
  <2> HIDE DEF Blocks
  <2> QED BY <2>1, <1>2, <1>3, FS_UNION
<1> QED BY <1>4, FS_CardinalityType, StatsCardinality DEF Stats!Total

(* What _aggregate computes is an artifact. *)
LEMMA AggregateType ==
    ASSUME Stats!TypeOK, NEW e
    PROVE  Stats!Aggregate(e) \in Stats!Artifacts
<1>1. IsFiniteSet(Attempts)
  BY ReceiptAssumption
<1>2. Stats!TokensOf \in [Attempts -> Nat]
  BY DEF Stats!TypeOK, Stats!Rows, Stats!TokensOf
<1>3. /\ Stats!Served(e) \in SUBSET Attempts
      /\ Stats!RowsOf(e) \ Stats!Served(e) \in SUBSET Attempts
      /\ {a \in Stats!Served(e) : row[a].verified} \in SUBSET Attempts
  BY DEF Stats!Served, Stats!RowsOf
<1>4. /\ Stats!Cardinality(Stats!Served(e)) \in Nat
      /\ Stats!Cardinality(Stats!RowsOf(e) \ Stats!Served(e)) \in Nat
  BY <1>1, <1>3, FS_Subset, FS_CardinalityType, StatsCardinality
<1>5. Stats!Total(Stats!TokensOf, {a \in Stats!Served(e) : row[a].verified}) \in Nat
  BY <1>1, <1>2, <1>3, StatsTotalNat
<1>6. clock \in Nat
  BY StatsAssumption DEF Stats!TypeOK
<1> QED BY <1>4, <1>5, <1>6 DEF Stats!Aggregate, Stats!Artifacts

(* An action of the request path, or of the collector, on a row.            *)
RowStep(a) ==
    \/ Stats!RecordSuccess(a) \/ Stats!RecordFailure(a) \/ Stats!CommitRow(a)
    \/ Stats!LoseRow(a) \/ Stats!Verify(a)

(* Every action of the request path changes one row, to a row. *)
LEMMA RowTyped ==
    ASSUME Stats!TypeOK, NEW a \in Attempts,
           RowStep(a)
    PROVE  /\ row' \in [Attempts -> Stats!Rows]
           /\ \A b \in Attempts \ {a} : row'[b] = row[b]
           /\ UNCHANGED <<epoch, clock, snapshot, pass, drafts, failures>>
<1>1. /\ row \in [Attempts -> Stats!Rows]
      /\ epoch \in Stats!Epochs
  BY DEF Stats!TypeOK
<1>2. CASE Stats!RecordSuccess(a)
  <2>1. PICK n \in Tokens, e \in {epoch, Stats!NoEpoch} :
           row' = [row EXCEPT ![a] =
                    [stage |-> "stamped", epoch |-> e, outcome |-> "success",
                     tokens |-> n, verified |-> FALSE]]
    BY <1>2 DEF Stats!RecordSuccess
  <2>2. n \in Nat
    BY ReceiptAssumption
  <2> QED BY <1>1, <1>2, <2>1, <2>2 DEF Stats!RecordSuccess, Stats!Rows, Stats!Outcomes
<1>3. CASE Stats!RecordFailure(a)
  BY <1>1, <1>3 DEF Stats!RecordFailure, Stats!Rows, Stats!Outcomes
<1>4. CASE Stats!CommitRow(a)
  BY <1>1, <1>4 DEF Stats!CommitRow, Stats!Rows
<1>5. CASE Stats!LoseRow(a)
  BY <1>1, <1>5 DEF Stats!LoseRow, Stats!Rows
<1>6. CASE Stats!Verify(a)
  BY <1>1, <1>6 DEF Stats!Verify, Stats!Rows
<1> QED BY <1>2, <1>3, <1>4, <1>5, <1>6 DEF RowStep

(* The initial state is well typed. *)
LEMMA StatsInitTyped == Stats!Init => Stats!TypeOK
BY StatsAssumption
   DEF Stats!Init, Stats!TypeOK, Stats!Rows, Stats!Epochs, Stats!Outcomes,
       Stats!NoEpoch, Stats!None, Stats!Idle, Stats!Artifacts

(* Every step keeps the types. *)
LEMMA StatsStepTyped == Stats!TypeOK /\ [Stats!Next]_Stats!vars => Stats!TypeOK'
<1> SUFFICES ASSUME Stats!TypeOK, [Stats!Next]_Stats!vars
             PROVE  Stats!TypeOK'
  OBVIOUS
<1> USE StatsAssumption
<1>1. CASE Stats!RequestPath
  <2>1. PICK a \in Attempts : RowStep(a)
    BY <1>1 DEF Stats!RequestPath, RowStep
  <2>2. /\ row' \in [Attempts -> Stats!Rows]
        /\ UNCHANGED <<epoch, clock, snapshot, pass, drafts, failures>>
    BY <2>1, RowTyped
  <2> QED BY <2>2 DEF Stats!TypeOK
<1>2. CASE Stats!StartPass
  <2>1. Stats!Newest(epoch) \in Stats!Epochs
    BY <1>2 DEF Stats!StartPass, Stats!TypeOK, Stats!Newest, Stats!Epochs
  <2> QED BY <1>2, <2>1 DEF Stats!StartPass, Stats!TypeOK
<1>3. CASE Stats!Finalize
  <2>1. pass.next \in Stats!Epochs /\ pass.next - 1 \in Stats!Epochs \cup {-1}
    BY <1>3 DEF Stats!Finalize, Stats!CanFinalize, Stats!TypeOK, Stats!Epochs
  <2>2. pass' \in [running : BOOLEAN, next : Stats!Epochs \cup {-1}]
    BY <1>3, <2>1 DEF Stats!Finalize, Stats!TypeOK
  <2>3. /\ DOMAIN drafts' \subseteq Stats!Epochs
        /\ \A e \in DOMAIN drafts' : drafts'[e] \in Stats!Artifacts
    BY <1>3, <2>1, AggregateType DEF Stats!Finalize, Stats!Overlay, Stats!TypeOK
  <2> QED BY <1>3, <2>2, <2>3 DEF Stats!Finalize, Stats!TypeOK
<1>4. CASE Stats!CommitPass
  BY <1>4 DEF Stats!CommitPass, Stats!Published, Stats!Overlay, Stats!Idle, Stats!None,
              Stats!TypeOK
<1>5. CASE Stats!FailPass
  BY <1>5 DEF Stats!FailPass, Stats!Idle, Stats!None, Stats!TypeOK
<1>6. CASE Stats!NextEpoch
  BY <1>6 DEF Stats!NextEpoch, Stats!TypeOK, Stats!Epochs
<1>7. CASE Stats!NextSecond
  BY <1>7 DEF Stats!NextSecond, Stats!TypeOK
<1>8. CASE UNCHANGED Stats!vars
  BY <1>8 DEF Stats!vars, Stats!TypeOK
<1> QED BY <1>1, <1>2, <1>3, <1>4, <1>5, <1>6, <1>7, <1>8 DEF Stats!Next

(* Rows, artifacts and the loop variable are well formed in every state.   *)
(* (models.py: MinerRequestStat, MinerEpochSnapshot.)                      *)
THEOREM StatsTyped == Stats!Spec => []Stats!TypeOK
BY StatsInitTyped, StatsStepTyped, PTL DEF Stats!Spec

-----------------------------------------------------------------------------
(* A finalized epoch stays as it is. *)

(* finalize_due's transaction, one step. *)
LEMMA PassStep == Stats!TypeOK /\ PassInv /\ [Stats!Next]_Stats!vars => PassInv'
<1> SUFFICES ASSUME Stats!TypeOK, PassInv, [Stats!Next]_Stats!vars
             PROVE  PassInv'
  OBVIOUS
<1> USE StatsAssumption
<1>1. CASE Stats!RequestPath
  <2>1. PICK a \in Attempts : RowStep(a)
    BY <1>1 DEF Stats!RequestPath, RowStep
  <2>2. UNCHANGED <<epoch, snapshot, pass, drafts>>
    BY <2>1, RowTyped
  <2> QED BY <2>2 DEF PassInv, Closed
<1>2. CASE Stats!StartPass
  BY <1>2 DEF Stats!StartPass, PassInv, Closed, Stats!Newest, Stats!TypeOK, Stats!Epochs
<1>3. CASE Stats!Finalize
  <2>1. pass.next \in Stats!Epochs /\ pass.next \notin DOMAIN snapshot
    BY <1>3 DEF Stats!Finalize, Stats!CanFinalize, Stats!TypeOK, Stats!Epochs
  <2>2. DOMAIN drafts' = {pass.next} \cup DOMAIN drafts
    BY <1>3 DEF Stats!Finalize, Stats!Overlay
  <2>3. /\ pass'.running
        /\ pass'.next = pass.next - 1
        /\ UNCHANGED <<epoch, snapshot>>
    BY <1>3 DEF Stats!Finalize, Stats!TypeOK
  <2>4. Closed(pass.next) /\ epoch \in Int
    BY <1>3 DEF Stats!Finalize, PassInv, Stats!TypeOK, Stats!Epochs
  <2>5. /\ pass'.next + SettleLag < epoch'
        /\ \A e \in DOMAIN drafts' : e + SettleLag < epoch'
        /\ \A e \in DOMAIN snapshot' : e + SettleLag < epoch'
    BY <2>1, <2>2, <2>3, <2>4 DEF PassInv, Closed, Stats!Epochs
  <2>6. DOMAIN drafts' \cap DOMAIN snapshot' = {}
    BY <2>1, <2>2, <2>3 DEF PassInv
  <2> QED BY <2>3, <2>5, <2>6 DEF PassInv, Closed
<1>4. CASE Stats!CommitPass
  BY <1>4 DEF Stats!CommitPass, Stats!Published, Stats!Overlay, Stats!Idle, Stats!None,
              PassInv, Closed
<1>5. CASE Stats!FailPass
  BY <1>5 DEF Stats!FailPass, Stats!Idle, Stats!None, PassInv, Closed
<1>6. CASE Stats!NextEpoch
  <2>1. /\ UNCHANGED <<snapshot, pass, drafts>>
        /\ epoch' = epoch + 1
    BY <1>6 DEF Stats!NextEpoch
  <2>2. /\ epoch \in Int
        /\ pass.next \in Int
        /\ DOMAIN drafts \subseteq Int
        /\ DOMAIN snapshot \subseteq Int
    BY DEF Stats!TypeOK, Stats!Epochs
  <2>3. \A e \in Int : Closed(e) => Closed(e)'
    BY <2>1, <2>2 DEF Closed
  <2> QED BY <2>1, <2>2, <2>3 DEF PassInv, Closed
<1>7. CASE Stats!NextSecond
  BY <1>7 DEF Stats!NextSecond, PassInv, Closed
<1>8. CASE UNCHANGED Stats!vars
  BY <1>8 DEF Stats!vars, PassInv, Closed
<1> QED BY <1>1, <1>2, <1>3, <1>4, <1>5, <1>6, <1>7, <1>8 DEF Stats!Next

(* Before the first pass there is nothing to say. *)
LEMMA InitPass == Stats!Init => PassInv
BY DEF Stats!Init, PassInv, Stats!Idle, Stats!None

(* A published artifact is never replaced: the walk of finalize_due stops  *)
(* at a finalized epoch, and no other statement writes one.                *)
THEOREM FinalizedIsFinal == Stats!Spec => NeverRepublished
<1> DEFINE Stays == \A e \in DOMAIN snapshot :
                       e \in DOMAIN snapshot' /\ snapshot'[e] = snapshot[e]
<1>1. Stats!Init => Stats!TypeOK /\ PassInv
  BY StatsInitTyped, InitPass
<1>2. Stats!TypeOK /\ PassInv /\ [Stats!Next]_Stats!vars => (Stats!TypeOK /\ PassInv)'
  BY StatsStepTyped, PassStep
<1>3. Stats!TypeOK /\ PassInv /\ [Stats!Next]_Stats!vars => [Stays]_Stats!vars
  <2> SUFFICES ASSUME Stats!TypeOK, PassInv, Stats!Next
               PROVE  Stays
    BY DEF Stats!vars
  <2>1. CASE Stats!RequestPath
    <3>1. PICK a \in Attempts : RowStep(a)
      BY <2>1 DEF Stats!RequestPath, RowStep
    <3> QED BY <3>1, RowTyped
  <2>2. CASE Stats!CommitPass
    BY <2>2 DEF Stats!CommitPass, Stats!Published, Stats!Overlay, PassInv
  <2>3. CASE Stats!StartPass \/ Stats!Finalize \/ Stats!FailPass
               \/ Stats!NextEpoch \/ Stats!NextSecond
    BY <2>3 DEF Stats!StartPass, Stats!Finalize, Stats!FailPass, Stats!NextEpoch,
                Stats!NextSecond
  <2> QED BY <2>1, <2>2, <2>3 DEF Stats!Next
<1> QED BY <1>1, <1>2, <1>3, PTL DEF Stats!Spec, NeverRepublished, Stats!NeverRepublished

-----------------------------------------------------------------------------
(* A finalized epoch is complete. *)

(* The counts depend on the rows of the epoch only. *)
LEMMA CountsOfRows ==
    ASSUME NEW e, Stats!RowsOf(e)' = Stats!RowsOf(e),
           \A b \in Stats!RowsOf(e) : row'[b] = row[b]
    PROVE  /\ Stats!Served(e)' = Stats!Served(e)
           /\ Stats!Total(Stats!TokensOf, {a \in Stats!Served(e) : row[a].verified})'
                = Stats!Total(Stats!TokensOf, {a \in Stats!Served(e) : row[a].verified})
<1> DEFINE V == {a \in Stats!Served(e) : row[a].verified}
<1>1. Stats!Served(e)' = Stats!Served(e)
  BY DEF Stats!Served
<1>2. V' = V
  BY <1>1 DEF Stats!Served
<1>3. \A b \in V : Stats!TokensOf'[b] = Stats!TokensOf[b]
  BY DEF Stats!Served, Stats!RowsOf, Stats!TokensOf
<1>4. Stats!Units(Stats!TokensOf, V)' = Stats!Units(Stats!TokensOf, V)
  BY <1>2, <1>3 DEF Stats!Units
<1> QED BY <1>1, <1>4 DEF Stats!Total

(* A step of the request path leaves the rows of a closed epoch alone. *)
LEMMA ClosedRowsKept ==
    ASSUME SettleEpochs <= SettleLag, Stats!TypeOK, Timely, Stats!RequestPath,
           NEW e \in Stats!Epochs, Closed(e)
    PROVE  Stats!RowsOf(e)' = Stats!RowsOf(e) /\ \A b \in Stats!RowsOf(e) : row'[b] = row[b]
<1> USE StatsAssumption
<1>1. PICK a \in Attempts : RowStep(a)
  BY DEF Stats!RequestPath, RowStep
<1>2. /\ row' \in [Attempts -> Stats!Rows]
      /\ \A b \in Attempts \ {a} : row'[b] = row[b]
  BY <1>1, RowTyped
<1>3. /\ row \in [Attempts -> Stats!Rows]
      /\ epoch \in Int /\ e \in Nat
      /\ row[a].epoch \in Int
  BY DEF Stats!TypeOK, Stats!Rows, Stats!Epochs, Stats!NoEpoch
<1>4. \/ ~(row[a].stage = "recorded" /\ row[a].epoch = e)
           /\ ~(row'[a].stage = "recorded" /\ row'[a].epoch = e)
      \/ row'[a] = row[a]
  <2>1. CASE Stats!RecordSuccess(a) \/ Stats!RecordFailure(a) \/ Stats!LoseRow(a)
    <3>1. row[a].stage # "recorded" /\ row'[a].stage # "recorded"
      <4>1. CASE Stats!RecordSuccess(a)
        BY <1>3, <4>1 DEF Stats!RecordSuccess
      <4>2. CASE Stats!RecordFailure(a)
        BY <1>3, <4>2 DEF Stats!RecordFailure
      <4>3. CASE Stats!LoseRow(a)
        BY <1>3, <4>3 DEF Stats!LoseRow, Stats!Rows
      <4> QED BY <2>1, <4>1, <4>2, <4>3
    <3> QED BY <3>1
  <2>2. CASE Stats!CommitRow(a)
    <3>1. row[a].stage = "stamped" /\ row'[a].epoch = row[a].epoch
      BY <1>3, <2>2 DEF Stats!CommitRow, Stats!Rows
    <3>2. row[a].epoch # e
      BY <1>3, <3>1 DEF Timely, Closed, Stats!NoEpoch
    <3> QED BY <3>1, <3>2
  <2>3. CASE Stats!Verify(a)
    <3>1. epoch <= row[a].epoch + SettleEpochs /\ row'[a].epoch = row[a].epoch
      BY <1>3, <2>3 DEF Stats!Verify, Stats!Rows
    <3>2. row[a].epoch # e
      BY <1>3, <3>1 DEF Closed
    <3> QED BY <3>1, <3>2
  <2> QED BY <1>1, <2>1, <2>2, <2>3 DEF RowStep
<1>5. \A b \in Attempts : b \in Stats!RowsOf(e)' <=> b \in Stats!RowsOf(e)
  BY <1>2, <1>4 DEF Stats!RowsOf
<1>6. Stats!RowsOf(e)' \subseteq Attempts /\ Stats!RowsOf(e) \subseteq Attempts
  BY DEF Stats!RowsOf
<1>7. \A b \in Stats!RowsOf(e) : row'[b] = row[b]
  BY <1>2, <1>4 DEF Stats!RowsOf
<1> QED BY <1>5, <1>6, <1>7

(* A row is stamped with the current epoch, and the chain's next epoch     *)
(* does not come before a row that would then be too late.                 *)
LEMMA TimelyStep == Stats!TypeOK /\ Timely /\ [Stats!Next]_Stats!vars => Timely'
<1> SUFFICES ASSUME Stats!TypeOK, Timely, [Stats!Next]_Stats!vars
             PROVE  Timely'
  OBVIOUS
<1> USE StatsAssumption
<1>1. /\ row \in [Attempts -> Stats!Rows]
      /\ epoch \in Int
      /\ \A a \in Attempts : row[a].epoch \in Int
  BY DEF Stats!TypeOK, Stats!Rows, Stats!Epochs, Stats!NoEpoch
<1>2. CASE Stats!RequestPath
  <2>1. PICK a \in Attempts : RowStep(a)
    BY <1>2 DEF Stats!RequestPath, RowStep
  <2>2. epoch' = epoch /\ \A b \in Attempts \ {a} : row'[b] = row[b]
    BY <2>1, RowTyped
  <2>3. row'[a].stage = "stamped" => row'[a].epoch \in {epoch, Stats!NoEpoch}
    <3>1. CASE Stats!RecordSuccess(a)
      BY <1>1, <3>1 DEF Stats!RecordSuccess
    <3>2. CASE Stats!RecordFailure(a)
      BY <1>1, <3>2 DEF Stats!RecordFailure
    <3>3. CASE Stats!CommitRow(a) \/ Stats!LoseRow(a) \/ Stats!Verify(a)
      BY <1>1, <3>3 DEF Stats!CommitRow, Stats!LoseRow, Stats!Verify, Stats!Rows
    <3> QED BY <2>1, <3>1, <3>2, <3>3 DEF RowStep
  <2> QED BY <1>1, <2>2, <2>3 DEF Timely
<1>3. CASE Stats!NextEpoch
  <2>1. row' = row /\ epoch' = epoch + 1
    BY <1>3 DEF Stats!NextEpoch
  <2>2. \A a \in Attempts : row[a].stage = "stamped" /\ row[a].epoch # Stats!NoEpoch
                               => epoch < row[a].epoch + SettleEpochs
    BY <1>3 DEF Stats!NextEpoch
  <2> QED BY <1>1, <2>1, <2>2 DEF Timely
<1>4. CASE Stats!StartPass \/ Stats!Finalize \/ Stats!CommitPass \/ Stats!FailPass
             \/ Stats!NextSecond
             \/ UNCHANGED Stats!vars
  BY <1>4 DEF Stats!StartPass, Stats!Finalize, Stats!CommitPass, Stats!FailPass,
              Stats!NextSecond, Stats!vars, Timely
<1> QED BY <1>2, <1>3, <1>4 DEF Stats!Next

(* The artifacts added and committed keep the counts of their epochs. *)
LEMMA CountsStep ==
    ASSUME SettleEpochs <= SettleLag, StatsInv, [Stats!Next]_Stats!vars
    PROVE  /\ \A e \in DOMAIN drafts' : Counts(drafts[e], e)'
           /\ \A e \in DOMAIN snapshot' : Counts(snapshot[e], e)'
<1> USE DEF StatsInv
<1>1. CASE Stats!RequestPath
  <2>1. PICK c \in Attempts : RowStep(c)
    BY <1>1 DEF Stats!RequestPath, RowStep
  <2>2. UNCHANGED <<snapshot, drafts>>
    BY <2>1, RowTyped
  <2>3. ASSUME NEW e \in DOMAIN drafts \cup DOMAIN snapshot
        PROVE  /\ Stats!RowsOf(e)' = Stats!RowsOf(e)
               /\ Stats!Served(e)' = Stats!Served(e)
               /\ Stats!Total(Stats!TokensOf, {a \in Stats!Served(e) : row[a].verified})'
                    = Stats!Total(Stats!TokensOf, {a \in Stats!Served(e) : row[a].verified})
    <3>1. e \in Stats!Epochs /\ Closed(e)
      BY DEF Stats!TypeOK, PassInv
    <3>2. Stats!RowsOf(e)' = Stats!RowsOf(e) /\ \A b \in Stats!RowsOf(e) : row'[b] = row[b]
      BY <1>1, <3>1, ClosedRowsKept
    <3> QED BY <3>2, CountsOfRows
  <2> QED BY <2>2, <2>3 DEF Counts
<1>2. ASSUME row' = row
      PROVE  \A e : /\ Stats!RowsOf(e)' = Stats!RowsOf(e)
                    /\ Stats!Served(e)' = Stats!Served(e)
                    /\ Stats!Total(Stats!TokensOf,
                                   {a \in Stats!Served(e) : row[a].verified})'
                         = Stats!Total(Stats!TokensOf,
                                       {a \in Stats!Served(e) : row[a].verified})
  <2>1. \A e : Stats!RowsOf(e)' = Stats!RowsOf(e)
    BY <1>2 DEF Stats!RowsOf
  <2> QED BY <1>2, <2>1, CountsOfRows
<1>3. CASE Stats!Finalize
  <2>1. /\ DOMAIN drafts' = {pass.next} \cup DOMAIN drafts
        /\ drafts'[pass.next] = Stats!Aggregate(pass.next)
        /\ \A e \in DOMAIN drafts \ {pass.next} : drafts'[e] = drafts[e]
        /\ UNCHANGED <<row, snapshot>>
    BY <1>3 DEF Stats!Finalize, Stats!Overlay
  <2>2. Counts(Stats!Aggregate(pass.next), pass.next)
    BY DEF Counts, Stats!Aggregate
  <2>3. \A e \in DOMAIN drafts' : Counts(drafts'[e], e)
    BY <2>1, <2>2
  <2> QED BY <1>2, <2>1, <2>3 DEF Counts
<1>4. CASE Stats!CommitPass
  <2>1. /\ DOMAIN drafts' = {}
        /\ \A e \in DOMAIN snapshot' : Counts(snapshot'[e], e)
        /\ row' = row
    BY <1>4 DEF Stats!CommitPass, Stats!Published, Stats!Overlay, Stats!None
  <2> QED BY <1>2, <2>1 DEF Counts
<1>5. CASE Stats!FailPass
  <2>1. DOMAIN drafts' = {} /\ UNCHANGED <<row, snapshot>>
    BY <1>5 DEF Stats!FailPass, Stats!None
  <2> QED BY <1>2, <2>1 DEF Counts
<1>6. CASE Stats!StartPass \/ Stats!NextEpoch \/ Stats!NextSecond \/ UNCHANGED Stats!vars
  <2>1. UNCHANGED <<row, snapshot, drafts>>
    BY <1>6 DEF Stats!StartPass, Stats!NextEpoch, Stats!NextSecond, Stats!vars
  <2> QED BY <1>2, <2>1 DEF Counts
<1> QED BY <1>1, <1>3, <1>4, <1>5, <1>6 DEF Stats!Next

(* If no row and no receipt is later than the settle lag, everything that  *)
(* is ever known of an epoch is in its artifact.  (finalize_due: newest.)  *)
THEOREM FinalizedIsComplete ==
    ASSUME SettleEpochs <= SettleLag
    PROVE  Stats!Spec => []PublishedIsComplete
<1>1. Stats!Init => StatsInv
  <2>1. Stats!Init => Timely
    BY DEF Stats!Init, Timely
  <2>2. Stats!Init => DOMAIN drafts = {} /\ DOMAIN snapshot = {}
    BY DEF Stats!Init, Stats!None
  <2> QED BY <2>1, <2>2, StatsInitTyped, InitPass DEF StatsInv
<1>2. StatsInv /\ [Stats!Next]_Stats!vars => StatsInv'
  BY StatsStepTyped, PassStep, TimelyStep, CountsStep DEF StatsInv
<1>3. StatsInv => PublishedIsComplete
  BY DEF StatsInv, Counts, PublishedIsComplete, Stats!PublishedIsComplete
<1> QED BY <1>1, <1>2, <1>3, PTL DEF Stats!Spec

-----------------------------------------------------------------------------
(* Folds over a sequence, by induction over its length. *)

(* Induction over the natural numbers, with the numbers for which a claim  *)
(* holds as a set.                                                         *)
LEMMA SetInduction ==
    ASSUME NEW S \in SUBSET Nat, 0 \in S, \A n \in S : n + 1 \in S
    PROVE  S = Nat
<1> DEFINE T == Nat \ S
           R == OpToRel(<, Nat)
<1>1. IsWellFoundedOn(R, Nat)
  BY NatLessThanWellFounded
<1>2. SUFFICES ASSUME T # {} PROVE FALSE
  OBVIOUS
<1>3. PICK x \in T : \A y \in T : ~ (<<y, x>> \in R)
  <2> HIDE DEF T, R
  <2>1. T \subseteq Nat
    BY DEF T
  <2> QED BY <1>1, <1>2, <2>1, WFMin
<1>4. \A y \in T : ~ (y < x)
  BY <1>3 DEF OpToRel
<1>5. x # 0 /\ x \in Nat
  OBVIOUS
<1>6. x - 1 \in Nat /\ x - 1 < x
  BY <1>5
<1>7. x - 1 \in S
  BY <1>4, <1>6
<1>8. (x - 1) + 1 \in S
  BY <1>7
<1> QED BY <1>5, <1>8

(* The greatest number of a set of some of the first n. *)
Greatest(s) == CHOOSE x \in s : \A y \in s : x >= y

(* The last of the first n, and those before it. *)
LEMMA LastOff ==
    ASSUME NEW n \in Nat, n # 0
    PROVE  n \in 1 .. n /\ (1 .. n) \ {n} = 1 .. (n - 1) /\ 1 .. n # {}
OBVIOUS

(* The greatest is chosen. *)
LEMMA GreatestIs ==
    ASSUME NEW s, NEW n \in s, n \in Int, \A y \in s : y \in Int /\ y <= n
    PROVE  Greatest(s) = n
<1>1. \A y \in s : n >= y
  OBVIOUS
<1>2. Greatest(s) \in s /\ \A y \in s : Greatest(s) >= y
  BY <1>1, Zenon DEF Greatest
<1>3. Greatest(s) \in Int /\ Greatest(s) <= n /\ Greatest(s) >= n
  BY <1>2
<1> QED BY <1>3

(* FoldLeft of SequencesExt, by its definition, with the two operators it  *)
(* is used with.  It goes through the indices of a sequence downwards.     *)
Plus(op, x, d) == IF op = "add" THEN x + d ELSE Reads!Replay(x, d)

AddsUp(op, q, b, iter) ==
    iter = [s \in SUBSET DOMAIN q |->
               IF s = {} THEN b ELSE Plus(op, iter[s \ {Greatest(s)}], q[Greatest(s)])]

(* What is there after the first n. *)
Folded(op, b, l, n) ==
    (CHOOSE iter : AddsUp(op, SubSeq(l, 1, n), b, iter))[DOMAIN SubSeq(l, 1, n)]

(* The stake after n events, as such a fold. *)
LEMMA StakeIs ==
    ASSUME NEW b, NEW l, NEW n
    PROVE  Reads!Stake(b, l, n) = Folded("add", b, l, n)
<1> DEFINE q == SubSeq(l, 1, n)
           Sums(iter) ==
             iter = [s \in SUBSET DOMAIN q |->
                        IF s = {} THEN b ELSE iter[s \ {Greatest(s)}] + q[Greatest(s)]]
<1>1. Reads!Stake(b, l, n) = (CHOOSE iter : Sums(iter))[DOMAIN q]
  BY DEF Reads!Stake, Reads!FoldLeft, Reads!MapThenFoldSet, Greatest, Reads!Max
<1>2. \A iter : Sums(iter) <=> AddsUp("add", q, b, iter)
  BY DEF AddsUp, Plus
<1>3. (CHOOSE iter : Sums(iter)) = (CHOOSE iter : AddsUp("add", q, b, iter))
  <2> HIDE DEF Sums
  <2> QED BY <1>2
<1> QED BY <1>1, <1>3 DEF Folded

(* There is such a function, for a sequence of any length. *)
LEMMA AddsUpExists ==
    ASSUME NEW op, NEW b, NEW q, NEW n \in Nat, DOMAIN q = 1 .. n
    PROVE  \E iter : AddsUp(op, q, b, iter)
<1> DEFINE Some(k, iter) ==
             iter = [s \in SUBSET (1 .. k) |->
                        IF s = {} THEN b ELSE Plus(op, iter[s \ {Greatest(s)}], q[Greatest(s)])]
           S == {k \in Nat : \E iter : Some(k, iter)}
<1>1. 0 \in S
  <2> DEFINE it == [s \in SUBSET (1 .. 0) |-> b]
  <2>1. SUBSET (1 .. 0) = {{}}
    OBVIOUS
  <2>2. Some(0, it)
    BY <2>1
  <2> HIDE DEF Some
  <2> QED BY <2>2
<1>2. ASSUME NEW k \in S PROVE k + 1 \in S
  <2>1. k \in Nat
    OBVIOUS
  <2>2. PICK iter : Some(k, iter)
    OBVIOUS
  <2> DEFINE it == [s \in SUBSET (1 .. (k + 1)) |->
                       IF k + 1 \in s THEN Plus(op, iter[s \ {k + 1}], q[k + 1]) ELSE iter[s]]
             Of(f, s) == IF s = {} THEN b ELSE Plus(op, f[s \ {Greatest(s)}], q[Greatest(s)])
  <2>3. ASSUME NEW s \in SUBSET (1 .. (k + 1)) PROVE it[s] = Of(it, s)
    <3>1. CASE k + 1 \in s
      <4>1. Greatest(s) = k + 1
        <5>1. k + 1 \in Int /\ \A y \in s : y \in Int /\ y <= k + 1
          BY <2>1
        <5> QED BY <3>1, <5>1, GreatestIs
      <4>2. s \ {k + 1} \in SUBSET (1 .. (k + 1)) /\ k + 1 \notin s \ {k + 1}
        BY <2>1
      <4>3. it[s \ {k + 1}] = iter[s \ {k + 1}]
        BY <4>2
      <4> QED BY <3>1, <4>1, <4>3
    <3>2. CASE k + 1 \notin s
      <4>1. s \in SUBSET (1 .. k)
        BY <2>1, <3>2
      <4>2. iter[s] = Of(iter, s)
        BY <2>2, <4>1
      <4>4. s \ {Greatest(s)} \in SUBSET (1 .. (k + 1)) /\ k + 1 \notin s \ {Greatest(s)}
        BY <3>2
      <4>5. it[s \ {Greatest(s)}] = iter[s \ {Greatest(s)}]
        BY <4>4
      <4>6. it[s] = iter[s]
        BY <3>2
      <4> QED BY <4>2, <4>5, <4>6
    <3> QED BY <3>1, <3>2
  <2>4. Some(k + 1, it)
    <3> HIDE DEF Some
    <3>1. it = [s \in SUBSET (1 .. (k + 1)) |-> it[s]]
      OBVIOUS
    <3> HIDE DEF it
    <3>2. it = [s \in SUBSET (1 .. (k + 1)) |-> Of(it, s)]
      <4> HIDE DEF Of
      <4> QED BY <2>3, <3>1
    <3> QED BY <3>2 DEF Some, Of
  <2> HIDE DEF Some
  <2> QED BY <2>1, <2>4
<1>3. n \in S
  <2> HIDE DEF S
  <2>1. S \in SUBSET Nat
    BY DEF S
  <2> QED BY <1>1, <1>2, <2>1, SetInduction
<1> QED BY <1>3 DEF AddsUp

(* A fold goes on with the next element. *)
LEMMA FoldUnfolds ==
    ASSUME NEW op, NEW b, NEW l \in Seq(Int), NEW n \in 0 .. Len(l)
    PROVE  Folded(op, b, l, n)
               = IF n = 0 THEN b ELSE Plus(op, Folded(op, b, l, n - 1), l[n])
<1> DEFINE Q(m) == SubSeq(l, 1, m)
           F(m) == CHOOSE iter : AddsUp(op, Q(m), b, iter)
<1>1. ASSUME NEW m \in 0 .. Len(l)
      PROVE  DOMAIN Q(m) = 1 .. m /\ \A i \in 1 .. m : Q(m)[i] = l[i]
  OBVIOUS
<1>2. ASSUME NEW m \in 0 .. Len(l)
      PROVE  AddsUp(op, Q(m), b, F(m))
  <2>1. m \in Nat /\ DOMAIN Q(m) = 1 .. m
    BY <1>1
  <2>2. \E iter : AddsUp(op, Q(m), b, iter)
    <3> HIDE DEF Q
    <3> QED BY <2>1, AddsUpExists
  <2> QED BY <2>2, Zenon
<1>3. ASSUME NEW m \in 0 .. Len(l), NEW j \in 0 .. m
      PROVE  F(m)[1 .. j] = IF j = 0 THEN b ELSE Plus(op, F(m)[1 .. (j - 1)], l[j])
  <2> HIDE DEF F, Q
  <2>1. F(m) = [s \in SUBSET (1 .. m) |->
                  IF s = {} THEN b ELSE Plus(op, F(m)[s \ {Greatest(s)}], Q(m)[Greatest(s)])]
    BY <1>1, <1>2 DEF AddsUp
  <2>2. 1 .. j \in SUBSET (1 .. m) /\ m \in Nat /\ j \in Nat
    OBVIOUS
  <2>3. CASE j = 0
    <3>1. 1 .. j = {}
      BY <2>3
    <3> QED BY <2>1, <2>2, <2>3, <3>1
  <2>4. CASE j # 0
    <3>1. j \in 1 .. j /\ (1 .. j) \ {j} = 1 .. (j - 1) /\ 1 .. j # {}
      BY <2>2, <2>4, LastOff
    <3>2. Greatest(1 .. j) = j
      <4>1. j \in Int /\ \A y \in 1 .. j : y \in Int /\ y <= j
        OBVIOUS
      <4> QED BY <3>1, <4>1, GreatestIs
    <3>3. F(m)[1 .. j] = Plus(op, F(m)[(1 .. j) \ {j}], Q(m)[j])
      BY <2>1, <2>2, <3>1, <3>2
    <3>4. Q(m)[j] = l[j]
      BY <1>1, <2>2, <2>4
    <3> QED BY <2>4, <3>1, <3>3, <3>4
  <2> QED BY <2>3, <2>4
<1>4. ASSUME NEW m \in 0 .. Len(l), NEW p \in 0 .. Len(l), m <= p
      PROVE  F(m)[1 .. m] = F(p)[1 .. m]
  <2> DEFINE S == {j \in Nat : j <= m => F(m)[1 .. j] = F(p)[1 .. j]}
  <2> HIDE DEF F
  <2>1. 0 \in S
    <3>1. 0 \in 0 .. m /\ 0 \in 0 .. p
      OBVIOUS
    <3>2. F(m)[1 .. 0] = b /\ F(p)[1 .. 0] = b
      BY <1>3, <3>1
    <3> QED BY <3>2
  <2>2. ASSUME NEW j \in S PROVE j + 1 \in S
    <3>1. j \in Nat /\ j + 1 \in Nat
      OBVIOUS
    <3> SUFFICES ASSUME j + 1 <= m PROVE F(m)[1 .. (j + 1)] = F(p)[1 .. (j + 1)]
      BY <3>1
    <3>2. j + 1 \in 0 .. m /\ j + 1 \in 0 .. p /\ j + 1 # 0 /\ (j + 1) - 1 = j
      BY <1>4, <3>1
    <3>3. /\ F(m)[1 .. (j + 1)] = Plus(op, F(m)[1 .. j], l[j + 1])
          /\ F(p)[1 .. (j + 1)] = Plus(op, F(p)[1 .. j], l[j + 1])
      BY <1>3, <3>2
    <3>4. F(m)[1 .. j] = F(p)[1 .. j]
      BY <3>1
    <3> QED BY <3>3, <3>4
  <2>3. m \in S
    <3> HIDE DEF S
    <3>1. S \in SUBSET Nat /\ m \in Nat
      BY DEF S
    <3> QED BY <2>1, <2>2, <3>1, SetInduction
  <2> QED BY <2>3
<1>5. ASSUME NEW m \in 0 .. Len(l)
      PROVE  Folded(op, b, l, m) = F(m)[1 .. m]
  <2>1. Folded(op, b, l, m) = F(m)[DOMAIN Q(m)]
    BY DEF Folded
  <2>2. DOMAIN Q(m) = 1 .. m
    BY <1>1
  <2> HIDE DEF F, Q
  <2> QED BY <2>1, <2>2
<1> HIDE DEF F, Q
<1>6. CASE n = 0
  <2>1. 0 \in 0 .. Len(l) /\ 0 \in 0 .. 0
    OBVIOUS
  <2> QED BY <1>3, <1>5, <1>6, <2>1
<1>7. CASE n # 0
  <2>1. /\ n \in 0 .. Len(l) /\ n \in 0 .. n
        /\ n - 1 \in 0 .. Len(l) /\ n - 1 <= n
    BY <1>7
  <2>2. F(n)[1 .. n] = Plus(op, F(n)[1 .. (n - 1)], l[n])
    BY <1>3, <1>7, <2>1
  <2>3. F(n - 1)[1 .. (n - 1)] = F(n)[1 .. (n - 1)]
    BY <1>4, <2>1
  <2>4. Folded(op, b, l, n) = F(n)[1 .. n] /\ Folded(op, b, l, n - 1) = F(n - 1)[1 .. (n - 1)]
    BY <1>5, <2>1
  <2> QED BY <1>7, <2>2, <2>3, <2>4
<1> QED BY <1>6, <1>7

(* Replay of all that was returned, as a sum over records.                 *)
Blank == [balance |-> 0, n |-> 0, start |-> 0]

(* The streak's start is in what such a fold comes to. *)
LEMMA StreakIs ==
    ASSUME NEW l \in Seq(Int), Len(l) <= MaxEvents, MaxEvents \in Nat
    PROVE  Reads!StreakStart(l) = Folded("replay", Blank, l, Len(l)).start
<1> DEFINE q == SubSeq(l, 1, Len(l))
           Replays(iter) ==
             iter = [s \in SUBSET DOMAIN q |->
                        IF s = {} THEN Blank
                        ELSE Reads!Replay(iter[s \ {Greatest(s)}], q[Greatest(s)])]
<1>1. Reads!Page(l) = q
  BY DEF Reads!Page
<1>2. Reads!StreakStart(l) = (CHOOSE iter : Replays(iter))[DOMAIN q].start
  <2> HIDE DEF q
  <2> QED BY <1>1 DEF Reads!StreakStart, Reads!FoldLeft, Reads!MapThenFoldSet, Greatest,
                      Reads!Max, Blank
<1>3. \A iter : Replays(iter) <=> AddsUp("replay", q, Blank, iter)
  BY DEF AddsUp, Plus
<1>4. (CHOOSE iter : Replays(iter)) = (CHOOSE iter : AddsUp("replay", q, Blank, iter))
  <2> HIDE DEF Replays
  <2> QED BY <1>3
<1> QED BY <1>2, <1>4 DEF Folded

-----------------------------------------------------------------------------
(* Stakes and streaks. *)

(* Before the first event there is what was there before. *)
LEMMA StakeStarts ==
    ASSUME NEW b \in Int, NEW l \in Seq(Int)
    PROVE  Reads!Stake(b, l, 0) = b
<1> DEFINE op == "add"
<1>1. Reads!Stake(b, l, 0) = Folded(op, b, l, 0)
  BY StakeIs
<1> HIDE DEF op
<1>2. 0 \in 0 .. Len(l)
  OBVIOUS
<1>3. Folded(op, b, l, 0) = b
  BY <1>2, FoldUnfolds
<1> QED BY <1>1, <1>3

(* An event adds to it. *)
LEMMA StakeMovesOn ==
    ASSUME NEW b \in Int, NEW l \in Seq(Int), NEW n \in 1 .. Len(l)
    PROVE  Reads!Stake(b, l, n) = Reads!Stake(b, l, n - 1) + l[n]
<1> DEFINE op == "add"
<1>1. \A x, d : Plus(op, x, d) = x + d
  BY DEF Plus
<1>2. \A k : Reads!Stake(b, l, k) = Folded(op, b, l, k)
  BY StakeIs
<1> HIDE DEF op
<1>3. n \in 0 .. Len(l) /\ n # 0
  OBVIOUS
<1>4. Folded(op, b, l, n) = Plus(op, Folded(op, b, l, n - 1), l[n])
  BY <1>3, FoldUnfolds
<1> QED BY <1>1, <1>2, <1>4

(* The stake of an account is that of its log after what was there before. *)
LEMMA StakeSplits ==
    ASSUME NEW b \in Int, NEW l \in Seq(Int), NEW n \in 0 .. Len(l)
    PROVE  /\ Reads!Stake(0, l, n) \in Int
           /\ Reads!Stake(b, l, n) = b + Reads!Stake(0, l, n)
<1> DEFINE S == {k \in Nat : k <= Len(l) => /\ Reads!Stake(0, l, k) \in Int
                                            /\ Reads!Stake(b, l, k) = b + Reads!Stake(0, l, k)}
<1>1. 0 \in S
  BY StakeStarts
<1>2. ASSUME NEW k \in S PROVE k + 1 \in S
  <2>1. k \in Nat /\ k + 1 \in Nat
    OBVIOUS
  <2> SUFFICES ASSUME k + 1 <= Len(l)
               PROVE  /\ Reads!Stake(0, l, k + 1) \in Int
                      /\ Reads!Stake(b, l, k + 1) = b + Reads!Stake(0, l, k + 1)
    BY <2>1
  <2>2. k + 1 \in 1 .. Len(l) /\ (k + 1) - 1 = k /\ l[k + 1] \in Int
    BY <2>1
  <2>3. /\ Reads!Stake(0, l, k + 1) = Reads!Stake(0, l, k) + l[k + 1]
        /\ Reads!Stake(b, l, k + 1) = Reads!Stake(b, l, k) + l[k + 1]
    <3>1. k + 1 \in 1 .. Len(l)
      BY <2>1, <2>2
    <3> QED BY <2>2, <3>1, StakeMovesOn
  <2>4. Reads!Stake(0, l, k) \in Int /\ Reads!Stake(b, l, k) = b + Reads!Stake(0, l, k)
    BY <2>1
  <2> QED BY <2>2, <2>3, <2>4
<1>3. n \in S
  <2> HIDE DEF S
  <2>1. S \in SUBSET Nat /\ n \in Nat
    BY DEF S
  <2> QED BY <1>1, <1>2, <2>1, SetInduction
<1> QED BY <1>3

(* The stakes of a log's beginning are those of the log.                   *)
LEMMA StakeOfPrefix ==
    ASSUME NEW b, NEW l \in Seq(Int), NEW m \in 0 .. Len(l), NEW n \in 0 .. m
    PROVE  Reads!Stake(b, SubSeq(l, 1, m), n) = Reads!Stake(b, l, n)
<1>1. SubSeq(SubSeq(l, 1, m), 1, n) = SubSeq(l, 1, n)
  OBVIOUS
<1> QED BY <1>1 DEF Reads!Stake

(* An event that is added changes no earlier stake. *)
LEMMA StakeOfAppend ==
    ASSUME NEW b, NEW l \in Seq(Int), NEW d \in Int, NEW n \in 0 .. Len(l)
    PROVE  Reads!Stake(b, Append(l, d), n) = Reads!Stake(b, l, n)
<1>1. SubSeq(Append(l, d), 1, n) = SubSeq(l, 1, n)
  OBVIOUS
<1> QED BY <1>1 DEF Reads!Stake

(* compute_streak_start: since the start of the streak the events have     *)
(* left something, and just before it nothing; without one nothing is left. *)
StreakAt(l, k, r) ==
    /\ r.balance = Reads!Stake(0, l, k)
    /\ r.n = k
    /\ r.start \in 0 .. k
    /\ r.start = 0 => r.balance <= 0
    /\ r.start > 0 => /\ Reads!Stake(0, l, r.start - 1) <= 0
                      /\ \A i \in r.start .. k : Reads!Stake(0, l, i) > 0

(* One more event. *)
LEMMA StreakGoesOn ==
    ASSUME NEW l \in Seq(Int), NEW k \in Nat, k + 1 <= Len(l), NEW r, StreakAt(l, k, r)
    PROVE  StreakAt(l, k + 1, Reads!Replay(r, l[k + 1]))
<1> DEFINE d == l[k + 1]
           q == Reads!Replay(r, d)
           St(i) == Reads!Stake(0, l, i)
<1>1. k + 1 \in 1 .. Len(l) /\ (k + 1) - 1 = k /\ d \in Int /\ k \in 0 .. Len(l)
  OBVIOUS
<1>2. St(k + 1) = St(k) + d /\ St(k) \in Int
  <2>1. Reads!Stake(0, l, k + 1) = Reads!Stake(0, l, k) + d
    <3>1. k + 1 \in 1 .. Len(l)
      BY <1>1
    <3> QED BY <1>1, <3>1, StakeMovesOn
  <2>2. Reads!Stake(0, l, k) \in Int
    BY <1>1, StakeSplits
  <2> QED BY <1>1, <2>1, <2>2
<1>3. /\ q.balance = r.balance + d
      /\ q.n = r.n + 1
      /\ q.start = IF d = 0 THEN r.start
                   ELSE IF r.balance <= 0 /\ r.balance + d > 0 THEN r.n + 1
                   ELSE IF r.balance + d <= 0 THEN 0 ELSE r.start
  BY DEF Reads!Replay
<1>4. /\ r.balance = St(k) /\ r.n = k /\ r.start \in 0 .. k
      /\ r.start = 0 => r.balance <= 0
      /\ r.start > 0 => St(r.start - 1) <= 0 /\ \A i \in r.start .. k : St(i) > 0
  BY DEF StreakAt
<1>5. q.balance = St(k + 1) /\ q.n = k + 1 /\ q.balance \in Int
  BY <1>1, <1>2, <1>3, <1>4
<1> SUFFICES /\ q.start \in 0 .. (k + 1)
             /\ q.start = 0 => q.balance <= 0
             /\ q.start > 0 => St(q.start - 1) <= 0 /\ \A i \in q.start .. (k + 1) : St(i) > 0
  BY <1>5 DEF StreakAt
<1> HIDE DEF q, d, St
<1>6. CASE q.start = r.start /\ r.start > 0 /\ q.balance > 0
  <2>1. \A i \in r.start .. (k + 1) : i \in r.start .. k \/ i = k + 1
    BY <1>4
  <2> QED BY <1>4, <1>5, <1>6, <2>1
<1>7. CASE q.start = 0 /\ q.balance <= 0
  BY <1>7
<1>8. CASE q.start = k + 1 /\ q.balance > 0 /\ St(k) <= 0
  <2>1. \A i \in (k + 1) .. (k + 1) : i = k + 1
    OBVIOUS
  <2> QED BY <1>1, <1>5, <1>8, <2>1
<1>9. \/ q.start = r.start /\ r.start > 0 /\ q.balance > 0
      \/ q.start = 0 /\ q.balance <= 0
      \/ q.start = k + 1 /\ q.balance > 0 /\ St(k) <= 0
  <2>1. r.start > 0 => St(k) > 0
    BY <1>4
  <2>2. r.balance \in Int /\ r.start \in Nat /\ r.balance = St(k) /\ q.balance = r.balance + d
    BY <1>2, <1>3, <1>4
  <2>3. CASE d = 0
    BY <1>3, <1>4, <2>1, <2>2, <2>3
  <2>4. CASE d # 0
    BY <1>1, <1>3, <1>4, <2>1, <2>2, <2>4
  <2> QED BY <2>3, <2>4
<1> QED BY <1>6, <1>7, <1>8, <1>9

(* The streak of a log, by induction over its events. *)
LEMMA StreakIsOne ==
    ASSUME NEW l \in Seq(Int), Len(l) <= MaxEvents, MaxEvents \in Nat
    PROVE  \E r : StreakAt(l, Len(l), r) /\ r.start = Reads!StreakStart(l)
<1> DEFINE R(k) == Folded("replay", Blank, l, k)
           S == {k \in Nat : k <= Len(l) => StreakAt(l, k, R(k))}
<1>1. /\ R(0) = Blank
      /\ \A k \in 1 .. Len(l) : R(k) = Reads!Replay(R(k - 1), l[k])
  <2> DEFINE op == "replay"
  <2>1. \A x, d : Plus(op, x, d) = Reads!Replay(x, d)
    BY DEF Plus
  <2>2. \A k : R(k) = Folded(op, Blank, l, k)
    OBVIOUS
  <2> HIDE DEF op, R
  <2>3. ASSUME NEW k \in 0 .. Len(l)
        PROVE  Folded(op, Blank, l, k)
                   = IF k = 0 THEN Blank ELSE Plus(op, Folded(op, Blank, l, k - 1), l[k])
    BY FoldUnfolds
  <2> QED BY <2>1, <2>2, <2>3
<1> HIDE DEF R
<1>2. 0 \in S
  <2>1. Reads!Stake(0, l, 0) = 0
    BY StakeStarts
  <2> QED BY <1>1, <2>1 DEF Blank, StreakAt
<1>3. ASSUME NEW k \in S PROVE k + 1 \in S
  <2>1. k \in Nat /\ k + 1 \in Nat
    OBVIOUS
  <2> SUFFICES ASSUME k + 1 <= Len(l) PROVE StreakAt(l, k + 1, R(k + 1))
    BY <2>1
  <2>2. k + 1 \in 1 .. Len(l) /\ (k + 1) - 1 = k /\ StreakAt(l, k, R(k))
    BY <2>1
  <2>3. StreakAt(l, k + 1, Reads!Replay(R(k), l[k + 1]))
    BY <2>1, <2>2, StreakGoesOn
  <2> QED BY <1>1, <2>2, <2>3
<1>4. Len(l) \in S
  <2> HIDE DEF S
  <2>1. S \in SUBSET Nat /\ Len(l) \in Nat
    BY DEF S
  <2> QED BY <1>2, <1>3, <2>1, SetInduction
<1>5. R(Len(l)).start = Reads!StreakStart(l)
  BY StreakIs DEF R
<1> QED BY <1>4, <1>5

-----------------------------------------------------------------------------
(* What a read of an account amounts to. *)

(* An allowance is a number of tokens. *)
LEMMA AllowanceIsNat ==
    ASSUME NEW n \in Int
    PROVE  Reads!Allowance(n) \in Nat
<1>1. Token \in Nat \ {0} /\ Unit \in Nat \ {0} /\ PerUnit \in Nat /\ Cap \in Nat
  BY QuotaAssumption
<1> DEFINE k == Token * Unit
<1>2. k \in Nat \ {0}
  BY <1>1
<1> HIDE DEF k
<1>3. n > 0 => n \div k \in Nat
  BY <1>2
<1>4. n > 0 => (n \div k) * PerUnit \in Nat
  BY <1>1, <1>3
<1> QED BY <1>1, <1>4 DEF Reads!Allowance, k

(* So is what is due. *)
LEMMA DueIsNat ==
    ASSUME NEW b \in Int, NEW l \in Seq(Int), NEW old
    PROVE  Reads!Due(b, l, old) \in Nat
<1>1. Len(l) \in 0 .. Len(l)
  OBVIOUS
<1>2. Reads!Stake(b, l, Len(l)) \in Int
  BY <1>1, StakeSplits
<1> QED BY <1>2, AllowanceIsNat DEF Reads!Due

(* Whatever has happened between the two queries: what the amount of the   *)
(* first and the streak of the second grant was due at some moment         *)
(* between them, or nothing is granted for want of an older index.         *)
LEMMA ReadIsGood ==
    ASSUME NEW b \in Nat, NEW l \in Seq(Int), Len(l) <= MaxEvents, MaxEvents \in Nat,
           NEW old \in Nat, NEW n \in old .. Len(l)
    PROVE  LET g == Reads!Granted(Reads!Stake(b, l, n), Reads!StreakStart(l), old)
           IN  \/ g = 0 /\ b > 0
               \/ \E m \in n .. Len(l) : g = Reads!Due(b, SubSeq(l, 1, m), old)
<1> DEFINE g == Reads!Granted(Reads!Stake(b, l, n), Reads!StreakStart(l), old)
           St(c, i) == Reads!Stake(c, l, i)
           start == Reads!StreakStart(l)
<1>1. PICK r : StreakAt(l, Len(l), r) /\ r.start = start
  BY StreakIsOne
<1>2. \A i \in 0 .. Len(l) : St(0, i) \in Int /\ St(b, i) = b + St(0, i)
  BY StakeSplits
<1>3. ASSUME NEW m \in n .. Len(l)
      PROVE  Reads!Due(b, SubSeq(l, 1, m), old)
                 = IF \A i \in old .. m : St(b, i) > 0 THEN Reads!Allowance(St(b, m)) ELSE 0
  <2>1. Len(SubSeq(l, 1, m)) = m /\ m \in 0 .. Len(l)
    OBVIOUS
  <2>2. \A i \in 0 .. m : Reads!Stake(b, SubSeq(l, 1, m), i) = St(b, i)
    BY <2>1, StakeOfPrefix
  <2>3. \A i \in old .. m : i \in 0 .. m
    OBVIOUS
  <2>4. m \in 0 .. m
    BY <2>1
  <2> HIDE DEF St
  <2> QED BY <2>1, <2>2, <2>3, <2>4 DEF Reads!Due
<1>4. /\ r.balance = St(0, Len(l)) /\ start \in 0 .. Len(l)
      /\ start = 0 => r.balance <= 0
      /\ start > 0 => St(0, start - 1) <= 0 /\ \A i \in start .. Len(l) : St(0, i) > 0
  BY <1>1 DEF StreakAt
<1>5. g = IF start \in 1 .. old THEN Reads!Allowance(St(b, n)) ELSE 0
  BY DEF Reads!Granted
<1>6. n \in n .. Len(l) /\ Len(l) \in n .. Len(l) /\ n \in 0 .. Len(l)
  OBVIOUS
<1> SUFFICES \/ g = 0 /\ b > 0
             \/ \E m \in n .. Len(l) : g = Reads!Due(b, SubSeq(l, 1, m), old)
  OBVIOUS
<1> HIDE DEF St, start, g
<1>7. CASE start \in 1 .. old
  <2>1. \A i \in old .. n : i \in start .. Len(l) /\ i \in 0 .. Len(l)
    BY <1>7
  <2>2. ASSUME NEW i \in old .. n PROVE St(b, i) > 0
    <3>1. i \in start .. Len(l) /\ i \in 0 .. Len(l)
      BY <2>1
    <3>2. St(0, i) \in Int /\ St(b, i) = b + St(0, i) /\ St(0, i) > 0
      BY <1>2, <1>4, <1>7, <3>1
    <3> QED BY <3>2
  <2>3. g = Reads!Due(b, SubSeq(l, 1, n), old)
    BY <1>3, <1>5, <1>6, <1>7, <2>2
  <2> QED BY <1>6, <2>3
<1>8. CASE start \notin 1 .. old /\ b = 0
  <2> DEFINE i == IF start = 0 THEN Len(l) ELSE start - 1
  <2>1. i \in old .. Len(l) /\ i \in 0 .. Len(l)
    BY <1>4, <1>8
  <2>2. St(0, i) <= 0
    BY <1>4
  <2>3. ~ (St(b, i) > 0)
    BY <1>2, <1>8, <2>1, <2>2
  <2>4. g = Reads!Due(b, SubSeq(l, 1, Len(l)), old)
    <3> HIDE DEF i
    <3> QED BY <1>3, <1>5, <1>6, <1>8, <2>1, <2>3
  <2> QED BY <1>6, <2>4
<1>9. CASE start \notin 1 .. old /\ b > 0
  BY <1>5, <1>9
<1> QED BY <1>7, <1>8, <1>9

-----------------------------------------------------------------------------
(* The invariant of the reads. *)

QuotaTyped ==
    /\ Reads!TypeOK
    /\ ripe \in [Addresses -> Nat]
    /\ \A a \in Addresses : /\ Len(log[a]) <= MaxLog[a]
                            /\ Reads!Amount(a) \in Nat

(* A user is to be read, being read or has been read in a pass; whoever it *)
(* is had a wallet when the pass began, and no more events of that were    *)
(* old then than there were.                                               *)
QuotaPass ==
    /\ stakePass.user # {} => stakePass.phase = "events"
    /\ stakePass.user \intersect stakePass.todo = {}
    /\ \A r \in stakePass.rows : r.user \notin stakePass.user \union stakePass.todo
    /\ \A r, q \in stakePass.rows : r.user = q.user => r = q
    /\ \A u \in stakePass.user \union stakePass.todo : stakePass.at[u] \in Addresses
    /\ \A r \in stakePass.rows : stakePass.at[r.user] \in Addresses
    /\ \A a \in Addresses : stakePass.old[a] <= Len(log[a])

(* Between the queries: what has been read is the stake after some event,  *)
(* and what has been due since then is noted.                              *)
Noted(u, a) ==
    \E n \in stakePass.old[a] .. Len(log[a]) :
        /\ stakePass.raw = Reads!Stake(before[a], log[a], n)
        /\ \A m \in n .. Len(log[a]) :
               Reads!Due(before[a], SubSeq(log[a], 1, m), stakePass.old[a]) \in dues[u]

QuotaReading == \A u \in stakePass.user : Noted(u, stakePass.at[u])

(* What is written and not yet committed was due.                          *)
Good(r) ==
    \/ r.error
    \/ r.allowance \in dues[r.user]
    \/ r.allowance = 0 /\ before[stakePass.at[r.user]] > 0

QuotaRows == \A r \in stakePass.rows : Good(r)

QuotaInv == QuotaTyped /\ QuotaPass /\ QuotaReading /\ QuotaRows

(* An event adds or takes a number of base units. *)
LEMMA DeltaIsInt ==
    ASSUME NEW d \in Reads!Deltas
    PROVE  d \in Int
<1>0. Amounts \subseteq Nat
  BY QuotaAssumption
<1>1. CASE d \in Amounts
  BY <1>0, <1>1
<1>2. CASE d \in {-n : n \in Amounts}
  <2>1. PICK n \in Amounts : d = -n
    BY <1>2
  <2>2. n \in Int
    BY <1>0
  <2> QED BY <2>1, <2>2
<1> QED BY <1>1, <1>2 DEF Reads!Deltas

(* Logs are sequences of integers.                                         *)
LEMMA LogIs ==
    ASSUME QuotaTyped, NEW a \in Addresses
    PROVE  /\ log[a] \in Seq(Int) /\ Len(log[a]) \in Nat
           /\ before[a] \in Nat
           /\ Len(log[a]) <= MaxLog[a] /\ MaxLog[a] \in Nat
<1>1. Amounts \subseteq Nat /\ MaxLog \in [Addresses -> Nat]
  BY QuotaAssumption
<1>2. \A d \in Reads!Deltas : d \in Int
  BY DeltaIsInt
<1>3. log \in [Addresses -> Seq(Reads!Deltas)] /\ before \in [Addresses -> Nat]
      /\ Len(log[a]) <= MaxLog[a]
  BY DEF QuotaTyped, Reads!TypeOK
<1>4. log[a] \in Seq(Reads!Deltas)
  BY <1>3
<1> HIDE DEF Reads!Deltas
<1>5. log[a] \in Seq(Int)
  <2> DEFINE l == log[a]
  <2>1. Len(l) \in Nat /\ l = [i \in 1 .. Len(l) |-> l[i]]
        /\ \A i \in 1 .. Len(l) : l[i] \in Reads!Deltas
    BY <1>4
  <2> HIDE DEF l
  <2>2. \A i \in 1 .. Len(l) : l[i] \in Int
    BY <1>2, <2>1
  <2>3. l \in Seq(Int)
    BY <2>1, <2>2
  <2> QED BY <2>3 DEF l
<1> QED BY <1>1, <1>3, <1>5

(* Nothing has been read. *)
LEMMA QuotaBegins ==
    ASSUME Reads!Init
    PROVE  QuotaInv
<1>1. Before \subseteq Nat /\ MaxLog \in [Addresses -> Nat] /\ Interval \in Nat /\ MaxFaults \in Nat
  BY QuotaAssumption
<1>2. before \in [Addresses -> Nat]
  BY <1>1 DEF Reads!Init
<1>3. ASSUME NEW a \in Addresses
      PROVE  log[a] = <<>> /\ Reads!Amount(a) = before[a] /\ before[a] \in Nat
  <2>1. log[a] = <<>> /\ <<>> \in Seq(Int) /\ Len(<<>>) = 0
    BY DEF Reads!Init
  <2>2. Reads!Stake(before[a], <<>>, 0) = before[a]
    <3>1. before[a] \in Int
      BY <1>2
    <3> QED BY <2>1, <3>1, StakeStarts
  <2> QED BY <1>2, <2>1, <2>2 DEF Reads!Amount
<1>4. Reads!TypeOK
  <2>1. log \in [Addresses -> Seq(Reads!Deltas)] /\ \A a \in Addresses : ripe[a] \in 0 .. Len(log[a])
    BY DEF Reads!Init
  <2>2. stakePass = Reads!Idle
    BY DEF Reads!Init
  <2>3. stakePass \in [phase : {"idle", "scan", "events"}, todo : SUBSET Users,
                       user : SUBSET Users, at : [Users -> Addresses \union {NoWallet}],
                       old : [Addresses -> Nat], raw : Nat, rows : SUBSET Reads!Rows]
    BY <2>2 DEF Reads!Idle
  <2>4. snap \in [Users -> [age : 0 .. Interval, granted : Nat]]
    BY <1>1 DEF Reads!Init
  <2>5. /\ wallet \in [Users -> Addresses \union {NoWallet}]
        /\ dues \in [Users -> SUBSET Nat]
        /\ faults \in 0 .. MaxFaults
    BY <1>1 DEF Reads!Init
  <2> HIDE DEF Reads!Rows, Reads!Deltas
  <2> QED BY <1>2, <2>1, <2>3, <2>4, <2>5 DEF Reads!TypeOK
<1>5. QuotaTyped
  <2>1. ripe \in [Addresses -> Nat] /\ \A a \in Addresses : Len(log[a]) = 0
    BY <1>3 DEF Reads!Init
  <2> QED BY <1>1, <1>3, <1>4, <2>1 DEF QuotaTyped
<1>6. /\ stakePass.user = {} /\ stakePass.todo = {} /\ stakePass.rows = {}
      /\ \A a \in Addresses : stakePass.old[a] = 0
  BY DEF Reads!Init, Reads!Idle
<1>7. QuotaPass /\ QuotaReading /\ QuotaRows
  BY <1>3, <1>6 DEF QuotaPass, QuotaReading, QuotaRows
<1> QED BY <1>5, <1>7 DEF QuotaInv

(* The chain moves on, perhaps under a read.                               *)
LEMMA ChainMovesKeeps ==
    ASSUME QuotaInv, NEW a \in Addresses, NEW d \in Reads!Deltas, Reads!ChainMoves(a, d)
    PROVE  QuotaInv'
<1> DEFINE l == log[a]
           l1 == Append(l, d)
           b == before[a]
<1>1. /\ QuotaTyped /\ QuotaPass /\ QuotaReading /\ QuotaRows
      /\ Len(l) < MaxLog[a] /\ Reads!Amount(a) + d \in 0 .. MaxStake
      /\ log' = [log EXCEPT ![a] = l1]
      /\ dues' = [u \in Users |->
                    IF u \in stakePass.user /\ stakePass.at[u] = a
                    THEN dues[u] \union {Reads!Due(b, l1, stakePass.old[a])} ELSE dues[u]]
      /\ UNCHANGED <<before, ripe, wallet, snap, stakePass, faults>>
  BY DEF QuotaInv, Reads!ChainMoves
<1>2. /\ l \in Seq(Int) /\ Len(l) \in Nat /\ b \in Nat /\ d \in Int
      /\ MaxLog[a] \in Nat /\ MaxStake \in Nat
  BY <1>1, LogIs, DeltaIsInt, QuotaAssumption
<1>3. l1 \in Seq(Int) /\ Len(l1) = Len(l) + 1 /\ l1[Len(l) + 1] = d
  BY <1>2
<1>4. /\ log \in [Addresses -> Seq(Reads!Deltas)] /\ before \in [Addresses -> Nat]
      /\ ripe \in [Addresses -> Nat] /\ \A x \in Addresses : ripe[x] \in 0 .. Len(log[x])
      /\ dues \in [Users -> SUBSET Nat] /\ stakePass.user \in SUBSET Users
      /\ stakePass.rows \in SUBSET Reads!Rows /\ stakePass.old \in [Addresses -> Nat]
  BY <1>1 DEF QuotaTyped, Reads!TypeOK
<1>5. log'[a] = l1 /\ \A x \in Addresses : x # a => log'[x] = log[x]
  BY <1>1, <1>4
<1>6. Reads!Amount(a)' = Reads!Amount(a) + d
  <2>1. Reads!Amount(a)' = Reads!Stake(b, l1, Len(l1))
    BY <1>1, <1>5 DEF Reads!Amount
  <2>2. Len(l) + 1 \in 1 .. Len(l1) /\ (Len(l) + 1) - 1 = Len(l)
    BY <1>2, <1>3
  <2>3. b \in Int
    BY <1>2
  <2>4. Reads!Stake(b, l1, Len(l) + 1) = Reads!Stake(b, l1, Len(l)) + d
    <3> HIDE DEF l1, b
    <3> QED BY <1>3, <2>2, <2>3, StakeMovesOn
  <2>5. Reads!Stake(b, l1, Len(l)) = Reads!Stake(b, l, Len(l))
    <3>1. Len(l) \in 0 .. Len(l)
      BY <1>2
    <3> QED BY <1>2, <3>1, StakeOfAppend
  <2> QED BY <1>3, <2>1, <2>4, <2>5 DEF Reads!Amount
<1>7. ASSUME NEW x \in Addresses
      PROVE  /\ Len(log'[x]) <= MaxLog[x] /\ Len(log[x]) <= Len(log'[x]) /\ Reads!Amount(x)' \in Nat
             /\ Len(log[x]) \in Nat /\ Len(log'[x]) \in Nat
  <2>1. CASE x = a
    BY <1>1, <1>2, <1>3, <1>5, <1>6, <2>1
  <2>2. CASE x # a
    <3>1. Reads!Amount(x)' = Reads!Amount(x) /\ Reads!Amount(x) \in Nat
      BY <1>1, <1>5, <2>2 DEF Reads!Amount, QuotaTyped
    <3> QED BY <1>1, <1>5, <2>2, <3>1, LogIs
  <2> QED BY <2>1, <2>2
<1>8. QuotaTyped'
  <2>1. log' \in [Addresses -> Seq(Reads!Deltas)]
    <3>1. l1 \in Seq(Reads!Deltas)
      <4>1. l \in Seq(Reads!Deltas)
        BY <1>4
      <4> HIDE DEF Reads!Deltas, l
      <4> QED BY <4>1
    <3> HIDE DEF l1, Reads!Deltas
    <3> QED BY <1>1, <1>4, <3>1
  <2>2. \A x \in Addresses : ripe'[x] \in 0 .. Len(log'[x])
    BY <1>1, <1>4, <1>7
  <2>3. dues' \in [Users -> SUBSET Nat]
    <3>1. Reads!Due(b, l1, stakePass.old[a]) \in Nat
      <4>1. b \in Int /\ l1 \in Seq(Int)
        BY <1>2, <1>3
      <4> HIDE DEF l1, b
      <4> QED BY <4>1, DueIsNat
    <3> HIDE DEF l1, b
    <3> QED BY <1>1, <1>4, <3>1
  <2>4. Reads!TypeOK'
    <3> HIDE DEF l1, Reads!Deltas, Reads!Rows
    <3> QED BY <1>1, <2>1, <2>2, <2>3 DEF QuotaTyped, Reads!TypeOK, Reads!Deltas, Reads!Rows
  <2> QED BY <1>1, <1>4, <1>7, <2>4 DEF QuotaTyped
<1>9. QuotaPass'
  BY <1>1, <1>4, <1>7 DEF QuotaPass
<1>10. QuotaReading'
  <2> SUFFICES ASSUME NEW u \in stakePass.user, NEW x, x = stakePass.at[u]
               PROVE  Noted(u, x)'
    BY <1>1 DEF QuotaReading
  <2>1. Noted(u, x) /\ u \in Users /\ x \in Addresses
    BY <1>1, <1>4 DEF QuotaReading, QuotaPass
  <2>2. CASE x # a
    <3>1. dues'[u] = dues[u] /\ log'[x] = log[x]
      BY <1>1, <1>5, <2>1, <2>2
    <3> QED BY <1>1, <2>1, <3>1 DEF Noted
  <2>3. CASE x = a
    <3>1. PICK n \in stakePass.old[a] .. Len(l) :
              /\ stakePass.raw = Reads!Stake(b, l, n)
              /\ \A m \in n .. Len(l) : Reads!Due(b, SubSeq(l, 1, m), stakePass.old[a]) \in dues[u]
      BY <2>1, <2>3 DEF Noted
    <3>2. stakePass.old[a] \in Nat /\ n \in stakePass.old[a] .. Len(l1) /\ n \in 0 .. Len(l)
      BY <1>2, <1>3, <1>4
    <3>3. stakePass.raw = Reads!Stake(b, l1, n)
      BY <1>2, <3>1, <3>2, StakeOfAppend
    <3>4. dues'[u] = dues[u] \union {Reads!Due(b, l1, stakePass.old[a])}
      BY <1>1, <2>1, <2>3
    <3>5. ASSUME NEW m \in n .. Len(l1)
          PROVE  Reads!Due(b, SubSeq(l1, 1, m), stakePass.old[a]) \in dues'[u]
      <4>1. CASE m \in n .. Len(l)
        <5>1. SubSeq(l1, 1, m) = SubSeq(l, 1, m)
          BY <1>2, <3>2, <4>1
        <5> QED BY <3>1, <3>4, <4>1, <5>1
      <4>2. CASE m = Len(l1)
        <5>1. SubSeq(l1, 1, m) = l1
          BY <1>3, <4>2
        <5> QED BY <3>4, <5>1
      <4>3. m \in n .. Len(l) \/ m = Len(l1)
        BY <1>2, <1>3, <3>2
      <4> QED BY <4>1, <4>2, <4>3
    <3> HIDE DEF l1, b
    <3>6. /\ log'[x] = l1 /\ before'[x] = b
          /\ stakePass' = stakePass /\ stakePass.old[x] = stakePass.old[a]
      BY <1>1, <1>5, <2>3 DEF b
    <3> QED BY <3>2, <3>3, <3>5, <3>6 DEF Noted
  <2> QED BY <2>2, <2>3
<1>11. QuotaRows'
  <2> SUFFICES ASSUME NEW r \in stakePass.rows PROVE Good(r)'
    BY <1>1 DEF QuotaRows
  <2>1. r.user \in Users /\ r.user \notin stakePass.user
    BY <1>1, <1>4 DEF QuotaPass, Reads!Rows
  <2>2. dues'[r.user] = dues[r.user]
    BY <1>1, <2>1
  <2> QED BY <1>1, <2>2 DEF QuotaRows, Good
<1> QED BY <1>8, <1>9, <1>10, <1>11 DEF QuotaInv

(* Time passes, and users link and unlink wallets: none of it reaches what *)
(* a pass has read.                                                        *)
LEMMA OutsideKeeps ==
    ASSUME QuotaInv,
           UNCHANGED <<before, log, snap, stakePass, dues, faults>>,
           \/ UNCHANGED <<ripe, wallet>>
           \/ \E a \in Addresses : Reads!Ripen(a)
           \/ \E u \in Users : Reads!Unlink(u) \/ \E a \in Addresses : Reads!Link(u, a)
    PROVE  QuotaInv'
<1>1. QuotaTyped /\ QuotaPass /\ QuotaReading /\ QuotaRows
  BY DEF QuotaInv
<1>2. /\ log \in [Addresses -> Seq(Reads!Deltas)]
      /\ ripe \in [Addresses -> Nat] /\ \A a \in Addresses : ripe[a] \in 0 .. Len(log[a])
      /\ wallet \in [Users -> Addresses \union {NoWallet}]
      /\ \A a \in Addresses : Len(log[a]) \in Nat
  <2>1. \A a \in Addresses : Len(log[a]) \in Nat
    BY <1>1, LogIs
  <2> QED BY <1>1, <2>1 DEF QuotaTyped, Reads!TypeOK
<1>3. /\ ripe' \in [Addresses -> Nat] /\ \A a \in Addresses : ripe'[a] \in 0 .. Len(log[a])
      /\ wallet' \in [Users -> Addresses \union {NoWallet}]
  <2>1. CASE UNCHANGED <<ripe, wallet>>
    BY <1>2, <2>1
  <2>2. CASE \E a \in Addresses : Reads!Ripen(a)
    BY <1>2, <2>2 DEF Reads!Ripen
  <2>3. CASE \E u \in Users : Reads!Unlink(u) \/ \E a \in Addresses : Reads!Link(u, a)
    BY <1>2, <2>3 DEF Reads!Unlink, Reads!Link, Reads!chainVars
  <2> QED BY <2>1, <2>2, <2>3
<1>4. QuotaTyped'
  <2>1. Reads!TypeOK'
    BY <1>1, <1>3 DEF QuotaTyped, Reads!TypeOK, Reads!Rows, Reads!Deltas
  <2>2. \A a \in Addresses : Reads!Amount(a)' = Reads!Amount(a)
    BY DEF Reads!Amount
  <2> QED BY <1>1, <1>3, <2>1, <2>2 DEF QuotaTyped
<1>5. QuotaPass' /\ QuotaRows'
  BY <1>1 DEF QuotaPass, QuotaRows, Good
<1>6. QuotaReading'
  BY <1>1 DEF QuotaReading, Noted
<1> QED BY <1>4, <1>5, <1>6 DEF QuotaInv

(* What the chain is made of stays typed while it does not move.           *)
LEMMA TypedKeeps ==
    ASSUME QuotaTyped, UNCHANGED <<before, log, ripe, wallet>>,
           /\ snap' \in [Users -> [age : 0 .. Interval, granted : Nat]]
           /\ stakePass' \in [phase : {"idle", "scan", "events"}, todo : SUBSET Users,
                              user : SUBSET Users, at : [Users -> Addresses \union {NoWallet}],
                              old : [Addresses -> Nat], raw : Nat, rows : SUBSET Reads!Rows]
           /\ dues' \in [Users -> SUBSET Nat]
           /\ faults' \in 0 .. MaxFaults
    PROVE  QuotaTyped'
<1>1. Reads!TypeOK'
  BY DEF QuotaTyped, Reads!TypeOK, Reads!Rows, Reads!Deltas
<1>2. \A a \in Addresses : Reads!Amount(a)' = Reads!Amount(a)
  BY DEF Reads!Amount
<1> QED BY <1>1, <1>2 DEF QuotaTyped

(* What is typed of a pass, its user aside.                                *)
LEMMA PassTyped ==
    ASSUME QuotaTyped
    PROVE  /\ snap \in [Users -> [age : 0 .. Interval, granted : Nat]]
           /\ stakePass \in [phase : {"idle", "scan", "events"}, todo : SUBSET Users,
                             user : SUBSET Users, at : [Users -> Addresses \union {NoWallet}],
                             old : [Addresses -> Nat], raw : Nat, rows : SUBSET Reads!Rows]
           /\ dues \in [Users -> SUBSET Nat]
           /\ wallet \in [Users -> Addresses \union {NoWallet}]
           /\ ripe \in [Addresses -> Nat] /\ \A a \in Addresses : ripe[a] \in 0 .. Len(log[a])
           /\ faults \in 0 .. MaxFaults /\ MaxFaults \in Nat /\ Interval \in Nat \ {0}
<1>1. MaxFaults \in Nat /\ Interval \in Nat \ {0}
  BY QuotaAssumption
<1> QED BY <1>1 DEF QuotaTyped, Reads!TypeOK

(* A pass that is over. *)
LEMMA IdleTyped ==
    Reads!Idle \in [phase : {"idle", "scan", "events"}, todo : SUBSET Users,
                    user : SUBSET Users, at : [Users -> Addresses \union {NoWallet}],
                    old : [Addresses -> Nat], raw : Nat, rows : SUBSET Reads!Rows]
BY DEF Reads!Idle

(* A pass begins.                                                          *)
LEMMA PassBeginKeeps ==
    ASSUME QuotaInv, Reads!PassBegin
    PROVE  QuotaInv'
<1> DEFINE aged == [u \in Users |->
                       [snap[u] EXCEPT !.age = IF @ < Interval THEN @ + 1 ELSE @]]
           todo == {u \in Users : wallet[u] # NoWallet /\ Reads!IsStale(aged[u])}
<1>1. /\ QuotaTyped
      /\ snap' = aged
      /\ stakePass' = [Reads!Idle EXCEPT !.phase = "scan", !.at = wallet, !.old = ripe,
                          !.todo = todo]
      /\ UNCHANGED <<before, log, ripe, wallet, dues, faults>>
  BY DEF QuotaInv, Reads!PassBegin, Reads!chainVars
<1>2. /\ snap \in [Users -> [age : 0 .. Interval, granted : Nat]]
      /\ wallet \in [Users -> Addresses \union {NoWallet}]
      /\ ripe \in [Addresses -> Nat] /\ \A a \in Addresses : ripe[a] \in 0 .. Len(log[a])
      /\ dues \in [Users -> SUBSET Nat] /\ faults \in 0 .. MaxFaults /\ Interval \in Nat \ {0}
  BY <1>1, PassTyped
<1>3. aged \in [Users -> [age : 0 .. Interval, granted : Nat]]
  <2> SUFFICES ASSUME NEW u \in Users
               PROVE  aged[u] \in [age : 0 .. Interval, granted : Nat]
    OBVIOUS
  <2> DEFINE s == snap[u]
             age == IF s.age < Interval THEN s.age + 1 ELSE s.age
  <2>1. s \in [age : 0 .. Interval, granted : Nat]
    BY <1>2
  <2>2. aged[u] = [s EXCEPT !.age = age]
    OBVIOUS
  <2> HIDE DEF s, aged
  <2>3. age \in 0 .. Interval
    <3>1. s.age \in 0 .. Interval
      BY <2>1
    <3> QED BY <1>2, <3>1
  <2> HIDE DEF age
  <2> QED BY <2>1, <2>2, <2>3
<1>4. todo \subseteq Users /\ \A u \in todo : wallet[u] \in Addresses
  BY <1>2
<1> HIDE DEF aged, todo
<1>5. stakePass' = [phase |-> "scan", at |-> wallet, todo |-> todo, old |-> ripe,
                    user |-> {}, raw |-> 0, rows |-> {}]
  BY <1>1 DEF Reads!Idle
<1>6. QuotaTyped'
  <2>1. stakePass' \in [phase : {"idle", "scan", "events"}, todo : SUBSET Users,
                        user : SUBSET Users, at : [Users -> Addresses \union {NoWallet}],
                        old : [Addresses -> Nat], raw : Nat, rows : SUBSET Reads!Rows]
    BY <1>2, <1>4, <1>5
  <2> QED BY <1>1, <1>2, <1>3, <2>1, TypedKeeps
<1>7. /\ stakePass'.user = {} /\ stakePass'.rows = {} /\ stakePass'.todo = todo
      /\ stakePass'.at = wallet /\ stakePass'.old = ripe
  BY <1>5
<1>8. \A a \in Addresses : ripe[a] <= Len(log[a])
  <2>1. \A a \in Addresses : Len(log[a]) \in Nat
    BY <1>1, LogIs
  <2> QED BY <1>2, <2>1
<1>9. QuotaPass'
  BY <1>1, <1>4, <1>7, <1>8 DEF QuotaPass
<1>10. QuotaReading' /\ QuotaRows'
  BY <1>7 DEF QuotaReading, QuotaRows
<1> QED BY <1>6, <1>9, <1>10 DEF QuotaInv

(* The first query: the stake of the moment, which is due or not.          *)
LEMMA ReadAmountKeeps ==
    ASSUME QuotaInv, NEW u \in Users, Reads!ReadAmount(u)
    PROVE  QuotaInv'
<1> DEFINE a == stakePass.at[u]
           l == log[a]
           due == Reads!Due(before[a], l, stakePass.old[a])
<1>1. /\ QuotaTyped /\ QuotaPass /\ QuotaReading /\ QuotaRows
      /\ u \in stakePass.todo
      /\ stakePass' = [stakePass EXCEPT !.phase = "events", !.user = {u}, !.todo = @ \ {u},
                                        !.raw = Reads!Amount(a)]
      /\ dues' = [dues EXCEPT ![u] = {due}]
      /\ UNCHANGED <<before, log, ripe, wallet, snap, faults>>
  BY DEF QuotaInv, Reads!ReadAmount, Reads!chainVars
<1>2. a \in Addresses
  BY <1>1 DEF QuotaPass
<1>3. /\ l \in Seq(Int) /\ Len(l) \in Nat /\ before[a] \in Nat /\ Reads!Amount(a) \in Nat
      /\ stakePass.old[a] \in 0 .. Len(l)
  <2>1. stakePass.old[a] \in Nat /\ stakePass.old[a] <= Len(l)
    BY <1>1, <1>2, PassTyped DEF QuotaPass
  <2> QED BY <1>1, <1>2, <2>1, LogIs DEF QuotaTyped
<1>4. due \in Nat
  BY <1>3, DueIsNat
<1>5. SubSeq(l, 1, Len(l)) = l
  BY <1>3
<1>6. Reads!Amount(a) = Reads!Stake(before[a], l, Len(l))
  BY DEF Reads!Amount
<1> HIDE DEF due
<1>7. /\ stakePass'.user = {u} /\ stakePass'.todo = stakePass.todo \ {u}
      /\ stakePass'.rows = stakePass.rows /\ stakePass'.at = stakePass.at
      /\ stakePass'.old = stakePass.old /\ stakePass'.phase = "events"
      /\ stakePass'.raw = Reads!Amount(a)
      /\ dues'[u] = {due} /\ \A v \in Users : v # u => dues'[v] = dues[v]
  BY <1>1, PassTyped
<1>8. QuotaTyped'
  <2>1. stakePass' \in [phase : {"idle", "scan", "events"}, todo : SUBSET Users,
                        user : SUBSET Users, at : [Users -> Addresses \union {NoWallet}],
                        old : [Addresses -> Nat], raw : Nat, rows : SUBSET Reads!Rows]
    <3> HIDE DEF Reads!Rows, a
    <3> QED BY <1>1, <1>3, PassTyped
  <2>2. dues' \in [Users -> SUBSET Nat]
    BY <1>1, <1>4, PassTyped
  <2> QED BY <1>1, <2>1, <2>2, PassTyped, TypedKeeps
<1>9. QuotaPass'
  BY <1>1, <1>2, <1>7 DEF QuotaPass
<1>10. QuotaReading'
  <2>1. Len(l) \in stakePass.old[a] .. Len(l)
    BY <1>3
  <2>2. \A m \in Len(l) .. Len(l) : m = Len(l)
    BY <1>3
  <2>3. Reads!Due(before[a], SubSeq(l, 1, Len(l)), stakePass.old[a]) \in dues'[u]
    BY <1>5, <1>7 DEF due
  <2>4. Noted(u, a)'
    <3>1. /\ log'[a] = l /\ before'[a] = before[a] /\ stakePass'.at[u] = a
          /\ stakePass'.old[a] = stakePass.old[a]
      BY <1>1, <1>7
    <3> HIDE DEF l
    <3>2. \E n \in stakePass'.old[a] .. Len(log'[a]) :
              /\ stakePass'.raw = Reads!Stake(before'[a], log'[a], n)
              /\ \A m \in n .. Len(log'[a]) :
                     Reads!Due(before'[a], SubSeq(log'[a], 1, m), stakePass'.old[a]) \in dues'[u]
      BY <1>6, <1>7, <2>1, <2>2, <2>3, <3>1
    <3>3. a' = a
      BY <1>7
    <3> HIDE DEF a
    <3> QED BY <3>2, <3>3 DEF Noted
  <2>5. stakePass'.at[u] = a
    BY <1>7
  <2> QED BY <1>7, <2>4, <2>5 DEF QuotaReading
<1>11. QuotaRows'
  <2> SUFFICES ASSUME NEW r \in stakePass.rows PROVE Good(r)'
    BY <1>7 DEF QuotaRows
  <2>1. r.user \in Users /\ r.user # u
    BY <1>1, PassTyped DEF QuotaPass, Reads!Rows
  <2>2. dues'[r.user] = dues[r.user]
    BY <1>7, <2>1
  <2> QED BY <1>1, <1>7, <2>2 DEF QuotaRows, Good
<1> QED BY <1>8, <1>9, <1>10, <1>11 DEF QuotaInv

(* A row that is written after a read, and is good.                        *)
LEMMA WriteKeeps ==
    ASSUME QuotaInv, NEW u \in stakePass.user, NEW g \in Nat, NEW e \in BOOLEAN,
           Reads!Write(u, g, e), faults' \in 0 .. MaxFaults,
           UNCHANGED <<before, log, ripe, wallet, snap, dues>>,
           e \/ g \in dues[u] \/ (g = 0 /\ before[stakePass.at[u]] > 0)
    PROVE  QuotaInv'
<1> DEFINE new == [user |-> u, allowance |-> g, error |-> e]
<1>1. /\ QuotaTyped /\ QuotaPass /\ QuotaRows
      /\ stakePass' = [stakePass EXCEPT !.phase = "scan", !.user = {}, !.raw = 0,
                                        !.rows = @ \union {new}]
  BY DEF QuotaInv, Reads!Write
<1>2. u \in Users /\ new \in Reads!Rows
  BY <1>1, PassTyped DEF Reads!Rows
<1>3. new.user = u /\ new.allowance = g /\ new.error = e
  OBVIOUS
<1> HIDE DEF new
<1>4. /\ stakePass'.user = {} /\ stakePass'.todo = stakePass.todo
      /\ stakePass'.rows = stakePass.rows \union {new} /\ stakePass'.at = stakePass.at
      /\ stakePass'.old = stakePass.old
  BY <1>1, PassTyped
<1>5. QuotaTyped'
  <2>1. stakePass' \in [phase : {"idle", "scan", "events"}, todo : SUBSET Users,
                        user : SUBSET Users, at : [Users -> Addresses \union {NoWallet}],
                        old : [Addresses -> Nat], raw : Nat, rows : SUBSET Reads!Rows]
    <3> HIDE DEF Reads!Rows
    <3> QED BY <1>1, <1>2, PassTyped
  <2> QED BY <1>1, <2>1, PassTyped, TypedKeeps
<1>6. QuotaPass'
  <2>1. /\ u \notin stakePass.todo /\ stakePass.at[u] \in Addresses
        /\ \A r \in stakePass.rows : r.user # u
    BY <1>1 DEF QuotaPass
  <2> QED BY <1>1, <1>3, <1>4, <2>1 DEF QuotaPass
<1>7. QuotaReading'
  BY <1>4 DEF QuotaReading
<1>8. QuotaRows'
  BY <1>1, <1>3, <1>4 DEF QuotaRows, Good
<1> QED BY <1>5, <1>6, <1>7, <1>8 DEF QuotaInv

(* The second query.                                                       *)
LEMMA ReadEventsKeeps ==
    ASSUME PageHoldsLog, QuotaInv, NEW u \in Users, Reads!ReadEvents(u)
    PROVE  QuotaInv'
<1> DEFINE a == stakePass.at[u]
           g == Reads!Granted(stakePass.raw, Reads!StreakStart(log[a]), stakePass.old[a])
<1>1. /\ QuotaTyped /\ QuotaPass /\ QuotaReading
      /\ u \in stakePass.user /\ Reads!Write(u, g, FALSE)
      /\ UNCHANGED <<before, log, ripe, wallet, snap, dues, faults>>
  BY DEF QuotaInv, Reads!ReadEvents, Reads!chainVars
<1>2. a \in Addresses /\ Noted(u, a)
  BY <1>1 DEF QuotaPass, QuotaReading
<1> HIDE DEF a
<1>3. /\ log[a] \in Seq(Int) /\ before[a] \in Nat /\ Len(log[a]) <= MaxEvents
      /\ MaxEvents \in Nat /\ stakePass.old[a] \in Nat /\ Len(log[a]) \in Nat
  <2>1. /\ log[a] \in Seq(Int) /\ before[a] \in Nat /\ Len(log[a]) \in Nat
        /\ Len(log[a]) <= MaxLog[a] /\ MaxLog[a] \in Nat
    BY <1>1, <1>2, LogIs
  <2>2. MaxEvents \in Nat /\ MaxLog[a] <= MaxEvents
    BY <1>2, QuotaAssumption DEF PageHoldsLog
  <2>3. stakePass.old[a] \in Nat
    BY <1>1, <1>2, PassTyped
  <2> QED BY <2>1, <2>2, <2>3
<1>4. PICK n \in stakePass.old[a] .. Len(log[a]) :
          /\ stakePass.raw = Reads!Stake(before[a], log[a], n)
          /\ \A m \in n .. Len(log[a]) :
                 Reads!Due(before[a], SubSeq(log[a], 1, m), stakePass.old[a]) \in dues[u]
  BY <1>2 DEF Noted
<1>5. \/ g = 0 /\ before[a] > 0
      \/ \E m \in n .. Len(log[a]) :
             g = Reads!Due(before[a], SubSeq(log[a], 1, m), stakePass.old[a])
  <2> DEFINE l == log[a]
             b == before[a]
             old == stakePass.old[a]
  <2>1. g = Reads!Granted(Reads!Stake(b, l, n), Reads!StreakStart(l), old)
    BY <1>4
  <2>2. l \in Seq(Int) /\ b \in Nat /\ old \in Nat /\ Len(l) <= MaxEvents /\ MaxEvents \in Nat
        /\ n \in old .. Len(l)
    BY <1>3
  <2> HIDE DEF l, b, old, g
  <2>3. LET gg == Reads!Granted(Reads!Stake(b, l, n), Reads!StreakStart(l), old)
        IN  \/ gg = 0 /\ b > 0
            \/ \E m \in n .. Len(l) : gg = Reads!Due(b, SubSeq(l, 1, m), old)
    BY <2>2, ReadIsGood
  <2> QED BY <2>1, <2>3 DEF l, b, old
<1>6. g \in Nat
  <2>1. stakePass.raw \in Int
    BY <1>1, PassTyped
  <2> QED BY <2>1, AllowanceIsNat DEF Reads!Granted
<1>7. g \in dues[u] \/ (g = 0 /\ before[stakePass.at[u]] > 0)
  BY <1>4, <1>5 DEF a
<1>8. faults' \in 0 .. MaxFaults
  BY <1>1, PassTyped
<1> HIDE DEF g
<1> QED BY <1>1, <1>6, <1>7, <1>8, WriteKeeps

(* A query fails.                                                          *)
LEMMA ReadFailsKeeps ==
    ASSUME QuotaInv, NEW u \in Users, Reads!ReadFails(u)
    PROVE  QuotaInv'
<1>1. /\ QuotaTyped /\ u \in stakePass.user /\ Reads!Write(u, 0, TRUE)
      /\ faults < MaxFaults /\ faults' = faults + 1
      /\ UNCHANGED <<before, log, ripe, wallet, snap, dues>>
  BY DEF QuotaInv, Reads!ReadFails, Reads!chainVars
<1>2. faults' \in 0 .. MaxFaults
  BY <1>1, PassTyped
<1> QED BY <1>1, <1>2, WriteKeeps

(* A pass ends, with snapshots of all that it has written or of nothing.   *)
LEMMA PassEndsKeeps ==
    ASSUME QuotaInv, Reads!PassEnds, faults' \in 0 .. MaxFaults,
           UNCHANGED <<before, log, ripe, wallet>>,
           snap' \in [Users -> [age : 0 .. Interval, granted : Nat]]
    PROVE  QuotaInv'
<1>1. /\ QuotaTyped /\ stakePass' = Reads!Idle /\ dues' = [u \in Users |-> {}]
  BY DEF QuotaInv, Reads!PassEnds
<1>2. QuotaTyped'
  BY <1>1, IdleTyped, TypedKeeps
<1>3. /\ stakePass'.user = {} /\ stakePass'.rows = {} /\ stakePass'.todo = {}
      /\ \A a \in Addresses : stakePass'.old[a] = 0
  BY <1>1 DEF Reads!Idle
<1>4. \A a \in Addresses : Len(log[a]) \in Nat
  BY <1>1, LogIs
<1>5. QuotaPass' /\ QuotaReading' /\ QuotaRows'
  BY <1>3, <1>4 DEF QuotaPass, QuotaReading, QuotaRows
<1> QED BY <1>2, <1>5 DEF QuotaInv

(* The row of a user that a pass has written is the only one.              *)
LEMMA RowChosen ==
    ASSUME QuotaInv, NEW u \in Users, \E r \in stakePass.rows : r.user = u
    PROVE  LET r == CHOOSE q \in stakePass.rows : q.user = u
           IN  /\ r \in stakePass.rows /\ r.user = u
               /\ r.allowance \in Nat /\ r.error \in BOOLEAN
<1> DEFINE r == CHOOSE q \in stakePass.rows : q.user = u
<1>1. r \in stakePass.rows /\ r.user = u
  BY Zenon
<1> HIDE DEF r
<1>2. r \in Reads!Rows
  BY <1>1, PassTyped DEF QuotaInv
<1>3. r.allowance \in Nat /\ r.error \in BOOLEAN
  BY <1>2 DEF Reads!Rows
<1> QED BY <1>1, <1>3 DEF r

(* A pass commits: what it changes was due. *)
LEMMA PassCommitKeeps ==
    ASSUME QuotaInv, Reads!PassCommit
    PROVE  QuotaInv' /\ Reads!OnlyDueIsGranted
<1> DEFINE Has(u) == \E r \in stakePass.rows : r.user = u
           written(u) == CHOOSE q \in stakePass.rows : q.user = u
<1>1. /\ QuotaTyped /\ QuotaRows /\ Reads!PassEnds
      /\ snap' = [u \in Users |-> IF Has(u) THEN Reads!Latest(snap[u], written(u)) ELSE snap[u]]
      /\ UNCHANGED <<before, log, ripe, wallet, faults>>
  BY DEF QuotaInv, Reads!PassCommit, Reads!chainVars
<1>2. ASSUME NEW u \in Users, Has(u)
      PROVE  /\ written(u) \in stakePass.rows /\ written(u).user = u
             /\ written(u).allowance \in Nat /\ written(u).error \in BOOLEAN
  BY <1>2, RowChosen
<1> HIDE DEF Has, written
<1>3. ASSUME NEW u \in Users
      PROVE  /\ snap'[u] \in [age : 0 .. Interval, granted : Nat]
             /\ snap'[u].granted # snap[u].granted
                    => Has(u) /\ ~ written(u).error /\ snap'[u].granted = written(u).allowance
  <2>1. snap[u] \in [age : 0 .. Interval, granted : Nat] /\ 0 \in 0 .. Interval
    BY <1>1, PassTyped
  <2>2. CASE Has(u)
    <3>1. snap'[u] = [age |-> 0, granted |-> IF written(u).error THEN snap[u].granted
                                             ELSE written(u).allowance]
      BY <1>1, <2>2 DEF Reads!Latest
    <3> QED BY <1>2, <2>1, <2>2, <3>1
  <2>3. CASE ~ Has(u)
    BY <1>1, <2>1, <2>3
  <2> QED BY <2>2, <2>3
<1>4. snap' \in [Users -> [age : 0 .. Interval, granted : Nat]]
  <2>1. snap' = [u \in Users |-> snap'[u]]
    BY <1>1
  <2> QED BY <1>3, <2>1
<1>5. QuotaInv'
  <2>1. faults' \in 0 .. MaxFaults
    BY <1>1, PassTyped
  <2> QED BY <1>1, <1>4, <2>1, PassEndsKeeps
<1>6. Reads!OnlyDueIsGranted
  <2> SUFFICES ASSUME NEW u \in Users, snap'[u].granted # snap[u].granted
               PROVE  \/ snap'[u].granted \in dues[u]
                      \/ snap'[u].granted = 0 /\ before[stakePass.at[u]] > 0
    BY DEF Reads!OnlyDueIsGranted
  <2>1. Has(u) /\ ~ written(u).error /\ snap'[u].granted = written(u).allowance
    BY <1>3
  <2>2. written(u) \in stakePass.rows /\ written(u).user = u
    BY <1>2, <2>1
  <2>3. Good(written(u))
    BY <1>1, <2>2 DEF QuotaRows
  <2> QED BY <2>1, <2>2, <2>3 DEF Good
<1> QED BY <1>5, <1>6

(* The process dies, or the database fails.                                *)
LEMMA PassFailsKeeps ==
    ASSUME QuotaInv, Reads!PassFails
    PROVE  QuotaInv'
<1>1. /\ QuotaTyped /\ Reads!PassEnds /\ faults < MaxFaults /\ faults' = faults + 1
      /\ UNCHANGED <<before, log, ripe, wallet, snap>>
  BY DEF QuotaInv, Reads!PassFails, Reads!chainVars
<1>2. faults' \in 0 .. MaxFaults /\ snap' \in [Users -> [age : 0 .. Interval, granted : Nat]]
  BY <1>1, PassTyped
<1> QED BY <1>1, <1>2, PassEndsKeeps

(* Every step keeps the invariant and grants what was due. *)
LEMMA QuotaStep ==
    ASSUME PageHoldsLog, QuotaInv, Reads!Next \/ UNCHANGED quotaVars
    PROVE  QuotaInv' /\ Reads!OnlyDueIsGranted
<1>1. UNCHANGED snap => Reads!OnlyDueIsGranted
  BY DEF Reads!OnlyDueIsGranted
<1>2. CASE UNCHANGED quotaVars
  BY <1>1, <1>2, OutsideKeeps DEF quotaVars
<1>3. CASE Reads!PassBegin
  <2>1. \A u \in Users : snap'[u].granted = snap[u].granted
    BY <1>3, PassTyped DEF Reads!PassBegin, QuotaInv
  <2> QED BY <1>3, <2>1, PassBeginKeeps DEF Reads!OnlyDueIsGranted
<1>4. ASSUME NEW u \in Users, Reads!ReadAmount(u)
      PROVE  QuotaInv' /\ Reads!OnlyDueIsGranted
  <2>1. UNCHANGED snap
    BY <1>4 DEF Reads!ReadAmount
  <2> QED BY <1>1, <1>4, <2>1, ReadAmountKeeps
<1>5. ASSUME NEW u \in Users, Reads!ReadEvents(u)
      PROVE  QuotaInv' /\ Reads!OnlyDueIsGranted
  <2>1. UNCHANGED snap
    BY <1>5 DEF Reads!ReadEvents
  <2> QED BY <1>1, <1>5, <2>1, ReadEventsKeeps
<1>6. ASSUME NEW u \in Users, Reads!ReadFails(u)
      PROVE  QuotaInv' /\ Reads!OnlyDueIsGranted
  <2>1. UNCHANGED snap
    BY <1>6 DEF Reads!ReadFails
  <2> QED BY <1>1, <1>6, <2>1, ReadFailsKeeps
<1>7. CASE Reads!PassCommit
  BY <1>7, PassCommitKeeps
<1>8. CASE Reads!PassFails
  <2>1. UNCHANGED snap
    BY <1>8 DEF Reads!PassFails
  <2> QED BY <1>1, <1>8, <2>1, PassFailsKeeps
<1>9. ASSUME NEW u \in Users, Reads!Unlink(u) \/ \E a \in Addresses : Reads!Link(u, a)
      PROVE  QuotaInv' /\ Reads!OnlyDueIsGranted
  <2>1. UNCHANGED <<before, log, snap, stakePass, dues, faults>>
    BY <1>9 DEF Reads!Unlink, Reads!Link, Reads!chainVars
  <2> QED BY <1>1, <1>9, <2>1, OutsideKeeps
<1>10. ASSUME NEW a \in Addresses, Reads!Ripen(a)
       PROVE  QuotaInv' /\ Reads!OnlyDueIsGranted
  <2>1. UNCHANGED <<before, log, snap, stakePass, dues, faults>>
    BY <1>10 DEF Reads!Ripen
  <2> QED BY <1>1, <1>10, <2>1, OutsideKeeps
<1>11. ASSUME NEW a \in Addresses, NEW d \in Reads!Deltas, Reads!ChainMoves(a, d)
       PROVE  QuotaInv' /\ Reads!OnlyDueIsGranted
  <2>1. UNCHANGED snap
    BY <1>11 DEF Reads!ChainMoves
  <2> QED BY <1>1, <1>11, <2>1, ChainMovesKeeps
<1>12. CASE Reads!Next
  BY <1>3, <1>4, <1>5, <1>6, <1>7, <1>8, <1>9, <1>10, <1>11, <1>12
  DEF Reads!Next, Reads!PassStep
<1> QED BY <1>2, <1>12

(* Whatever the chain does between two queries, and whatever fails: what   *)
(* is granted anew was due at one moment of the read.  (ht_indexer.py:     *)
(* get_subnet_stake_status; maintenance/tasks.py: _refresh_wallet_stake.)  *)
THEOREM GrantsAreDue ==
    ASSUME PageHoldsLog
    PROVE  QuotaSpec => ReadsGrantWhatWasDue
<1> DEFINE I == scene = "reads" => QuotaInv
<1>1. QuotaInit => I
  BY QuotaBegins DEF QuotaInit
<1>2. I /\ [QuotaNext]_<<quotaVars, scene>>
        => I' /\ [scene = "reads" => Reads!OnlyDueIsGranted]_quotaVars
  <2> SUFFICES ASSUME I, [QuotaNext]_<<quotaVars, scene>>, scene = "reads"
               PROVE  QuotaInv' /\ Reads!OnlyDueIsGranted
    BY DEF QuotaNext
  <2>1. Reads!Next \/ UNCHANGED quotaVars
    BY DEF QuotaNext, quotaVars
  <2> HIDE DEF quotaVars
  <2> QED BY <2>1, QuotaStep
<1>3. I => (scene = "reads" => Reads!TypeOK)
  BY DEF QuotaInv, QuotaTyped
<1> HIDE DEF I
<1> QED BY <1>1, <1>2, <1>3, PTL DEF QuotaSpec, ReadsGrantWhatWasDue

=============================================================================
