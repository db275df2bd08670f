---------------------------- MODULE ReceiptChain ----------------------------
(***************************************************************************)
(* TeeReceiptsCollector (miners/receipts.py): the maintenance loop pulls   *)
(* the chain of signed usage receipts of one enclave, one page at a time,  *)
(* and marks the attempt rows that a receipt corroborates as verified.     *)
(*                                                                         *)
(* The enclave is external: it appends a receipt for whatever it serves,   *)
(* signs the length of its chain with its key, and may restart with a new  *)
(* key or with an older chain.                                             *)
(***************************************************************************)
EXTENDS Integers, Sequences, FiniteSets

CONSTANTS
    Attempts,    \* forward attempts at this enclave
    RequestId,   \* RequestId[a]: the X-Request-Id that attempt a carries
    Tokens,      \* tokens the enclave may count for an attempt
    Estimates,   \* tokens the platform counts when the reply has no usage block
    PageLimit,   \* tee_receipts_page_limit
    MaxRows,     \* bound: how often the model row is replaced
    MaxRestarts  \* bound: restarts of the enclave

ASSUME ReceiptAssumption ==
    /\ IsFiniteSet(Attempts)
    /\ Attempts \subseteq DOMAIN RequestId
    /\ Tokens \subseteq Nat \ {0}
    /\ Estimates \subseteq Nat
    /\ PageLimit \in Nat \ {0}
    /\ MaxRows \in Nat
    /\ MaxRestarts \in Nat

VARIABLES
    attempt,  \* attempt[a]: its row of miner_request_stats, and what the enclave counted
    chain,    \* the enclave's receipts; the row_id of a receipt is its place
    key,      \* the enclave's signing key: one more at every restart that changes it
    restarts, \* restarts so far
    lost,     \* history: the enclave has come back with an older chain
    model,    \* the miner_models row of the enclave
    page,     \* what the running pull holds: the loaded model row and the reply
    late      \* history: attempts whose row came after their receipt was read

vars == <<attempt, chain, key, restarts, lost, model, page, late>>

Unknown == -1    \* NULL in usage_count, and no receipt

(* "served" is an attempt the enclave has answered and logged, whose row   *)
(* the platform has not committed yet.                                     *)
AttemptRows == [stage : {"open", "served", "recorded", "lost"}, success : BOOLEAN,
                tokens : Nat, receipt : Nat \cup {Unknown}, verified : BOOLEAN]

Receipts == [attempt : Attempts, tokens : Nat]

(* row: which miner_models row it is, since a registration replaces it.    *)
ModelRows == [row : Nat, attested : BOOLEAN, key : Nat,
              cursor : Nat, count : Nat \cup {Unknown}]

Nothing == [pulling |-> FALSE]

TypeOK ==
    /\ attempt \in [Attempts -> AttemptRows]
    /\ chain \in Seq(Receipts)
    /\ key \in Nat
    /\ restarts \in 0 .. MaxRestarts
    /\ lost \in BOOLEAN
    /\ model \in ModelRows
    /\ \/ page = Nothing
       \/ /\ page.pulling
          /\ page.loaded \in ModelRows
          /\ page.rows \in Seq(Receipts)
          /\ page.count \in Nat
          /\ page.key \in Nat
    /\ late \subseteq Attempts

-----------------------------------------------------------------------------
(* The request path and the enclave. *)

Init ==
    /\ attempt = [a \in Attempts |->
                     [stage |-> "open", success |-> FALSE, tokens |-> 0,
                      receipt |-> Unknown, verified |-> FALSE]]
    /\ chain = <<>>
    /\ key = 0
    /\ restarts = 0
    /\ lost = FALSE
    /\ model = [row |-> 0, attested |-> TRUE, key |-> 0, cursor |-> 0, count |-> 0]
    /\ page = Nothing
    /\ late = {}

(* The enclave answers and appends its receipt. *)
Serve(a) ==
    /\ attempt[a].stage = "open"
    /\ \E n \in Tokens :
          /\ attempt' = [attempt EXCEPT ![a].stage = "served", ![a].receipt = n]
          /\ chain' = Append(chain, [attempt |-> a, tokens |-> n])
    /\ UNCHANGED <<key, restarts, lost, model, page, late>>

(* record_success and the commit it rides along with: the counts of the    *)
(* reply, or the platform's own estimate if the reply has none.            *)
RecordSuccess(a) ==
    /\ attempt[a].stage = "served"
    /\ \E n \in {attempt[a].receipt} \cup Estimates :
          attempt' = [attempt EXCEPT ![a].stage = "recorded",
                                     ![a].success = TRUE, ![a].tokens = n]
    /\ UNCHANGED <<chain, key, restarts, lost, model, page, late>>

(* record_failure: the attempt failed before the enclave served it, or its *)
(* answer did not arrive.                                                  *)
RecordFailure(a) ==
    /\ attempt[a].stage \in {"open", "served"}
    /\ attempt' = [attempt EXCEPT ![a].stage = "recorded"]
    /\ UNCHANGED <<chain, key, restarts, lost, model, page, late>>

(* The handler's transaction is rolled back. *)
LoseRow(a) ==
    /\ attempt[a].stage = "served"
    /\ attempt' = [attempt EXCEPT ![a].stage = "lost"]
    /\ UNCHANGED <<chain, key, restarts, lost, model, page, late>>

(* The enclave restarts: with an older chain, a new key, or both. *)
Restart ==
    /\ restarts < MaxRestarts
    /\ restarts' = restarts + 1
    /\ \E n \in 0 .. Len(chain) : chain' = SubSeq(chain, 1, n)
    /\ lost' = (lost \/ chain' # chain)
    /\ key' \in {key, key + 1}
    /\ UNCHANGED <<attempt, model, page, late>>

-----------------------------------------------------------------------------
(* The model row. *)

(* replace_models: a registration deletes the row and inserts a new one,   *)
(* with no cursor and no anchor.                                           *)
Register ==
    /\ model.row < MaxRows
    /\ model' = [row |-> model.row + 1, attested |-> FALSE, key |-> model.key,
                 cursor |-> 0, count |-> Unknown]
    /\ UNCHANGED <<attempt, chain, key, restarts, lost, page, late>>

(* _provision_model: key and usage counter are those of the attestation. *)
Provision ==
    /\ model' = [model EXCEPT !.attested = TRUE, !.key = key, !.count = Len(chain)]
    /\ UNCHANGED <<attempt, chain, key, restarts, lost, page, late>>

-----------------------------------------------------------------------------
(* One pull. *)

(* _targets, _admin_token and _fetch: the reply holds every receipt past   *)
(* the cursor.                                                             *)
Fetch ==
    /\ page = Nothing
    /\ model.attested
    /\ page' = [pulling |-> TRUE, loaded |-> model,
                rows |-> SubSeq(chain, model.cursor + 1, Len(chain)),
                count |-> Len(chain), key |-> key]
    /\ UNCHANGED <<attempt, chain, key, restarts, lost, model, late>>

(* The pull stops: the signature is not by the attested key, the counter   *)
(* went down, or the pass fails and is rolled back.                        *)
Abandon ==
    /\ page # Nothing
    /\ page' = Nothing
    /\ UNCHANGED <<attempt, chain, key, restarts, lost, model, late>>

Trusted ==
    /\ page.key = page.loaded.key
    /\ page.count >= page.loaded.count

Lesser(m, n) == IF m < n THEN m ELSE n

(* The rows of the page that one pull processes. *)
Read == SubSeq(page.rows, 1, Lesser(PageLimit, Len(page.rows)))

(* The committed rows that the lookup by request id may return.  It takes  *)
(* the first, and asks for no order.                                       *)
Candidates(r) ==
    {a \in Attempts : attempt[a].stage = "recorded"
                        /\ RequestId[a] = RequestId[r.attempt]}

(* Mutant: the token counts are not compared. *)
SameRequest(a, r) == TRUE

TokensMatch(a, r) == attempt[a].tokens = r.tokens

(* Mutant: the cursor moves past the rows that were cut off. *)
CursorPastPage ==
    page.loaded.cursor + Len(page.rows)

(* Row ids are positions, so the last one read is the largest. *)
NewCursor ==
    page.loaded.cursor + Len(Read)

(* A column is in the UPDATE only if its value differs from the one that   *)
(* was loaded.                                                             *)
Written(new, loaded, stored) == IF new = loaded THEN stored ELSE new

(* collect_model and _reconcile after the reply, and the pass's commit.    *)
(* If the row was replaced in between, the UPDATE finds no row and the     *)
(* pass is rolled back: that is Abandon.                                   *)
Reconcile ==
    /\ page # Nothing
    /\ Trusted
    /\ model.row = page.loaded.row
    /\ \E first \in [DOMAIN Read -> Attempts] :
          LET found == {i \in DOMAIN Read : Candidates(Read[i]) # {}}
          IN  /\ \A i \in found : first[i] \in Candidates(Read[i])
              /\ attempt' = [a \in Attempts |->
                    [attempt[a] EXCEPT !.verified =
                        @ \/ \E i \in found : first[i] = a /\ TokensMatch(a, Read[i])]]
    /\ model' = [model EXCEPT
                    !.cursor = Written(NewCursor, page.loaded.cursor, @),
                    !.count  = Written(page.count, page.loaded.count, @)]
    /\ late' = late \cup {a \in Attempts :
                             /\ attempt[a].stage # "recorded"
                             /\ \E i \in DOMAIN Read : Read[i].attempt = a}
    /\ page' = Nothing
    /\ UNCHANGED <<chain, key, restarts, lost>>

RequestPath ==
    \E a \in Attempts :
       Serve(a) \/ RecordSuccess(a) \/ RecordFailure(a) \/ LoseRow(a)

Next ==
    \/ RequestPath
    \/ Restart
    \/ Register
    \/ Provision
    \/ Fetch
    \/ Abandon
    \/ Reconcile

Spec == Init /\ [][Next]_vars

(* The maintenance loop goes on, a pull does not fail for ever, and an     *)
(* attestation is renewed before it expires.                               *)
FairSpec ==
    /\ Spec
    /\ WF_vars(Fetch)
    /\ WF_vars(Abandon)
    /\ SF_vars(Reconcile)
    /\ WF_vars(Provision)

-----------------------------------------------------------------------------
(* Properties. *)

(* Attempts of a request that a receipt of n tokens of it can stand for.   *)
Vouched(a) ==
    {b \in Attempts : RequestId[b] = RequestId[a]
                        /\ attempt[b].receipt = attempt[a].tokens}

(* A token count is verified only when it is in both sources: of one       *)
(* request and one count, no more rows are verified than the enclave ever  *)
(* wrote receipts.  (receipts.py: _reconcile, _tokens_match.)              *)
VerifiedInBothSources ==
    \A a \in Attempts : attempt[a].verified =>
       Cardinality({b \in Attempts : /\ RequestId[b] = RequestId[a]
                                     /\ attempt[b].tokens = attempt[a].tokens
                                     /\ attempt[b].verified})
          <= Cardinality(Vouched(a))

(* A receipt that the cursor has passed has verified the row it matches,   *)
(* unless that row was committed after the receipt was read, or receipts   *)
(* were lost by the enclave: none is skipped because of a truncated page,  *)
(* a failed pull, a new key or a replaced model row.                       *)
(* (receipts.py: collect_model.)                                           *)
NoReceiptSkipped ==
    ~lost =>
       \A i \in 1 .. model.cursor :
          LET a == chain[i].attempt
          IN  (attempt[a].stage = "recorded" /\ TokensMatch(a, chain[i]) /\ a \notin late)
                 => attempt[a].verified

(* An attempt with a matching receipt is verified in the end, unless its   *)
(* row was late or receipts were lost.                                     *)
(* (receipts.py: collect_all, in every maintenance pass.)                  *)
MatchesGetVerified ==
    \A a \in Attempts :
       (attempt[a].stage = "recorded" /\ attempt[a].receipt = attempt[a].tokens)
          ~> (attempt[a].verified \/ a \in late \/ lost)

=============================================================================
