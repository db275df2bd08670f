--------------------------- MODULE InferencePlane ---------------------------
(***************************************************************************)
(* The request planes: POST /v1/inference and /v1/chat/completions, plain  *)
(* and streamed, and the sealed POST /v1/e2e/invoke.  Each reserves tokens, *)
(* forwards the request to attested miners over pinned connections and     *)
(* settles or releases the reservation by what the enclave answered.       *)
(*                                                                         *)
(* The calls are those of one user with one API key.  A plain call is ONE  *)
(* transaction: from its reservation to its answer it holds the row of the *)
(* key (last_used_at is flushed by its first query) and, when it inserted  *)
(* the reservation, the row of the period.  The other two commit the       *)
(* reservation first and close it in a later transaction.  What happens    *)
(* between the statements of a short transaction is in LedgerTx; here such *)
(* a transaction is one step.                                              *)
(*                                                                         *)
(* The request session keeps its objects over a commit (expire_on_commit   *)
(* is off), so a call that fails decides by the status of the event as it  *)
(* was when it was read; the finally block of a stream reads it afresh.    *)
(***************************************************************************)
EXTENDS Naturals, FiniteSets

CONSTANTS
    Calls,      \* requests that reach the server
    Miners,     \* eligible candidates of the model
    Rekeyed,    \* those whose enclave came up under another certificate or key
    Ids,        \* values of X-Request-Id that clients send
    Lapsing,    \* request ids whose reservation may outlive its time to live
    Nobody,     \* the miner of a call that no enclave serves
    Kinds,      \* which of the three planes the calls use
    Usages,     \* token counts an enclave reports; 0 stands for no report
    Words,      \* what the server counts itself: prompt and output words
    Estimate,   \* tokens reserved: prompt estimate and max_tokens
    MaxTokens,  \* max_tokens of a request
    MaxAttempts,\* settings.forward_max_attempts
    MaxChunks,  \* content chunks of one stream, at most
    DevEcho     \* settings.allow_dev_echo_fallback

ASSUME PlaneAssumption ==
    /\ IsFiniteSet(Calls) /\ IsFiniteSet(Miners) /\ Rekeyed \subseteq Miners
    /\ Kinds \subseteq {"plain", "stream", "sealed"}
    /\ Usages \subseteq Nat
    /\ {Words, Estimate, MaxTokens, MaxAttempts, MaxChunks} \subseteq Nat
    /\ Words > 0 /\ MaxTokens > 0
    /\ DevEcho \in BOOLEAN
    /\ Nobody \notin Miners
    /\ Ids \intersect Calls = {}
    /\ Lapsing \subseteq Ids \union Calls

(* A call without a usable id gets a fresh one, named here by the call. *)
Rids == Ids \union Calls

Statuses == {"none", "reserved", "settled", "released", "expired"}

VARIABLES
    event,   \* committed rows of inference_usage_events: status and charge
    due,     \* ids whose expires_at has passed
    call,    \* what each request coroutine holds
    stats,   \* committed miner_request_stats rows of each call
    log,     \* committed api_key_usage rows of each call: their tokens
    stale    \* miners whose attestation_status was set to stale

vars == <<event, due, call, stats, log, stale>>

CallStates ==
    [pc      : {"idle", "forward", "relay", "done", "crashed"},
     kind    : {"plain", "stream", "sealed"},
     rid     : Rids,
     mem     : Statuses,        \* status of the event object it holds
     fresh   : BOOLEAN,         \* its open transaction inserted the event
     swept   : SUBSET Rids,     \* stale events its open transaction expired
     left    : SUBSET Miners,   \* candidates[:forward_max_attempts] not tried yet
     failed  : SUBSET Miners,   \* attempts that raised ForwardError
     pinned  : SUBSET Miners,   \* those that were a pin mismatch
     server  : Miners \union {Nobody},
     chunks  : 0 .. MaxChunks,
     usage   : Usages \union {0},
     answer  : {"none", "served", "metered"},  \* generated text; usage alone
     unpaid  : BOOLEAN]         \* a settlement was refused: 402

TypeOK ==
    /\ event \in [Rids -> [status : Statuses, charged : Nat]]
    /\ due \subseteq Rids
    /\ call \in [Calls -> CallStates]
    /\ stats \in [Calls -> [failed : SUBSET Miners, server : Miners \union {Nobody},
                            tokens : Nat]]
    /\ log \in [Calls -> [rows : Nat, tokens : Nat]]
    /\ stale \subseteq Miners

-----------------------------------------------------------------------------
Lesser(m, n) == IF m < n THEN m ELSE n

(* The coroutine of c ends; its session is closed. *)
Over(c, pc) ==
    [call[c] EXCEPT !.pc = pc, !.mem = "none", !.fresh = FALSE, !.swept = {}, !.left = {}]

End(c, pc) == call' = [call EXCEPT ![c] = Over(c, pc)]

(* expire_stale_reservations over the ids in R. *)
Expire(ev, R) ==
    [r \in Rids |-> IF r \in R /\ ev[r].status = "reserved"
                    THEN [ev[r] EXCEPT !.status = "expired"] ELSE ev[r]]

(* The rows as the session of c sees them: a plain call has its own        *)
(* uncommitted reservation and expiries.                                   *)
Seen(c) ==
    LET swept == Expire(event, call[c].swept)
    IN  IF call[c].fresh
        THEN [swept EXCEPT ![call[c].rid] = [status |-> "reserved", charged |-> 0]]
        ELSE swept

(* release_inference_reservation of the event object c holds. *)
Released(c) ==
    LET r == call[c].rid
    IN  IF call[c].mem # "reserved" THEN Seen(c)
        ELSE IF r \in due THEN Expire(Seen(c), due)
        ELSE [Seen(c) EXCEPT ![r].status = "released"]

(* settle_inference_usage does not raise for that object ... *)
Settleable(c) ==
    \/ call[c].mem = "settled"
    \/ call[c].mem = "reserved" /\ call[c].rid \notin due

(* ... and charges n, unless the event was settled before.                 *)
Settled(c, n) ==
    IF call[c].mem = "settled" THEN Seen(c)
    ELSE [Seen(c) EXCEPT ![call[c].rid] = [status |-> "settled", charged |-> n]]

(* A 402 is possible where a charge would be taken. *)
Chargeable(c) == call[c].mem = "reserved" /\ call[c].rid \notin due

KeyLocked == \E c \in Calls : call[c].kind = "plain" /\ call[c].pc = "forward"

(* Mutant: the connection of a call that died keeps its row locks. *)
PeriodLockedOrLeft(c) ==
    \E d \in Calls \ {c} : call[d].kind = "plain" /\ call[d].pc \in {"forward", "crashed"}

PeriodLockedByOther(c) ==
    \E d \in Calls \ {c} : /\ call[d].kind = "plain"
                           /\ call[d].pc = "forward"
                           /\ call[d].fresh \/ call[d].swept # {}

(* The commit of the session of c: its failed attempts and stale marks go  *)
(* with the ledger rows.                                                   *)
CommitAttempts(c) ==
    /\ stats' = [stats EXCEPT ![c].failed = call[c].failed]
    /\ stale' = stale \union call[c].pinned

-----------------------------------------------------------------------------
(* The call is refused before it reserves: key, scope, model allowlist,    *)
(* unknown model, no capacity, a malformed body, or a 402 or 403 of        *)
(* reserve_inference_tokens.                                               *)
Refuse(c) ==
    /\ call[c].pc = "idle"
    /\ End(c, "done")
    /\ UNCHANGED <<event, due, stats, log, stale>>

(* GET /v1/models and /v1/models/{id} leave a log row without tokens. *)
ListModels(c) ==
    /\ call[c].pc = "idle"
    /\ ~ KeyLocked
    /\ log' = [log EXCEPT ![c].rows = @ + 1]
    /\ End(c, "done")
    /\ UNCHANGED <<event, due, stats, stale>>

(* _execute_inference_mesh_fallback: a reservation that is released, and a *)
(* log row without tokens.  A reused id is answered with its old event.    *)
EchoFallback(c, id) ==
    LET swept == Expire(event, due)
    IN  /\ DevEcho
        /\ "plain" \in Kinds
        /\ call[c].pc = "idle"
        /\ ~ KeyLocked
        /\ ~ PeriodLockedByOther(c)
        /\ event' = IF swept[id].status \in {"none", "reserved"}
                    THEN [swept EXCEPT ![id].status = "released"] ELSE swept
        /\ log' = [log EXCEPT ![c].rows = @ + 1]
        /\ call' = [call EXCEPT ![c].pc = "done", ![c].kind = "plain", ![c].rid = id]
        /\ UNCHANGED <<due, stats, stale>>

(* Mutant: the sealed plane bills under the id the caller sent. *)
CallersRid(c, kind, id) == id

(* _billing_request_id: the sealed plane bills a reused id under a fresh   *)
(* one; the others hand the id to reserve_inference_tokens as it is.       *)
BillingRid(c, kind, id) ==
    IF kind = "sealed" /\ event[id].status # "none" THEN c ELSE id

(* Authenticate, select candidates, reserve.  reserve_inference_tokens     *)
(* expires what is overdue and answers an id that has an event with that   *)
(* event, whatever its status.                                             *)
Reserve(c, kind, id, candidates) ==
    LET r == BillingRid(c, kind, id)
        swept == Expire(event, due)
        fresh == swept[r].status = "none"
        mem == IF fresh THEN "reserved" ELSE swept[r].status
    IN  /\ call[c].pc = "idle"
        /\ ~ KeyLocked
        /\ ~ PeriodLockedByOther(c)
        /\ kind \in Kinds
        /\ Cardinality(candidates) \in 1 .. MaxAttempts
        /\ call' = [call EXCEPT ![c].pc = "forward", ![c].kind = kind, ![c].rid = r,
                                ![c].mem = mem, ![c].left = candidates,
                                ![c].fresh = fresh /\ kind = "plain",
                                ![c].swept = IF kind = "plain"
                                             THEN {x \in due : event[x].status = "reserved"}
                                             ELSE {}]
        /\ event' = IF kind = "plain" THEN event
                    ELSE IF fresh
                    THEN [swept EXCEPT ![r] = [status |-> "reserved", charged |-> 0]]
                    ELSE swept
        /\ UNCHANGED <<due, stats, log, stale>>

(* create_chat_completion and run_inference. *)
PlainReserve(c, id, M) == Reserve(c, "plain", id, M)

(* _routed_stream_response. *)
StreamReserve(c, id, M) == Reserve(c, "stream", id, M)

(* invoke_e2ee: the caller names the instance. *)
SealedReserve(c, id, m) == Reserve(c, "sealed", id, {m})

CanTry(c) ==
    /\ call[c].pc = "forward"
    /\ call[c].left # {}

(* The failover loop: a candidate raises ForwardError (no token, no pin,   *)
(* pin mismatch, transport, timeout, status >= 400, a second 401).  The    *)
(* failed attempt is recorded, the mismatching miner marked stale, both in *)
(* the open session.                                                       *)
AttemptFails(c, m, mismatch) ==
    /\ CanTry(c)
    /\ m \in call[c].left
    /\ mismatch => m \in Rekeyed
    /\ call' = [call EXCEPT ![c].left = @ \ {m},
                            ![c].failed = @ \union {m},
                            ![c].pinned = IF mismatch THEN @ \union {m} ELSE @]
    /\ UNCHANGED <<event, due, stats, log, stale>>

(* TEEForwarder.forward, which tries a 401 once more with a fresh token,    *)
(* and forward_stream, which does not.                                     *)
ForwardFails(c, m, mismatch) == call[c].kind = "plain" /\ AttemptFails(c, m, mismatch)
ForwardStreamFails(c, m, mismatch) == call[c].kind = "stream" /\ AttemptFails(c, m, mismatch)

(* Mutant: only ForwardError releases. *)
AttemptBreaksLeaking(c, m) ==
    /\ CanTry(c)
    /\ m \in call[c].left
    /\ ~ PeriodLockedByOther(c)
    /\ event' = Seen(c)
    /\ CommitAttempts(c)
    /\ End(c, "done")
    /\ UNCHANGED <<due, log>>

(* Something other than ForwardError: a body that is not JSON, a failing   *)
(* database.  The handlers release, commit and raise.                      *)
AttemptBreaks(c, m) ==
    /\ CanTry(c)
    /\ m \in call[c].left
    /\ ~ PeriodLockedByOther(c)
    /\ event' = Released(c)
    /\ CommitAttempts(c)
    /\ End(c, "done")
    /\ UNCHANGED <<due, log>>

(* Every candidate failed: release, commit, 503. *)
AllFailed(c) ==
    /\ call[c].pc = "forward"
    /\ call[c].kind # "sealed"
    /\ call[c].left = {}
    /\ ~ PeriodLockedByOther(c)
    /\ event' = Released(c)
    /\ CommitAttempts(c)
    /\ End(c, "done")
    /\ UNCHANGED <<due, log>>

(* A settlement by the request session: the charge, the success row with   *)
(* the settled counts and the log row in one commit.  A plain call then    *)
(* reads current_period, which expires what is overdue by now.             *)
SettleAndAnswer(c, m, n, answer) ==
    /\ Settleable(c)
    /\ event' = IF call[c].kind = "plain" THEN Expire(Settled(c, n), due) ELSE Settled(c, n)
    /\ stats' = [stats EXCEPT ![c] = [failed |-> call[c].failed, server |-> m, tokens |-> n]]
    /\ stale' = stale \union call[c].pinned
    /\ log' = [log EXCEPT ![c] = [rows |-> @.rows + 1, tokens |-> n]]
    /\ call' = [call EXCEPT ![c] = [Over(c, "done") EXCEPT !.server = m, !.answer = answer]]
    /\ UNCHANGED due

(* The settlement raises (overdue, closed before, 402): release what is    *)
(* still reserved, commit, raise.  The answer is not handed on.            *)
SettleRaises(c, unpaid) ==
    /\ IF unpaid THEN Chargeable(c) ELSE ~ Settleable(c)
    /\ event' = Released(c)
    /\ CommitAttempts(c)
    /\ call' = [call EXCEPT ![c] = [Over(c, "done") EXCEPT !.unpaid = unpaid]]
    /\ UNCHANGED <<due, log>>

(* execute_inference: a miner answered.  Counts the enclave does not       *)
(* report are replaced by the server's own.                                *)
PlainAnswer(c, m, u) ==
    LET n == IF u = 0 THEN Words ELSE u
    IN  /\ CanTry(c)
        /\ call[c].kind = "plain"
        /\ m \in call[c].left
        /\ ~ PeriodLockedByOther(c)
        /\ \/ SettleAndAnswer(c, m, n, "served")
           \/ \E unpaid \in BOOLEAN : SettleRaises(c, unpaid)

(* A stream opens: _routed_stream_response commits the attempts that       *)
(* failed before; invoke_e2ee hands a sealed event stream to _relay_stream. *)
OpenStream(c, m) ==
    /\ CanTry(c)
    /\ call[c].kind \in {"stream", "sealed"}
    /\ m \in call[c].left
    /\ CommitAttempts(c)
    /\ call' = [call EXCEPT ![c].pc = "relay", ![c].server = m]
    /\ UNCHANGED <<event, due, log>>

(* StreamForward._accumulate: a chunk with generated text is relayed. *)
Chunk(c) ==
    /\ call[c].pc = "relay"
    /\ call[c].chunks < MaxChunks
    /\ call[c].usage = 0
    /\ call' = [call EXCEPT ![c].chunks = @ + 1, ![c].answer = "served"]
    /\ UNCHANGED <<event, due, stats, log, stale>>

(* The trailing chunk with the usage the enclave counted. *)
UsageChunk(c, u) ==
    /\ call[c].pc = "relay"
    /\ call[c].usage = 0
    /\ u > 0
    /\ call' = [call EXCEPT ![c].usage = u,
                            ![c].answer = IF @ = "none" THEN "metered" ELSE @]
    /\ UNCHANGED <<event, due, stats, log, stale>>

(* Mutant: a stream that ends before its usage chunk is released. *)
ReportedTokens(c) == call[c].usage

(* What the finally block bills: the reported usage, else a token for each *)
(* chunk relayed, at most max_tokens; zero stands for a release.           *)
StreamTokens(c) ==
    IF call[c].usage > 0 THEN call[c].usage
    ELSE IF call[c].chunks > 0 THEN Words + Lesser(call[c].chunks, MaxTokens)
    ELSE 0

(* The finally block of a stream, in a session of its own: drained, broken *)
(* off by the enclave or by the client.  It acts on an event that is still *)
(* reserved; a settlement that raises (overdue, 402) undoes everything.    *)
CloseStream(c, unpaid) ==
    LET r == call[c].rid
        n == StreamTokens(c)
        reserved == event[r].status = "reserved"
        raises == reserved /\ n > 0 /\ (unpaid \/ r \in due)
        settles == reserved /\ n > 0 /\ ~ raises
    IN  /\ call[c].pc = "relay"
        /\ unpaid => reserved /\ n > 0 /\ r \notin due
        /\ reserved /\ ~ raises => ~ PeriodLockedByOther(c)
        /\ event' = CASE settles -> [event EXCEPT ![r] = [status |-> "settled", charged |-> n]]
                      [] reserved /\ n = 0 ->
                            IF r \in due THEN Expire(event, due)
                            ELSE [event EXCEPT ![r].status = "released"]
                      [] OTHER -> event
        /\ stats' = IF settles
                    THEN [stats EXCEPT ![c].server = call[c].server, ![c].tokens = call[c].usage]
                    ELSE stats
        /\ log' = IF settles THEN [log EXCEPT ![c] = [rows |-> @.rows + 1, tokens |-> n]]
                  ELSE log
        /\ call' = [call EXCEPT ![c] = [Over(c, "done") EXCEPT !.unpaid = unpaid]]
        /\ UNCHANGED <<due, stale>>

(* _fail_before_response: release, mark a mismatching miner stale, record  *)
(* the failure, commit.                                                    *)
FailBeforeResponse(c, m, mismatch) ==
    /\ ~ PeriodLockedByOther(c)
    /\ event' = Released(c)
    /\ stats' = [stats EXCEPT ![c].failed = {m}]
    /\ stale' = IF mismatch THEN stale \union {m} ELSE stale
    /\ call' = [call EXCEPT ![c] = [Over(c, "done") EXCEPT
                                        !.failed = {m},
                                        !.pinned = IF mismatch THEN {m} ELSE {}]]
    /\ UNCHANGED <<due, log>>

(* TEEForwarder._open: no pin, no connection, a timeout, or another         *)
(* certificate than the pinned one.                                        *)
CannotOpen(m, mismatch) == mismatch => m \in Rekeyed

(* The sealed request got no sealed answer: no token, a failure to open,    *)
(* an unsealed or an unreadable body.  No other candidate can open the      *)
(* ciphertext, so there is no failover.                                    *)
SealedFails(c, m, mismatch) ==
    /\ CanTry(c)
    /\ call[c].kind = "sealed"
    /\ m \in call[c].left
    /\ CannotOpen(m, mismatch)
    /\ FailBeforeResponse(c, m, mismatch)

(* The enclave refuses in plaintext: nothing ran, nothing is charged; only *)
(* a status >= 500 is held against the miner.                              *)
SealedRefusal(c, m, serverError) ==
    /\ CanTry(c)
    /\ call[c].kind = "sealed"
    /\ m \in call[c].left
    /\ ~ PeriodLockedByOther(c)
    /\ event' = Released(c)
    /\ stats' = [stats EXCEPT ![c].failed = IF serverError THEN {m} ELSE {}]
    /\ call' = [call EXCEPT ![c] = [Over(c, "done") EXCEPT
                                        !.failed = IF serverError THEN {m} ELSE {}]]
    /\ UNCHANGED <<due, log, stale>>

(* A complete sealed answer below 400 is settled, on the reservation       *)
(* itself when the enclave reports no usage.                               *)
SealedAnswer(c, m, u, reported) ==
    LET n == IF reported THEN u ELSE Estimate
    IN  /\ CanTry(c)
        /\ call[c].kind = "sealed"
        /\ m \in call[c].left
        /\ ~ PeriodLockedByOther(c)
        /\ \/ SettleAndAnswer(c, m, n, "served")
           \/ \E unpaid \in BOOLEAN : SettleRaises(c, unpaid)

(* Whether a sealed error of the engine is settled, and on how much.       *)
ErrorTokens(u, reported) == IF reported THEN u ELSE 0

(* A complete sealed answer of 400 and above: settled when it carries a    *)
(* usage, else released; only a status >= 500 is held against the miner.   *)
(* (A settlement that raises has the same effect as in SealedAnswer.)      *)
SealedError(c, m, u, reported, serverError) ==
    LET n == ErrorTokens(u, reported)
        failed == IF serverError THEN {m} ELSE {}
        bills == reported \/ n > 0
    IN  /\ CanTry(c)
        /\ call[c].kind = "sealed"
        /\ m \in call[c].left
        /\ ~ PeriodLockedByOther(c)
        /\ bills => Settleable(c)
        /\ event' = IF bills THEN Settled(c, n) ELSE Released(c)
        /\ log' = IF bills THEN [log EXCEPT ![c] = [rows |-> @.rows + 1, tokens |-> n]] ELSE log
        /\ stats' = [stats EXCEPT ![c].failed = failed]
        /\ call' = [call EXCEPT ![c] = [Over(c, "done") EXCEPT
                        !.failed = failed,
                        !.server = m,
                        !.answer = IF reported THEN "metered" ELSE "none"]]
        /\ UNCHANGED <<due, stale>>

-----------------------------------------------------------------------------
(* GET /v1/e2e/instances: the candidates are asked for nonces side by      *)
(* side; those that answer under another certificate or another sealing    *)
(* key than the attested ones are marked stale.                            *)
ListInstances(M) ==
    /\ M \subseteq Rekeyed
    /\ stale' = stale \union M
    /\ UNCHANGED <<event, due, call, stats, log>>

(* GET /v1/e2e/instances/{id}/attestation dials one, and marks it stale on *)
(* a pin mismatch.                                                         *)
InstanceAttestation(m) ==
    /\ m \in Rekeyed
    /\ stale' = stale \union {m}
    /\ UNCHANGED <<event, due, call, stats, log>>

(* The server dies: open transactions are rolled back. *)
Crash(c) ==
    /\ call[c].pc \in {"forward", "relay"}
    /\ End(c, "crashed")
    /\ UNCHANGED <<event, due, stats, log, stale>>

(* The time to live of a reservation passes. *)
Lapse(r) ==
    /\ r \in Lapsing \ due
    /\ \/ event[r].status = "reserved"
       \/ \E c \in Calls : call[c].pc = "forward" /\ call[c].fresh /\ call[c].rid = r
    /\ due' = due \union {r}
    /\ UNCHANGED <<event, call, stats, log, stale>>

Ended(c) == call[c].pc \in {"done", "crashed"}

Finished ==
    /\ \A c \in Calls : Ended(c)
    /\ UNCHANGED vars

Begin(c) ==
    \/ Refuse(c)
    \/ ListModels(c)
    \/ \E id \in Ids \union {c} : EchoFallback(c, id)
    \/ \E id \in Ids \union {c} :
          \/ \E M \in SUBSET Miners : PlainReserve(c, id, M) \/ StreamReserve(c, id, M)
          \/ \E m \in Miners : SealedReserve(c, id, m)

Forward(c, m) ==
    \/ \E mismatch \in BOOLEAN : \/ ForwardFails(c, m, mismatch)
                                \/ ForwardStreamFails(c, m, mismatch)
                                \/ SealedFails(c, m, mismatch)
    \/ AttemptBreaks(c, m)
    \/ \E u \in Usages : PlainAnswer(c, m, u)
    \/ OpenStream(c, m)
    \/ \E serverError \in BOOLEAN : SealedRefusal(c, m, serverError)
    \/ \E u \in Usages, reported \in BOOLEAN :
          \/ SealedAnswer(c, m, u, reported)
          \/ \E serverError \in BOOLEAN : SealedError(c, m, u, reported, serverError)

Proceed(c) ==
    \/ \E m \in Miners : Forward(c, m)
    \/ AllFailed(c)
    \/ \E unpaid \in BOOLEAN : CloseStream(c, unpaid)

Relay(c) == Chunk(c) \/ \E u \in Usages : UsageChunk(c, u)

Idle(c) ==
    [pc |-> "idle", kind |-> "plain", rid |-> c, mem |-> "none", fresh |-> FALSE,
     swept |-> {}, left |-> {}, failed |-> {}, pinned |-> {}, server |-> Nobody,
     chunks |-> 0, usage |-> 0, answer |-> "none", unpaid |-> FALSE]

Init ==
    /\ event = [r \in Rids |-> [status |-> "none", charged |-> 0]]
    /\ due = {}
    /\ call = [c \in Calls |-> Idle(c)]
    /\ stats = [c \in Calls |-> [failed |-> {}, server |-> Nobody, tokens |-> 0]]
    /\ log = [c \in Calls |-> [rows |-> 0, tokens |-> 0]]
    /\ stale = {}

Next ==
    \/ \E c \in Calls : Begin(c) \/ Proceed(c) \/ Relay(c) \/ Crash(c)
    \/ \E M \in SUBSET Miners : ListInstances(M)
    \/ \E m \in Miners : InstanceAttestation(m)
    \/ \E r \in Rids : Lapse(r)
    \/ Finished

Spec == Init /\ [][Next]_vars

(* Connections to enclaves have timeouts and a stream ends, so a call that *)
(* has begun goes on.                                                      *)
FairSpec == Spec /\ \A c \in Calls : WF_vars(Proceed(c))

-----------------------------------------------------------------------------
(* No other call has acted on the event c is billed under.  Sealed calls   *)
(* never share one among themselves, whatever ids their callers send.      *)
Unshared(c) ==
    \A d \in Calls \ {c} :
        \/ call[d].pc = "idle"
        \/ call[d].rid # call[c].rid
        \/ call[c].kind = "sealed" /\ call[d].kind = "sealed"

(* A client that got generated text is charged for it, however the call    *)
(* ends: by an answer, a drained stream, a client that hangs up before the *)
(* usage chunk (HYP-56: "read the answer, drop the connection" must not be *)
(* free), with failovers before.  Not when the event is shared with        *)
(* another call, the reservation lapsed, the balance was gone or the       *)
(* server died.                                                            *)
ServedIsCharged ==
    \A c \in Calls :
        /\ call[c].pc = "done"
        /\ call[c].answer = "served"
        /\ Unshared(c)
        /\ call[c].rid \notin due
        /\ ~ call[c].unpaid
        => event[call[c].rid].status = "settled"

(* Nobody is charged for a request that no enclave served or metered:      *)
(* failed candidates, protocol refusals and engine errors are free.        *)
ChargedWasServed ==
    \A r \in Rids :
        event[r].status = "settled" =>
            \E c \in Calls : call[c].rid = r /\ call[c].answer # "none"

(* A request is charged if and only if a miner served or metered it.       *)
(* (product_routes.py and e2ee_routes.py, all three planes; the type       *)
(* invariant is checked with it.)                                          *)
ServedIffCharged == TypeOK /\ ServedIsCharged /\ ChargedWasServed

(* The billing row, the usage log and the statistics row of a call agree:  *)
(* product_routes.py:357 "can never disagree about this request", :773     *)
(* "exactly once, with the same REAL settled counts".  The statistics of a *)
(* stream count what the enclave reported, so one cut off before its usage *)
(* chunk is left out there.                                                *)
BillingAgrees ==
    \A c \in Calls :
        LET row == event[call[c].rid]
        IN  /\ call[c].pc = "done"
            /\ call[c].answer # "none"
            /\ Unshared(c)
            /\ row.status = "settled"
            => /\ log[c] = [rows |-> 1, tokens |-> row.charged]
               /\ stats[c].server # Nobody /\ (call[c].chunks > 0 => call[c].usage > 0)
                     => stats[c].tokens = row.charged

(* A miner that failed a request has the failed attempt on record, and one *)
(* whose certificate did not match is stale, as soon as the call answers   *)
(* or starts to relay: whether the request was then served by another      *)
(* miner, streamed, or given up.                                           *)
AttemptsRecorded ==
    \A c \in Calls :
        call[c].pc \in {"relay", "done"} =>
            /\ call[c].failed = stats[c].failed
            /\ call[c].pinned \subseteq stale

(* What a call leaves behind fits together: the rows it is billed, logged  *)
(* and scored by, the attempts before it and the miners marked stale.      *)
(* (stats_recorder.py: record_success, record_failure; product_routes.py:  *)
(* execute_inference, _routed_stream_response.)                            *)
RecordsAgree == BillingAgrees /\ AttemptsRecorded

(* e2ee_routes.py:518 "never leave the reservation dangling": a call that   *)
(* ended has closed its reservation, unless the time to live passed or     *)
(* the settlement of a stream was refused for lack of balance.             *)
NoneDangling ==
    \A c \in Calls :
        /\ call[c].pc = "done"
        /\ call[c].rid \notin due
        /\ ~ (call[c].unpaid /\ call[c].server # Nobody)
        => event[call[c].rid].status # "reserved"

(* A call that has reserved comes to its end, although a plain call keeps  *)
(* the key and the period locked while it waits for miners.                *)
CallsFinish == \A c \in Calls : call[c].pc = "forward" ~> Ended(c)

=============================================================================
