--------------------------- MODULE MinerLifecycle ---------------------------
(***************************************************************************)
(* One miner of the registry: its rows in miners, miner_models and         *)
(* provisioned_tokens, the enclaves behind its endpoints, and everything   *)
(* that writes these rows side by side: registrations and heartbeats       *)
(* (miners/service.py), the provisioner (provisioner/), the maintenance    *)
(* pass (maintenance/tasks.py), and requests that find a pinned            *)
(* certificate changed (routing/).                                         *)
(*                                                                         *)
(* Every writer is a transaction.  A provisioner holds the lock of the     *)
(* miners row from its first flush to its commit, across its calls of the  *)
(* enclaves; the others read the row first and wait for it when they       *)
(* write, and an attribute is written only if it differs from the one that *)
(* was read.                                                               *)
(***************************************************************************)
EXTENDS Naturals, FiniteSets, Sequences

CONSTANTS
    Models,        \* model ids
    Endpoints,     \* where enclaves can be reached
    Inventories,   \* registrations: the endpoint, and of each model its own one, if any
    Reports,       \* the healths that miners report
    Provisioners,  \* processes that run the provisioner loop
    Nobody,        \* no process, no endpoint of its own
    MaxRegistrations,
    MaxBoots,
    MaxFaults,
    MaxInFlight    \* registrations, passes and requests that overlap at a time

ASSUME MinerAssumption ==
    /\ IsFiniteSet(Models) /\ IsFiniteSet(Endpoints) /\ IsFiniteSet(Provisioners)
    /\ Nobody \notin Provisioners \cup Endpoints
    /\ \A i \in Inventories :
          /\ i.endpoint \in Endpoints
          /\ i.at \in UNION {[S -> Endpoints \cup {Nobody}] : S \in SUBSET Models}
    /\ Reports \subseteq {"healthy", "unhealthy"}
    /\ MaxRegistrations \in Nat /\ MaxBoots \in Nat /\ MaxFaults \in Nat

VARIABLES
    miner,     \* the miners row
    model,     \* the miner_models row of each model
    token,     \* the active provisioned_tokens row of each model
    enclave,   \* what runs at each endpoint: which boot, and the token sealed into it
    guard,     \* whether the key miner-provision-lock is set in Redis
    owner,     \* who holds the row lock of the miner
    work,      \* the provisioners
    reg,       \* a registration that has read the row
    sweep,     \* a maintenance pass that has read the row
    request,   \* a request that has selected a candidate
    faults,    \* provisioning attempts that failed or died
    torn       \* history: a token was sealed into an enclave and not committed

vars == <<miner, model, token, enclave, guard, owner, work, reg, sweep, request,
          faults, torn>>

-----------------------------------------------------------------------------
(* Types. *)

(* "unhealthy" is whatever is not "healthy": unknown, degraded, offline. *)
Healths  == {"healthy", "unhealthy"}
Statuses == {"pending", "attested", "stale", "failed", "revoked"}

(* seen: 2 recent, 1 past health_stale_after_seconds, 0 past               *)
(* dereg_after_seconds.  due: the attestation is within one maintenance    *)
(* interval of its expiry, or past it; it counts only while the miner is   *)
(* attested.  regs: registrations.                                         *)
MinerRows == [endpoint : Endpoints, status : Statuses, health : Healths,
              seen : 0 .. 2, due : BOOLEAN, regs : Nat]

Nothing == [none |-> TRUE]

Kept == "kept"

Pins == [endpoint : Endpoints, boot : Nat]

(* born: by which registration the row was inserted; proved: how many      *)
(* there had been when the document it was attested by was fetched.        *)
ModelRows == [status : {"absent", "pending", "attested"}, at : Endpoints \cup {Nobody},
              pin : Pins \cup {Nothing}, born : Nat, proved : Nat]

(* A secret of 0 is none. *)
TypeOK ==
    /\ miner \in MinerRows
    /\ model \in [Models -> ModelRows]
    /\ token \in [Models -> [secret : Nat, lapsed : BOOLEAN]]
    /\ enclave \in [Endpoints -> [boot : 0 .. MaxBoots, secret : Nat]]
    /\ guard \in BOOLEAN
    /\ owner \in Provisioners \cup {Nobody}
    /\ \A p \in Provisioners :
          /\ work[p].pc \in {"idle", "load", "flush", "models", "seal"}
          /\ work[p].todo \subseteq {m \in Models : model[m].status # "absent"}
          /\ work[p].pc \in {"models", "seal"} <=> owner = p
    /\ reg = Nothing \/ reg.inventory \in Inventories
    /\ sweep = Nothing \/ sweep \in [health : Healths \cup {Kept}, status : Statuses \cup {Kept}]
    /\ request = Nothing \/ request.pin \in Pins
    /\ faults \in 0 .. MaxFaults
    /\ torn \in BOOLEAN

-----------------------------------------------------------------------------
(* Shared operators. *)

(* The enclave of a model: its own endpoint, or else the miner's. *)
Resolve(at, endpoint) == IF at = Nobody THEN endpoint ELSE at

(* What a session that has loaded a column and set it will write: a value  *)
(* that does not differ from the loaded one is no change.                  *)
Change(loaded, new) == IF new = loaded THEN Kept ELSE new

(* The column after the flush. *)
Flushed(change, stored) == IF change = Kept THEN stored ELSE change

(* MinerSelector._eligible_statement, of models that are loaded. *)
Eligible(m) ==
    /\ model[m].status = "attested"
    /\ miner.health = "healthy"
    /\ token[m].secret # 0

InFlight == Cardinality({i \in 1 .. 3 : <<reg, sweep, request>>[i] # Nothing})

(* Tokens are random, so a new one is one that nobody holds. *)
InUse ==
    {token[m].secret : m \in Models} \cup {enclave[e].secret : e \in Endpoints}
      \cup UNION {{work[p].sealed[m].secret : m \in DOMAIN work[p].sealed} : p \in Provisioners}

NewSecret == CHOOSE s \in 1 .. Cardinality(InUse) + 1 : s \notin InUse

NoToken == [secret |-> 0, lapsed |-> FALSE]

IdleWork == [pc |-> "idle", endpoint |-> Nobody, todo |-> {}, doc |-> Nothing,
             sealed |-> [m \in {} |-> Nothing]]

(* The rows of the models that a registration hosts. *)
NewModels(inventory, born) ==
    [m \in Models |->
        [status |-> IF m \in DOMAIN inventory.at THEN "pending" ELSE "absent",
         at     |-> IF m \in DOMAIN inventory.at THEN inventory.at[m] ELSE Nobody,
         pin    |-> Nothing,
         born   |-> born,
         proved |-> 0]]

-----------------------------------------------------------------------------
(* Registration and heartbeat. *)

(* Mutant: the rows that are there already stay as they are. *)
KeptModels(inventory) == [m \in Models |-> [model[m] EXCEPT !.born = miner.regs + 1]]

(* replace_models: all rows are deleted first. *)
ReplacedModels(inventory) == NewModels(inventory, miner.regs + 1)

(* upsert_from_registration: get_by_hotkey.  A miner whose endpoint is not *)
(* the one that was attested, or that was deregistered, starts again from  *)
(* pending and without tokens.                                             *)
RegisterLoad ==
    /\ reg = Nothing /\ InFlight < MaxInFlight
    /\ miner.regs < MaxRegistrations
    /\ \E i \in Inventories, h \in Reports :
          LET again == miner.endpoint # i.endpoint \/ miner.status = "revoked"
          IN  reg' = [inventory |-> i, again |-> again,
                      status |-> IF again THEN Change(miner.status, "pending") ELSE Kept,
                      health |-> Change(miner.health, h)]
    /\ UNCHANGED <<miner, model, token, enclave, guard, owner, work, sweep, request,
                   faults, torn>>

(* The flush of the miners row, _revoke_active_tokens, replace_models, the *)
(* commit.                                                                 *)
RegisterCommit ==
    /\ reg # Nothing
    /\ owner = Nobody
    /\ miner' = [miner EXCEPT
          !.endpoint = reg.inventory.endpoint,
          !.status = Flushed(reg.status, @),
          !.health = Flushed(reg.health, @),
          !.seen = 2,
          !.due = @ /\ reg.status # "pending",
          !.regs = @ + 1]
    /\ token' = IF reg.again THEN [m \in Models |-> NoToken] ELSE token
    /\ model' = ReplacedModels(reg.inventory)
    /\ reg' = Nothing
    /\ UNCHANGED <<enclave, guard, owner, work, sweep, request, faults, torn>>

(* record_heartbeat and the commit. *)
Heartbeat ==
    /\ owner = Nobody
    /\ \E h \in Reports : miner' = [miner EXCEPT !.seen = 2, !.health = h]
    /\ UNCHANGED <<model, token, enclave, guard, owner, work, reg, sweep, request,
                   faults, torn>>

-----------------------------------------------------------------------------
(* The provisioner. *)

(* Mutant: a miner that a request has marked is not selected. *)
CandidateNotStale ==
    \/ miner.status = "pending"
    \/ miner.status = "attested" /\ miner.due
    \/ \E m \in Models : model[m].status = "pending"

(* Mutant: miners are selected by their own status alone. *)
CandidateByStatus ==
    \/ miner.status \in {"pending", "stale"}
    \/ miner.status = "attested" /\ miner.due

(* loop._candidates.  (No writer ever makes the row of a model stale.) *)
Candidate ==
    \/ miner.status \in {"pending", "stale"}
    \/ miner.status = "attested" /\ miner.due
    \/ \E m \in Models : model[m].status = "pending"

(* provision_one, per_miner_lock: SET NX. *)
Acquire(p) ==
    /\ work[p].pc = "idle"
    /\ Candidate
    /\ ~guard
    /\ guard' = TRUE
    /\ work' = [work EXCEPT ![p].pc = "load"]
    /\ UNCHANGED <<miner, model, token, enclave, owner, reg, sweep, request, faults, torn>>

(* The TTL of the key runs out, whether its holder is done or not. *)
GuardExpires ==
    /\ guard
    /\ guard' = FALSE
    /\ UNCHANGED <<miner, model, token, enclave, owner, work, reg, sweep, request,
                   faults, torn>>

(* provision_miner: session.get. *)
Load(p) ==
    /\ work[p].pc = "load"
    /\ work' = [work EXCEPT ![p].pc = "flush", ![p].endpoint = miner.endpoint]
    /\ UNCHANGED <<miner, model, token, enclave, guard, owner, reg, sweep, request,
                   faults, torn>>

(* Mutant: the status is written at the end, and no row lock is held. *)
FlushUnlocked(p) ==
    /\ work[p].pc = "flush"
    /\ owner' = p
    /\ work' = [work EXCEPT ![p].pc = "models",
                            ![p].todo = {m \in Models : model[m].status # "absent"}]
    /\ UNCHANGED <<miner, model, token, enclave, guard, reg, sweep, request, faults, torn>>

(* The flush of "verifying", which nobody else gets to see, takes the row  *)
(* lock; then the advertised models are read.                              *)
Flush(p) ==
    /\ work[p].pc = "flush"
    /\ owner = Nobody
    /\ owner' = p
    /\ work' = [work EXCEPT ![p].pc = "models",
                            ![p].todo = {m \in Models : model[m].status # "absent"}]
    /\ UNCHANGED <<miner, model, token, enclave, guard, reg, sweep, request, faults, torn>>

(* _provision_model, steps 0-3: a document of the enclave is fetched and   *)
(* verified.                                                               *)
Attest(p) ==
    /\ work[p].pc = "models"
    /\ \E m \in work[p].todo :
          LET e == Resolve(model[m].at, work[p].endpoint)
          IN  work' = [work EXCEPT
                 ![p].pc = "seal",
                 ![p].doc = [model |-> m, regs |-> miner.regs,
                             pin |-> [endpoint |-> e, boot |-> enclave[e].boot]]]
    /\ UNCHANGED <<miner, model, token, enclave, guard, owner, reg, sweep, request,
                   faults, torn>>

Running(pin) == enclave[pin.endpoint].boot = pin.boot

(* Steps 4-7: the enclave opens what was sealed for this boot of it; token *)
(* and row are written, and not committed yet.                             *)
Seal(p) ==
    /\ work[p].pc = "seal"
    /\ LET doc == work[p].doc
           draft == [secret |-> NewSecret, pin |-> doc.pin, proved |-> doc.regs]
       IN  /\ Running(doc.pin)
           /\ enclave' = [enclave EXCEPT ![doc.pin.endpoint].secret = NewSecret]
           /\ work' = [work EXCEPT
                 ![p].pc = "models", ![p].doc = Nothing,
                 ![p].todo = @ \ {doc.model},
                 ![p].sealed = [m \in DOMAIN @ \cup {doc.model} |->
                                   IF m = doc.model THEN draft ELSE @[m]]]
    /\ UNCHANGED <<miner, model, token, guard, owner, reg, sweep, request, faults, torn>>

(* The enclave has restarted since, and rejects the request. *)
Reject(p) ==
    /\ work[p].pc = "seal"
    /\ ~Running(work[p].doc.pin)
    /\ work' = [work EXCEPT ![p].pc = "models", ![p].doc = Nothing,
                            ![p].todo = @ \ {work[p].doc.model}]
    /\ UNCHANGED <<miner, model, token, enclave, guard, owner, reg, sweep, request,
                   faults, torn>>

(* A model fails: no document, one that does not verify, no reply to the   *)
(* provision request, which the enclave may have carried out all the same. *)
FailModel(p) ==
    /\ work[p].pc = "seal"
    /\ faults < MaxFaults
    /\ faults' = faults + 1
    /\ work' = [work EXCEPT ![p].pc = "models", ![p].doc = Nothing,
                            ![p].todo = @ \ {work[p].doc.model}]
    /\ \/ UNCHANGED <<enclave, torn>>
       \/ /\ Running(work[p].doc.pin)
          /\ enclave' = [enclave EXCEPT ![work[p].doc.pin.endpoint].secret = NewSecret]
          /\ torn' = TRUE
    /\ UNCHANGED <<miner, model, token, guard, owner, reg, sweep, request>>

(* _supersede_active_tokens: the token just sealed is the only active one. *)
Superseded(sealed) ==
    [m \in Models |->
        IF m \in DOMAIN sealed THEN [secret |-> sealed[m].secret, lapsed |-> FALSE]
        ELSE token[m]]

(* The end of _run, the commit, and the key deleted whosever it is: the    *)
(* miner is attested if one model is, and failed if none is.  A model that *)
(* failed keeps the status it had.                                         *)
Finish(p) ==
    /\ work[p].pc = "models"
    /\ work[p].todo = {}
    /\ LET sealed == work[p].sealed
       IN  /\ model' = [m \in Models |->
                 IF m \in DOMAIN sealed
                 THEN [model[m] EXCEPT !.status = "attested", !.pin = sealed[m].pin,
                                       !.proved = sealed[m].proved]
                 ELSE model[m]]
           /\ token' = Superseded(sealed)
           /\ miner' = IF DOMAIN sealed # {}
                       THEN [miner EXCEPT !.status = "attested", !.due = FALSE]
                       ELSE [miner EXCEPT !.status = "failed"]
    /\ owner' = Nobody
    /\ guard' = FALSE
    /\ work' = [work EXCEPT ![p] = IdleWork]
    /\ UNCHANGED <<enclave, reg, sweep, request, faults, torn>>

(* Any other exception rolls back and deletes the key; a process that dies *)
(* leaves the key to its TTL.                                              *)
Crash(p) ==
    /\ work[p].pc # "idle"
    /\ faults < MaxFaults
    /\ faults' = faults + 1
    /\ guard' \in {guard, FALSE}
    /\ owner' = IF owner = p THEN Nobody ELSE owner
    /\ torn' = (torn \/ DOMAIN work[p].sealed # {})
    /\ work' = [work EXCEPT ![p] = IdleWork]
    /\ UNCHANGED <<miner, model, token, enclave, reg, sweep, request>>

-----------------------------------------------------------------------------
(* The maintenance pass. *)

(* The pass loads the row, which its later queries do not refresh, and     *)
(* decides: expire_health, flag_near_expiry, deregister_stale.             *)
Inspect ==
    /\ sweep = Nothing /\ InFlight < MaxInFlight
    /\ sweep' = [health |-> IF miner.health = "healthy" /\ miner.seen <= 1
                            THEN "unhealthy" ELSE Kept,
                 status |-> IF miner.status # "revoked" /\ miner.seen = 0 THEN "revoked"
                            ELSE IF miner.status = "attested" /\ miner.due THEN "stale"
                            ELSE Kept]
    /\ UNCHANGED <<miner, model, token, enclave, guard, owner, work, reg, request,
                   faults, torn>>

(* The flush, expire_tokens, and the commit. *)
Sweep ==
    /\ sweep # Nothing
    /\ owner = Nobody
    /\ miner' = [miner EXCEPT !.health = Flushed(sweep.health, @),
                              !.status = Flushed(sweep.status, @)]
    /\ token' = [m \in Models |-> IF token[m].lapsed THEN NoToken ELSE token[m]]
    /\ sweep' = Nothing
    /\ UNCHANGED <<model, enclave, guard, owner, work, reg, request, faults, torn>>

-----------------------------------------------------------------------------
(* A request. *)

(* MinerSelector.select: what the candidate is dialled with. *)
Select(m) ==
    /\ request = Nothing /\ InFlight < MaxInFlight
    /\ Eligible(m)
    /\ request' = [pc |-> "dial", pin |-> model[m].pin,
                   endpoint |-> Resolve(model[m].at, miner.endpoint),
                   status |-> Change(miner.status, "stale")]
    /\ UNCHANGED <<miner, model, token, enclave, guard, owner, work, reg, sweep,
                   faults, torn>>

(* The enclave that answers has the pinned certificate. *)
PinHolds == request.pin = [endpoint |-> request.endpoint,
                           boot |-> enclave[request.endpoint].boot]

(* forward: no token, an answer, a 401 or a transport error ends the       *)
(* attempt and leaves the miner as it is; another certificate does not.    *)
Dial ==
    /\ request # Nothing
    /\ request.pc = "dial"
    /\ request' = IF PinHolds THEN Nothing ELSE [request EXCEPT !.pc = "stale"]
    /\ UNCHANGED <<miner, model, token, enclave, guard, owner, work, reg, sweep,
                   faults, torn>>

(* _mark_stale on the row that the selection has loaded, and the commit. *)
MarkStale ==
    /\ request # Nothing
    /\ request.pc = "stale"
    /\ owner = Nobody
    /\ miner' = [miner EXCEPT !.status = Flushed(request.status, @)]
    /\ request' = Nothing
    /\ UNCHANGED <<model, token, enclave, guard, owner, work, reg, sweep, faults, torn>>

-----------------------------------------------------------------------------
(* The enclaves and the clock. *)

(* An enclave that restarts has a new identity and no credentials. *)
Restart(e) ==
    /\ enclave[e].boot < MaxBoots
    /\ enclave' = [enclave EXCEPT ![e] = [boot |-> @.boot + 1, secret |-> 0]]
    /\ UNCHANGED <<miner, model, token, guard, owner, work, reg, sweep, request,
                   faults, torn>>

(* The miner stays quiet; its attestation, or a token, comes to its end. *)
Age ==
    /\ \/ /\ miner.seen > 0
          /\ miner' = [miner EXCEPT !.seen = @ - 1]
          /\ UNCHANGED token
       \/ /\ miner.status = "attested"
          /\ miner' = [miner EXCEPT !.due = TRUE]
          /\ UNCHANGED token
       \/ \E m \in Models :
             /\ token[m].secret # 0
             /\ token' = [token EXCEPT ![m].lapsed = TRUE]
             /\ UNCHANGED miner
    /\ UNCHANGED <<model, enclave, guard, owner, work, reg, sweep, request, faults, torn>>

-----------------------------------------------------------------------------
(* The miner has registered. *)
Init ==
    /\ \E i \in Inventories :
          /\ miner = [endpoint |-> i.endpoint, status |-> "pending", health |-> "healthy",
                      seen |-> 2, due |-> FALSE, regs |-> 0]
          /\ model = NewModels(i, 0)
    /\ token = [m \in Models |-> NoToken]
    /\ enclave = [e \in Endpoints |-> [boot |-> 0, secret |-> 0]]
    /\ guard = FALSE
    /\ owner = Nobody
    /\ work = [p \in Provisioners |-> IdleWork]
    /\ reg = Nothing
    /\ sweep = Nothing
    /\ request = Nothing
    /\ faults = 0
    /\ torn = FALSE

Provision(p) ==
    Acquire(p) \/ Load(p) \/ Flush(p) \/ Attest(p) \/ Seal(p) \/ Reject(p) \/ Finish(p)

Serve == (\E m \in Models : Select(m)) \/ Dial \/ MarkStale

Next ==
    \/ RegisterLoad \/ RegisterCommit \/ Heartbeat
    \/ \E p \in Provisioners : Provision(p) \/ FailModel(p) \/ Crash(p)
    \/ GuardExpires
    \/ Inspect \/ Sweep
    \/ Serve
    \/ \E e \in Endpoints : Restart(e)
    \/ Age

Spec == Init /\ [][Next]_vars

(* The provisioner loops go on whatever a pass raises, the key in Redis    *)
(* has a TTL, requests for the model keep coming, and a session that waits *)
(* for the row lock gets it.                                               *)
FairSpec ==
    /\ Spec
    /\ \A p \in Provisioners : SF_vars(Provision(p))
    /\ WF_vars(GuardExpires)
    /\ SF_vars(Serve)
    /\ SF_vars(RegisterCommit)
    /\ SF_vars(Sweep)

-----------------------------------------------------------------------------
(* Properties. *)

(* A model that is served was attested after the registration that its row *)
(* is of: a registration, of a miner that moves, comes back or says the    *)
(* same again, waits for a provisioner at work or makes it start over.     *)
(* (miners/service.py: "Re-attestation still has to succeed before it      *)
(* serves".)  The type invariant with it: the row lock of a miner is held  *)
(* by a provisioner exactly while it attests and seals.                    *)
AttestedSinceRegistered ==
    /\ TypeOK
    /\ \A m \in Models : Eligible(m) => model[m].proved = model[m].born

(* The token that requests are sent with is the one in the enclave they    *)
(* are pinned to, if the enclave runs, no provisioner is at work and none  *)
(* has failed after it sealed a token.  The key in Redis may expire under  *)
(* its holder, so this rests on the row lock.  (provisioner/service.py:    *)
(* provision_miner; provisioner/loop.py: per_miner_lock.)                  *)
ActiveTokenIsSealed ==
    \A m \in Models :
       (Eligible(m) /\ owner = Nobody /\ ~torn /\ Running(model[m].pin))
          => enclave[model[m].pin.endpoint].secret = token[m].secret

(* The pin of m is that of another enclave than the one it is reached at. *)
Mispinned(m) ==
    LET e == Resolve(model[m].at, miner.endpoint)
    IN  Eligible(m) /\ model[m].pin # [endpoint |-> e, boot |-> enclave[e].boot]

(* A miner is not offered for ever with a certificate that its enclave     *)
(* does not have: requests mark it stale, and it is attested again, or     *)
(* drops out.  (routing/forwarder.py: _mark_stale; loop.py: _candidates.)  *)
StalePinIsReplaced == \A m \in Models : Mispinned(m) ~> ~Mispinned(m)

(* A model that was added or registered again is attested in the end, also *)
(* if an attempt has failed.  (loop.py:81-89, on the "silent, permanent    *)
(* 503" before.)                                                           *)
PendingIsProvisioned ==
    \A m \in Models : model[m].status = "pending" ~> model[m].status # "pending"

(* Neither is left for ever: the provisioners keep up with both.  (Both    *)
(* rest on what provisioner/loop.py: _candidates selects.)                 *)
ProvisionersKeepUp == StalePinIsReplaced /\ PendingIsProvisioned
=============================================================================
