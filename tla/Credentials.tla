---------------------------- MODULE Credentials ----------------------------
(***************************************************************************)
(* The tokens of service clients and an API key, as requests authenticate  *)
(* with them: on the row in the database, and on a counter in Redis for    *)
(* every minute of the clock.                                              *)
(*                                                                         *)
(* authenticate_key and authenticate_token are written twice, in the       *)
(* control plane and in the inference API, to the same effect.             *)
(***************************************************************************)
EXTENDS Overlap

CONSTANTS
    MaxCreds,    \* bound: the API key, and rows of service_clients
    RateLimit,   \* rate_limit_per_minute
    MaxMinutes,  \* bound: minutes of the clock
    FailOpen     \* settings.rate_limit_fail_open

ASSUME CredentialsAssumption ==
    /\ {MaxCreds, RateLimit} \subseteq Nat \ {0}
    /\ MaxMinutes \in Nat
    /\ FailOpen \in BOOLEAN

VARIABLES
    cred,     \* the API key (row Key), and rows of service_clients
    now,      \* the minute of the clock
    tally,    \* the counters in Redis
    admitted  \* history: requests the counter of a minute let in during it

credVars == <<cred, now, tally, admitted>>

Creds == 1 .. MaxCreds
Minutes == 0 .. MaxMinutes
Key == 1

(* A row: revoked_at, and whether expires_at has passed.  The role of a    *)
(* client is left out, a token shown to routes of another role is refused; *)
(* so are times of use, which nothing reads.                               *)
CredRows == [state : {"none", "active", "revoked"}, lapsed : BOOLEAN]
NoCred == [state |-> "none", lapsed |-> FALSE]

(* create_client. *)
NewClient == [NoCred EXCEPT !.state = "active"]

CredsTypeOK ==
    /\ cred \in [Creds -> CredRows]
    /\ now \in Minutes
    /\ tally \in [Creds \X Minutes -> Nat]
    /\ admitted \in [Creds \X Minutes -> Nat]

CredsInit ==
    /\ cred = [c \in Creds |-> IF c = Key THEN NewClient ELSE NoCred]
    /\ now = 0
    /\ tally = [x \in Creds \X Minutes |-> 0]
    /\ admitted = [x \in Creds \X Minutes |-> 0]

-----------------------------------------------------------------------------
OpenCred(w, op, c, row) ==
    /\ Open(w, [op |-> op, minds |-> {}, stale |-> {}, at |-> c, minute |-> now,
                columns |-> Changed(cred[c], row)])
    /\ UNCHANGED <<credVars, late>>

(* The rows that nobody has, nor is about to make. *)
Vacant ==
    {c \in Creds : /\ cred[c].state = "none"
                   /\ \A w \in Workers : tx[w].op = "client" => tx[w].at # c}

(* create_service_client of an administrator. *)
CreateClientBegin(w, c) ==
    /\ c \in Vacant
    /\ OpenCred(w, "client", c, NewClient)

(* revoke_client and revoke_key: the first revocation counts. *)
Revoked(row) == [row EXCEPT !.state = IF @ = "active" THEN "revoked" ELSE @]

(* revoke_service_client of an administrator. *)
RevokeClientBegin(w, c) ==
    /\ cred[c].state = "active"
    /\ OpenCred(w, "client", c, Revoked(cred[c]))

ClientCommit(w) ==
    /\ tx[w].op \in {"client", "use"}
    /\ cred' = [cred EXCEPT ![tx[w].at] = Written(@, tx[w].columns)]
    /\ Close(w, {})
    /\ UNCHANGED <<now, tally, admitted>>

(* Its expires_at passes. *)
LapseCred(c) ==
    /\ cred[c].state = "active"
    /\ ~ cred[c].lapsed
    /\ cred' = [cred EXCEPT ![c].lapsed = TRUE]
    /\ UNCHANGED <<now, tally, admitted, tx, late>>

MinutePasses ==
    /\ now < MaxMinutes
    /\ now' = now + 1
    /\ UNCHANGED <<cred, tally, admitted, tx, late>>

(* authenticate_token, for the routes of the client's role. *)
TokenAccepted(c) ==
    /\ c # Key
    /\ cred[c].state = "active"
    /\ ~ cred[c].lapsed

(* authenticate_key. *)
KeyAccepted(c) ==
    /\ c = Key
    /\ cred[c].state = "active"
    /\ ~ cred[c].lapsed

(* The row is read, and the minute; the request waits for the counter. *)
(* What it has read it writes back with last_used_at, the rest unchanged. *)
AuthenticateBegin(w, c) ==
    /\ TokenAccepted(c) \/ KeyAccepted(c)
    /\ OpenCred(w, "count", c, cred[c])

(* enforce_rate_limit: INCR of the counter of the minute that was read.    *)
(* Redis keeps a counter for ten seconds after its minute, so that one may *)
(* be gone that is counted late.                                           *)
Counted(w) ==
    LET x == <<tx[w].at, tx[w].minute>>
    IN  IF now = tx[w].minute THEN {tally[x] + 1} ELSE {1, tally[x] + 1}

(* (Beyond the limit the model need not tell counts apart.) *)
Registered(w, n) ==
    [tally EXCEPT ![<<tx[w].at, tx[w].minute>>] = IF n > RateLimit THEN RateLimit + 1 ELSE n]

Meter(w) ==
    /\ tx[w].op = "count"
    /\ \E n \in Counted(w) :
          /\ n =< RateLimit
          /\ tally' = Registered(w, n)
    /\ admitted' = [admitted EXCEPT ![<<tx[w].at, now>>] =
                       IF now = tx[w].minute THEN @ + 1 ELSE @]
    /\ tx' = [tx EXCEPT ![w].op = "use"]
    /\ UNCHANGED <<cred, now, late>>

(* 429: the count stays as it is made. *)
OverRate(w) ==
    /\ tx[w].op = "count"
    /\ \E n \in Counted(w) :
          /\ n > RateLimit
          /\ tally' = Registered(w, n)
    /\ tx' = [tx EXCEPT ![w] = Idle]
    /\ UNCHANGED <<cred, now, admitted, late>>

(* Redis does not answer: the request is let in, counted or not, unless it *)
(* is configured to be refused (see Fail).                                 *)
CounterFails(w) ==
    /\ tx[w].op = "count"
    /\ FailOpen
    /\ \/ UNCHANGED tally
       \/ \E n \in Counted(w) : tally' = Registered(w, n)
    /\ tx' = [tx EXCEPT ![w].op = "use"]
    /\ UNCHANGED <<cred, now, admitted, late>>

CredStep(w) ==
    \/ \E c \in Vacant : (\A d \in Vacant : c =< d) /\ CreateClientBegin(w, c)
    \/ \E c \in Creds : RevokeClientBegin(w, c) \/ AuthenticateBegin(w, c)
    \/ Meter(w)
    \/ OverRate(w)
    \/ CounterFails(w)
    \/ ClientCommit(w)

ClockStep == MinutePasses \/ \E c \in Creds : LapseCred(c)

-----------------------------------------------------------------------------
(* The counter of a minute lets no more than rate_limit_per_minute requests *)
(* in while it is that minute, however they overlap; what comes in beside  *)
(* it, because Redis failed or the request was late, is not bounded.       *)
(* (service_clients/service.py, api_keys/service.py: enforce_rate_limit.)  *)
AdmittedWithinRate == \A x \in Creds \X Minutes : admitted[x] =< RateLimit

=============================================================================
