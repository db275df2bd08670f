---------------------------- MODULE UserSessions ----------------------------
(***************************************************************************)
(* The sessions of one account: refresh tokens, which rotate within a      *)
(* family, and access tokens, which carry users.token_version; login,      *)
(* refresh, logout, password change and reset, and what an administrator   *)
(* does to an account.                                                     *)
(*                                                                         *)
(* A request is a transaction at READ COMMITTED that locks nothing it      *)
(* reads.  It is split where another request can come between: at what it  *)
(* reads first, at the snapshot its bulk UPDATE of refresh_tokens works    *)
(* on, and at its commit.  The UPDATE waits for a row another transaction  *)
(* has changed and looks at it again, but a row inserted since its         *)
(* snapshot it does not see.                                               *)
(***************************************************************************)
EXTENDS Naturals

CONSTANTS
    Workers,    \* requests that can be under way at a time
    Families,   \* logins; the refresh tokens of one form a family
    Length,     \* bound: tokens of each family
    MaxVersion  \* bound: users.token_version

ASSUME SessionsAssumption == Length \in [Families -> Nat] /\ MaxVersion \in Nat

(* A refresh token, and the access token issued with it. *)
Tokens == UNION {{f} \X (1 .. Length[f]) : f \in Families}

VARIABLES
    refresh,      \* rows of refresh_tokens
    access,       \* the token_version in each access token
    tokenVersion, \* users.token_version
    active,       \* users.is_active
    tx,           \* the requests under way
    ended,        \* history: families that logout, reuse or revocation has ended
    barred,       \* history: access tokens older than a completed revocation
    lapped        \* history: a token_version was written over one not read

tokenVars == <<refresh, access>>
userVars == <<tokenVersion, active>>
historyVars == <<ended, barred, lapped>>
vars == <<tokenVars, userVars, tx, historyVars>>

Operations == {"idle", "login", "refresh", "cut", "logout", "password", "disable",
               "revoke", "enable"}

TypeOK ==
    /\ refresh \in [Tokens -> {"unused", "live", "revoked"}]
    /\ access \in [Tokens -> Nat]
    /\ tokenVersion \in Nat
    /\ active \in BOOLEAN
    /\ tx \in [Workers -> [op : Operations, token : Tokens \union {<<>>}, version : Nat,
                           bulk : BOOLEAN, todo : SUBSET Tokens, seen : SUBSET Families,
                           old : SUBSET Tokens]]
    /\ ended \subseteq Families
    /\ barred \subseteq Tokens
    /\ lapped \in BOOLEAN

-----------------------------------------------------------------------------
Live == {t \in Tokens : refresh[t] = "live"}
Issued == {t \in Tokens : refresh[t] # "unused"}
Of(f) == {t \in Tokens : t[1] = f}

(* RevocableJWTStrategy.read_token and current_active_user. *)
Accepted(t) ==
    /\ t \in Issued
    /\ access[t] = tokenVersion
    /\ active

(* A request under way: the token it was given, the token_version it read, *)
(* whether its UPDATE has its snapshot, the rows that is to revoke; and    *)
(* for the history the families it ends, those no rotation has come        *)
(* between since, and the access tokens that were there when it began.     *)
Free == [op |-> "idle", token |-> <<>>, version |-> 0, bulk |-> FALSE, todo |-> {},
         seen |-> {}, old |-> {}]

Begin(w, op) ==
    /\ tx[w].op = "idle"
    /\ tx' = [tx EXCEPT ![w] = [Free EXCEPT !.op = op, !.version = tokenVersion]]

(* One that revokes R of the family of a token. *)
BeginEnding(w, op, R, seen) ==
    /\ tx[w].op = "idle"
    /\ tx' = [tx EXCEPT ![w] = [Free EXCEPT !.op = op, !.todo = R, !.seen = seen]]

(* One that revokes everything. *)
BeginRevocation(w, op) ==
    /\ tx[w].op = "idle"
    /\ tokenVersion < MaxVersion
    /\ tx' = [tx EXCEPT ![w] = [Free EXCEPT !.op = op, !.version = tokenVersion,
                                            !.old = Issued]]

End(w) == tx' = [tx EXCEPT ![w] = Free]

(* The rows R that are still live are revoked. *)
Revoked(R) ==
    [t \in Tokens |-> IF t \in R /\ refresh[t] = "live" THEN "revoked" ELSE refresh[t]]

(* Mutant: a token used twice revokes itself. *)
ItselfLive(t) == {t} \intersect Live

(* The rows that the UPDATE of revoke_refresh_token_family sees. *)
FamilyLive(t) == Of(t[1]) \intersect Live

(* write_token: an access token names the version of the user as loaded. *)
VersionWritten(w) == tx[w].version

(* create_refresh_token and issue_access_token: a new token of a family. *)
Issue(w, t, rows) ==
    /\ rows[t] = "unused"
    /\ refresh' = [rows EXCEPT ![t] = "live"]
    /\ access' = [access EXCEPT ![t] = VersionWritten(w)]

-----------------------------------------------------------------------------
(* POST /auth/login, and every other way in: the account is found active   *)
(* and a pair of tokens is issued.                                         *)
LoginBegin(w) ==
    /\ active
    /\ Begin(w, "login")
    /\ UNCHANGED <<tokenVars, userVars, historyVars>>

LoginCommit(w, f) ==
    /\ tx[w].op = "login"
    /\ Of(f) \intersect Issued = {}
    /\ Issue(w, <<f, 1>>, refresh)
    /\ End(w)
    /\ UNCHANGED <<userVars, historyVars>>

(* rotate_refresh_token reads the row.  A revoked or an expired token      *)
(* revokes its family; that of an inactive account is refused.             *)
RefreshBegin(w, t, past) ==
    /\ t \in Issued
    /\ IF refresh[t] = "revoked" \/ past
       THEN BeginEnding(w, "cut", FamilyLive(t), {t[1]})
       ELSE /\ active
            /\ tx[w].op = "idle"
            /\ tx' = [tx EXCEPT ![w] = [Free EXCEPT !.op = "refresh", !.token = t,
                                                    !.version = tokenVersion]]
    /\ UNCHANGED <<tokenVars, userVars, historyVars>>

(* Mutant: the row is revoked by its primary key alone. *)
RotateUnchecked(w, t, u) ==
    /\ Issue(w, u, [refresh EXCEPT ![t] = "revoked"])
    /\ tx' = [v \in Workers |->
                 IF v = w THEN Free ELSE [tx[v] EXCEPT !.seen = @ \ {t[1]}]]

(* UPDATE ... WHERE revoked_at IS NULL has changed one row: its successor  *)
(* takes its place in the family.                                          *)
Rotate(w, t, u) ==
    /\ refresh[t] = "live"
    /\ Issue(w, u, [refresh EXCEPT ![t] = "revoked"])
    /\ tx' = [v \in Workers |->
                 IF v = w THEN Free ELSE [tx[v] EXCEPT !.seen = @ \ {t[1]}]]

(* It has changed none, the token was used meanwhile: the family goes.     *)
Reused(w, t) ==
    /\ refresh[t] # "live"
    /\ tx' = [tx EXCEPT ![w] =
                 [Free EXCEPT !.op = "cut", !.todo = FamilyLive(t), !.seen = {t[1]}]]
    /\ UNCHANGED tokenVars

RefreshCommit(w) ==
    LET t == tx[w].token
    IN  /\ tx[w].op = "refresh"
        /\ \/ \E u \in Of(t[1]) : (u[2] > 1 => <<u[1], u[2] - 1>> \in Issued) /\ Rotate(w, t, u)
           \/ Reused(w, t)
        /\ UNCHANGED <<userVars, historyVars>>

(* POST /auth/logout: a write of the row that was read.  (The access token *)
(* of the caller is revoked in Redis; no other token depends on that.)     *)
LogoutBegin(w, t) ==
    /\ t \in Issued
    /\ BeginEnding(w, "logout", {t} \intersect Live,
                   IF t \in Live THEN {t[1]} ELSE {})
    /\ UNCHANGED <<tokenVars, userVars, historyVars>>

(* revoke_refresh_token_family and revoke_refresh_token at their commit. *)
EndCommit(w) ==
    /\ tx[w].op \in {"cut", "logout"}
    /\ refresh' = Revoked(tx[w].todo)
    /\ ended' = ended \union tx[w].seen
    /\ End(w)
    /\ UNCHANGED <<access, userVars, barred, lapped>>

-----------------------------------------------------------------------------
(* POST /auth/change-password by a caller that is logged in, and           *)
(* POST /auth/reset-password with the link POST /auth/forgot-password      *)
(* mails to anyone who asks for it.                                        *)
PasswordBegin(w) ==
    /\ active
    /\ BeginRevocation(w, "password")
    /\ UNCHANGED <<tokenVars, userVars, historyVars>>

(* disable_user, or update_user with is_active; revoke_user_sessions. *)
AdminBegin(w, op) ==
    /\ op = "disable" => active
    /\ BeginRevocation(w, op)
    /\ UNCHANGED <<tokenVars, userVars, historyVars>>

(* The bulk UPDATE of the user's refresh tokens takes its snapshot.  A new *)
(* password has been committed just before (user_db.update).               *)
RevokeAll(w) ==
    /\ tx[w].op \in {"password", "disable", "revoke"}
    /\ ~ tx[w].bulk
    /\ tx' = [tx EXCEPT ![w] = [@ EXCEPT !.bulk = TRUE, !.todo = Live,
                                         !.seen = {t[1] : t \in Issued}]]
    /\ UNCHANGED <<tokenVars, userVars, historyVars>>

(* user.token_version += 1 on the row as it was loaded. *)
NextVersion(w) == tx[w].version + 1

RevokeAllCommit(w) ==
    /\ tx[w].bulk
    /\ refresh' = Revoked(tx[w].todo)
    /\ tokenVersion' = NextVersion(w)
    /\ active' = (active /\ tx[w].op # "disable")
    /\ ended' = ended \union tx[w].seen
    /\ barred' = barred \union tx[w].old
    /\ lapped' = (lapped \/ tokenVersion # tx[w].version)
    /\ End(w)
    /\ UNCHANGED access

(* enable_user, or update_user with is_active. *)
EnableBegin(w) ==
    /\ ~ active
    /\ BeginEnding(w, "enable", {}, {})
    /\ UNCHANGED <<tokenVars, userVars, historyVars>>

EnableCommit(w) ==
    /\ tx[w].op = "enable"
    /\ active' = TRUE
    /\ End(w)
    /\ UNCHANGED <<tokenVars, tokenVersion, historyVars>>

(* The request fails or its process dies: the transaction is rolled back;  *)
(* a password committed before stays.                                      *)
Fail(w) ==
    /\ tx[w].op # "idle"
    /\ End(w)
    /\ UNCHANGED <<tokenVars, userVars, historyVars>>

-----------------------------------------------------------------------------
Init ==
    /\ refresh = [t \in Tokens |-> "unused"]
    /\ access = [t \in Tokens |-> 0]
    /\ tokenVersion = 0
    /\ active = TRUE
    /\ tx = [w \in Workers |-> Free]
    /\ ended = {}
    /\ barred = {}
    /\ lapped = FALSE

Next ==
    \/ \E w \in Workers :
          \/ LoginBegin(w)
          \/ \E f \in Families : LoginCommit(w, f)
          \/ \E t \in Tokens, past \in BOOLEAN : RefreshBegin(w, t, past)
          \/ RefreshCommit(w)
          \/ \E t \in Tokens : LogoutBegin(w, t)
          \/ EndCommit(w)
          \/ PasswordBegin(w)
          \/ \E op \in {"disable", "revoke"} : AdminBegin(w, op)
          \/ RevokeAll(w)
          \/ RevokeAllCommit(w)
          \/ EnableBegin(w)
          \/ EnableCommit(w)
          \/ Fail(w)

Spec == Init /\ [][Next]_vars

-----------------------------------------------------------------------------
(* A refresh token has at most one successor that is in use: however two   *)
(* requests with one token overlap, a family never forks.                  *)
(* (auth/service.py: rotate_refresh_token, the rowcount of its UPDATE.     *)
(* The type invariant is checked with it.)                                 *)
OneLivePerFamily ==
    /\ TypeOK
    /\ \A t, u \in Tokens : refresh[t] = "live" /\ refresh[u] = "live" /\ t[1] = u[1] => t = u

(* A family that a logout, a token used twice, a new password or an        *)
(* administrator has ended stays without a live token, whatever else was   *)
(* under way and although the account is enabled again; unless a rotation  *)
(* of that family overlapped, whose successor the UPDATE does not see.     *)
EndedFamiliesStayDead ==
    \A f \in ended : Of(f) \intersect Live = {}

(* An access token from before a revocation is never accepted again after  *)
(* it, unless a revocation wrote its token_version over another's.         *)
BarredStaysBarred ==
    lapped \/ \A t \in barred : ~ Accepted(t)

(* What was ended stays ended: neither a refresh token nor an access token *)
(* of an ended session comes back to life.                                 *)
(* (auth/service.py: revoke_refresh_token_family, on_after_reset_password;  *)
(* admin/service.py: _revoke_user_sessions.)                               *)
EndedStaysEnded == EndedFamiliesStayDead /\ BarredStaysBarred

=============================================================================
