----------------------------- MODULE AdminRoles -----------------------------
(***************************************************************************)
(* The roles of administrators, and the accounts they disable.             *)
(***************************************************************************)
EXTENDS Overlap

CONSTANTS
    Users,       \* accounts that may hold roles
    Boss,        \* the first owner
    MaxRows      \* bound: rows of admin_assignments

ASSUME RolesAssumption == Boss \in Users /\ MaxRows \in Nat \ {0}

VARIABLES
    held,     \* rows of admin_assignments that are not revoked
    made,     \* rows of admin_assignments ever made
    enabled,  \* accounts with is_active
    owned     \* history: accounts that an owner or the command line made owners

roleVars == <<held, made, enabled, owned>>

Roles == {"owner", "manager", "security"}
Permissions(r) ==
    CASE r = "owner" -> {"write", "owner", "disable"}
      [] r = "manager" -> {"write"}
      [] OTHER -> {"disable"}

Assignments == [n : 1 .. MaxRows, user : Users, role : Roles]

(* What a request can overtake another one in. *)
Owner == <<"owner", 0>>
Account == <<"account", 0>>

RolesTypeOK ==
    /\ held \subseteq Assignments
    /\ made \in 1 .. MaxRows
    /\ enabled \subseteq Users
    /\ owned \subseteq Users

RolesInit ==
    /\ held = {[n |-> 1, user |-> Boss, role |-> "owner"]}
    /\ made = 1
    /\ enabled = Users
    /\ owned = {Boss}

-----------------------------------------------------------------------------
(* current_admin_context reads the roles of the caller first.              *)
Of(u, r) == {a \in held : a.user = u /\ a.role = r}
Owners == {a \in held : a.role = "owner"}
PermissionsOf(u) == UNION {Permissions(a.role) : a \in {b \in held : b.user = u}}

Admit(w, u) ==
    /\ tx[w].op = "idle"
    /\ u \in enabled
    /\ PermissionsOf(u) # {}
    /\ tx' = [tx EXCEPT ![w] = [op |-> "admitted", minds |-> {Account}, stale |-> {}, actor |-> u,
                                may |-> PermissionsOf(u)]]
    /\ UNCHANGED <<roleVars, late>>

(* Mutant: any role may be handed on by whoever hands on roles. *)
MayChangeAny(w, r) ==
    /\ tx[w].op = "admitted"
    /\ "write" \in tx[w].may

(* _ensure_owner_role_change_allowed, after the permission of the route. *)
MayChange(w, r) ==
    /\ tx[w].op = "admitted"
    /\ "write" \in tx[w].may
    /\ r = "owner" => "owner" \in tx[w].may

(* What it has decided on stands until its commit. *)
Decide(w, op, u, rows, minds) ==
    /\ tx' = [tx EXCEPT ![w] = [op |-> op, minds |-> minds,
                                stale |-> @.stale \intersect minds, actor |-> @.actor,
                                user |-> u, rows |-> rows]]
    /\ UNCHANGED <<roleVars, late>>

(* grant_role: an assignment the user has is handed back as it is. *)
GrantBegin(w, u, r) ==
    /\ MayChange(w, r)
    /\ Of(u, r) = {}
    /\ Decide(w, "grant", u, {r}, {})

(* bootstrap_owner, from the command line. *)
BootstrapBegin(w, u) ==
    /\ tx[w].op = "idle"
    /\ Of(u, "owner") = {}
    /\ tx' = [tx EXCEPT ![w] = [op |-> "grant", minds |-> {}, stale |-> {}, actor |-> Boss,
                                user |-> u, rows |-> {"owner"}]]
    /\ UNCHANGED <<roleVars, late>>

GrantCommit(w) ==
    /\ tx[w].op = "grant"
    /\ made < MaxRows
    /\ made' = made + 1
    /\ \E r \in tx[w].rows :
          /\ held' = held \union {[n |-> made + 1, user |-> tx[w].user, role |-> r]}
          /\ owned' = IF r = "owner" /\ tx[w].actor \in owned
                      THEN owned \union {tx[w].user} ELSE owned
    /\ Close(w, {})
    /\ UNCHANGED enabled

(* revoke_role: scalar_one_or_none raises when there are two rows. *)
RevokeBegin(w, u, r) ==
    /\ MayChange(w, r)
    /\ Cardinality(Of(u, r)) = 1
    /\ r = "owner" => Cardinality(Owners) > 1
    /\ Decide(w, "revoke", u, Of(u, r), {Owner})

RevokeCommit(w) ==
    /\ tx[w].op = "revoke"
    /\ held' = held \ tx[w].rows
    /\ Close(w, IF tx[w].rows \intersect Owners # {} THEN {Owner} ELSE {})
    /\ UNCHANGED <<made, enabled, owned>>

(* disable_user, update_user with is_active. *)
DisableBegin(w, u) ==
    /\ tx[w].op = "admitted"
    /\ "disable" \in tx[w].may
    /\ u # tx[w].actor
    /\ u \in enabled
    /\ Decide(w, "disable", u, {}, {Account})

DisableCommit(w) ==
    /\ tx[w].op = "disable"
    /\ enabled' = enabled \ {tx[w].user}
    /\ Close(w, {Account})
    /\ UNCHANGED <<held, made, owned>>

EnableBegin(w, u) ==
    /\ tx[w].op = "admitted"
    /\ "disable" \in tx[w].may
    /\ u \notin enabled
    /\ Decide(w, "enable", u, {}, {})

EnableCommit(w) ==
    /\ tx[w].op = "enable"
    /\ enabled' = enabled \union {tx[w].user}
    /\ Close(w, {})
    /\ UNCHANGED <<held, made, owned>>

RoleStep(w) ==
    \/ \E u \in Users :
          \/ Admit(w, u)
          \/ \E r \in Roles : GrantBegin(w, u, r) \/ RevokeBegin(w, u, r)
          \/ BootstrapBegin(w, u)
          \/ DisableBegin(w, u)
          \/ EnableBegin(w, u)
    \/ GrantCommit(w)
    \/ RevokeCommit(w)
    \/ DisableCommit(w)
    \/ EnableCommit(w)

-----------------------------------------------------------------------------
(* There is an owner as long as no two revocations of owners overlap.  The *)
(* count counts assignments, of disabled accounts too.                     *)
(* (admin/service.py: revoke_role, _active_owner_count.)                   *)
OwnerRemains == Owners # {} \/ Owner \in late

(* Nobody becomes an owner but by an owner, however roles are handed on.   *)
(* (admin/service.py: _ensure_owner_role_change_allowed.)                  *)
OwnersAppointed == \A a \in Owners : a.user \in owned

(* An account is left that can sign in, as long as no two administrators   *)
(* disable each other.  (admin/service.py: disable_user.)                  *)
SomeoneIsEnabled == enabled # {} \/ Account \in late

(* A role is granted once, or once by each of the requests that overlap:   *)
(* the next one finds it granted.  (admin/service.py: grant_role.)         *)
GrantedOnce == \A u \in Users, r \in Roles : Cardinality(Of(u, r)) =< Cardinality(Workers)

(* Roles are handed on without a way out of them being lost: an owner, an  *)
(* account that can sign in, no self-made owner, no role granted for ever. *)
RolesHold ==
    /\ OwnerRemains
    /\ SomeoneIsEnabled
    /\ OwnersAppointed
    /\ GrantedOnce

=============================================================================
