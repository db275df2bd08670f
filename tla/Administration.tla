--------------------------- MODULE Administration ---------------------------
(***************************************************************************)
(* What administrators and account holders change in the control plane     *)
(* besides sessions and subscriptions: roles, API keys, service clients,   *)
(* billing plans and referral codes.                                       *)
(*                                                                         *)
(* These groups of tables have no row in common, and a behaviour is about  *)
(* one of them (desk).                                                     *)
(***************************************************************************)
EXTENDS AdminRoles, ApiKeys, BillingPlans, Credentials, ReferralCodes

CONSTANT Desks  \* the tables looked at

ASSUME AdministrationAssumption ==
    Desks \subseteq {"roles", "keys", "plans", "credentials", "codes"}

VARIABLE desk   \* which group of tables the behaviour is about

vars == <<desk, roleVars, key, plan, credVars, codeVars, tx, late>>

TypeOK ==
    /\ desk \in Desks
    /\ OverlapTypeOK
    /\ RolesTypeOK
    /\ KeysTypeOK
    /\ PlansTypeOK
    /\ CredsTypeOK
    /\ CodesTypeOK

Init ==
    /\ desk \in Desks
    /\ OverlapInit
    /\ RolesInit
    /\ KeysInit
    /\ PlansInit
    /\ CredsInit
    /\ CodesInit

Next ==
    \/ \E w \in Workers :
          \/ /\ desk = "roles" /\ RoleStep(w)
             /\ UNCHANGED <<desk, key, plan, credVars, codeVars>>
          \/ /\ desk = "keys" /\ KeyStep(w)
             /\ UNCHANGED <<desk, roleVars, plan, credVars, codeVars>>
          \/ /\ desk = "plans" /\ PlanStep(w)
             /\ UNCHANGED <<desk, roleVars, key, credVars, codeVars>>
          \/ /\ desk = "credentials" /\ CredStep(w)
             /\ UNCHANGED <<desk, roleVars, key, plan, codeVars>>
          \/ /\ desk = "codes" /\ CodeStep(w)
             /\ UNCHANGED <<desk, roleVars, key, plan, credVars>>
          \/ Fail(w) /\ UNCHANGED <<desk, roleVars, key, plan, credVars, codeVars>>
    \/ /\ desk = "credentials" /\ ClockStep
       /\ UNCHANGED <<desk, roleVars, key, plan, codeVars>>

Spec == Init /\ [][Next]_vars

-----------------------------------------------------------------------------
(* The type invariant, and that roles are handed on without a way out of   *)
(* them being lost.  (admin/service.py.)                                   *)
RolesAreHeld == TypeOK /\ RolesHold

(* What is stored of keys, and let in with them, stays within what the     *)
(* requests were checked for.  (api_keys/service.py.)                      *)
KeyLimitsHold == KeysCreatedWithinLimit /\ CapHasWindow /\ AdmittedWithinRate

(* A key or a client that is revoked stays so, although whatever was under *)
(* way writes its row afterwards: a rotation, or the time of last use.     *)
(* (api_keys/service.py: mint_managed_chat_key, update_key,                *)
(* authenticate_key; service_clients/service.py: authenticate_token.)      *)
RevokedStaysRevoked ==
    [][/\ \A k \in Keys : key[k].state = "revoked" => key'[k].state = "revoked"
       /\ \A c \in Creds : cred[c].state = "revoked" => cred'[c].state = "revoked"]_vars

=============================================================================
