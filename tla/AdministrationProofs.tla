------------------------ MODULE AdministrationProofs ------------------------
(***************************************************************************)
(* What Administration promises of roles, API keys, plans, credentials and *)
(* referral codes, for any number of each and of requests that overlap.    *)
(*                                                                         *)
(* Each group of tables has an invariant of its own, in two parts: of the  *)
(* tables, and of the requests under way, which only a step of that desk   *)
(* touches.  The second part says of a request that what it has decided on *)
(* still stands, or that somebody has changed what it minds and it is      *)
(* stale, or was overtaken before (late).  Close keeps it: a commit makes  *)
(* stale whoever minds what it changes, and notes it when it was stale     *)
(* itself.                                                                 *)
(***************************************************************************)
EXTENDS Administration, FiniteSetTheorems, WellFoundedInduction, TLAPS

-----------------------------------------------------------------------------
(* 1. Roles. *)

RoleRequests ==
    {Idle}
    \union [op : {"admitted"}, minds : {{Account}}, stale : SUBSET {Account}, actor : Users,
            may : SUBSET {"write", "owner", "disable"}]
    \union [op : {"grant"}, minds : {{}}, stale : {{}}, actor : Users, user : Users,
            rows : SUBSET Roles]
    \union [op : {"revoke"}, minds : {{Owner}}, stale : SUBSET {Owner}, actor : Users,
            user : Users, rows : SUBSET Assignments]
    \union [op : {"disable"}, minds : {{Account}}, stale : SUBSET {Account}, actor : Users,
            user : Users, rows : {{}}]
    \union [op : {"enable"}, minds : {{}}, stale : {{}}, actor : Users, user : Users,
            rows : {{}}]

(* What stands of a request: who may appoint owners is one, an owner is    *)
(* left by a revocation, and who disables another is enabled.              *)
RoleRequestOK(t) ==
    /\ t.op = "admitted" /\ "owner" \in t.may => t.actor \in owned
    /\ t.op = "grant" /\ "owner" \in t.rows => t.actor \in owned
    /\ t.op = "revoke" => Owner \in t.stale \union late \/ Owners \ t.rows # {}
    /\ t.op \in {"admitted", "disable"} => Account \in t.stale \union late \/ t.actor \in enabled
    /\ t.op = "disable" => t.user # t.actor

(* The requests that are about to grant r to u. *)
Granting(u, r) ==
    {w \in Workers : tx[w].op = "grant" /\ tx[w].user = u /\ r \in tx[w].rows}

RolesInv ==
    /\ RolesTypeOK
    /\ IsFiniteSet(held)
    /\ Boss \in owned
    /\ RolesHold

RoleRequestsInv ==
    /\ tx \in [Workers -> RoleRequests]
    /\ \A w \in Workers : RoleRequestOK(tx[w])
    /\ \A u \in Users, r \in Roles :
          Cardinality(Of(u, r)) + Cardinality(Granting(u, r)) =< Cardinality(Workers)

(* Rows and workers are finitely many. *)
LEMMA RoleCounts ==
    ASSUME RolesInv, NEW u, NEW r
    PROVE  /\ IsFiniteSet(Of(u, r)) /\ Cardinality(Of(u, r)) \in Nat
           /\ IsFiniteSet(Granting(u, r)) /\ Cardinality(Granting(u, r)) \in Nat
           /\ Cardinality(Granting(u, r)) =< Cardinality(Workers)
           /\ Cardinality(Workers) \in Nat
<1>1. Of(u, r) \in SUBSET held /\ Granting(u, r) \in SUBSET Workers
  BY DEF Of, Granting
<1> QED BY <1>1, WorkersAssumption, FS_Subset, FS_CardinalityType DEF RolesInv

(* A request that is opened, and has decided on what is so. *)
LEMMA RoleRequestOpens ==
    ASSUME RolesInv, RoleRequestsInv, NEW w \in Workers, NEW t \in RoleRequests,
           tx' = [tx EXCEPT ![w] = t], UNCHANGED <<roleVars, late>>,
           RoleRequestOK(t),
           t.op = "grant" => \A r \in t.rows : Of(t.user, r) = {}
    PROVE  RoleRequestsInv'
<1> USE DEF RoleRequestsInv
<1>1. tx' \in [Workers -> RoleRequests]
  OBVIOUS
<1>2. \A v \in Workers : RoleRequestOK(tx[v])'
  BY DEF RoleRequestOK, roleVars, Owners
<1>3. ASSUME NEW u \in Users, NEW r \in Roles
      PROVE  Cardinality(Of(u, r)') + Cardinality(Granting(u, r)') =< Cardinality(Workers)
  <2>1. Of(u, r)' = Of(u, r)
    BY DEF Of, roleVars
  <2>2. /\ Cardinality(Granting(u, r)') =< Cardinality(Workers)
        /\ Cardinality(Granting(u, r)') \in Nat
    <3>1. Granting(u, r)' \in SUBSET Workers
      BY DEF Granting
    <3> QED BY <3>1, WorkersAssumption, FS_Subset, FS_CardinalityType
  <2>3. CASE Of(u, r) = {}
    <3> HIDE DEF RoleRequestsInv
    <3> QED BY <2>1, <2>2, <2>3, FS_EmptySet, RoleCounts
  <2>4. CASE Of(u, r) # {}
    <3>1. Granting(u, r)' \in SUBSET Granting(u, r)
      BY <2>4 DEF Granting
    <3>2. /\ Cardinality(Granting(u, r)') =< Cardinality(Granting(u, r))
          /\ Cardinality(Granting(u, r)') \in Nat
      BY <3>1, RoleCounts, FS_Subset, FS_CardinalityType
    <3> HIDE DEF Granting
    <3> QED BY <2>1, <3>2, RoleCounts
  <2> QED BY <2>3, <2>4
<1> QED BY <1>1, <1>2, <1>3

(* Nothing of the tables changes. *)
LEMMA RolesStay ==
    ASSUME RolesInv, UNCHANGED roleVars, late \subseteq late'
    PROVE  RolesInv'
  BY DEF RolesInv, RolesTypeOK, RolesHold, OwnerRemains, SomeoneIsEnabled, OwnersAppointed,
         GrantedOnce, Owners, Of, roleVars

(* What a user may do that hands on roles, an owner may. *)
LEMMA AdmittedStands ==
    ASSUME RolesInv, NEW u \in enabled
    PROVE  LET t == [op |-> "admitted", minds |-> {Account}, stale |-> {}, actor |-> u,
                     may |-> PermissionsOf(u)]
           IN  t \in RoleRequests /\ RoleRequestOK(t)
<1> DEFINE t == [op |-> "admitted", minds |-> {Account}, stale |-> {}, actor |-> u,
                 may |-> PermissionsOf(u)]
<1>1. u \in Users
  BY DEF RolesInv, RolesTypeOK
<1>2. PermissionsOf(u) \subseteq {"write", "owner", "disable"}
  BY DEF PermissionsOf, Permissions
<1>3. ASSUME "owner" \in PermissionsOf(u)
      PROVE  u \in owned
  <2>1. PICK a \in held : a.user = u /\ "owner" \in Permissions(a.role)
    BY <1>3 DEF PermissionsOf
  <2>2. a.role = "owner"
    BY <2>1 DEF Permissions
  <2> QED BY <2>1, <2>2 DEF RolesInv, RolesHold, OwnersAppointed, Owners
<1>4. t \in RoleRequests
  BY <1>1, <1>2 DEF RoleRequests
<1> QED BY <1>3, <1>4 DEF RoleRequestOK

(* Whoever decides keeps being who it was, and as stale as it is. *)
LEMMA DecisionStands ==
    ASSUME RolesInv, RoleRequestsInv, NEW w \in Workers, tx[w].op = "admitted",
           NEW op, NEW u \in Users, NEW rows, NEW minds, Decide(w, op, u, rows, minds),
           \/ op = "grant" /\ rows \subseteq Roles /\ minds = {}
              /\ ("owner" \in rows => "owner" \in tx[w].may)
              /\ \A r \in rows : Of(u, r) = {}
           \/ op = "revoke" /\ rows \subseteq Assignments /\ minds = {Owner}
              /\ (Owners \ rows # {} \/ Owner \in late)
           \/ op = "disable" /\ rows = {} /\ minds = {Account} /\ u # tx[w].actor
           \/ op = "enable" /\ rows = {} /\ minds = {}
    PROVE  RoleRequestsInv'
<1> DEFINE t == [op |-> op, minds |-> minds, stale |-> tx[w].stale \intersect minds,
                 actor |-> tx[w].actor, user |-> u, rows |-> rows]
<1>1. tx[w] \in RoleRequests /\ RoleRequestOK(tx[w])
  BY DEF RoleRequestsInv
<1>2. tx[w].actor \in Users /\ tx[w].stale \subseteq {Account} /\ tx[w].minds = {Account}
  BY <1>1 DEF RoleRequests, Idle
<1>3. t \in RoleRequests
  BY <1>2 DEF RoleRequests, Account, Owner
<1>4. RoleRequestOK(t)
  BY <1>1 DEF RoleRequestOK
<1>5. tx' = [tx EXCEPT ![w] = t] /\ UNCHANGED <<roleVars, late>>
  BY DEF Decide
<1>6. t.op = "grant" => \A r \in t.rows : Of(t.user, r) = {}
  OBVIOUS
<1> HIDE DEF t
<1> QED BY <1>3, <1>4, <1>5, <1>6, RoleRequestOpens

(* A revocation of an owner leaves another assignment of an owner. *)
LEMMA OtherOwner ==
    ASSUME RolesInv, NEW u \in Users, NEW r \in Roles,
           Cardinality(Of(u, r)) = 1, r = "owner" => Cardinality(Owners) > 1
    PROVE  Owners \ Of(u, r) # {} \/ Owner \in late
<1>1. CASE r = "owner"
  <2>1. IsFiniteSet(Owners) /\ Of(u, r) \in SUBSET Owners
    BY <1>1, FS_Subset DEF RolesInv, Owners, Of
  <2>2. ASSUME Owners \ Of(u, r) = {} PROVE FALSE
    <3>1. Owners = Of(u, r)
      BY <2>1, <2>2
    <3> QED BY <1>1, <3>1
  <2> QED BY <2>2
<1>2. CASE r # "owner"
  BY <1>2 DEF RolesInv, RolesHold, OwnerRemains, Owners, Of
<1> QED BY <1>1, <1>2

(* The requests that read and decide. *)
LEMMA RoleRequestsBegin ==
    ASSUME RolesInv, RoleRequestsInv, NEW w \in Workers, NEW u \in Users,
           \/ Admit(w, u) \/ BootstrapBegin(w, u) \/ DisableBegin(w, u) \/ EnableBegin(w, u)
           \/ \E r \in Roles : GrantBegin(w, u, r) \/ RevokeBegin(w, u, r)
    PROVE  RoleRequestsInv' /\ UNCHANGED <<roleVars, late>>
<1>1. CASE Admit(w, u)
  BY <1>1, AdmittedStands, RoleRequestOpens DEF Admit
<1>2. CASE BootstrapBegin(w, u)
  <2> DEFINE t == [op |-> "grant", minds |-> {}, stale |-> {}, actor |-> Boss, user |-> u,
                   rows |-> {"owner"}]
  <2>1. t \in RoleRequests
    BY RolesAssumption DEF RoleRequests, Roles
  <2>2. RoleRequestOK(t)
    BY DEF RoleRequestOK, RolesInv
  <2> QED BY <1>2, <2>1, <2>2, RoleRequestOpens DEF BootstrapBegin
<1>3. CASE DisableBegin(w, u)
  BY <1>3, DecisionStands DEF DisableBegin, Decide
<1>4. CASE EnableBegin(w, u)
  BY <1>4, DecisionStands DEF EnableBegin, Decide
<1>5. ASSUME NEW r \in Roles, GrantBegin(w, u, r)
      PROVE  RoleRequestsInv' /\ UNCHANGED <<roleVars, late>>
  <2>1. /\ tx[w].op = "admitted" /\ Of(u, r) = {}
        /\ r = "owner" => "owner" \in tx[w].may
        /\ Decide(w, "grant", u, {r}, {})
    BY <1>5 DEF GrantBegin, MayChange
  <2> QED BY <2>1, DecisionStands DEF Decide
<1>6. ASSUME NEW r \in Roles, RevokeBegin(w, u, r)
      PROVE  RoleRequestsInv' /\ UNCHANGED <<roleVars, late>>
  <2>1. /\ tx[w].op = "admitted"
        /\ Cardinality(Of(u, r)) = 1
        /\ r = "owner" => Cardinality(Owners) > 1
        /\ Decide(w, "revoke", u, Of(u, r), {Owner})
    BY <1>6 DEF RevokeBegin, MayChange
  <2>2. Of(u, r) \subseteq Assignments
    BY DEF Of, RolesInv, RolesTypeOK
  <2> QED BY <2>1, <2>2, OtherOwner, DecisionStands DEF Decide
<1> QED BY <1>1, <1>2, <1>3, <1>4, <1>5, <1>6

(* What a commit leaves of the other requests. *)
LEMMA RoleRequestsLeft ==
    ASSUME RoleRequestsInv, NEW w \in Workers, NEW W, Close(w, W)
    PROVE  /\ tx' \in [Workers -> RoleRequests]
           /\ tx'[w] = Idle
           /\ late \subseteq late'
           /\ \A v \in Workers \ {w} :
                 /\ tx'[v].op = tx[v].op
                 /\ tx[v].op # "idle" => /\ tx'[v].actor = tx[v].actor
                                         /\ tx'[v].stale = tx[v].stale \union (W \intersect tx[v].minds)
                 /\ tx[v].op = "admitted" => tx'[v].may = tx[v].may
                 /\ tx[v].op \in {"grant", "revoke", "disable"} =>
                       tx'[v].user = tx[v].user /\ tx'[v].rows = tx[v].rows
<1>1. tx \in [Workers -> RoleRequests]
  BY DEF RoleRequestsInv
<1>2. ASSUME NEW v \in Workers \ {w}
      PROVE  /\ tx'[v].op = tx[v].op
             /\ tx[v].op # "idle" => /\ tx'[v].actor = tx[v].actor
                                     /\ tx'[v].stale = tx[v].stale \union (W \intersect tx[v].minds)
             /\ tx[v].op = "admitted" => tx'[v].may = tx[v].may
             /\ tx[v].op \in {"grant", "revoke", "disable"} =>
                   tx'[v].user = tx[v].user /\ tx'[v].rows = tx[v].rows
  BY SMTT(30), <1>1, <1>2 DEF Close, RoleRequests, Idle
<1>3. tx' \in [Workers -> RoleRequests]
  BY SMTT(30), <1>1 DEF Close, RoleRequests, Idle, Account, Owner
<1> QED BY <1>2, <1>3 DEF Close

(* Requests that are not about to grant count for nothing when grants and  *)
(* rows are added up.                                                      *)
LEMMA GrantsLeft ==
    ASSUME RolesInv, RoleRequestsInv, NEW w \in Workers, NEW W, Close(w, W),
           NEW u \in Users, NEW r \in Roles, Of(u, r)' \in SUBSET Of(u, r)
    PROVE  Cardinality(Of(u, r)') + Cardinality(Granting(u, r)') =< Cardinality(Workers)
<1>1. Granting(u, r)' \in SUBSET Granting(u, r)
  BY RoleRequestsLeft DEF Granting, Idle
<1>2. /\ Cardinality(Granting(u, r)') =< Cardinality(Granting(u, r))
      /\ Cardinality(Granting(u, r)') \in Nat
  BY <1>1, RoleCounts, FS_Subset, FS_CardinalityType
<1>3. /\ Cardinality(Of(u, r)') =< Cardinality(Of(u, r))
      /\ Cardinality(Of(u, r)') \in Nat
  BY RoleCounts, FS_Subset, FS_CardinalityType
<1> QED BY <1>2, <1>3, RoleCounts DEF RoleRequestsInv

(* A grant makes one row of one request. *)
LEMMA GrantCounts ==
    ASSUME RolesInv, RoleRequestsInv, NEW w \in Workers, GrantCommit(w),
           NEW u \in Users, NEW r \in Roles
    PROVE  Cardinality(Of(u, r)') + Cardinality(Granting(u, r)') =< Cardinality(Workers)
<1>1. PICK g \in tx[w].rows : held' = held \union {[n |-> made + 1, user |-> tx[w].user, role |-> g]}
  BY DEF GrantCommit
<1>2. Close(w, {})
  BY DEF GrantCommit
<1>3. CASE u = tx[w].user /\ r = g
  <2>1. Of(u, r)' = Of(u, r) \union {[n |-> made + 1, user |-> u, role |-> r]}
    BY <1>1, <1>3 DEF Of
  <2>2. w \in Granting(u, r)
    BY <1>3 DEF Granting, GrantCommit
  <2>3. Granting(u, r)' \in SUBSET (Granting(u, r) \ {w})
    BY <1>2, RoleRequestsLeft DEF Granting, Idle
  <2>4. /\ Cardinality(Granting(u, r)') =< Cardinality(Granting(u, r)) - 1
        /\ Cardinality(Granting(u, r)') \in Nat
    <3>1. /\ IsFiniteSet(Granting(u, r) \ {w})
          /\ Cardinality(Granting(u, r) \ {w}) = Cardinality(Granting(u, r)) - 1
      BY <2>2, RoleCounts, FS_RemoveElement
    <3> QED BY <2>3, <3>1, FS_Subset, FS_CardinalityType
  <2>5. /\ Cardinality(Of(u, r)') =< Cardinality(Of(u, r)) + 1
        /\ Cardinality(Of(u, r)') \in Nat
    <3> DEFINE row == [n |-> made + 1, user |-> u, role |-> r]
    <3>1. /\ IsFiniteSet(Of(u, r) \union {row})
          /\ Cardinality(Of(u, r) \union {row}) =< Cardinality(Of(u, r)) + 1
      <4> HIDE DEF row
      <4> QED BY RoleCounts, FS_AddElement
    <3> QED BY <2>1, <3>1, FS_CardinalityType
  <2> QED BY <2>4, <2>5, RoleCounts DEF RoleRequestsInv
<1>4. CASE ~ (u = tx[w].user /\ r = g)
  <2>1. Of(u, r)' \in SUBSET Of(u, r)
    BY <1>1, <1>4 DEF Of
  <2> QED BY <1>2, <2>1, GrantsLeft
<1> QED BY <1>3, <1>4

(* A row is granted: owners only by owners. *)
LEMMA GrantKeepsRoles ==
    ASSUME RolesInv, RoleRequestsInv, NEW w \in Workers, GrantCommit(w)
    PROVE  RolesInv' /\ RoleRequestsInv'
<1>1. PICK g \in tx[w].rows :
         /\ held' = held \union {[n |-> made + 1, user |-> tx[w].user, role |-> g]}
         /\ owned' = IF g = "owner" /\ tx[w].actor \in owned
                     THEN owned \union {tx[w].user} ELSE owned
  BY DEF GrantCommit
<1>2. /\ tx[w].op = "grant" /\ made < MaxRows /\ made' = made + 1 /\ enabled' = enabled
      /\ Close(w, {})
  BY DEF GrantCommit
<1>3. tx[w] \in RoleRequests /\ RoleRequestOK(tx[w])
  BY DEF RoleRequestsInv
<1>4. tx[w].user \in Users /\ g \in Roles
  BY <1>1, <1>2, <1>3 DEF RoleRequests, Idle
<1>5. RolesTypeOK'
  BY <1>1, <1>2, <1>4, RolesAssumption DEF RolesInv, RolesTypeOK, Assignments
<1>6. IsFiniteSet(held')
  BY <1>1, FS_AddElement DEF RolesInv
<1>7. owned \subseteq owned' /\ Owners \subseteq Owners' /\ late \subseteq late'
  BY <1>1, <1>2 DEF Owners, Close
<1>8. OwnersAppointed'
  BY <1>1, <1>2, <1>3 DEF OwnersAppointed, Owners, RoleRequestOK, RolesInv, RolesHold
<1>9. \A u \in Users, r \in Roles :
         Cardinality(Of(u, r)') + Cardinality(Granting(u, r)') =< Cardinality(Workers)
  BY GrantCounts
<1>10. GrantedOnce'
  <2> SUFFICES ASSUME NEW u \in Users, NEW r \in Roles
               PROVE  Cardinality(Of(u, r)') =< Cardinality(Workers)
    BY DEF GrantedOnce
  <2>1. Granting(u, r)' \in SUBSET Workers /\ Of(u, r)' \in SUBSET held'
    BY DEF Granting, Of
  <2>2. Cardinality(Granting(u, r)') \in Nat /\ Cardinality(Of(u, r)') \in Nat
    BY <1>6, <2>1, WorkersAssumption, FS_Subset, FS_CardinalityType
  <2> QED BY <1>9, <2>2, WorkersAssumption, FS_CardinalityType
<1>11. RolesInv'
  BY <1>2, <1>5, <1>6, <1>7, <1>8, <1>10
     DEF RolesInv, RolesHold, OwnerRemains, SomeoneIsEnabled
<1>12. ASSUME NEW v \in Workers PROVE RoleRequestOK(tx[v])'
  <2>1. CASE v = w
    BY <1>2, <2>1, RoleRequestsLeft DEF RoleRequestOK, Idle
  <2>2. CASE v # w
    BY <1>2, <1>7, <2>2, RoleRequestsLeft DEF RoleRequestOK, RoleRequestsInv
  <2> QED BY <2>1, <2>2
<1> QED BY <1>2, <1>9, <1>11, <1>12, RoleRequestsLeft DEF RoleRequestsInv

(* Rows are revoked: those of an owner leave another, unless late. *)
LEMMA RevokeKeepsRoles ==
    ASSUME RolesInv, RoleRequestsInv, NEW w \in Workers, RevokeCommit(w)
    PROVE  RolesInv' /\ RoleRequestsInv'
<1> DEFINE W == IF tx[w].rows \intersect Owners # {} THEN {Owner} ELSE {}
<1>1. /\ tx[w].op = "revoke" /\ held' = held \ tx[w].rows
      /\ UNCHANGED <<made, enabled, owned>>
      /\ Close(w, W)
  BY DEF RevokeCommit
<1>2. tx[w] \in RoleRequests /\ RoleRequestOK(tx[w])
  BY DEF RoleRequestsInv
<1>3. Owners' = Owners \ tx[w].rows
  BY <1>1 DEF Owners
<1>4. late' = late \union (W \intersect tx[w].stale)
  BY <1>1 DEF Close
<1>5. OwnerRemains'
  BY <1>1, <1>2, <1>3, <1>4 DEF OwnerRemains, RoleRequestOK, RolesInv, RolesHold
<1>6. RolesTypeOK' /\ IsFiniteSet(held')
  BY <1>1, FS_Difference DEF RolesInv, RolesTypeOK
<1>7. \A u \in Users, r \in Roles :
         /\ Cardinality(Of(u, r)') + Cardinality(Granting(u, r)') =< Cardinality(Workers)
         /\ Cardinality(Of(u, r)') =< Cardinality(Workers)
  <2> TAKE u \in Users, r \in Roles
  <2>1. Of(u, r)' \in SUBSET Of(u, r)
    BY <1>1 DEF Of
  <2>2. /\ Cardinality(Of(u, r)') =< Cardinality(Of(u, r))
        /\ Cardinality(Of(u, r)') \in Nat
    BY <2>1, RoleCounts, FS_Subset, FS_CardinalityType
  <2>3. Cardinality(Of(u, r)) =< Cardinality(Workers)
    BY DEF RolesInv, RolesHold, GrantedOnce
  <2> HIDE DEF W
  <2> QED BY <1>1, <2>1, <2>2, <2>3, GrantsLeft, RoleCounts
<1>8. RolesInv'
  BY <1>1, <1>3, <1>4, <1>5, <1>6, <1>7
     DEF RolesInv, RolesHold, SomeoneIsEnabled, OwnersAppointed, GrantedOnce
<1>9. ASSUME NEW v \in Workers PROVE RoleRequestOK(tx[v])'
  <2>1. CASE v = w
    BY <1>1, <2>1, RoleRequestsLeft DEF RoleRequestOK, Idle
  <2>2. CASE v # w
    <3>1. /\ tx'[v].op = tx[v].op
          /\ tx[v].op # "idle" => /\ tx'[v].actor = tx[v].actor
                                  /\ tx'[v].stale = tx[v].stale \union (W \intersect tx[v].minds)
          /\ tx[v].op = "admitted" => tx'[v].may = tx[v].may
          /\ tx[v].op \in {"grant", "revoke", "disable"} =>
                tx'[v].user = tx[v].user /\ tx'[v].rows = tx[v].rows
      BY <1>1, <2>2, RoleRequestsLeft
    <3>2. tx[v] \in RoleRequests /\ RoleRequestOK(tx[v])
      BY DEF RoleRequestsInv
    <3>3. tx[v].op = "revoke" =>
             Owner \in tx'[v].stale \union late' \/ Owners' \ tx'[v].rows # {}
      <4>1. tx[v].op = "revoke" => tx[v].minds = {Owner}
        BY <3>2 DEF RoleRequests, Idle
      <4>2. CASE W = {Owner}
        BY <3>1, <4>1, <4>2
      <4>3. CASE W # {Owner}
        BY <1>3, <1>4, <3>1, <3>2, <4>3 DEF RoleRequestOK
      <4> QED BY <4>2, <4>3
    <3> HIDE DEF W
    <3> QED BY <1>1, <1>4, <3>1, <3>2, <3>3 DEF RoleRequestOK
  <2> QED BY <2>1, <2>2
<1> HIDE DEF W
<1> QED BY <1>1, <1>7, <1>8, <1>9, RoleRequestsLeft DEF RoleRequestsInv

(* An account is disabled by one that is not, or late. *)
LEMMA DisableKeepsRoles ==
    ASSUME RolesInv, RoleRequestsInv, NEW w \in Workers, DisableCommit(w)
    PROVE  RolesInv' /\ RoleRequestsInv'
<1>1. /\ tx[w].op = "disable" /\ enabled' = enabled \ {tx[w].user}
      /\ UNCHANGED <<held, made, owned>>
      /\ Close(w, {Account})
  BY DEF DisableCommit
<1>2. tx[w] \in RoleRequests /\ RoleRequestOK(tx[w])
  BY DEF RoleRequestsInv
<1>3. late' = late \union ({Account} \intersect tx[w].stale)
  BY <1>1 DEF Close
<1>4. SomeoneIsEnabled'
  BY <1>1, <1>2, <1>3 DEF RoleRequestOK, SomeoneIsEnabled
<1>5. RolesInv'
  BY <1>1, <1>3, <1>4
     DEF RolesInv, RolesTypeOK, RolesHold, OwnerRemains, OwnersAppointed, GrantedOnce, Owners, Of
<1>6. ASSUME NEW v \in Workers PROVE RoleRequestOK(tx[v])'
  <2>1. CASE v = w
    BY <1>1, <2>1, RoleRequestsLeft DEF RoleRequestOK, Idle
  <2>2. CASE v # w
    <3>1. tx[v] \in RoleRequests /\ RoleRequestOK(tx[v])
      BY DEF RoleRequestsInv
    <3>2. tx[v].op \in {"admitted", "disable"} => tx[v].minds = {Account}
      BY <3>1 DEF RoleRequests, Idle
    <3> QED BY <1>1, <1>3, <2>2, <3>1, <3>2, RoleRequestsLeft DEF RoleRequestOK, Owners
  <2> QED BY <2>1, <2>2
<1>7. ASSUME NEW u \in Users, NEW r \in Roles
      PROVE  Cardinality(Of(u, r)') + Cardinality(Granting(u, r)') =< Cardinality(Workers)
  <2>1. Of(u, r)' \in SUBSET Of(u, r)
    BY <1>1 DEF Of
  <2> QED BY <1>1, <2>1, GrantsLeft
<1> QED BY <1>1, <1>5, <1>6, <1>7, RoleRequestsLeft DEF RoleRequestsInv

(* An account is enabled again. *)
LEMMA EnableKeepsRoles ==
    ASSUME RolesInv, RoleRequestsInv, NEW w \in Workers, EnableCommit(w)
    PROVE  RolesInv' /\ RoleRequestsInv'
<1>1. /\ tx[w].op = "enable" /\ enabled' = enabled \union {tx[w].user}
      /\ UNCHANGED <<held, made, owned>>
      /\ Close(w, {})
  BY DEF EnableCommit
<1>2. tx[w].user \in Users
  BY <1>1 DEF RoleRequestsInv, RoleRequests, Idle
<1>3. late' = late
  BY <1>1 DEF Close
<1>4. RolesInv'
  BY <1>1, <1>2, <1>3
     DEF RolesInv, RolesTypeOK, RolesHold, OwnerRemains, SomeoneIsEnabled, OwnersAppointed,
         GrantedOnce, Owners, Of
<1>5. ASSUME NEW v \in Workers PROVE RoleRequestOK(tx[v])'
  <2>1. CASE v = w
    BY <1>1, <2>1, RoleRequestsLeft DEF RoleRequestOK, Idle
  <2>2. CASE v # w
    BY <1>1, <1>3, <2>2, RoleRequestsLeft DEF RoleRequestOK, RoleRequestsInv, Owners
  <2> QED BY <2>1, <2>2
<1>6. ASSUME NEW u \in Users, NEW r \in Roles
      PROVE  Cardinality(Of(u, r)') + Cardinality(Granting(u, r)') =< Cardinality(Workers)
  <2>1. Of(u, r)' \in SUBSET Of(u, r)
    BY <1>1 DEF Of
  <2> QED BY <1>1, <2>1, GrantsLeft
<1> QED BY <1>1, <1>4, <1>5, <1>6, RoleRequestsLeft DEF RoleRequestsInv

(* A request that fails has decided nothing. *)
LEMMA FailKeepsRoles ==
    ASSUME RolesInv, RoleRequestsInv, NEW w \in Workers, Fail(w), UNCHANGED roleVars
    PROVE  RoleRequestsInv'
<1>1. Idle \in RoleRequests /\ RoleRequestOK(Idle) /\ Idle.op # "grant"
  BY DEF RoleRequests, RoleRequestOK, Idle
<1>2. tx' = [tx EXCEPT ![w] = Idle] /\ UNCHANGED <<roleVars, late>>
  BY DEF Fail
<1> QED BY <1>1, <1>2, RoleRequestOpens

(* A step of the roles desk. *)
LEMMA RoleStepKeeps ==
    ASSUME RolesInv, RoleRequestsInv, NEW w \in Workers, RoleStep(w)
    PROVE  RolesInv' /\ RoleRequestsInv' /\ late \subseteq late'
<1>1. ASSUME NEW u \in Users,
             \/ Admit(w, u) \/ BootstrapBegin(w, u) \/ DisableBegin(w, u) \/ EnableBegin(w, u)
             \/ \E r \in Roles : GrantBegin(w, u, r) \/ RevokeBegin(w, u, r)
      PROVE  RolesInv' /\ RoleRequestsInv' /\ late \subseteq late'
  <2>1. RoleRequestsInv' /\ UNCHANGED roleVars /\ late' = late
    BY <1>1, RoleRequestsBegin
  <2> QED BY <2>1, RolesStay
<1>2. CASE GrantCommit(w)
  BY <1>2, GrantKeepsRoles DEF GrantCommit, Close
<1>3. CASE RevokeCommit(w)
  BY <1>3, RevokeKeepsRoles DEF RevokeCommit, Close
<1>4. CASE DisableCommit(w)
  BY <1>4, DisableKeepsRoles DEF DisableCommit, Close
<1>5. CASE EnableCommit(w)
  BY <1>5, EnableKeepsRoles DEF EnableCommit, Close
<1> QED BY <1>1, <1>2, <1>3, <1>4, <1>5 DEF RoleStep

(* At the start there is one owner, and nobody is under way. *)
LEMMA RolesStart ==
    ASSUME RolesInit, OverlapInit
    PROVE  RolesInv /\ RoleRequestsInv
<1> DEFINE first == [n |-> 1, user |-> Boss, role |-> "owner"]
<1>1. held = {first} /\ made = 1 /\ enabled = Users /\ owned = {Boss}
  BY DEF RolesInit
<1>2. tx \in [Workers -> RoleRequests] /\ \A w \in Workers : tx[w].op = "idle"
  BY DEF OverlapInit, RoleRequests, Idle
<1>3. Cardinality(Workers) \in Nat \ {0}
  BY WorkersAssumption, FS_CardinalityType, FS_EmptySet
<1>4. ASSUME NEW u \in Users, NEW r \in Roles
      PROVE  Cardinality(Of(u, r)) + Cardinality(Granting(u, r)) =< Cardinality(Workers)
             /\ Cardinality(Of(u, r)) =< Cardinality(Workers)
  <2>1. Granting(u, r) = {}
    BY <1>2 DEF Granting
  <2>2. Of(u, r) = {first} \/ Of(u, r) = {}
    BY <1>1 DEF Of
  <2> HIDE DEF first
  <2>3. Cardinality(Of(u, r)) \in {0, 1}
    BY <2>2, FS_Singleton, FS_EmptySet
  <2> QED BY <1>3, <2>1, <2>3, FS_EmptySet
<1>5. first \in Owners /\ first \in Assignments /\ Boss \in owned /\ Boss \in enabled
  BY <1>1, RolesAssumption DEF Owners, Assignments, Roles
<1>6. IsFiniteSet(held)
  BY <1>1, FS_Singleton
<1>7. RolesInv
  BY <1>1, <1>4, <1>5, <1>6, RolesAssumption
     DEF RolesInv, RolesTypeOK, RolesHold, OwnerRemains, SomeoneIsEnabled, OwnersAppointed,
         GrantedOnce, Owners
<1> QED BY <1>2, <1>4, <1>7 DEF RoleRequestsInv, RoleRequestOK

-----------------------------------------------------------------------------
(* 2. API keys. *)

(* What a session may write of a row. *)
Columns == {"state", "managed", "minted", "cap", "window"}
Patches == UNION {[C -> {"active", "revoked"} \union BOOLEAN] : C \in SUBSET Columns}
Updates == UNION {[K -> Patches] : K \in SUBSET Keys}

KeyRequests ==
    {Idle}
    \union [op : {"create", "mint", "update", "discard"}, minds : SUBSET ({"limits"} \X Keys),
            stale : SUBSET ({"limits"} \X Keys), inserts : SUBSET KeyRows, columns : Updates]

(* A patch leaves a row what it was, or revokes it. *)
Mild(patch) ==
    \A row \in KeyRows :
        /\ Written(row, patch) \in KeyRows
        /\ Written(row, patch).minted = row.minted
        /\ Written(row, patch).state \in {row.state, "revoked"}

(* What stands of a request: it writes rows that there are, and leaves     *)
(* their limits fitting.  Only create_key inserts keys that count.         *)
KeyRequestOK(t) ==
    t.op # "idle" =>
        /\ t.stale \subseteq t.minds
        /\ \A row \in t.inserts :
              row.state = "active" /\ ~ row.cap /\ (row.minted \/ t.op = "create")
        /\ \A k \in DOMAIN t.columns :
              /\ key[k].state # "none"
              /\ <<"limits", k>> \in t.minds
              /\ Mild(t.columns[k])
              /\ <<"limits", k>> \in t.stale \union late \/ LimitsFit(Written(key[k], t.columns[k]))

Counting == {k \in Active : ~ key[k].minted}
Creating == {w \in Workers : tx[w].op = "create"}

KeysInv == KeysTypeOK /\ KeysCreatedWithinLimit /\ CapHasWindow

KeyRequestsInv ==
    /\ tx \in [Workers -> KeyRequests]
    /\ \A w \in Workers : KeyRequestOK(tx[w])
    /\ Cardinality(Counting) + Cardinality(Creating) =< KeyLimit + Cardinality(Workers) - 1

(* Keys and workers are finitely many. *)
LEMMA KeyCounts ==
    /\ Cardinality(Counting) \in Nat /\ IsFiniteSet(Counting)
    /\ Cardinality(Active) \in Nat /\ IsFiniteSet(Active)
    /\ Cardinality(Creating) \in Nat /\ IsFiniteSet(Creating)
    /\ Cardinality(Creating) =< Cardinality(Workers)
    /\ Cardinality(Workers) \in Nat \ {0}
    /\ KeyLimit \in Nat
<1>1. IsFiniteSet(Keys)
  BY KeysAssumption, FS_Interval DEF Keys
<1>2. Active \in SUBSET Keys /\ Counting \in SUBSET Active /\ Creating \in SUBSET Workers
  BY DEF Active, Counting, Creating
<1>3. Cardinality(Workers) \in Nat \ {0}
  BY WorkersAssumption, FS_CardinalityType, FS_EmptySet
<1>4. IsFiniteSet(Active)
  BY <1>1, <1>2, FS_Subset
<1>5. IsFiniteSet(Counting)
  BY <1>2, <1>4, FS_Subset
<1> HIDE DEF Active, Counting, Creating
<1> QED BY <1>2, <1>3, <1>4, <1>5, WorkersAssumption, KeysAssumption, FS_Subset, FS_CardinalityType

(* A patch that was made of a row makes of it the row that was meant. *)
LEMMA PatchIsMild ==
    ASSUME NEW row \in KeyRows, NEW new \in KeyRows,
           new.minted = row.minted, new.state \in {row.state, "revoked"}, row.state # "none"
    PROVE  /\ Changed(row, new) \in Patches
           /\ Mild(Changed(row, new))
           /\ Written(row, Changed(row, new)) = new
<1> DEFINE C == {d \in DOMAIN row : new[d] # row[d]}
<1>1. DOMAIN row = Columns /\ DOMAIN new = Columns
  BY DEF KeyRows, Columns
<1>2. Changed(row, new) = [c \in C |-> new[c]]
  BY DEF Changed
<1>3. \A c \in C : new[c] \in {"active", "revoked"} \union BOOLEAN
  BY <1>1 DEF KeyRows, Columns
<1>4. Changed(row, new) \in Patches
  BY <1>1, <1>2, <1>3 DEF Patches
<1>5. Mild(Changed(row, new))
  <2> SUFFICES ASSUME NEW r \in KeyRows
               PROVE  LET x == Written(r, Changed(row, new))
                      IN  x \in KeyRows /\ x.minted = r.minted /\ x.state \in {r.state, "revoked"}
    BY DEF Mild
  <2> DEFINE x == Written(r, Changed(row, new))
  <2>1. DOMAIN r = Columns
    BY DEF KeyRows, Columns
  <2>2. x = [c \in Columns |-> IF c \in C THEN new[c] ELSE r[c]]
    BY <1>2, <2>1 DEF Written
  <2>3. x = [state |-> x.state, managed |-> x.managed, minted |-> x.minted, cap |-> x.cap,
             window |-> x.window]
    BY <2>2 DEF Columns
  <2>4. x.state \in {r.state, new.state} /\ (x.state = new.state => new.state = row.state \/ new.state = "revoked")
    BY <2>2 DEF Columns
  <2>5. x.state \in {r.state, "revoked"}
    BY <1>1, <2>2 DEF Columns
  <2>6. x.minted = r.minted
    BY <1>1, <2>2 DEF Columns
  <2>7. x.state \in {"none", "active", "revoked"} /\ x.minted \in BOOLEAN
    BY <2>5, <2>6 DEF KeyRows
  <2>8. x.managed \in BOOLEAN /\ x.cap \in BOOLEAN /\ x.window \in BOOLEAN
    BY <2>2 DEF Columns, KeyRows
  <2> QED BY <2>3, <2>5, <2>6, <2>7, <2>8 DEF KeyRows
<1>6. Written(row, Changed(row, new)) = new
  BY <1>1, <1>2 DEF Written, KeyRows, Columns
<1> QED BY <1>4, <1>5, <1>6

(* A request that is opened, and has decided on what is so. *)
LEMMA KeyRequestOpens ==
    ASSUME KeysInv, KeyRequestsInv, NEW w \in Workers, NEW t \in KeyRequests,
           tx' = [tx EXCEPT ![w] = t], UNCHANGED <<key, late>>,
           KeyRequestOK(t), t.op = "create" => Cardinality(Active) < KeyLimit
    PROVE  KeyRequestsInv'
<1>1. tx' \in [Workers -> KeyRequests]
  BY DEF KeyRequestsInv
<1>2. \A v \in Workers : KeyRequestOK(tx[v])'
  BY DEF KeyRequestsInv, KeyRequestOK
<1>3. Counting' = Counting
  BY DEF Counting, Active
<1>4. Cardinality(Counting) + Cardinality(Creating') =< KeyLimit + Cardinality(Workers) - 1
  <2>1. CASE t.op = "create"
    <3>1. Creating' \in SUBSET Workers /\ Counting \in SUBSET Active
      BY DEF Creating, Counting
    <3>2. Cardinality(Creating') \in Nat /\ Cardinality(Creating') =< Cardinality(Workers)
      BY <3>1, WorkersAssumption, FS_Subset, FS_CardinalityType
    <3>3. Cardinality(Counting) =< Cardinality(Active)
      BY <3>1, KeyCounts, FS_Subset
    <3> QED BY <2>1, <3>2, <3>3, KeyCounts
  <2>2. CASE t.op # "create"
    <3>1. Creating' \in SUBSET Creating
      BY <2>2 DEF Creating, KeyRequestsInv
    <3>2. Cardinality(Creating') \in Nat /\ Cardinality(Creating') =< Cardinality(Creating)
      BY <3>1, KeyCounts, FS_Subset, FS_CardinalityType
    <3> QED BY <3>2, KeyCounts DEF KeyRequestsInv
  <2> QED BY <2>1, <2>2
<1> QED BY <1>1, <1>2, <1>3, <1>4 DEF KeyRequestsInv

(* The rows that a request means to write, from those that it has read. *)
PatchOf(columns, new) == columns = [k \in DOMAIN new |-> Changed(key[k], new[k])]

MeantRows(new) ==
    /\ new \in [DOMAIN new -> KeyRows]
    /\ DOMAIN new \subseteq Keys
    /\ \A k \in DOMAIN new :
          /\ key[k].state # "none"
          /\ new[k].minted = key[k].minted
          /\ new[k].state \in {key[k].state, "revoked"}
          /\ LimitsFit(new[k]) \/ Limits(new[k]) = Limits(key[k])

NewRows(op, inserts) ==
    /\ inserts \subseteq KeyRows
    /\ \A row \in inserts : row.state = "active" /\ ~ row.cap /\ (row.minted \/ op = "create")

(* What is to be written of each row fits, or leaves its limits alone. *)
LEMMA KeyRequestStands ==
    ASSUME KeysInv, KeyRequestsInv, NEW w \in Workers,
           NEW op, op \in {"create", "mint", "update", "discard"},
           op = "create" => Cardinality(Active) < KeyLimit,
           NEW inserts, NewRows(op, inserts),
           NEW new, MeantRows(new), NEW columns, PatchOf(columns, new),
           OpenKey(w, op, inserts, columns)
    PROVE  KeyRequestsInv'
<1> DEFINE t == [op |-> op, minds |-> {"limits"} \X DOMAIN columns, stale |-> {},
                 inserts |-> inserts, columns |-> columns]
           D == DOMAIN new
<1> USE DEF PatchOf, MeantRows, NewRows
<1>1. tx' = [tx EXCEPT ![w] = t] /\ UNCHANGED <<key, late>>
  BY DEF OpenKey, Open
<1>2. ASSUME NEW k \in D
      PROVE  /\ columns[k] \in Patches
             /\ Mild(columns[k])
             /\ Written(key[k], columns[k]) = new[k]
  <2>1. key[k] \in KeyRows /\ new[k] \in KeyRows /\ columns[k] = Changed(key[k], new[k])
    BY DEF KeysInv, KeysTypeOK
  <2> QED BY <2>1, PatchIsMild
<1>3. DOMAIN columns = D /\ columns \in [D -> Patches]
  BY <1>2
<1>4. t \in KeyRequests
  <2>1. columns \in Updates
    BY <1>3 DEF Updates
  <2>2. t.minds \subseteq {"limits"} \X Keys
    BY <1>3
  <2> QED BY <2>1, <2>2 DEF KeyRequests
<1>5. ASSUME NEW k \in D
      PROVE  LimitsFit(Written(key[k], columns[k])) \/ <<"limits", k>> \in late
  <2>1. Written(key[k], columns[k]) = new[k]
    BY <1>2
  <2>2. k \in Keys /\ (LimitsFit(key[k]) \/ <<"limits", k>> \in late)
    BY DEF KeysInv, CapHasWindow
  <2>3. Limits(new[k]) = Limits(key[k]) /\ LimitsFit(key[k]) => LimitsFit(new[k])
    BY DEF Limits, LimitsFit
  <2> QED BY <2>1, <2>2, <2>3
<1>6. KeyRequestOK(t)
  BY <1>2, <1>3, <1>5 DEF KeyRequestOK
<1>7. t.op = "create" => Cardinality(Active) < KeyLimit
  OBVIOUS
<1> HIDE DEF t
<1> QED BY <1>1, <1>4, <1>6, <1>7, KeyRequestOpens

(* create_key. *)
LEMMA CreateStands ==
    ASSUME KeysInv, KeyRequestsInv, NEW w \in Workers, CreateBegin(w)
    PROVE  KeyRequestsInv'
<1> DEFINE row == [NoKey EXCEPT !.state = "active"]
<1>1. row \in KeyRows /\ row.state = "active" /\ ~ row.cap
  BY DEF NoKey, KeyRows
<1>2. /\ OpenKey(w, "create", {row}, <<>>)
      /\ Cardinality(Active) < KeyLimit
  BY DEF CreateBegin
<1>3. PatchOf(<<>>, <<>>) /\ MeantRows(<<>>)
  BY DEF PatchOf, MeantRows
<1>4. NewRows("create", {row})
  BY <1>1 DEF NewRows
<1> HIDE DEF row
<1> QED BY <1>2, <1>3, <1>4, KeyRequestStands

(* mint_managed_chat_key. *)
LEMMA MintStands ==
    ASSUME KeysInv, KeyRequestsInv, NEW w \in Workers, MintBegin(w)
    PROVE  KeyRequestsInv'
<1> DEFINE first == CHOOSE k \in ChatKeys : \A i \in ChatKeys : k =< i
           new == [k \in ChatKeys |->
                     IF k = first THEN [key[k] EXCEPT !.cap = FALSE, !.window = FALSE]
                     ELSE [key[k] EXCEPT !.state = "revoked"]]
           row == [NoKey EXCEPT !.state = "active", !.managed = TRUE, !.minted = TRUE]
           inserts == IF ChatKeys = {} THEN {row} ELSE {}
           columns == [k \in ChatKeys |-> Changed(key[k], new[k])]
<1>1. row \in KeyRows /\ row.state = "active" /\ ~ row.cap /\ row.minted
  BY DEF NoKey, KeyRows
<1>2. ChatKeys \in SUBSET Keys /\ \A k \in ChatKeys : key[k].state = "active"
  BY DEF ChatKeys, Active
<1>3. OpenKey(w, "mint", inserts, columns)
  BY DEF MintBegin
<1>4. ASSUME NEW k \in ChatKeys
      PROVE  /\ new[k] \in KeyRows
             /\ new[k].minted = key[k].minted
             /\ new[k].state \in {key[k].state, "revoked"}
             /\ LimitsFit(new[k]) \/ Limits(new[k]) = Limits(key[k])
  <2>1. key[k] \in KeyRows
    BY <1>2 DEF KeysInv, KeysTypeOK
  <2>2. CASE k = first
    <3>1. new[k] = [key[k] EXCEPT !.cap = FALSE, !.window = FALSE]
      BY <2>2
    <3> HIDE DEF new, first
    <3> QED BY <2>1, <3>1 DEF KeyRows, LimitsFit
  <2>3. CASE k # first
    <3>1. new[k] = [key[k] EXCEPT !.state = "revoked"]
      BY <2>3
    <3> HIDE DEF new, first
    <3> QED BY <2>1, <3>1 DEF KeyRows, Limits
  <2> QED BY <2>2, <2>3
<1>5. MeantRows(new)
  <2>1. DOMAIN new = ChatKeys
    OBVIOUS
  <2> HIDE DEF new
  <2>2. \A k \in ChatKeys : key[k].state # "none"
    BY <1>2
  <2>3. new \in [ChatKeys -> KeyRows]
    <3>1. new = [k \in ChatKeys |-> new[k]]
      BY DEF new
    <3> QED BY <1>4, <3>1
  <2> QED BY <1>2, <1>4, <2>1, <2>2, <2>3 DEF MeantRows
<1>6. PatchOf(columns, new)
  BY DEF PatchOf
<1>7. NewRows("mint", inserts)
  BY <1>1 DEF NewRows
<1> HIDE DEF first, new, row, inserts, columns
<1> QED BY <1>3, <1>5, <1>6, <1>7, KeyRequestStands

(* update_key, revoke_key, and an administrator's change of a name: of one *)
(* row.                                                                    *)
LEMMA OneRowStands ==
    ASSUME KeysInv, KeyRequestsInv, NEW w \in Workers, NEW op \in {"update", "discard"},
           NEW k \in Keys, NEW row \in KeyRows, OpenKey(w, op, {}, OneRow(k, row)),
           key[k].state # "none", row.minted = key[k].minted,
           row.state \in {key[k].state, "revoked"},
           LimitsFit(row) \/ Limits(row) = Limits(key[k])
    PROVE  KeyRequestsInv'
<1> DEFINE new == [i \in {k} |-> row]
<1>1. MeantRows(new)
  BY DEF MeantRows
<1>2. PatchOf(OneRow(k, row), new)
  BY DEF PatchOf, OneRow
<1>3. NewRows(op, {})
  BY DEF NewRows
<1> HIDE DEF new
<1> QED BY <1>1, <1>2, <1>3, KeyRequestStands

(* The requests that read and decide. *)
LEMMA KeyRequestsBegin ==
    ASSUME KeysInv, KeyRequestsInv, NEW w \in Workers,
           \/ CreateBegin(w) \/ MintBegin(w)
           \/ \E k \in Keys :
                 \/ \E cap, window \in BOOLEAN :
                       UpdateBegin(w, k, [key[k] EXCEPT !.cap = cap, !.window = window])
                 \/ \E managed \in BOOLEAN : RenameBegin(w, k, managed)
                 \/ RevokeKeyBegin(w, k)
    PROVE  KeyRequestsInv' /\ UNCHANGED <<key, late>>
<1>1. CASE CreateBegin(w)
  BY <1>1, CreateStands DEF CreateBegin, OpenKey
<1>2. CASE MintBegin(w)
  BY <1>2, MintStands DEF MintBegin, OpenKey
<1>3. ASSUME NEW k \in Keys, NEW cap \in BOOLEAN, NEW window \in BOOLEAN,
             UpdateBegin(w, k, [key[k] EXCEPT !.cap = cap, !.window = window])
      PROVE  KeyRequestsInv' /\ UNCHANGED <<key, late>>
  <2> DEFINE row == [key[k] EXCEPT !.cap = cap, !.window = window]
  <2>1. /\ key[k].state = "active" /\ LimitsFit(row)
        /\ OpenKey(w, "update", {}, OneRow(k, row))
    BY <1>3 DEF UpdateBegin, Active
  <2>2. row \in KeyRows /\ row.minted = key[k].minted /\ row.state = key[k].state
    BY DEF KeysInv, KeysTypeOK, KeyRows
  <2> HIDE DEF row
  <2> QED BY <2>1, <2>2, OneRowStands DEF OpenKey
<1>4. ASSUME NEW k \in Keys, NEW managed \in BOOLEAN, RenameBegin(w, k, managed)
      PROVE  KeyRequestsInv' /\ UNCHANGED <<key, late>>
  <2> DEFINE row == [key[k] EXCEPT !.managed = managed]
  <2>1. key[k].state # "none" /\ OpenKey(w, "update", {}, OneRow(k, row))
    BY <1>4 DEF RenameBegin
  <2>2. /\ row \in KeyRows /\ row.minted = key[k].minted /\ row.state = key[k].state
        /\ Limits(row) = Limits(key[k])
    BY DEF KeysInv, KeysTypeOK, KeyRows, Limits
  <2> HIDE DEF row
  <2> QED BY <2>1, <2>2, OneRowStands DEF OpenKey
<1>5. ASSUME NEW k \in Keys, RevokeKeyBegin(w, k)
      PROVE  KeyRequestsInv' /\ UNCHANGED <<key, late>>
  <2> DEFINE row == [key[k] EXCEPT !.state = "revoked"]
  <2>1. key[k].state = "active" /\ OpenKey(w, "discard", {}, OneRow(k, row))
    BY <1>5 DEF RevokeKeyBegin, Active
  <2>2. /\ row \in KeyRows /\ row.minted = key[k].minted /\ row.state = "revoked"
        /\ Limits(row) = Limits(key[k])
    BY DEF KeysInv, KeysTypeOK, KeyRows, Limits
  <2> HIDE DEF row
  <2> QED BY <2>1, <2>2, OneRowStands DEF OpenKey
<1> QED BY <1>1, <1>2, <1>3, <1>4, <1>5

(* What a commit leaves of the other requests. *)
LEMMA KeyRequestsLeft ==
    ASSUME KeyRequestsInv, NEW w \in Workers, NEW W, Close(w, W)
    PROVE  /\ tx' \in [Workers -> KeyRequests]
           /\ tx'[w] = Idle
           /\ late' = late \union (W \intersect tx[w].stale)
           /\ \A v \in Workers \ {w} :
                 /\ tx'[v].op = tx[v].op
                 /\ tx[v].op # "idle" => /\ tx'[v].stale = tx[v].stale \union (W \intersect tx[v].minds)
                                         /\ tx'[v].minds = tx[v].minds
                                         /\ tx'[v].inserts = tx[v].inserts
                                         /\ tx'[v].columns = tx[v].columns
<1>1. tx \in [Workers -> KeyRequests]
  BY DEF KeyRequestsInv
<1>2. ASSUME NEW v \in Workers \ {w}
      PROVE  /\ tx'[v].op = tx[v].op
             /\ tx'[v] \in KeyRequests
             /\ tx[v].op # "idle" => /\ tx'[v].stale = tx[v].stale \union (W \intersect tx[v].minds)
                                     /\ tx'[v].minds = tx[v].minds
                                     /\ tx'[v].inserts = tx[v].inserts
                                     /\ tx'[v].columns = tx[v].columns
  BY <1>1, <1>2 DEF Close, KeyRequests, Idle
<1>3. Idle \in KeyRequests
  BY DEF KeyRequests
<1> QED BY <1>2, <1>3 DEF Close

(* Some key comes first: what the model's choice of a free row relies on.  *)
LEMMA FirstOfKeys ==
    ASSUME NEW S \in SUBSET Nat, S # {}
    PROVE  \E i \in S : \A j \in S : i =< j
<1> DEFINE R == {p \in Nat \X Nat : p[1] < p[2]}
<1>1. IsWellFoundedOn(R, Nat)
  BY NatLessThanWellFounded DEF OpToRel
<1>2. PICK x \in S : \A y \in S : ~ (<<y, x>> \in R)
  <2> HIDE DEF R
  <2> QED BY <1>1, WFMin
<1>3. ASSUME NEW y \in S PROVE x =< y
  <2>1. <<y, x>> \in Nat \X Nat /\ ~ (<<y, x>> \in R)
    BY <1>2
  <2>2. ~ (y < x)
    BY <2>1
  <2> QED BY <2>2
<1> QED BY <1>3

(* The rows after a commit: a new one in a free place, if any. *)
LEMMA StoredRows ==
    ASSUME NEW w \in Workers, KeyCommit(w)
    PROVE  \E slot : \A k \in Keys :
              \/ k = slot /\ key[k].state = "none" /\ key'[k] \in tx[w].inserts
              \/ k \in DOMAIN tx[w].columns /\ key'[k] = Written(key[k], tx[w].columns[k])
              \/ k \notin DOMAIN tx[w].columns /\ key'[k] = key[k]
<1> DEFINE free == {i \in Keys : key[i].state = "none"}
           slot == CHOOSE i \in free : \A j \in free : i =< j
           new == CHOOSE row \in tx[w].inserts : TRUE
<1>1. ASSUME tx[w].inserts # {}
      PROVE  slot \in free /\ new \in tx[w].inserts
  <2>1. free # {} /\ free \in SUBSET Nat
    BY <1>1, KeysAssumption DEF KeyCommit, Keys
  <2>2. \E i \in free : \A j \in free : i =< j
    <3> HIDE DEF free
    <3> QED BY <2>1, FirstOfKeys
  <2> QED BY <1>1, <2>2
<1>2. \A k \in Keys :
         key'[k] = IF tx[w].inserts # {} /\ k = slot THEN new
                   ELSE IF k \in DOMAIN tx[w].columns THEN Written(key[k], tx[w].columns[k])
                   ELSE key[k]
  BY DEF KeyCommit, Stored
<1>3. \A k \in Keys : k \in free => key[k].state = "none"
  OBVIOUS
<1> HIDE DEF free, slot, new
<1> QED BY <1>1, <1>2, <1>3

(* The limits that are written depend on the limits that are there. *)
LEMMA LimitsWritten ==
    ASSUME NEW r \in KeyRows, NEW s \in KeyRows, NEW patch, Limits(r) = Limits(s)
    PROVE  LimitsFit(Written(r, patch)) <=> LimitsFit(Written(s, patch))
<1>1. r.cap = s.cap /\ r.window = s.window
  BY DEF Limits
<1>2. {"cap", "window"} \subseteq DOMAIN r /\ {"cap", "window"} \subseteq DOMAIN s
  BY DEF KeyRows
<1>3. /\ Written(r, patch).cap = Written(s, patch).cap
      /\ Written(r, patch).window = Written(s, patch).window
  BY <1>1, <1>2 DEF Written
<1> QED BY <1>3 DEF LimitsFit

(* What a commit makes of a row: no key comes back, and limits that do not *)
(* fit have been written over limits that were not read.                   *)
LEMMA RowsStored ==
    ASSUME KeysInv, KeyRequestsInv, NEW w \in Workers, KeyCommit(w), NEW k \in Keys
    PROVE  /\ key'[k] \in KeyRows
           /\ key[k].state # "none" => /\ key'[k].state \in {key[k].state, "revoked"}
                                       /\ key'[k].minted = key[k].minted
           /\ LimitsFit(key'[k]) \/ <<"limits", k>> \in late'
<1> DEFINE W == {<<"limits", i>> : i \in {j \in Keys : Limits(Stored(w)[j]) # Limits(key[j])}}
<1>1. /\ Close(w, W)
      /\ key' = Stored(w)
      /\ tx[w].op \in {"create", "mint", "update", "discard"}
  BY DEF KeyCommit
<1>2. late' = late \union (W \intersect tx[w].stale)
  BY <1>1 DEF Close
<1>3. key[k] \in KeyRows /\ (LimitsFit(key[k]) \/ <<"limits", k>> \in late)
  BY DEF KeysInv, KeysTypeOK, CapHasWindow
<1>4. tx[w] \in KeyRequests /\ KeyRequestOK(tx[w]) /\ tx[w].op # "idle"
  BY <1>1 DEF KeyRequestsInv
<1>5. CASE key[k].state = "none" /\ key'[k] \in tx[w].inserts
  <2>1. key'[k] \in KeyRows
    BY <1>4, <1>5 DEF KeyRequests, Idle
  <2>2. LimitsFit(key'[k])
    BY <1>4, <1>5 DEF KeyRequestOK, LimitsFit
  <2> QED BY <1>5, <2>1, <2>2
<1>6. CASE k \in DOMAIN tx[w].columns /\ key'[k] = Written(key[k], tx[w].columns[k])
  <2>1. /\ Mild(tx[w].columns[k])
        /\ <<"limits", k>> \in tx[w].stale \union late \/ LimitsFit(key'[k])
    BY <1>4, <1>6 DEF KeyRequestOK
  <2>2. /\ key'[k] \in KeyRows /\ key'[k].minted = key[k].minted
        /\ key'[k].state \in {key[k].state, "revoked"}
    BY <1>3, <1>6, <2>1 DEF Mild
  <2>3. CASE Limits(key'[k]) = Limits(key[k])
    <3>1. LimitsFit(key[k]) => LimitsFit(key'[k])
      BY <2>3 DEF Limits, LimitsFit
    <3> QED BY <1>2, <1>3, <2>2, <3>1
  <2>4. CASE Limits(key'[k]) # Limits(key[k])
    <3>1. <<"limits", k>> \in W
      BY <1>1, <2>4
    <3> HIDE DEF W
    <3> QED BY <1>2, <2>1, <2>2, <3>1
  <2> QED BY <2>3, <2>4
<1>7. CASE key'[k] = key[k]
  BY <1>2, <1>3, <1>7
<1> QED BY <1>5, <1>6, <1>7, StoredRows

(* A key that counts is made by one request that is creating. *)
LEMMA KeysCounted ==
    ASSUME KeysInv, KeyRequestsInv, NEW w \in Workers, KeyCommit(w)
    PROVE  Cardinality(Counting') + Cardinality(Creating') =< KeyLimit + Cardinality(Workers) - 1
<1> DEFINE W == {<<"limits", i>> : i \in {j \in Keys : Limits(Stored(w)[j]) # Limits(key[j])}}
<1>1. Close(w, W) /\ tx[w].op \in {"create", "mint", "update", "discard"}
  BY DEF KeyCommit
<1>2. KeyRequestOK(tx[w]) /\ tx[w].op # "idle"
  BY <1>1 DEF KeyRequestsInv
<1>3. PICK slot : \A k \in Keys :
              \/ k = slot /\ key[k].state = "none" /\ key'[k] \in tx[w].inserts
              \/ k \in DOMAIN tx[w].columns /\ key'[k] = Written(key[k], tx[w].columns[k])
              \/ k \notin DOMAIN tx[w].columns /\ key'[k] = key[k]
  BY StoredRows
<1> HIDE DEF W
<1>4. Creating' \in SUBSET (Creating \ {w})
  BY <1>1, KeyRequestsLeft DEF Creating, Idle
<1>5. ASSUME NEW k \in Counting', k \notin Counting
      PROVE  k = slot /\ w \in Creating
  <2>1. k \in Keys /\ key'[k].state = "active" /\ ~ key'[k].minted
    BY DEF Counting, Active
  <2>2. key[k].state = "none"
    BY <1>5, <2>1, RowsStored DEF Counting, Active
  <2>3. k \notin DOMAIN tx[w].columns
    BY <1>2, <2>2 DEF KeyRequestOK
  <2>4. k = slot /\ key'[k] \in tx[w].inserts
    BY <1>3, <2>1, <2>2, <2>3
  <2> QED BY <1>2, <2>1, <2>4 DEF KeyRequestOK, Creating
<1>6. CASE w \in Creating
  <2>1. Counting' \in SUBSET (Counting \union {slot})
    BY <1>5
  <2>2. /\ IsFiniteSet(Counting \union {slot})
        /\ Cardinality(Counting \union {slot}) =< Cardinality(Counting) + 1
        /\ Cardinality(Counting \union {slot}) \in Nat
    <3>1. IsFiniteSet(Counting) /\ Cardinality(Counting) \in Nat
      BY KeyCounts
    <3> HIDE DEF Counting
    <3> QED BY <3>1, FS_AddElement, FS_CardinalityType
  <2>3. /\ Cardinality(Counting') =< Cardinality(Counting) + 1
        /\ Cardinality(Counting') \in Nat
    BY <2>1, <2>2, KeyCounts, FS_Subset, FS_CardinalityType
  <2>4. /\ IsFiniteSet(Creating \ {w})
        /\ Cardinality(Creating \ {w}) = Cardinality(Creating) - 1
    BY <1>6, KeyCounts, FS_RemoveElement
  <2>5. /\ Cardinality(Creating') =< Cardinality(Creating) - 1
        /\ Cardinality(Creating') \in Nat
    BY <1>4, <2>4, FS_Subset, FS_CardinalityType
  <2> QED BY <2>3, <2>5, KeyCounts DEF KeyRequestsInv
<1>7. CASE w \notin Creating
  <2>1. Counting' \in SUBSET Counting /\ Creating' \in SUBSET Creating
    BY <1>4, <1>5, <1>7
  <2>2. /\ Cardinality(Counting') =< Cardinality(Counting)
        /\ Cardinality(Counting') \in Nat
    BY <2>1, KeyCounts, FS_Subset, FS_CardinalityType
  <2>3. /\ Cardinality(Creating') =< Cardinality(Creating)
        /\ Cardinality(Creating') \in Nat
    BY <2>1, KeyCounts, FS_Subset, FS_CardinalityType
  <2> QED BY <2>2, <2>3, KeyCounts DEF KeyRequestsInv
<1> QED BY <1>6, <1>7

(* A commit keeps the invariants. *)
LEMMA KeyCommitKeeps ==
    ASSUME KeysInv, KeyRequestsInv, NEW w \in Workers, KeyCommit(w)
    PROVE  KeysInv' /\ KeyRequestsInv'
<1> DEFINE W == {<<"limits", i>> : i \in {j \in Keys : Limits(Stored(w)[j]) # Limits(key[j])}}
<1>1. Close(w, W) /\ key' = Stored(w)
  BY DEF KeyCommit
<1>2. \A k \in Keys : Limits(key'[k]) # Limits(key[k]) => <<"limits", k>> \in W
  BY <1>1
<1>3. key' = [k \in Keys |-> key'[k]]
  BY <1>1 DEF Stored
<1> HIDE DEF W
<1>4. KeysTypeOK' /\ CapHasWindow'
  BY <1>3, RowsStored DEF KeysTypeOK, CapHasWindow
<1>5. Cardinality(Counting') + Cardinality(Creating') =< KeyLimit + Cardinality(Workers) - 1
  BY KeysCounted
<1>6. KeysCreatedWithinLimit'
  <2>1. Creating' \in SUBSET Workers /\ Counting' \in SUBSET Keys
    BY DEF Creating, Counting, Active
  <2>2. IsFiniteSet(Keys)
    BY KeysAssumption, FS_Interval DEF Keys
  <2>3. Cardinality(Creating') \in Nat /\ Cardinality(Counting') \in Nat
    BY <2>1, <2>2, WorkersAssumption, FS_Subset, FS_CardinalityType
  <2>4. Cardinality(Counting') =< KeyLimit + Cardinality(Workers) - 1
    BY <1>5, <2>3, KeyCounts
  <2> QED BY <2>4 DEF KeysCreatedWithinLimit, Counting
<1>7. ASSUME NEW v \in Workers PROVE KeyRequestOK(tx[v])'
  <2>1. CASE v = w
    BY <1>1, <2>1, KeyRequestsLeft DEF KeyRequestOK, Idle
  <2>2. CASE v # w /\ tx[v].op # "idle"
    <3>1. /\ tx'[v].op = tx[v].op
          /\ tx'[v].stale = tx[v].stale \union (W \intersect tx[v].minds)
          /\ tx'[v].minds = tx[v].minds
          /\ tx'[v].inserts = tx[v].inserts
          /\ tx'[v].columns = tx[v].columns
      BY <1>1, <2>2, KeyRequestsLeft
    <3>2. tx[v] \in KeyRequests /\ KeyRequestOK(tx[v])
      BY DEF KeyRequestsInv
    <3>3. late \subseteq late'
      BY <1>1, KeyRequestsLeft
    <3>4. ASSUME NEW k \in DOMAIN tx[v].columns
          PROVE  /\ key'[k].state # "none"
                 /\ \/ <<"limits", k>> \in tx'[v].stale \union late'
                    \/ LimitsFit(Written(key'[k], tx[v].columns[k]))
      <4>1. k \in Keys
        BY <2>2, <3>2 DEF KeyRequests, Updates, Idle
      <4>2. /\ key[k].state # "none" /\ <<"limits", k>> \in tx[v].minds
            /\ \/ <<"limits", k>> \in tx[v].stale \union late
               \/ LimitsFit(Written(key[k], tx[v].columns[k]))
        BY <2>2, <3>2 DEF KeyRequestOK
      <4>3. key[k] \in KeyRows /\ key'[k] \in KeyRows
        BY <1>4, <4>1 DEF KeysInv, KeysTypeOK
      <4>4. key'[k].state # "none"
        BY <4>1, <4>2, RowsStored
      <4>5. CASE <<"limits", k>> \in W
        BY <3>1, <4>2, <4>4, <4>5
      <4>6. CASE Limits(key'[k]) = Limits(key[k])
        BY <3>1, <3>3, <4>2, <4>3, <4>4, <4>6, LimitsWritten
      <4> QED BY <1>2, <4>1, <4>5, <4>6
    <3> QED BY <2>2, <3>1, <3>2, <3>4 DEF KeyRequestOK
  <2>3. CASE v # w /\ tx[v].op = "idle"
    BY <1>1, <2>3, KeyRequestsLeft DEF KeyRequestOK
  <2> QED BY <2>1, <2>2, <2>3
<1>8. tx' \in [Workers -> KeyRequests]
  BY <1>1, KeyRequestsLeft
<1> QED BY <1>4, <1>5, <1>6, <1>7, <1>8 DEF KeysInv, KeyRequestsInv

(* A request that fails has written nothing. *)
LEMMA FailKeepsKeys ==
    ASSUME KeysInv, KeyRequestsInv, NEW w \in Workers, Fail(w), UNCHANGED key
    PROVE  KeyRequestsInv'
<1>1. Idle \in KeyRequests /\ KeyRequestOK(Idle) /\ Idle.op # "create"
  BY DEF KeyRequests, KeyRequestOK, Idle
<1>2. tx' = [tx EXCEPT ![w] = Idle] /\ UNCHANGED <<key, late>>
  BY DEF Fail
<1> QED BY <1>1, <1>2, KeyRequestOpens

(* Nothing of the table changes. *)
LEMMA KeysStay ==
    ASSUME KeysInv, UNCHANGED key, late \subseteq late'
    PROVE  KeysInv'
  BY DEF KeysInv, KeysTypeOK, KeysCreatedWithinLimit, CapHasWindow, Active

(* A step of the keys desk. *)
LEMMA KeyStepKeeps ==
    ASSUME KeysInv, KeyRequestsInv, NEW w \in Workers, KeyStep(w)
    PROVE  /\ KeysInv' /\ KeyRequestsInv' /\ late \subseteq late'
           /\ \A k \in Keys : key[k].state = "revoked" => key'[k].state = "revoked"
<1>1. CASE KeyCommit(w)
  <2>1. late \subseteq late'
    BY <1>1 DEF KeyCommit, Close
  <2> QED BY <1>1, <2>1, KeyCommitKeeps, RowsStored
<1>2. CASE ~ KeyCommit(w)
  <2>1. KeyRequestsInv' /\ UNCHANGED <<key, late>>
    BY <1>2, KeyRequestsBegin DEF KeyStep
  <2> QED BY <2>1, KeysStay
<1> QED BY <1>1, <1>2

(* At the start there is no key. *)
LEMMA KeysStart ==
    ASSUME KeysInit, OverlapInit
    PROVE  KeysInv
<1>1. KeysTypeOK
  BY DEF KeysInit, KeysTypeOK, KeyRows, NoKey
<1>2. CapHasWindow
  BY DEF KeysInit, NoKey, CapHasWindow, LimitsFit
<1>3. {k \in Active : ~ key[k].minted} = {}
  BY DEF KeysInit, NoKey, Active
<1>4. KeysCreatedWithinLimit
  <2>1. Cardinality({k \in Active : ~ key[k].minted}) = 0
    BY <1>3, FS_EmptySet
  <2> QED BY <2>1, KeyCounts DEF KeysCreatedWithinLimit
<1> QED BY <1>1, <1>2, <1>4 DEF KeysInv

(* Nobody is under way. *)
LEMMA KeyRequestsStart ==
    ASSUME KeysInv, OverlapInit
    PROVE  KeyRequestsInv
<1>1. tx \in [Workers -> KeyRequests] /\ \A w \in Workers : tx[w].op = "idle"
  BY DEF OverlapInit, KeyRequests, Idle
<1>2. Creating = {}
  BY <1>1 DEF Creating
<1>3. Cardinality(Counting) + Cardinality(Creating) =< KeyLimit + Cardinality(Workers) - 1
  <2>1. Cardinality(Counting) =< KeyLimit + Cardinality(Workers) - 1
    BY DEF KeysInv, KeysCreatedWithinLimit, Counting
  <2> QED BY <1>2, <2>1, KeyCounts, FS_EmptySet
<1> QED BY <1>1, <1>3 DEF KeyRequestsInv, KeyRequestOK

-----------------------------------------------------------------------------
(* 3. Billing plans. *)

PlanPatches ==
    {columns \in UNION {[C -> BOOLEAN \union Prices \union {NoPrice}] :
                           C \in SUBSET {"made", "test", "active", "monthly", "annual"}} :
        \A row \in PlanRows : Written(row, columns) \in PlanRows}

PlanMinds == ({"plan"} \X Plans) \union ({"price"} \X Prices)

PlanRequests ==
    {Idle}
    \union [op : {"plan"}, minds : SUBSET PlanMinds, stale : SUBSET PlanMinds, at : Plans,
            columns : PlanPatches]

(* The prices that a patch gives. *)
Given(columns) == {columns[d] : d \in {"monthly", "annual"} \intersect DOMAIN columns} \ {NoPrice}

OnSaleForTest(row) == row.active /\ row.test

(* What stands of a request: it puts no fixture on sale, and gives no      *)
(* price that another plan has, unless it has missed something.            *)
PlanRequestOK(t) ==
    t.op = "plan" =>
        /\ t.stale \subseteq t.minds
        /\ <<"plan", t.at>> \in t.minds
        /\ Written(plan[t.at], t.columns).made
        /\ <<"plan", t.at>> \in t.stale \union late \/ ~ OnSaleForTest(Written(plan[t.at], t.columns))
        /\ \A c \in Given(t.columns) :
              /\ <<"price", c>> \in t.minds
              /\ \/ <<"price", c>> \in t.stale \union late
                 \/ \A q \in Plans \ {t.at} : c \notin PricesOf(plan[q])

(* A plan that is not made has no price. *)
PlansInv ==
    /\ PlansTypeOK
    /\ \A p \in Plans : ~ plan[p].made => PricesOf(plan[p]) = {}
    /\ PlansSellable

PlanRequestsInv ==
    /\ tx \in [Workers -> PlanRequests]
    /\ \A w \in Workers : PlanRequestOK(tx[w])

(* A patch that was made of a row makes of it the row that was meant. *)
LEMMA PlanPatchWrites ==
    ASSUME NEW row \in PlanRows, NEW new \in PlanRows
    PROVE  /\ Changed(row, new) \in PlanPatches
           /\ Written(row, Changed(row, new)) = new
           /\ Given(Changed(row, new)) \subseteq PricesOf(new)
           /\ new.monthly = row.monthly /\ new.annual = row.annual => Given(Changed(row, new)) = {}
<1> DEFINE C == {d \in DOMAIN row : new[d] # row[d]}
           N == {"made", "test", "active", "monthly", "annual"}
<1>1. DOMAIN row = N /\ DOMAIN new = N
  BY DEF PlanRows
<1>2. Changed(row, new) = [c \in C |-> new[c]]
  BY DEF Changed
<1>3. Changed(row, new) \in PlanPatches
  <2>1. \A c \in C : new[c] \in BOOLEAN \union Prices \union {NoPrice}
    BY <1>1 DEF PlanRows
  <2>2. ASSUME NEW r \in PlanRows PROVE Written(r, Changed(row, new)) \in PlanRows
    <3> DEFINE x == Written(r, Changed(row, new))
    <3>1. DOMAIN r = N
      BY DEF PlanRows
    <3>2. x = [c \in N |-> IF c \in C THEN new[c] ELSE r[c]]
      BY <1>2, <3>1 DEF Written
    <3>3. x = [made |-> x.made, test |-> x.test, active |-> x.active, monthly |-> x.monthly,
               annual |-> x.annual]
      BY <3>2
    <3>4. x.made \in {r.made, new.made} /\ x.test \in {r.test, new.test}
          /\ x.active \in {r.active, new.active}
          /\ x.monthly \in {r.monthly, new.monthly} /\ x.annual \in {r.annual, new.annual}
      BY <3>2
    <3>5. x.made \in BOOLEAN /\ x.test \in BOOLEAN /\ x.active \in BOOLEAN
          /\ x.monthly \in Prices \union {NoPrice} /\ x.annual \in Prices \union {NoPrice}
      BY <3>4 DEF PlanRows
    <3>6. x \in PlanRows
      <4> HIDE DEF x
      <4> QED BY <3>3, <3>5 DEF PlanRows
    <3> QED BY <3>6
  <2> QED BY <1>1, <1>2, <2>1, <2>2 DEF PlanPatches
<1>4. Written(row, Changed(row, new)) = new
  BY <1>1, <1>2 DEF Written, PlanRows
<1>5. Given(Changed(row, new)) \subseteq PricesOf(new)
  BY <1>1, <1>2 DEF Given, PricesOf
<1>6. new.monthly = row.monthly /\ new.annual = row.annual => Given(Changed(row, new)) = {}
  BY <1>1, <1>2 DEF Given
<1> QED BY <1>3, <1>4, <1>5, <1>6

(* A row that is written has the prices that it had, or is given. *)
LEMMA PricesWritten ==
    ASSUME NEW row \in PlanRows, NEW columns
    PROVE  PricesOf(Written(row, columns)) \subseteq PricesOf(row) \union Given(columns)
<1>1. {"monthly", "annual"} \subseteq DOMAIN row
  BY DEF PlanRows
<1> QED BY <1>1 DEF Written, PricesOf, Given

(* A request that is opened, and has decided on what is so. *)
LEMMA PlanRequestOpens ==
    ASSUME PlanRequestsInv, NEW w \in Workers, NEW t \in PlanRequests,
           tx' = [tx EXCEPT ![w] = t], UNCHANGED <<plan, late>>, PlanRequestOK(t)
    PROVE  PlanRequestsInv'
<1>1. tx' \in [Workers -> PlanRequests]
  BY DEF PlanRequestsInv
<1>2. \A v \in Workers : PlanRequestOK(tx[v])'
  BY DEF PlanRequestsInv, PlanRequestOK
<1> QED BY <1>1, <1>2 DEF PlanRequestsInv

(* What is to be written of a plan: no fixture on sale, no price of        *)
(* another plan unless it is the plan's already.                           *)
LEMMA PlanRequestStands ==
    ASSUME PlansInv, PlanRequestsInv, NEW w \in Workers, NEW p \in Plans, NEW row \in PlanRows,
           OpenPlan(w, p, row), row.made, ~ OnSaleForTest(row),
           \/ PriceFree(p, row)
           \/ row.monthly = plan[p].monthly /\ row.annual = plan[p].annual
    PROVE  PlanRequestsInv' /\ UNCHANGED <<plan, late>>
<1> DEFINE columns == Changed(plan[p], row)
           t == [op |-> "plan", minds |-> {<<"plan", p>>} \union ({"price"} \X PricesOf(row)),
                 stale |-> {}, at |-> p, columns |-> columns]
<1>1. tx' = [tx EXCEPT ![w] = t] /\ UNCHANGED <<plan, late>>
  BY DEF OpenPlan, Open
<1>2. plan[p] \in PlanRows
  BY DEF PlansInv, PlansTypeOK
<1>3. /\ columns \in PlanPatches
      /\ Written(plan[p], columns) = row
      /\ Given(columns) \subseteq PricesOf(row)
      /\ row.monthly = plan[p].monthly /\ row.annual = plan[p].annual => Given(columns) = {}
  BY <1>2, PlanPatchWrites
<1> HIDE DEF columns
<1>4. PricesOf(row) \subseteq Prices
  BY DEF PlanRows, PricesOf
<1>5. t \in PlanRequests
  BY <1>3, <1>4 DEF PlanRequests, PlanMinds
<1>6. ASSUME NEW c \in Given(columns), NEW q \in Plans \ {p}
      PROVE  c \notin PricesOf(plan[q])
  <2>1. PriceFree(p, row) /\ c \in PricesOf(row)
    BY <1>3
  <2>2. CASE plan[q].made
    BY <2>1, <2>2 DEF PriceFree
  <2>3. CASE ~ plan[q].made
    BY <2>3 DEF PlansInv
  <2> QED BY <2>2, <2>3
<1>7. PlanRequestOK(t)
  BY <1>3, <1>6 DEF PlanRequestOK
<1> HIDE DEF t
<1> QED BY <1>1, <1>5, <1>7, PlanRequestOpens

(* The requests that read and decide. *)
LEMMA PlanRequestsBegin ==
    ASSUME PlansInv, PlanRequestsInv, NEW w \in Workers, NEW p \in Plans,
           \/ \E row \in PlanRows : CreatePlanBegin(w, p, row)
           \/ \E test, active \in BOOLEAN :
                 UpdatePlanBegin(w, p, [plan[p] EXCEPT !.test = test, !.active = active])
           \/ \E m, a \in Prices \union {NoPrice} :
                 UpdatePlanBegin(w, p, [plan[p] EXCEPT !.monthly = m, !.annual = a])
           \/ ActivateBegin(w, p)
           \/ DeactivateBegin(w, p)
    PROVE  PlanRequestsInv' /\ UNCHANGED <<plan, late>>
<1>1. plan[p] \in PlanRows
  BY DEF PlansInv, PlansTypeOK
<1>2. ASSUME NEW row \in PlanRows, row.made, PriceFree(p, row), OpenPlan(w, p, Withheld(row))
      PROVE  PlanRequestsInv' /\ UNCHANGED <<plan, late>>
  <2>1. /\ Withheld(row) \in PlanRows /\ Withheld(row).made /\ ~ OnSaleForTest(Withheld(row))
        /\ PricesOf(Withheld(row)) = PricesOf(row)
    BY <1>2 DEF Withheld, PlanRows, OnSaleForTest, PricesOf
  <2>2. PriceFree(p, Withheld(row))
    BY <1>2, <2>1 DEF PriceFree
  <2> QED BY <1>2, <2>1, <2>2, PlanRequestStands
<1>3. ASSUME NEW row \in PlanRows, CreatePlanBegin(w, p, row)
      PROVE  PlanRequestsInv' /\ UNCHANGED <<plan, late>>
  BY <1>2, <1>3 DEF CreatePlanBegin
<1>4. ASSUME NEW test \in BOOLEAN, NEW active \in BOOLEAN,
             UpdatePlanBegin(w, p, [plan[p] EXCEPT !.test = test, !.active = active])
      PROVE  PlanRequestsInv' /\ UNCHANGED <<plan, late>>
  <2> DEFINE row == [plan[p] EXCEPT !.test = test, !.active = active]
  <2>1. row \in PlanRows /\ row.made = plan[p].made
    BY <1>1 DEF PlanRows
  <2>2. plan[p].made /\ PriceFree(p, row) /\ OpenPlan(w, p, Withheld(row))
    BY <1>4 DEF UpdatePlanBegin
  <2> HIDE DEF row
  <2> QED BY <1>2, <2>1, <2>2
<1>5. ASSUME NEW m \in Prices \union {NoPrice}, NEW a \in Prices \union {NoPrice},
             UpdatePlanBegin(w, p, [plan[p] EXCEPT !.monthly = m, !.annual = a])
      PROVE  PlanRequestsInv' /\ UNCHANGED <<plan, late>>
  <2> DEFINE row == [plan[p] EXCEPT !.monthly = m, !.annual = a]
  <2>1. row \in PlanRows /\ row.made = plan[p].made
    BY <1>1 DEF PlanRows
  <2>2. plan[p].made /\ PriceFree(p, row) /\ OpenPlan(w, p, Withheld(row))
    BY <1>5 DEF UpdatePlanBegin
  <2> HIDE DEF row
  <2> QED BY <1>2, <2>1, <2>2
<1>6. ASSUME NEW on \in BOOLEAN, plan[p].made, on => ~ plan[p].test,
             OpenPlan(w, p, [plan[p] EXCEPT !.active = on])
      PROVE  PlanRequestsInv' /\ UNCHANGED <<plan, late>>
  <2> DEFINE row == [plan[p] EXCEPT !.active = on]
  <2>1. /\ row \in PlanRows /\ row.made /\ ~ OnSaleForTest(row)
        /\ row.monthly = plan[p].monthly /\ row.annual = plan[p].annual
    BY <1>1, <1>6 DEF PlanRows, OnSaleForTest
  <2>2. OpenPlan(w, p, row)
    BY <1>6
  <2> HIDE DEF row
  <2> QED BY <2>1, <2>2, PlanRequestStands
<1>7. ActivateBegin(w, p) \/ DeactivateBegin(w, p) => PlanRequestsInv' /\ UNCHANGED <<plan, late>>
  BY <1>6 DEF ActivateBegin, DeactivateBegin
<1> QED BY <1>3, <1>4, <1>5, <1>7

(* What a commit leaves of the other requests. *)
LEMMA PlanRequestsLeft ==
    ASSUME PlanRequestsInv, NEW w \in Workers, NEW W, Close(w, W)
    PROVE  /\ tx' \in [Workers -> PlanRequests]
           /\ tx'[w] = Idle
           /\ late' = late \union (W \intersect tx[w].stale)
           /\ \A v \in Workers \ {w} :
                 /\ tx'[v].op = tx[v].op
                 /\ tx[v].op # "idle" => /\ tx'[v].stale = tx[v].stale \union (W \intersect tx[v].minds)
                                         /\ tx'[v].minds = tx[v].minds
                                         /\ tx'[v].at = tx[v].at
                                         /\ tx'[v].columns = tx[v].columns
<1>1. tx \in [Workers -> PlanRequests]
  BY DEF PlanRequestsInv
<1>2. ASSUME NEW v \in Workers \ {w}
      PROVE  /\ tx'[v].op = tx[v].op
             /\ tx'[v] \in PlanRequests
             /\ tx[v].op # "idle" => /\ tx'[v].stale = tx[v].stale \union (W \intersect tx[v].minds)
                                     /\ tx'[v].minds = tx[v].minds
                                     /\ tx'[v].at = tx[v].at
                                     /\ tx'[v].columns = tx[v].columns
  BY <1>1, <1>2 DEF Close, PlanRequests, Idle
<1>3. Idle \in PlanRequests
  BY DEF PlanRequests
<1> QED BY <1>2, <1>3 DEF Close

(* A commit keeps the invariants. *)
LEMMA PlanCommitKeeps ==
    ASSUME PlansInv, PlanRequestsInv, NEW w \in Workers, PlanCommit(w)
    PROVE  PlansInv' /\ PlanRequestsInv' /\ late \subseteq late'
<1> DEFINE p == tx[w].at
           row == Written(plan[p], tx[w].columns)
           W == {<<"plan", p>>} \union {<<"price", c>> : c \in PricesOf(row) \ PricesOf(plan[p])}
<1>1. tx[w].op = "plan" /\ tx[w] \in PlanRequests /\ PlanRequestOK(tx[w])
  BY DEF PlanCommit, PlanRequestsInv
<1>2. p \in Plans /\ tx[w].columns \in PlanPatches
  BY <1>1 DEF PlanRequests, Idle
<1>3. plan \in [Plans -> PlanRows] /\ row \in PlanRows
  BY <1>2 DEF PlansInv, PlansTypeOK, PlanPatches
<1>4. plan' = [plan EXCEPT ![p] = row] /\ Close(w, W)
  <2> DEFINE rows == [plan EXCEPT ![p] = row]
  <2>1. rows[p] = row
    BY <1>2, <1>3
  <2>2. plan' = rows
    BY DEF PlanCommit
  <2>3. Close(w, {<<"plan", p>>} \union {<<"price", c>> : c \in PricesOf(rows[p]) \ PricesOf(plan[p])})
    BY DEF PlanCommit
  <2> QED BY <2>1, <2>2, <2>3
<1>5. /\ row.made
      /\ <<"plan", p>> \in tx[w].stale \union late \/ ~ OnSaleForTest(row)
      /\ \A c \in Given(tx[w].columns) :
            \/ <<"price", c>> \in tx[w].stale \union late
            \/ \A q \in Plans \ {p} : c \notin PricesOf(plan[q])
  BY <1>1 DEF PlanRequestOK
<1>6. PricesOf(row) \subseteq PricesOf(plan[p]) \union Given(tx[w].columns)
  BY <1>2, <1>3, PricesWritten
<1>7. /\ <<"plan", p>> \in W
      /\ \A c \in PricesOf(row) \ PricesOf(plan[p]) : <<"price", c>> \in W
  OBVIOUS
<1>8. /\ plan'[p] = row
      /\ \A q \in Plans \ {p} : plan'[q] = plan[q]
      /\ plan' \in [Plans -> PlanRows]
  BY <1>2, <1>3, <1>4
<1> HIDE DEF row, W
<1>9. late' = late \union (W \intersect tx[w].stale)
  BY <1>4 DEF Close
<1>10. NoTestPlanOnSale'
  BY <1>5, <1>7, <1>8, <1>9 DEF NoTestPlanOnSale, OnSaleForTest, PlansInv, PlansSellable
<1>11. OnePlanPerPrice'
  <2>1. ASSUME NEW q \in Plans \ {p}, NEW c \in PricesOf(row) \intersect PricesOf(plan[q])
        PROVE  <<"price", c>> \in late'
    <3>1. CASE c \in PricesOf(plan[p])
      BY <1>2, <1>9, <2>1, <3>1 DEF PlansInv, PlansSellable, OnePlanPerPrice
    <3>2. CASE c \notin PricesOf(plan[p])
      BY <1>5, <1>6, <1>7, <1>9, <2>1, <3>2
    <3> QED BY <3>1, <3>2
  <2>2. ASSUME NEW q \in Plans \ {p}, NEW r \in Plans \ {p},
               NEW c \in PricesOf(plan[q]) \intersect PricesOf(plan[r])
        PROVE  q = r \/ <<"price", c>> \in late'
    BY <1>9, <2>2 DEF PlansInv, PlansSellable, OnePlanPerPrice
  <2> SUFFICES ASSUME NEW q \in Plans, NEW r \in Plans,
                      NEW c \in PricesOf(plan'[q]) \intersect PricesOf(plan'[r]), q # r
               PROVE  <<"price", c>> \in late'
    BY DEF OnePlanPerPrice, PricesOf
  <2>3. CASE q = p
    BY <1>8, <2>1, <2>3
  <2>4. CASE r = p
    BY <1>8, <2>1, <2>4
  <2>5. CASE q # p /\ r # p
    BY <1>8, <2>2, <2>5
  <2> QED BY <2>3, <2>4, <2>5
<1>12. \A q \in Plans : ~ plan'[q].made => PricesOf(plan'[q]) = {}
  BY <1>5, <1>8 DEF PlansInv
<1>13. PlansInv'
  BY <1>8, <1>10, <1>11, <1>12 DEF PlansInv, PlansTypeOK, PlansSellable, PricesOf
<1>14. ASSUME NEW v \in Workers PROVE PlanRequestOK(tx[v])'
  <2>1. CASE v = w
    BY <1>4, <2>1, PlanRequestsLeft DEF PlanRequestOK, Idle
  <2>2. CASE v # w /\ tx[v].op = "plan"
    <3>1. /\ tx'[v].op = tx[v].op
          /\ tx'[v].stale = tx[v].stale \union (W \intersect tx[v].minds)
          /\ tx'[v].minds = tx[v].minds
          /\ tx'[v].at = tx[v].at
          /\ tx'[v].columns = tx[v].columns
      BY <1>4, <2>2, PlanRequestsLeft
    <3>2. PlanRequestOK(tx[v]) /\ tx[v].at \in Plans /\ tx[v].columns \in PlanPatches
      BY <2>2 DEF PlanRequestsInv, PlanRequests, Idle
    <3>3. Written(plan'[tx[v].at], tx[v].columns).made
      <4>1. Written(plan[tx[v].at], tx[v].columns).made
        BY <2>2, <3>2 DEF PlanRequestOK
      <4>2. CASE tx[v].at # p
        BY <1>8, <3>2, <4>1, <4>2
      <4>3. CASE tx[v].at = p
        <5>1. "made" \in DOMAIN plan[p] /\ "made" \in DOMAIN row
          BY <1>2, <1>3 DEF PlanRows
        <5> QED BY <1>5, <1>8, <4>1, <4>3, <5>1 DEF Written
      <4> QED BY <4>2, <4>3
    <3>4. \/ <<"plan", tx[v].at>> \in tx'[v].stale \union late'
          \/ ~ OnSaleForTest(Written(plan'[tx[v].at], tx[v].columns))
      <4>1. CASE tx[v].at # p
        BY <1>8, <1>9, <2>2, <3>1, <3>2, <4>1 DEF PlanRequestOK
      <4>2. CASE tx[v].at = p
        BY <1>7, <2>2, <3>1, <3>2, <4>2 DEF PlanRequestOK
      <4> QED BY <4>1, <4>2
    <3>5. ASSUME NEW c \in Given(tx[v].columns)
          PROVE  /\ <<"price", c>> \in tx[v].minds
                 /\ \/ <<"price", c>> \in tx'[v].stale \union late'
                    \/ \A q \in Plans \ {tx[v].at} : c \notin PricesOf(plan'[q])
      <4>1. /\ <<"price", c>> \in tx[v].minds
            /\ \/ <<"price", c>> \in tx[v].stale \union late
               \/ \A q \in Plans \ {tx[v].at} : c \notin PricesOf(plan[q])
        BY <2>2, <3>2 DEF PlanRequestOK
      <4>2. CASE c \in PricesOf(row) \ PricesOf(plan[p])
        BY <1>7, <3>1, <4>1, <4>2
      <4>3. CASE c \notin PricesOf(row) \ PricesOf(plan[p])
        BY <1>2, <1>8, <1>9, <3>1, <4>1, <4>3
      <4> QED BY <4>2, <4>3
    <3> HIDE DEF p
    <3> QED BY <2>2, <3>1, <3>2, <3>3, <3>4, <3>5 DEF PlanRequestOK, PricesOf
  <2>3. CASE v # w /\ tx[v].op # "plan"
    BY <1>4, <2>3, PlanRequestsLeft DEF PlanRequestOK
  <2> QED BY <2>1, <2>2, <2>3
<1>15. tx' \in [Workers -> PlanRequests]
  BY <1>4, PlanRequestsLeft
<1> QED BY <1>9, <1>13, <1>14, <1>15 DEF PlanRequestsInv

(* A request that fails has written nothing. *)
LEMMA FailKeepsPlans ==
    ASSUME PlanRequestsInv, NEW w \in Workers, Fail(w), UNCHANGED plan
    PROVE  PlanRequestsInv'
<1>1. Idle \in PlanRequests /\ PlanRequestOK(Idle)
  BY DEF PlanRequests, PlanRequestOK, Idle
<1>2. tx' = [tx EXCEPT ![w] = Idle] /\ UNCHANGED <<plan, late>>
  BY DEF Fail
<1> QED BY <1>1, <1>2, PlanRequestOpens

(* Nothing of the table changes. *)
LEMMA PlansStay ==
    ASSUME PlansInv, UNCHANGED plan, late \subseteq late'
    PROVE  PlansInv'
  BY DEF PlansInv, PlansTypeOK, PlansSellable, NoTestPlanOnSale, OnePlanPerPrice, PricesOf

(* A step of the plans desk. *)
LEMMA PlanStepKeeps ==
    ASSUME PlansInv, PlanRequestsInv, NEW w \in Workers, PlanStep(w)
    PROVE  PlansInv' /\ PlanRequestsInv' /\ late \subseteq late'
<1>1. CASE PlanCommit(w)
  BY <1>1, PlanCommitKeeps
<1>2. CASE ~ PlanCommit(w)
  <2>1. Fresh \subseteq Plans
    BY DEF Fresh
  <2>2. PlanRequestsInv' /\ UNCHANGED <<plan, late>>
    BY <1>2, <2>1, PlanRequestsBegin DEF PlanStep
  <2> QED BY <2>2, PlansStay
<1> QED BY <1>1, <1>2

(* At the start there is no plan, and nobody is under way. *)
LEMMA PlansStart ==
    ASSUME PlansInit, OverlapInit
    PROVE  PlansInv /\ PlanRequestsInv
<1>1. plan = [p \in Plans |-> NoPlan] /\ NoPlan \in PlanRows /\ PricesOf(NoPlan) = {} /\ ~ NoPlan.active
  BY DEF PlansInit, NoPlan, PlanRows, PricesOf
<1>2. PlansInv
  BY <1>1 DEF PlansInv, PlansTypeOK, PlansSellable, NoTestPlanOnSale, OnePlanPerPrice
<1>3. tx \in [Workers -> PlanRequests] /\ \A w \in Workers : tx[w].op = "idle"
  BY DEF OverlapInit, PlanRequests, Idle
<1> QED BY <1>2, <1>3 DEF PlanRequestsInv, PlanRequestOK

-----------------------------------------------------------------------------
(* 4. Credentials. *)

CredPatches ==
    {columns \in UNION {[C -> {"active", "revoked"} \union BOOLEAN] : C \in SUBSET {"state", "lapsed"}} :
        \A row \in CredRows : Written(row, columns) \in CredRows}

CredRequests ==
    {Idle}
    \union [op : {"client", "count", "use"}, minds : {{}}, stale : {{}}, at : Creds,
            minute : Minutes, columns : CredPatches]

(* A request that makes a client, which has no row until then. *)
Makes(t) == t.op = "client" /\ "state" \in DOMAIN t.columns /\ t.columns.state = "active"

(* What stands of a request: what it writes of a row that there is does    *)
(* not bring it back, and its minute is not to come.                       *)
CredRequestOK(t) ==
    t.op # "idle" =>
        /\ t.minute =< now
        /\ cred[t.at].state = "none" <=> Makes(t)
        /\ ~ Makes(t) /\ "state" \in DOMAIN t.columns => t.columns.state = "revoked"

(* While a minute lasts, its counter has counted whom it let in. *)
CredsInv ==
    /\ CredsTypeOK
    /\ AdmittedWithinRate
    /\ \A x \in Creds \X Minutes : now =< x[2] => admitted[x] =< tally[x]

CredRequestsInv ==
    /\ tx \in [Workers -> CredRequests]
    /\ \A w \in Workers : CredRequestOK(tx[w])
    /\ \A v, w \in Workers :
          v # w /\ Makes(tx[v]) /\ tx[w].op # "idle" => tx[v].at # tx[w].at

(* A patch that was made of a row makes of it the row that was meant. *)
LEMMA CredPatchWrites ==
    ASSUME NEW row \in CredRows, NEW new \in CredRows, new.state # "none"
    PROVE  /\ Changed(row, new) \in CredPatches
           /\ "state" \in DOMAIN Changed(row, new) <=> new.state # row.state
           /\ new.state # row.state => Changed(row, new).state = new.state
<1> DEFINE C == {d \in DOMAIN row : new[d] # row[d]}
           N == {"state", "lapsed"}
<1>1. DOMAIN row = N /\ DOMAIN new = N
  BY DEF CredRows
<1>2. Changed(row, new) = [c \in C |-> new[c]]
  BY DEF Changed
<1>3. Changed(row, new) \in CredPatches
  <2>1. \A c \in C : new[c] \in {"active", "revoked"} \union BOOLEAN
    BY <1>1 DEF CredRows
  <2>2. ASSUME NEW r \in CredRows PROVE Written(r, Changed(row, new)) \in CredRows
    <3> DEFINE x == Written(r, Changed(row, new))
    <3>1. DOMAIN r = N
      BY DEF CredRows
    <3>2. x = [c \in N |-> IF c \in C THEN new[c] ELSE r[c]]
      BY <1>2, <3>1 DEF Written
    <3>3. x = [state |-> x.state, lapsed |-> x.lapsed]
      BY <3>2
    <3>4. x.state \in {r.state, new.state} /\ x.lapsed \in {r.lapsed, new.lapsed}
      BY <3>2
    <3>5. x \in CredRows
      <4> HIDE DEF x
      <4> QED BY <3>3, <3>4 DEF CredRows
    <3> QED BY <3>5
  <2> QED BY <1>1, <1>2, <2>1, <2>2 DEF CredPatches
<1> QED BY <1>1, <1>2, <1>3

(* A request is opened on a row that there is, or makes it alone. *)
LEMMA CredRequestOpens ==
    ASSUME CredsInv, CredRequestsInv, NEW w \in Workers, NEW c \in Creds, NEW row \in CredRows,
           NEW op \in {"client", "count"}, OpenCred(w, op, c, row),
           \/ op = "client" /\ row.state = "active" /\ c \in Vacant
           \/ cred[c].state # "none" /\ row.state \in {cred[c].state, "revoked"}
    PROVE  CredRequestsInv' /\ UNCHANGED <<credVars, late>>
<1> DEFINE columns == Changed(cred[c], row)
           t == [op |-> op, minds |-> {}, stale |-> {}, at |-> c, minute |-> now,
                 columns |-> columns]
<1>1. tx' = [tx EXCEPT ![w] = t] /\ UNCHANGED <<credVars, late>>
  BY DEF OpenCred, Open
<1>2. cred[c] \in CredRows /\ now \in Minutes /\ now =< now
  BY DEF CredsInv, CredsTypeOK, Minutes
<1>3. /\ columns \in CredPatches
      /\ "state" \in DOMAIN columns <=> row.state # cred[c].state
      /\ row.state # cred[c].state => columns.state = row.state
  <2>1. row.state # "none"
    BY DEF CredRows, Vacant
  <2> QED BY <1>2, <2>1, CredPatchWrites
<1> HIDE DEF columns
<1>4. t \in CredRequests
  BY <1>2, <1>3 DEF CredRequests
<1>5. (c \in Vacant => cred[c].state = "none")
      /\ (cred[c].state = "none" <=> Makes(t))
      /\ (~ Makes(t) /\ "state" \in DOMAIN columns => columns.state = "revoked")
  BY <1>3 DEF Makes, Vacant
<1>6. CredRequestOK(t)
  BY <1>2, <1>5 DEF CredRequestOK
<1>7. ASSUME NEW v \in Workers \ {w}, tx[v].op # "idle", Makes(t) \/ Makes(tx[v])
      PROVE  tx[v].at # c
  <2>1. CredRequestOK(tx[v])
    BY DEF CredRequestsInv
  <2>2. CASE Makes(t)
    <3>1. cred[c].state = "none" /\ c \in Vacant
      BY <1>5, <2>2
    <3> QED BY <1>7, <2>1, <3>1 DEF CredRequestOK, Makes, Vacant
  <2>3. CASE Makes(tx[v]) /\ ~ Makes(t)
    BY <1>5, <1>7, <2>1, <2>3 DEF CredRequestOK
  <2> QED BY <1>7, <2>2, <2>3
<1>8. \A v \in Workers : CredRequestOK(tx[v])'
  BY <1>1, <1>6 DEF CredRequestsInv, CredRequestOK, Makes, credVars
<1>9. tx' \in [Workers -> CredRequests] /\ tx'[w] = t /\ t.at = c /\ t.op # "idle"
      /\ \A v \in Workers \ {w} : tx'[v] = tx[v]
  BY <1>1, <1>4 DEF CredRequestsInv
<1> HIDE DEF t
<1>10. ASSUME NEW v \in Workers, NEW u \in Workers, v # u, Makes(tx'[v]), tx'[u].op # "idle"
       PROVE  tx'[v].at # tx'[u].at
  <2>1. Makes(tx'[v]) => tx'[v].op # "idle"
    BY DEF Makes
  <2>2. CASE v = w
    BY <1>7, <1>9, <1>10, <2>2
  <2>3. CASE u = w
    BY <1>7, <1>9, <1>10, <2>1, <2>3
  <2>4. CASE v # w /\ u # w
    BY <1>9, <1>10, <2>4 DEF CredRequestsInv
  <2> QED BY <2>2, <2>3, <2>4
<1> QED BY <1>1, <1>8, <1>9, <1>10 DEF CredRequestsInv, Makes

(* A request ends, or goes on to what it does next, and the states of the  *)
(* rows stay what they are for it.                                         *)
LEMMA CredRequestsGoOn ==
    ASSUME CredRequestsInv, now' = now, NEW w \in Workers,
           \/ tx' = [tx EXCEPT ![w] = Idle]
           \/ tx[w].op = "count" /\ tx' = [tx EXCEPT ![w].op = "use"],
           \A v \in Workers : tx'[v].op # "idle" =>
                (cred'[tx[v].at].state = "none" <=> cred[tx[v].at].state = "none")
    PROVE  CredRequestsInv'
<1>1. Idle \in CredRequests /\ Idle.op = "idle" /\ tx \in [Workers -> CredRequests]
  BY DEF CredRequests, Idle, CredRequestsInv
<1>2. /\ tx' \in [Workers -> CredRequests]
      /\ \A v \in Workers :
            tx'[v].op # "idle" => /\ tx[v].op # "idle"
                                  /\ tx'[v].at = tx[v].at
                                  /\ tx'[v].minute = tx[v].minute
                                  /\ tx'[v].columns = tx[v].columns
                                  /\ tx'[v].op = "client" <=> tx[v].op = "client"
  <2>1. CASE tx' = [tx EXCEPT ![w] = Idle]
    BY <1>1, <2>1
  <2>2. CASE tx[w].op = "count" /\ tx' = [tx EXCEPT ![w].op = "use"]
    <3>1. tx[w] \in CredRequests
      BY <1>1
    <3>2. /\ [tx[w] EXCEPT !.op = "use"] \in CredRequests
          /\ [tx[w] EXCEPT !.op = "use"].op = "use"
          /\ [tx[w] EXCEPT !.op = "use"].at = tx[w].at
          /\ [tx[w] EXCEPT !.op = "use"].minute = tx[w].minute
          /\ [tx[w] EXCEPT !.op = "use"].columns = tx[w].columns
      BY <2>2, <3>1 DEF CredRequests, Idle
    <3>3. tx' = [tx EXCEPT ![w] = [tx[w] EXCEPT !.op = "use"]]
      BY <2>2
    <3> QED BY <1>1, <2>2, <3>2, <3>3
  <2> QED BY <2>1, <2>2
<1>3. \A v \in Workers : tx'[v].op # "idle" => (Makes(tx'[v]) <=> Makes(tx[v]))
  BY <1>2 DEF Makes
<1>4. ASSUME NEW v \in Workers PROVE CredRequestOK(tx[v])'
  <2>1. tx'[v].op # "idle" => CredRequestOK(tx[v])
    BY DEF CredRequestsInv
  <2> QED BY <1>2, <1>3, <2>1 DEF CredRequestOK
<1>5. ASSUME NEW v \in Workers, NEW u \in Workers, v # u, Makes(tx'[v]), tx'[u].op # "idle"
      PROVE  tx'[v].at # tx'[u].at
  <2>1. tx'[v].op # "idle"
    BY <1>5 DEF Makes
  <2> QED BY <1>2, <1>3, <1>5, <2>1 DEF CredRequestsInv
<1> QED BY <1>2, <1>4, <1>5 DEF CredRequestsInv, Makes

(* A row is written: no credential comes back. *)
LEMMA ClientCommitKeeps ==
    ASSUME CredsInv, CredRequestsInv, NEW w \in Workers, ClientCommit(w)
    PROVE  /\ CredsInv' /\ CredRequestsInv' /\ late \subseteq late'
           /\ \A c \in Creds : cred[c].state = "revoked" => cred'[c].state = "revoked"
<1> DEFINE c == tx[w].at
           row == Written(cred[c], tx[w].columns)
<1>1. /\ tx[w].op \in {"client", "use"}
      /\ cred' = [cred EXCEPT ![c] = row]
      /\ Close(w, {})
      /\ UNCHANGED <<now, tally, admitted>>
  BY DEF ClientCommit
<1>2. CredRequestOK(tx[w]) /\ tx[w] \in CredRequests /\ tx[w].op # "idle"
  BY <1>1 DEF CredRequestsInv
<1>3. c \in Creds /\ tx[w].columns \in CredPatches
  BY <1>2 DEF CredRequests, Idle
<1>4. cred \in [Creds -> CredRows] /\ row \in CredRows
  BY <1>3 DEF CredsInv, CredsTypeOK, CredPatches
<1>5. cred' \in [Creds -> CredRows] /\ cred'[c] = row /\ \A d \in Creds \ {c} : cred'[d] = cred[d]
  BY <1>1, <1>3, <1>4
<1>6. ~ Makes(tx[w]) => cred[c].state # "none" /\ row.state \in {cred[c].state, "revoked"}
  <2>1. "state" \in DOMAIN cred[c]
    BY <1>3, <1>4 DEF CredRows
  <2>2. row.state = IF "state" \in DOMAIN tx[w].columns THEN tx[w].columns.state ELSE cred[c].state
    BY <2>1 DEF Written
  <2> QED BY <1>2, <2>2 DEF CredRequestOK
<1> HIDE DEF row
<1>7. \A d \in Creds : cred[d].state = "revoked" => cred'[d].state = "revoked"
  BY <1>2, <1>5, <1>6 DEF CredRequestOK
<1>8. CredsInv'
  BY <1>1, <1>5 DEF CredsInv, CredsTypeOK, AdmittedWithinRate
<1>9. tx' = [tx EXCEPT ![w] = Idle] /\ late' = late
  <2>1. \A v \in Workers : tx[v] \in CredRequests
    BY DEF CredRequestsInv
  <2>2. \A v \in Workers : tx[v].op # "idle" => [tx[v] EXCEPT !.stale = @ \union ({} \intersect tx[v].minds)] = tx[v]
    BY <2>1 DEF CredRequests, Idle
  <2>3. tx' = [v \in Workers |-> IF v = w THEN Idle ELSE tx[v]]
    BY <1>1, <2>2 DEF Close
  <2> QED BY <1>1, <2>3 DEF Close, CredRequestsInv
<1>10. \A v \in Workers : tx'[v].op # "idle" =>
          (cred'[tx[v].at].state = "none" <=> cred[tx[v].at].state = "none")
  <2> SUFFICES ASSUME NEW v \in Workers, tx'[v].op # "idle"
               PROVE  cred'[tx[v].at].state = "none" <=> cred[tx[v].at].state = "none"
    OBVIOUS
  <2>1. v # w /\ tx[v].op # "idle" /\ tx[v].at \in Creds
    BY <1>9 DEF CredRequestsInv, CredRequests, Idle
  <2>2. CASE tx[v].at # c
    BY <1>5, <2>1, <2>2
  <2>3. CASE tx[v].at = c
    <3>1. ~ Makes(tx[w])
      BY <2>1, <2>3 DEF CredRequestsInv
    <3> QED BY <1>5, <1>6, <2>3, <3>1
  <2> QED BY <2>2, <2>3
<1>11. CredRequestsInv'
  BY <1>1, <1>9, <1>10, CredRequestsGoOn
<1> QED BY <1>7, <1>8, <1>9, <1>11

(* A counter goes up, and lets in no more than it has counted. *)
LEMMA TallyKeeps ==
    ASSUME CredsInv, CredRequestsInv, NEW w \in Workers, tx[w].op = "count",
           NEW n \in Counted(w), tally' = Registered(w, n), UNCHANGED <<cred, now>>,
           \/ admitted' = admitted
           \/ n =< RateLimit /\ admitted' = [admitted EXCEPT ![<<tx[w].at, now>>] =
                                                IF now = tx[w].minute THEN @ + 1 ELSE @]
    PROVE  CredsInv'
<1> DEFINE x == <<tx[w].at, tx[w].minute>>
           m == IF n > RateLimit THEN RateLimit + 1 ELSE n
<1>1. /\ tx[w].at \in Creds /\ tx[w].minute \in Minutes /\ tx[w].minute =< now
      /\ now \in Minutes /\ Minutes \subseteq Nat
  BY CredentialsAssumption
     DEF CredRequestsInv, CredRequests, Idle, CredRequestOK, CredsInv, CredsTypeOK, Minutes
<1>2. /\ tally \in [Creds \X Minutes -> Nat] /\ admitted \in [Creds \X Minutes -> Nat]
      /\ x \in Creds \X Minutes /\ RateLimit \in Nat
  BY <1>1, CredentialsAssumption DEF CredsInv, CredsTypeOK
<1>3. /\ n \in Nat /\ m \in Nat /\ (now = tx[w].minute => n = tally[x] + 1)
      /\ n =< RateLimit => m = n
  BY <1>2 DEF Counted
<1>4. tally' = [tally EXCEPT ![x] = m]
  BY DEF Registered
<1>5. \A y \in Creds \X Minutes :
         /\ admitted[y] =< RateLimit
         /\ now =< y[2] => admitted[y] =< tally[y]
  BY DEF CredsInv, AdmittedWithinRate
<1>6. \/ admitted' = admitted
      \/ /\ n =< RateLimit
         /\ now = tx[w].minute
         /\ admitted' = [admitted EXCEPT ![x] = @ + 1]
  BY <1>1, <1>2
<1>7. tally' \in [Creds \X Minutes -> Nat] /\ admitted' \in [Creds \X Minutes -> Nat]
  BY <1>2, <1>3, <1>4, <1>6
<1>8. \A y \in Creds \X Minutes : y # x => tally'[y] = tally[y] /\ admitted'[y] = admitted[y]
  BY <1>2, <1>4, <1>6
<1>9. x[2] = tx[w].minute /\ tally'[x] = m
  BY <1>2, <1>4
<1>10. admitted'[x] =< RateLimit /\ (now =< x[2] => admitted'[x] =< tally'[x])
  <2>1. admitted[x] =< RateLimit /\ (now =< x[2] => admitted[x] =< tally[x])
    BY <1>2, <1>5
  <2>2. now =< x[2] => now = tx[w].minute
    <3> HIDE DEF x
    <3>1. now \in Nat /\ tx[w].minute \in Nat
      BY <1>1
    <3> QED BY <1>1, <1>9, <3>1
  <2>3. admitted[x] \in Nat /\ tally[x] \in Nat
    BY <1>2
  <2>4. CASE admitted' = admitted
    BY <1>2, <1>3, <1>9, <2>1, <2>2, <2>3, <2>4
  <2>5. CASE n =< RateLimit /\ now = tx[w].minute /\ admitted' = [admitted EXCEPT ![x] = @ + 1]
    <3>1. admitted'[x] = admitted[x] + 1
      BY <1>2, <2>5
    <3>2. n =< RateLimit /\ now = tx[w].minute
      BY <2>5
    <3>3. tally'[x] = tally[x] + 1
      BY <1>3, <1>9, <3>2
    <3>4. admitted[x] =< tally[x] /\ admitted[x] + 1 =< RateLimit
      <4> HIDE DEF x, m
      <4>1. admitted[x] =< tally[x]
        BY <1>1, <1>9, <2>1, <3>2
      <4>2. tally[x] + 1 =< RateLimit
        BY <1>3, <3>2
      <4> QED BY <1>2, <2>3, <4>1, <4>2
    <3> HIDE DEF x, m
    <3> QED BY <1>2, <2>3, <3>1, <3>3, <3>4
  <2> QED BY <1>6, <2>4, <2>5
<1> HIDE DEF x, m
<1>11. \A y \in Creds \X Minutes :
          admitted'[y] =< RateLimit /\ (now =< y[2] => admitted'[y] =< tally'[y])
  BY <1>5, <1>8, <1>10
<1> QED BY <1>7, <1>11 DEF CredsInv, CredsTypeOK, AdmittedWithinRate

(* Nothing of the tables changes. *)
LEMMA CredsStay ==
    ASSUME CredsInv, UNCHANGED credVars
    PROVE  CredsInv'
  BY DEF CredsInv, CredsTypeOK, AdmittedWithinRate, credVars

(* A request that fails has written nothing. *)
LEMMA FailKeepsCreds ==
    ASSUME CredRequestsInv, NEW w \in Workers, Fail(w), UNCHANGED credVars
    PROVE  CredRequestsInv'
  BY CredRequestsGoOn DEF Fail, credVars

(* A step of the credentials desk. *)
LEMMA CredStepKeeps ==
    ASSUME CredsInv, CredRequestsInv, NEW w \in Workers, CredStep(w)
    PROVE  /\ CredsInv' /\ CredRequestsInv' /\ late \subseteq late'
           /\ \A c \in Creds : cred[c].state = "revoked" => cred'[c].state = "revoked"
<1>1. \A c \in Creds : cred[c] \in CredRows
  BY DEF CredsInv, CredsTypeOK
<1>2. ASSUME NEW c \in Creds,
             CreateClientBegin(w, c) \/ RevokeClientBegin(w, c) \/ AuthenticateBegin(w, c)
      PROVE  CredRequestsInv' /\ UNCHANGED <<credVars, late>>
  <2>1. CASE CreateClientBegin(w, c)
    <3>1. NewClient \in CredRows /\ NewClient.state = "active"
      BY DEF NewClient, NoCred, CredRows
    <3> QED BY <2>1, <3>1, CredRequestOpens DEF CreateClientBegin
  <2>2. CASE RevokeClientBegin(w, c)
    <3>1. Revoked(cred[c]) \in CredRows /\ Revoked(cred[c]).state = "revoked"
      BY <1>1, <2>2 DEF RevokeClientBegin, Revoked, CredRows
    <3> QED BY <2>2, <3>1, CredRequestOpens DEF RevokeClientBegin
  <2>3. CASE AuthenticateBegin(w, c)
    <3>1. cred[c].state = "active"
      BY <2>3 DEF AuthenticateBegin, TokenAccepted, KeyAccepted
    <3> QED BY <1>1, <2>3, <3>1, CredRequestOpens DEF AuthenticateBegin
  <2> QED BY <1>2, <2>1, <2>2, <2>3
<1>3. CASE Meter(w)
  <2>1. CredRequestsInv'
    BY <1>3, CredRequestsGoOn DEF Meter
  <2>2. CredsInv'
    BY <1>3, TallyKeeps DEF Meter
  <2> QED BY <1>3, <2>1, <2>2 DEF Meter
<1>4. CASE OverRate(w)
  <2>1. CredRequestsInv'
    BY <1>4, CredRequestsGoOn DEF OverRate
  <2>2. CredsInv'
    BY <1>4, TallyKeeps DEF OverRate
  <2> QED BY <1>4, <2>1, <2>2 DEF OverRate
<1>5. CASE CounterFails(w)
  <2>1. CredRequestsInv'
    BY <1>5, CredRequestsGoOn DEF CounterFails
  <2>2. CredsInv'
    BY <1>5, TallyKeeps, CredsStay DEF CounterFails, credVars
  <2> QED BY <1>5, <2>1, <2>2 DEF CounterFails
<1>6. CASE ClientCommit(w)
  BY <1>6, ClientCommitKeeps
<1>7. Vacant \subseteq Creds
  BY DEF Vacant
<1>8. CASE UNCHANGED <<credVars, late>> /\ CredRequestsInv'
  BY <1>8, CredsStay DEF credVars
<1> QED BY <1>2, <1>3, <1>4, <1>5, <1>6, <1>7, <1>8 DEF CredStep

(* The clock goes on. *)
LEMMA ClockStepKeeps ==
    ASSUME CredsInv, CredRequestsInv, ClockStep
    PROVE  /\ CredsInv' /\ CredRequestsInv' /\ late' = late
           /\ \A c \in Creds : cred[c].state = "revoked" => cred'[c].state = "revoked"
<1>1. CASE MinutePasses
  <2>1. /\ now < MaxMinutes /\ now' = now + 1 /\ now \in Nat /\ MaxMinutes \in Nat
        /\ UNCHANGED <<cred, tally, admitted, tx, late>>
    BY <1>1, CredentialsAssumption DEF MinutePasses, CredsInv, CredsTypeOK, Minutes
  <2>2. now' \in Minutes /\ Minutes \subseteq Nat
    BY <2>1 DEF Minutes
  <2>3. ASSUME NEW x \in Creds \X Minutes, now' =< x[2]
        PROVE  admitted[x] =< tally[x]
    <3>1. x[2] \in Nat
      BY <2>2
    <3>2. now =< x[2]
      BY <2>1, <2>3, <3>1
    <3> QED BY <3>2 DEF CredsInv
  <2>4. CredsInv'
    BY <2>1, <2>2, <2>3 DEF CredsInv, CredsTypeOK, AdmittedWithinRate
  <2>5. ASSUME NEW w \in Workers PROVE CredRequestOK(tx[w])'
    <3>1. CredRequestOK(tx[w]) /\ (tx[w].op # "idle" => tx[w].minute \in Nat)
      BY <2>2 DEF CredRequestsInv, CredRequests, Idle
    <3> QED BY <2>1, <3>1 DEF CredRequestOK, Makes
  <2> QED BY <2>1, <2>4, <2>5 DEF CredRequestsInv, Makes
<1>2. ASSUME NEW c \in Creds, LapseCred(c)
      PROVE  /\ CredsInv' /\ CredRequestsInv' /\ late' = late
             /\ \A d \in Creds : cred[d].state = "revoked" => cred'[d].state = "revoked"
  <2>1. /\ cred' = [cred EXCEPT ![c].lapsed = TRUE]
        /\ UNCHANGED <<now, tally, admitted, tx, late>>
        /\ cred \in [Creds -> CredRows]
    BY <1>2 DEF LapseCred, CredsInv, CredsTypeOK
  <2>2. cred' \in [Creds -> CredRows] /\ \A d \in Creds : cred'[d].state = cred[d].state
    BY <2>1 DEF CredRows
  <2>3. CredsInv'
    BY <2>1, <2>2 DEF CredsInv, CredsTypeOK, AdmittedWithinRate
  <2>4. ASSUME NEW w \in Workers PROVE CredRequestOK(tx[w])'
    <3>1. CredRequestOK(tx[w]) /\ (tx[w].op # "idle" => tx[w].at \in Creds)
      BY DEF CredRequestsInv, CredRequests, Idle
    <3> QED BY <2>1, <2>2, <3>1 DEF CredRequestOK, Makes
  <2> QED BY <2>1, <2>2, <2>3, <2>4 DEF CredRequestsInv, Makes
<1> QED BY <1>1, <1>2 DEF ClockStep

(* At the start there is the key, which nobody has used. *)
LEMMA CredsStart ==
    ASSUME CredsInit, OverlapInit
    PROVE  CredsInv /\ CredRequestsInv
<1>1. cred \in [Creds -> CredRows]
  BY DEF CredsInit, NewClient, NoCred, CredRows
<1>2. CredsInv
  BY <1>1, CredentialsAssumption DEF CredsInit, CredsInv, CredsTypeOK, Minutes, AdmittedWithinRate
<1>3. tx \in [Workers -> CredRequests] /\ \A w \in Workers : tx[w].op = "idle"
  BY DEF OverlapInit, CredRequests, Idle
<1> QED BY <1>2, <1>3 DEF CredRequestsInv, CredRequestOK, Makes

-----------------------------------------------------------------------------
(* 5. Referral codes. *)

CodeMinds == ({"codes"} \X Members) \union ({"code"} \X (Links \union {NoCode}))

CodeRequests ==
    {Idle}
    \union [op : {"recode"}, stale : SUBSET CodeMinds, user : Members, code : Links,
            old : Links \union {NoCode}, drops : SUBSET Aliases, minds : SUBSET CodeMinds]
    \union [op : {"signup"}, minds : SUBSET CodeMinds, stale : SUBSET CodeMinds, at : Signups,
            link : Aliases, first : SUBSET Members]

(* What a request minds, and what has been missed of it. *)
Missed(t, x) == x \in t.stale \union late

(* Nobody but u has or has had the code c, and u does not have it. *)
Takes(u, c) ==
    \A v \in Members : current[v] # c /\ (<<v, c>> \in alias => v = u)

(* The code c has been given to nobody but u, as far as links still hold. *)
Leaves(u, c) ==
    \A m \in Members \ {u} : <<m, c>> \in shared => Crossed(<<m, c>>)

(* u may have one former code more, if it is not less drops. *)
HasRoom(u, drops) ==
    \/ Cardinality(Former(u)) < AliasLimit
    \/ \E a \in Former(u) : drops = {a} /\ Cardinality(Former(u)) =< AliasLimit

(* What stands of a change of a code, each part unless it has been missed. *)
RecodeOK(t) ==
    t.op = "recode" =>
        /\ t.minds = {<<"codes", t.user>>, <<"code", t.code>>, <<"code", t.old>>}
        /\ t.stale \subseteq t.minds
        /\ t.drops \subseteq {<<t.user, t.code>>}
        /\ Missed(t, <<"code", t.code>>) \/ Takes(t.user, t.code)
        /\ t.old = NoCode \/ Missed(t, <<"code", t.old>>) \/ Leaves(t.user, t.old)
        /\ Missed(t, <<"codes", t.user>>) \/ current[t.user] = t.old
        /\ t.old = NoCode \/ Missed(t, <<"codes", t.user>>) \/ HasRoom(t.user, t.drops)

(* What stands of a signup: the first query has found who shared the link, *)
(* or nobody, and then the second one is to find it.                       *)
SignupOK(t) ==
    t.op = "signup" =>
        /\ t.link \in shared
        /\ t.minds = {<<"code", t.link[2]>>}
        /\ t.stale \subseteq t.minds
        /\ \/ t.stale # {}
           \/ Crossed(t.link)
           \/ t.first = {t.link[1]}
           \/ t.first = {} /\ current[t.link[1]] # t.link[2]

CodesInv == CodesTypeOK /\ IsFiniteSet(alias) /\ LinksKeepWorking

CodeRequestsInv ==
    /\ tx \in [Workers -> CodeRequests]
    /\ \A w \in Workers : RecodeOK(tx[w]) /\ SignupOK(tx[w])

(* Former codes are finitely many. *)
LEMMA FormerCounts ==
    ASSUME CodesInv, NEW u
    PROVE  IsFiniteSet(Former(u)) /\ Cardinality(Former(u)) \in Nat /\ AliasLimit \in Nat
<1>1. Former(u) \in SUBSET alias
  BY DEF Former
<1> QED BY <1>1, CodesAssumption, FS_Subset, FS_CardinalityType DEF CodesInv

(* What stands does so as long as nothing it is about changes. *)
LEMMA CodeRequestStands ==
    ASSUME UNCHANGED <<current, alias, shared, late>>, NEW t, RecodeOK(t), SignupOK(t)
    PROVE  RecodeOK(t)' /\ SignupOK(t)'
<1>1. RecodeOK(t)'
  BY DEF RecodeOK, Missed, Takes, Leaves, HasRoom, Former, Crossed
<1>2. SignupOK(t)'
  BY DEF SignupOK, Crossed
<1> QED BY <1>1, <1>2

(* A request that is opened, and has decided on what is so. *)
LEMMA CodeRequestOpens ==
    ASSUME CodeRequestsInv, NEW w \in Workers, NEW t \in CodeRequests,
           tx' = [tx EXCEPT ![w] = t], UNCHANGED <<codeVars, late>>, RecodeOK(t), SignupOK(t)
    PROVE  CodeRequestsInv'
<1>1. tx' \in [Workers -> CodeRequests]
  BY DEF CodeRequestsInv
<1>2. ASSUME NEW v \in Workers PROVE RecodeOK(tx[v])' /\ SignupOK(tx[v])'
  <2>1. PICK s : s = tx'[v]
    OBVIOUS
  <2>2. RecodeOK(s) /\ SignupOK(s)
    BY <2>1 DEF CodeRequestsInv
  <2>3. RecodeOK(s)' /\ SignupOK(s)'
    BY <2>2, CodeRequestStands DEF codeVars
  <2> QED BY <2>1, <2>3 DEF RecodeOK, SignupOK, Missed, Takes, Leaves, HasRoom, Former, Crossed
<1> QED BY <1>1, <1>2 DEF CodeRequestsInv

(* A code that is chosen: of nobody, or one the user has had. *)
LEMMA SetTakes ==
    ASSUME NEW u \in Members, NEW c \in Links, c # current[u],
           Found(c, Bearer(c)) = {} \/ (Found(c, Bearer(c)) = {u} /\ <<u, c>> \in alias)
    PROVE  Takes(u, c)
<1>1. CASE Bearer(c) # {}
  <2>1. Found(c, Bearer(c)) = Bearer(c)
    BY <1>1 DEF Found
  <2>2. u \in Bearer(c)
    BY <1>1, <2>1
  <2> QED BY <2>2 DEF Bearer
<1>2. CASE Bearer(c) = {}
  <2>1. Found(c, Bearer(c)) = {v \in Members : <<v, c>> \in alias}
    BY <1>2 DEF Found
  <2> QED BY <1>2, <2>1 DEF Bearer, Takes
<1> QED BY <1>1, <1>2

(* The code of a user is given to nobody else. *)
LEMMA CurrentLeaves ==
    ASSUME CodesInv, NEW u \in Members
    PROVE  Leaves(u, current[u])
  BY DEF CodesInv, LinksKeepWorking, SharedLinksLead, Leaves

(* A change of a code, decided on what is so. *)
LEMMA RecodeStands ==
    ASSUME CodesInv, CodeRequestsInv, NEW w \in Workers, NEW u \in Members, NEW c \in Links,
           NEW drops, drops \subseteq {<<u, c>>}, Recode(w, u, c, current[u], drops),
           Takes(u, c),
           current[u] = NoCode \/ HasRoom(u, drops) \/ <<"codes", u>> \in late
    PROVE  CodeRequestsInv' /\ UNCHANGED <<codeVars, late>>
<1> DEFINE t == [op |-> "recode", stale |-> {}, user |-> u, code |-> c, old |-> current[u],
                 drops |-> drops,
                 minds |-> {<<"codes", u>>, <<"code", c>>, <<"code", current[u]>>}]
<1>1. tx' = [tx EXCEPT ![w] = t] /\ UNCHANGED <<codeVars, late>>
  BY DEF Recode, Open
<1>2. current[u] \in Links \union {NoCode}
  BY DEF CodesInv, CodesTypeOK
<1>3. t \in CodeRequests
  BY <1>2 DEF CodeRequests, CodeMinds, Aliases
<1>4. RecodeOK(t)
  BY CurrentLeaves DEF RecodeOK, Missed
<1>5. SignupOK(t)
  BY DEF SignupOK
<1> HIDE DEF t
<1> QED BY <1>1, <1>3, <1>4, <1>5, CodeRequestOpens

(* ensure_referral_code, set_custom_code. *)
LEMMA RecodeBegins ==
    ASSUME CodesInv, CodeRequestsInv, NEW w \in Workers, NEW u \in Members, NEW c \in Links,
           EnsureBegin(w, u, c) \/ SetBegin(w, u, c)
    PROVE  CodeRequestsInv' /\ UNCHANGED <<codeVars, late>>
<1>1. CASE EnsureBegin(w, u, c)
  <2> DEFINE drops == {}
  <2>1. current[u] = NoCode /\ Takes(u, c) /\ Recode(w, u, c, current[u], drops)
    BY <1>1 DEF EnsureBegin, Takes, Recode
  <2>2. drops \subseteq {<<u, c>>}
    OBVIOUS
  <2> HIDE DEF drops
  <2> QED BY <2>1, <2>2, RecodeStands
<1>2. CASE SetBegin(w, u, c)
  <2> DEFINE drops == {<<u, c>>} \intersect alias
  <2>1. Takes(u, c) /\ Recode(w, u, c, current[u], drops)
    BY <1>2, SetTakes DEF SetBegin
  <2>2. current[u] = NoCode \/ HasRoom(u, drops) \/ <<"codes", u>> \in late
    <3>1. CASE current[u] # NoCode => Cardinality(Former(u)) < AliasLimit
      BY <3>1 DEF HasRoom
    <3>2. CASE <<u, c>> \in alias
      <4>1. <<u, c>> \in Former(u) /\ drops = {<<u, c>>}
        BY <3>2 DEF Former
      <4> QED BY <4>1 DEF HasRoom, CodesInv, LinksKeepWorking, AliasesLimited
    <3> QED BY <1>2, <3>1, <3>2 DEF SetBegin
  <2>3. drops \subseteq {<<u, c>>}
    OBVIOUS
  <2> HIDE DEF drops
  <2> QED BY <2>1, <2>2, <2>3, RecodeStands
<1> QED BY <1>1, <1>2

(* register, by a link: the first query finds who shared it, or nobody. *)
LEMMA SignupBegins ==
    ASSUME CodesInv, CodeRequestsInv, NEW w \in Workers, NEW n \in Signups, NEW link \in shared,
           SignupBegin(w, n, link)
    PROVE  CodeRequestsInv' /\ UNCHANGED <<codeVars, late>>
<1> DEFINE t == [op |-> "signup", minds |-> {<<"code", link[2]>>}, stale |-> {},
                 at |-> n, link |-> link, first |-> Bearer(link[2])]
<1>1. tx' = [tx EXCEPT ![w] = t] /\ UNCHANGED <<codeVars, late>>
  BY DEF SignupBegin, Open
<1>2. link \in Members \X Links /\ Bearer(link[2]) \subseteq Members
  BY DEF CodesInv, CodesTypeOK, Bearer
<1>3. t \in CodeRequests
  BY <1>2 DEF CodeRequests, CodeMinds, Aliases
<1>4. \/ Crossed(link)
      \/ Bearer(link[2]) = {link[1]}
      \/ Bearer(link[2]) = {} /\ current[link[1]] # link[2]
  BY <1>2 DEF CodesInv, LinksKeepWorking, SharedLinksLead, Bearer
<1>5. SignupOK(t) /\ RecodeOK(t)
  BY <1>4 DEF SignupOK, RecodeOK
<1> HIDE DEF t
<1> QED BY <1>1, <1>3, <1>5, CodeRequestOpens

(* What a commit leaves of the other requests. *)
LEMMA CodeRequestsLeft ==
    ASSUME CodeRequestsInv, NEW w \in Workers, NEW W, Close(w, W)
    PROVE  /\ tx' \in [Workers -> CodeRequests]
           /\ tx'[w] = Idle
           /\ late' = late \union (W \intersect tx[w].stale)
           /\ \A v \in Workers \ {w} :
                 /\ tx'[v].op = tx[v].op
                 /\ tx[v].op # "idle" => /\ tx'[v].stale = tx[v].stale \union (W \intersect tx[v].minds)
                                         /\ tx'[v].minds = tx[v].minds
                 /\ tx[v].op = "recode" => /\ tx'[v].user = tx[v].user
                                           /\ tx'[v].code = tx[v].code
                                           /\ tx'[v].old = tx[v].old
                                           /\ tx'[v].drops = tx[v].drops
                 /\ tx[v].op = "signup" => tx'[v].link = tx[v].link /\ tx'[v].first = tx[v].first
<1>1. tx \in [Workers -> CodeRequests]
  BY DEF CodeRequestsInv
<1>2. ASSUME NEW v \in Workers \ {w}
      PROVE  /\ tx'[v].op = tx[v].op
             /\ tx'[v] \in CodeRequests
             /\ tx[v].op # "idle" => /\ tx'[v].stale = tx[v].stale \union (W \intersect tx[v].minds)
                                     /\ tx'[v].minds = tx[v].minds
             /\ tx[v].op = "recode" => /\ tx'[v].user = tx[v].user
                                       /\ tx'[v].code = tx[v].code
                                       /\ tx'[v].old = tx[v].old
                                       /\ tx'[v].drops = tx[v].drops
             /\ tx[v].op = "signup" => tx'[v].link = tx[v].link /\ tx'[v].first = tx[v].first
  BY <1>1, <1>2 DEF Close, CodeRequests, Idle
<1>3. Idle \in CodeRequests
  BY DEF CodeRequests
<1> QED BY <1>2, <1>3 DEF Close

-----------------------------------------------------------------------------
(* The commit of a change: u takes c, and old becomes a former code. *)
Recoded(w, u, c, old, drops, row, W) ==
    /\ u \in Members /\ c \in Links /\ old \in Links \union {NoCode}
    /\ row = IF old = NoCode THEN {} ELSE {<<u, old>>}
    /\ W = {<<"codes", u>>, <<"code", c>>, <<"code", old>>}
    /\ current' = [current EXCEPT ![u] = c]
    /\ alias' = (alias \ drops) \union row
    /\ shared' = shared \union {<<u, c>>}
    /\ late' = late \union (W \intersect tx[w].stale)
    /\ drops \subseteq {<<u, c>>}
    /\ <<"code", c>> \in late' \/ Takes(u, c)
    /\ old = NoCode \/ <<"code", old>> \in late' \/ Leaves(u, old)
    /\ <<"codes", u>> \in late' \/ current[u] = old
    /\ old = NoCode \/ <<"codes", u>> \in late' \/ HasRoom(u, drops)

LEMMA RecodeWrites ==
    ASSUME CodeRequestsInv, NEW w \in Workers, RecodeCommit(w)
    PROVE  \E u, c, old, drops, row, W :
              /\ Recoded(w, u, c, old, drops, row, W)
              /\ Close(w, W)
              /\ UNCHANGED <<referral, followed>>
<1> DEFINE u == tx[w].user
           c == tx[w].code
           old == tx[w].old
           drops == tx[w].drops
           row == IF old = NoCode THEN {} ELSE {<<u, old>>}
           W == {<<"codes", u>>, <<"code", c>>, <<"code", old>>}
<1>1. /\ tx[w].op = "recode"
      /\ current' = [current EXCEPT ![u] = c]
      /\ alias' = (alias \ drops) \union row
      /\ shared' = shared \union {<<u, c>>}
      /\ Close(w, W)
      /\ UNCHANGED <<referral, followed>>
  BY DEF RecodeCommit
<1>2. RecodeOK(tx[w]) /\ tx[w] \in CodeRequests
  BY DEF CodeRequestsInv
<1>3. u \in Members /\ c \in Links /\ old \in Links \union {NoCode}
  BY <1>1, <1>2 DEF CodeRequests, Idle
<1>4. late' = late \union (W \intersect tx[w].stale)
  BY <1>1 DEF Close
<1>5. \A x \in W : Missed(tx[w], x) => x \in late'
  BY <1>4 DEF Missed
<1>6. <<"codes", u>> \in W /\ <<"code", c>> \in W /\ <<"code", old>> \in W
  OBVIOUS
<1>7. row = IF old = NoCode THEN {} ELSE {<<u, old>>}
  OBVIOUS
<1>8. W = {<<"codes", u>>, <<"code", c>>, <<"code", old>>}
  OBVIOUS
<1> HIDE DEF row, W
<1>9. Recoded(w, u, c, old, drops, row, W)
  BY <1>1, <1>2, <1>3, <1>4, <1>5, <1>6, <1>7, <1>8 DEF Recoded, RecodeOK
<1> QED BY <1>1, <1>9

(* Links still lead to who shared them. *)
LEMMA RecodeKeepsLinks ==
    ASSUME CodesInv, NEW w, NEW u, NEW c, NEW old, NEW drops, NEW row, NEW W,
           Recoded(w, u, c, old, drops, row, W)
    PROVE  SharedLinksLead'
<1> USE DEF Recoded
<1>1. current \in [Members -> Links \union {NoCode}] /\ shared \subseteq Members \X Links
      /\ NoCode \notin Links
  BY CodesAssumption DEF CodesInv, CodesTypeOK
<1>2. /\ current'[u] = c
      /\ \A v \in Members \ {u} : current'[v] = current[v]
      /\ \A v \in Members \ {u}, d \in Links : <<v, d>> \in alias' <=> <<v, d>> \in alias
      /\ \A d \in Links \ {c} : <<u, d>> \in alias' <=> <<u, d>> \in alias \/ d = old
  BY <1>1
<1> SUFFICES ASSUME NEW link \in shared', ~ Crossed(link)', NEW v \in Members
             PROVE  current'[v] = link[2] \/ <<v, link[2]>> \in alias' <=> v = link[1]
  BY DEF SharedLinksLead
<1> DEFINE m == link[1]
           d == link[2]
<1>3. m \in Members /\ d \in Links /\ link = <<m, d>>
  BY <1>1
<1>4. <<"codes", m>> \notin late' /\ <<"code", d>> \notin late' /\ ~ Crossed(link)
  BY DEF Crossed
<1>5. link \in shared => (current[v] = d \/ <<v, d>> \in alias <=> v = m)
  BY <1>4 DEF CodesInv, LinksKeepWorking, SharedLinksLead
<1>6. link \in shared => (current[m] = d \/ <<m, d>> \in alias)
  BY <1>3, <1>4 DEF CodesInv, LinksKeepWorking, SharedLinksLead
<1> HIDE DEF m, d
<1>7. CASE d = c
  <2>1. Takes(u, c)
    BY <1>4, <1>7
  <2>2. m = u
    <3>1. CASE link \in shared
      BY <1>3, <1>6, <1>7, <2>1, <3>1 DEF Takes
    <3>2. CASE link \notin shared
      BY <1>3, <3>2
    <3> QED BY <3>1, <3>2
  <2>3. CASE v = u
    BY <1>2, <1>7, <2>2, <2>3 DEF m, d
  <2>4. CASE v # u
    <3>1. current[v] # c /\ <<v, c>> \notin alias
      BY <2>1, <2>4 DEF Takes
    <3>2. current'[v] # c /\ <<v, c>> \notin alias'
      BY <1>2, <2>4, <3>1
    <3> QED BY <1>7, <2>2, <2>4, <3>2 DEF m, d
  <2> QED BY <2>3, <2>4
<1>8. CASE d # c
  <2>1. link \in shared
    BY <1>3, <1>8
  <2>2. CASE v # u
    BY <1>2, <1>3, <1>5, <2>1, <2>2 DEF m, d
  <2>3. CASE v = u
    <3>1. current'[u] = d \/ <<u, d>> \in alias' <=> <<u, d>> \in alias \/ d = old
      BY <1>2, <1>3, <1>8
    <3>2. CASE current[u] = old
      BY <1>5, <2>1, <2>3, <3>1, <3>2 DEF m, d
    <3>3. CASE <<"codes", u>> \in late'
      <4>1. m # u
        BY <1>4, <3>3
      <4>2. d # old
        <5> SUFFICES ASSUME d = old PROVE FALSE
          OBVIOUS
        <5>1. Leaves(u, old)
          BY <1>1, <1>3, <1>4
        <5> QED BY <1>3, <1>4, <2>1, <4>1, <5>1 DEF Leaves
      <4> QED BY <1>5, <2>1, <2>3, <3>1, <4>1, <4>2 DEF m, d
    <3> QED BY <3>2, <3>3
  <2> QED BY <2>2, <2>3
<1> QED BY <1>7, <1>8

(* Former codes stay limited. *)
LEMMA RecodeKeepsLimit ==
    ASSUME CodesInv, NEW w, NEW u, NEW c, NEW old, NEW drops, NEW row, NEW W,
           Recoded(w, u, c, old, drops, row, W)
    PROVE  AliasesLimited' /\ IsFiniteSet(alias') /\ \A v \in Members \ {u} : Former(v)' = Former(v)
<1>1. /\ u \in Members /\ late \subseteq late'
      /\ row = IF old = NoCode THEN {} ELSE {<<u, old>>}
      /\ alias' = (alias \ drops) \union row
      /\ drops \subseteq {<<u, c>>}
      /\ old = NoCode \/ <<"codes", u>> \in late' \/ HasRoom(u, drops)
  BY DEF Recoded
<1>2. IsFiniteSet(alias')
  <2>1. IsFiniteSet(alias \ drops)
    BY FS_Difference DEF CodesInv
  <2>2. CASE row = {}
    BY <1>1, <2>1, <2>2
  <2>3. CASE row = {<<u, old>>}
    BY <1>1, <2>1, <2>3, FS_AddElement
  <2> QED BY <1>1, <2>2, <2>3
<1>3. \A v \in Members \ {u} : Former(v)' = Former(v)
  BY <1>1 DEF Former
<1>4. \A v \in Members : Cardinality(Former(v)) =< AliasLimit \/ <<"codes", v>> \in late
  BY DEF CodesInv, LinksKeepWorking, AliasesLimited
<1>5. Cardinality(Former(u)') =< AliasLimit \/ <<"codes", u>> \in late'
  <2>1. CASE old = NoCode
    <3>1. Former(u)' \in SUBSET Former(u)
      BY <1>1, <2>1 DEF Former
    <3>2. Cardinality(Former(u)') =< Cardinality(Former(u)) /\ Cardinality(Former(u)') \in Nat
      BY <3>1, FormerCounts, FS_Subset, FS_CardinalityType
    <3> QED BY <1>1, <1>4, <3>2, FormerCounts
  <2>2. CASE old # NoCode /\ HasRoom(u, drops)
    <3> DEFINE a == <<u, old>>
               rest == Former(u) \ drops
    <3>1. Former(u)' = rest \union {a}
      BY <1>1, <2>2 DEF Former
    <3>2. rest \in SUBSET Former(u)
      OBVIOUS
    <3> HIDE DEF a
    <3>3. IsFiniteSet(rest) /\ Cardinality(rest) \in Nat
      BY <3>2, FormerCounts, FS_Subset, FS_CardinalityType
    <3>4. Cardinality(rest) < AliasLimit
      <4>1. CASE Cardinality(Former(u)) < AliasLimit
        <5>1. Cardinality(rest) =< Cardinality(Former(u))
          BY <3>2, FormerCounts, FS_Subset
        <5> QED BY <3>3, <4>1, <5>1, FormerCounts
      <4>2. ASSUME NEW b \in Former(u), drops = {b}, Cardinality(Former(u)) =< AliasLimit
            PROVE  Cardinality(rest) < AliasLimit
        <5>1. Cardinality(rest) = Cardinality(Former(u)) - 1
          BY <4>2, FormerCounts, FS_RemoveElement
        <5> QED BY <4>2, <5>1, FormerCounts
      <4> QED BY <2>2, <4>1, <4>2 DEF HasRoom
    <3> HIDE DEF rest
    <3>5. Cardinality(rest \union {a}) =< Cardinality(rest) + 1
      BY <3>3, FS_AddElement
    <3>6. IsFiniteSet(rest \union {a}) /\ Cardinality(rest \union {a}) \in Nat
      BY <3>3, FS_AddElement, FS_CardinalityType
    <3>7. AliasLimit \in Nat
      BY FormerCounts
    <3> QED BY <3>1, <3>3, <3>4, <3>5, <3>6, <3>7
  <2> QED BY <1>1, <2>1, <2>2
<1> QED BY <1>1, <1>2, <1>3, <1>4, <1>5 DEF AliasesLimited

(* What the others have decided on stands, or it is stale. *)
LEMMA RecodeKeepsRequests ==
    ASSUME CodesInv, CodeRequestsInv, NEW w \in Workers, NEW u, NEW c, NEW old, NEW drops, NEW row,
           NEW W, Recoded(w, u, c, old, drops, row, W), Close(w, W)
    PROVE  CodeRequestsInv'
<1>1. /\ u \in Members /\ c \in Links /\ old \in Links \union {NoCode}
      /\ row \subseteq {<<u, old>>}
      /\ <<"codes", u>> \in W /\ <<"code", c>> \in W /\ <<"code", old>> \in W
      /\ current' = [current EXCEPT ![u] = c]
      /\ alias' = (alias \ drops) \union row
      /\ shared' = shared \union {<<u, c>>}
      /\ late \subseteq late'
      /\ drops \subseteq {<<u, c>>}
  BY DEF Recoded
<1>2. current \in [Members -> Links \union {NoCode}]
  BY DEF CodesInv, CodesTypeOK
<1>3. /\ \A v \in Members \ {u} : current'[v] = current[v]
      /\ current'[u] = c
      /\ \A x : x \in alias' => x \in alias \/ x = <<u, old>>
  BY <1>1, <1>2
<1>4. \A v \in Members \ {u} : Former(v)' = Former(v)
  BY RecodeKeepsLimit
<1>5. \A link : Crossed(link) => Crossed(link)'
  BY <1>1 DEF Crossed
<1>6. tx' \in [Workers -> CodeRequests] /\ tx'[w] = Idle
  BY CodeRequestsLeft
<1>7. ASSUME NEW v \in Workers \ {w}, tx[v].op = "recode"
      PROVE  RecodeOK(tx[v])'
  <2>0. PICK t, s : t = tx[v] /\ s = tx'[v]
    OBVIOUS
  <2>1. /\ s.op = t.op /\ s.minds = t.minds /\ s.stale = t.stale \union (W \intersect t.minds)
        /\ s.user = t.user /\ s.code = t.code /\ s.old = t.old /\ s.drops = t.drops
    BY <1>7, <2>0, CodeRequestsLeft
  <2>2. /\ t.user \in Members /\ t.code \in Links
        /\ t.minds = {<<"codes", t.user>>, <<"code", t.code>>, <<"code", t.old>>}
        /\ t.stale \subseteq t.minds
        /\ t.drops \subseteq {<<t.user, t.code>>}
        /\ Missed(t, <<"code", t.code>>) \/ Takes(t.user, t.code)
        /\ t.old = NoCode \/ Missed(t, <<"code", t.old>>) \/ Leaves(t.user, t.old)
        /\ Missed(t, <<"codes", t.user>>) \/ current[t.user] = t.old
        /\ t.old = NoCode \/ Missed(t, <<"codes", t.user>>) \/ HasRoom(t.user, t.drops)
    BY <1>7, <2>0 DEF CodeRequestsInv, CodeRequests, RecodeOK, Idle
  <2>3. \A x \in t.minds : Missed(t, x) \/ x \in W => x \in s.stale \union late'
    BY <1>1, <2>1 DEF Missed
  <2>4. <<"code", t.code>> \in t.minds /\ <<"code", t.old>> \in t.minds
        /\ <<"codes", t.user>> \in t.minds
    BY <2>2
  <2>5. <<"code", t.code>> \in s.stale \union late' \/ Takes(t.user, t.code)'
    <3>1. CASE <<"code", t.code>> \in W \/ Missed(t, <<"code", t.code>>)
      BY <2>3, <2>4, <3>1
    <3>2. CASE <<"code", t.code>> \notin W /\ Takes(t.user, t.code)
      <4>1. t.code # c /\ t.code # old
        BY <1>1, <3>2
      <4> QED BY <1>3, <3>2, <4>1 DEF Takes
    <3> QED BY <2>2, <3>1, <3>2
  <2>6. t.old = NoCode \/ <<"code", t.old>> \in s.stale \union late' \/ Leaves(t.user, t.old)'
    <3>1. CASE <<"code", t.old>> \in W \/ Missed(t, <<"code", t.old>>)
      BY <2>3, <2>4, <3>1
    <3>2. CASE <<"code", t.old>> \notin W /\ Leaves(t.user, t.old)
      <4>1. t.old # c
        BY <1>1, <3>2
      <4>2. \A m : <<m, t.old>> \in shared' => <<m, t.old>> \in shared
        BY <1>1, <4>1
      <4> QED BY <1>5, <3>2, <4>2 DEF Leaves
    <3> QED BY <2>2, <3>1, <3>2
  <2> SUFFICES RecodeOK(s)'
    BY <2>0 DEF RecodeOK, Missed, Takes, Leaves, HasRoom, Former, Crossed
  <2>7. CASE t.user = u
    <3>1. <<"codes", t.user>> \in s.stale \union late'
      BY <1>1, <2>3, <2>4, <2>7
    <3> QED BY <2>1, <2>2, <2>5, <2>6, <3>1 DEF RecodeOK, Missed
  <2>8. CASE t.user # u
    <3>1. current'[t.user] = current[t.user] /\ Former(t.user)' = Former(t.user)
      BY <1>3, <1>4, <2>2, <2>8
    <3>2. HasRoom(t.user, t.drops)' <=> HasRoom(t.user, t.drops)
      BY <3>1 DEF HasRoom
    <3>3. <<"codes", t.user>> \in s.stale \union late' \/ current'[t.user] = t.old
      BY <2>2, <2>3, <2>4, <3>1
    <3>4. t.old = NoCode \/ <<"codes", t.user>> \in s.stale \union late' \/ HasRoom(t.user, t.drops)'
      BY <2>2, <2>3, <2>4, <3>2
    <3> QED BY <2>1, <2>2, <2>5, <2>6, <3>3, <3>4 DEF RecodeOK, Missed
  <2> QED BY <2>7, <2>8
<1>8. ASSUME NEW v \in Workers \ {w}, tx[v].op = "signup"
      PROVE  SignupOK(tx[v])'
  <2>0. PICK t, s : t = tx[v] /\ s = tx'[v]
    OBVIOUS
  <2>1. /\ s.op = t.op /\ s.minds = t.minds /\ s.stale = t.stale \union (W \intersect t.minds)
        /\ s.link = t.link /\ s.first = t.first
    BY <1>8, <2>0, CodeRequestsLeft
  <2>2. /\ t.link \in shared
        /\ t.minds = {<<"code", t.link[2]>>}
        /\ t.stale \subseteq t.minds
        /\ \/ t.stale # {}
           \/ Crossed(t.link)
           \/ t.first = {t.link[1]}
           \/ t.first = {} /\ current[t.link[1]] # t.link[2]
    BY <1>8, <2>0 DEF CodeRequestsInv, SignupOK
  <2>3. t.link[1] \in Members
    BY <2>2 DEF CodesInv, CodesTypeOK
  <2> SUFFICES SignupOK(s)'
    BY <2>0 DEF SignupOK, Crossed
  <2>4. CASE t.link[2] = c
    <3>1. s.stale # {}
      BY <1>1, <2>1, <2>2, <2>4
    <3> QED BY <1>1, <2>1, <2>2, <3>1 DEF SignupOK
  <2>5. CASE t.link[2] # c
    <3>1. \/ s.stale # {}
          \/ Crossed(t.link)'
          \/ t.first = {t.link[1]}
          \/ t.first = {} /\ current'[t.link[1]] # t.link[2]
      BY <1>3, <1>5, <2>1, <2>2, <2>3, <2>5
    <3> QED BY <1>1, <2>1, <2>2, <3>1 DEF SignupOK
  <2> QED BY <2>4, <2>5
<1>9. ASSUME NEW v \in Workers PROVE RecodeOK(tx[v])' /\ SignupOK(tx[v])'
  <2>1. CASE v = w
    BY <1>6, <2>1 DEF RecodeOK, SignupOK, Idle
  <2>2. CASE v # w
    <3>1. tx'[v].op = tx[v].op
      BY <2>2, CodeRequestsLeft
    <3>2. CASE tx[v].op = "recode"
      BY <1>7, <2>2, <3>1, <3>2 DEF SignupOK
    <3>3. CASE tx[v].op = "signup"
      BY <1>8, <2>2, <3>1, <3>3 DEF RecodeOK
    <3>4. CASE tx[v].op \notin {"recode", "signup"}
      BY <3>1, <3>4 DEF RecodeOK, SignupOK
    <3> QED BY <3>2, <3>3, <3>4
  <2> QED BY <2>1, <2>2
<1> QED BY <1>6, <1>9 DEF CodeRequestsInv

(* A change of a code keeps the invariants. *)
LEMMA RecodeKeeps ==
    ASSUME CodesInv, CodeRequestsInv, NEW w \in Workers, RecodeCommit(w)
    PROVE  CodesInv' /\ CodeRequestsInv' /\ late \subseteq late'
<1>1. PICK u, c, old, drops, row, W :
         Recoded(w, u, c, old, drops, row, W) /\ Close(w, W) /\ UNCHANGED <<referral, followed>>
  BY RecodeWrites
<1>2. CodeRequestsInv'
  BY <1>1, RecodeKeepsRequests
<1>3. SharedLinksLead'
  BY <1>1, RecodeKeepsLinks
<1>4. AliasesLimited' /\ IsFiniteSet(alias')
  BY <1>1, RecodeKeepsLimit
<1>5. late \subseteq late'
  BY <1>1 DEF Recoded
<1>6. SignupsAttributed'
  BY <1>1, <1>5 DEF CodesInv, LinksKeepWorking, SignupsAttributed, Crossed
<1>7. CodesTypeOK'
  BY <1>1 DEF CodesInv, CodesTypeOK, Recoded, Aliases
<1> QED BY <1>2, <1>3, <1>4, <1>5, <1>6, <1>7 DEF CodesInv, LinksKeepWorking

(* A signup is attributed to who shared the link. *)
LEMMA SignupKeeps ==
    ASSUME CodesInv, CodeRequestsInv, NEW w \in Workers, SignupCommit(w)
    PROVE  CodesInv' /\ CodeRequestsInv' /\ late \subseteq late'
<1> DEFINE t == tx[w]
           found == Found(t.link[2], t.first)
<1>1. /\ t.op = "signup"
      /\ IF found = {} THEN UNCHANGED referral
         ELSE \E u \in found : referral' = [referral EXCEPT ![t.at] = u]
      /\ followed' = [followed EXCEPT ![t.at] = [link |-> t.link, moved |-> t.stale # {}]]
      /\ Close(w, {})
      /\ UNCHANGED <<current, alias, shared>>
  BY DEF SignupCommit
<1>2. t \in CodeRequests /\ SignupOK(t)
  BY DEF CodeRequestsInv
<1>3. t.at \in Signups /\ t.link \in Members \X Links /\ t.first \subseteq Members
  BY <1>1, <1>2 DEF CodeRequests, Aliases, Idle
<1>4. found \subseteq Members
  BY <1>3 DEF Found
<1>5. late' = late
  BY <1>1 DEF Close
<1>6. t.stale # {} \/ Crossed(t.link) \/ found = {t.link[1]}
  <2> SUFFICES ASSUME t.stale = {}, ~ Crossed(t.link), t.first # {t.link[1]}
               PROVE  found = {t.link[1]}
    BY <1>1, <1>2, <1>3 DEF SignupOK, Found
  <2>1. t.first = {} /\ current[t.link[1]] # t.link[2] /\ t.link \in shared
    BY <1>1, <1>2 DEF SignupOK
  <2>2. \A u \in Members : current[u] = t.link[2] \/ <<u, t.link[2]>> \in alias <=> u = t.link[1]
    BY <2>1 DEF CodesInv, LinksKeepWorking, SharedLinksLead
  <2>3. found = {u \in Members : <<u, t.link[2]>> \in alias}
    BY <2>1 DEF Found
  <2> QED BY <1>3, <2>1, <2>2, <2>3
<1> HIDE DEF found
<1>7. /\ referral' \in Referrals
      /\ \A n \in Signups \ {t.at} : referral'[n] = referral[n] /\ followed'[n] = followed[n]
      /\ found = {t.link[1]} => referral'[t.at] = t.link[1]
      /\ followed'[t.at] = [link |-> t.link, moved |-> t.stale # {}]
      /\ followed' \in [Signups -> [link : (Members \union {NoMember}) \X (Links \union {NoCode}),
                                    moved : BOOLEAN]]
  <2>1. /\ referral \in Referrals
        /\ followed \in [Signups -> [link : (Members \union {NoMember}) \X (Links \union {NoCode}),
                                     moved : BOOLEAN]]
    BY DEF CodesInv, CodesTypeOK
  <2>2. [link |-> t.link, moved |-> t.stale # {}]
           \in [link : (Members \union {NoMember}) \X (Links \union {NoCode}), moved : BOOLEAN]
    BY <1>3
  <2> HIDE DEF t
  <2>3. /\ followed'[t.at] = [link |-> t.link, moved |-> t.stale # {}]
        /\ \A n \in Signups \ {t.at} : followed'[n] = followed[n]
        /\ followed' \in [Signups -> [link : (Members \union {NoMember}) \X (Links \union {NoCode}),
                                      moved : BOOLEAN]]
    BY <1>1, <1>3, <2>1, <2>2
  <2>4. /\ referral' \in Referrals
        /\ \A n \in Signups \ {t.at} : referral'[n] = referral[n]
        /\ found = {t.link[1]} => referral'[t.at] = t.link[1]
    <3>1. CASE found = {}
      BY <1>1, <2>1, <3>1
    <3>2. CASE found # {}
      <4>1. PICK u \in found : referral' = [referral EXCEPT ![t.at] = u]
        BY <1>1, <3>2
      <4> QED BY <1>3, <1>4, <2>1, <4>1 DEF Referrals
    <3> QED BY <3>1, <3>2
  <2> QED BY <2>3, <2>4
<1>8. CodesTypeOK'
  BY <1>1, <1>7 DEF CodesInv, CodesTypeOK
<1>9. SignupsAttributed'
  <2> SUFFICES ASSUME NEW n \in Signups, followed'[n] # NoLink
               PROVE  \/ referral'[n] = followed'[n].link[1] \/ followed'[n].moved
                      \/ Crossed(followed[n].link)'
    BY DEF SignupsAttributed, Crossed, NoLink
  <2>1. CASE n = t.at
    BY <1>5, <1>6, <1>7, <2>1 DEF Crossed
  <2>2. CASE n # t.at
    BY <1>5, <1>7, <2>2 DEF Crossed, CodesInv, LinksKeepWorking, SignupsAttributed
  <2> QED BY <2>1, <2>2
<1>10. SharedLinksLead' /\ AliasesLimited'
  BY <1>1, <1>5 DEF CodesInv, LinksKeepWorking, SharedLinksLead, AliasesLimited, Former, Crossed
<1>11. CodesInv'
  BY <1>1, <1>8, <1>9, <1>10 DEF CodesInv, LinksKeepWorking
<1>12. ASSUME NEW v \in Workers PROVE RecodeOK(tx[v])' /\ SignupOK(tx[v])'
  <2>1. CASE v = w
    BY <1>1, <2>1, CodeRequestsLeft DEF RecodeOK, SignupOK, Idle
  <2>2. CASE v # w
    <3>1. RecodeOK(tx[v]) /\ SignupOK(tx[v])
      BY DEF CodeRequestsInv
    <3>2. PICK W : W = {} /\ Close(w, W)
      BY <1>1
    <3>3. /\ tx'[v].op = tx[v].op
          /\ tx[v].op # "idle" => /\ tx'[v].stale = tx[v].stale \union (W \intersect tx[v].minds)
                                  /\ tx'[v].minds = tx[v].minds
          /\ tx[v].op = "recode" => /\ tx'[v].user = tx[v].user
                                    /\ tx'[v].code = tx[v].code
                                    /\ tx'[v].old = tx[v].old
                                    /\ tx'[v].drops = tx[v].drops
          /\ tx[v].op = "signup" => tx'[v].link = tx[v].link /\ tx'[v].first = tx[v].first
      <4>1. Close(w, W)
        BY <3>2
      <4> QED BY <2>2, <4>1, CodeRequestsLeft
    <3>4. PICK s : s = tx'[v]
      OBVIOUS
    <3>5. RecodeOK(s) /\ SignupOK(s)
      <4>1. W \intersect tx[v].minds = {}
        BY <3>2
      <4>2. tx[v].op # "idle" => s.stale = tx[v].stale
        BY <3>3, <3>4, <4>1
      <4> QED BY <3>1, <3>3, <3>4, <4>2 DEF RecodeOK, SignupOK, Missed
    <3>6. RecodeOK(s)' /\ SignupOK(s)'
      BY <1>1, <1>5, <3>5, CodeRequestStands
    <3> QED BY <3>4, <3>6
            DEF RecodeOK, SignupOK, Missed, Takes, Leaves, HasRoom, Former, Crossed
  <2> QED BY <2>1, <2>2
<1>13. CodeRequestsInv'
  BY <1>1, <1>12, CodeRequestsLeft DEF CodeRequestsInv
<1> QED BY <1>5, <1>11, <1>13

(* A request that fails has written nothing. *)
LEMMA FailKeepsCodes ==
    ASSUME CodeRequestsInv, NEW w \in Workers, Fail(w), UNCHANGED codeVars
    PROVE  CodeRequestsInv'
<1>1. Idle \in CodeRequests /\ RecodeOK(Idle) /\ SignupOK(Idle)
  BY DEF CodeRequests, RecodeOK, SignupOK, Idle
<1>2. tx' = [tx EXCEPT ![w] = Idle] /\ UNCHANGED <<codeVars, late>>
  BY DEF Fail
<1> QED BY <1>1, <1>2, CodeRequestOpens

(* Nothing of the tables changes. *)
LEMMA CodesStay ==
    ASSUME CodesInv, UNCHANGED codeVars, late \subseteq late'
    PROVE  CodesInv'
<1>1. CodesTypeOK' /\ IsFiniteSet(alias')
  BY DEF CodesInv, CodesTypeOK, codeVars
<1>2. \A link : Crossed(link) => Crossed(link)'
  BY DEF Crossed
<1>3. SharedLinksLead'
  BY <1>2 DEF CodesInv, LinksKeepWorking, SharedLinksLead, codeVars
<1>4. SignupsAttributed'
  BY <1>2 DEF CodesInv, LinksKeepWorking, SignupsAttributed, codeVars
<1>5. AliasesLimited'
  BY DEF CodesInv, LinksKeepWorking, AliasesLimited, Former, codeVars
<1> QED BY <1>1, <1>3, <1>4, <1>5 DEF CodesInv, LinksKeepWorking

(* A step of the codes desk. *)
LEMMA CodeStepKeeps ==
    ASSUME CodesInv, CodeRequestsInv, NEW w \in Workers, CodeStep(w)
    PROVE  CodesInv' /\ CodeRequestsInv' /\ late \subseteq late'
<1>1. CASE RecodeCommit(w)
  BY <1>1, RecodeKeeps
<1>2. CASE SignupCommit(w)
  BY <1>2, SignupKeeps
<1>3. CASE \/ \E u \in Members, c \in Links : EnsureBegin(w, u, c) \/ SetBegin(w, u, c)
           \/ \E n \in Signups, link \in shared : SignupBegin(w, n, link)
  <2>1. CodeRequestsInv' /\ UNCHANGED <<codeVars, late>>
    BY <1>3, RecodeBegins, SignupBegins
  <2> QED BY <2>1, CodesStay
<1> QED BY <1>1, <1>2, <1>3 DEF CodeStep

(* At the start nobody has a code, and nobody is under way. *)
LEMMA CodesStart ==
    ASSUME CodesInit, OverlapInit
    PROVE  CodesInv /\ CodeRequestsInv
<1>1. CodesTypeOK
  BY DEF CodesInit, CodesTypeOK, Referrals, NoLink
<1>2. IsFiniteSet(alias) /\ shared = {}
  BY FS_EmptySet DEF CodesInit
<1>3. SharedLinksLead /\ SignupsAttributed
  BY DEF CodesInit, SharedLinksLead, SignupsAttributed
<1>4. ASSUME NEW u PROVE Cardinality(Former(u)) =< AliasLimit
  <2>1. Former(u) = {}
    BY DEF Former, CodesInit
  <2> QED BY <2>1, FS_EmptySet, CodesAssumption
<1>5. tx \in [Workers -> CodeRequests] /\ \A w \in Workers : tx[w].op = "idle"
  BY DEF OverlapInit, CodeRequests, Idle
<1> QED BY <1>1, <1>2, <1>3, <1>4, <1>5
        DEF CodesInv, LinksKeepWorking, AliasesLimited, CodeRequestsInv, RecodeOK, SignupOK

-----------------------------------------------------------------------------
(* 6. The whole. *)

(* The tables, and the requests of the desk the behaviour is about. *)
AdminInv ==
    /\ desk \in Desks
    /\ RolesInv /\ KeysInv /\ PlansInv /\ CredsInv /\ CodesInv
    /\ desk = "roles" => RoleRequestsInv
    /\ desk = "keys" => KeyRequestsInv
    /\ desk = "plans" => PlanRequestsInv
    /\ desk = "credentials" => CredRequestsInv
    /\ desk = "codes" => CodeRequestsInv

NoneReturns ==
    /\ \A k \in Keys : key[k].state = "revoked" => key'[k].state = "revoked"
    /\ \A c \in Creds : cred[c].state = "revoked" => cred'[c].state = "revoked"

LEMMA AdminStart == Init => AdminInv
  BY RolesStart, KeysStart, KeyRequestsStart, PlansStart, CredsStart, CodesStart
     DEF Init, AdminInv

(* A step of one desk, with the tables of the others as they are. *)
LEMMA RolesDesk ==
    ASSUME AdminInv, desk = "roles", NEW w \in Workers, RoleStep(w) \/ (Fail(w) /\ UNCHANGED roleVars),
           UNCHANGED <<desk, key, plan, credVars, codeVars>>
    PROVE  AdminInv' /\ NoneReturns
<1>1. RolesInv' /\ RoleRequestsInv' /\ late \subseteq late'
  <2>1. CASE RoleStep(w)
    BY <2>1, RoleStepKeeps DEF AdminInv
  <2>2. CASE Fail(w) /\ UNCHANGED roleVars
    BY <2>2, FailKeepsRoles, RolesStay DEF AdminInv, Fail
  <2> QED BY <2>1, <2>2
<1>2. KeysInv' /\ PlansInv' /\ CredsInv' /\ CodesInv'
  BY <1>1, KeysStay, PlansStay, CredsStay, CodesStay DEF AdminInv
<1> QED BY <1>1, <1>2 DEF AdminInv, NoneReturns, credVars

LEMMA KeysDesk ==
    ASSUME AdminInv, desk = "keys", NEW w \in Workers, KeyStep(w) \/ (Fail(w) /\ UNCHANGED key),
           UNCHANGED <<desk, roleVars, plan, credVars, codeVars>>
    PROVE  AdminInv' /\ NoneReturns
<1>1. /\ KeysInv' /\ KeyRequestsInv' /\ late \subseteq late'
      /\ \A k \in Keys : key[k].state = "revoked" => key'[k].state = "revoked"
  <2>1. CASE KeyStep(w)
    BY <2>1, KeyStepKeeps DEF AdminInv
  <2>2. CASE Fail(w) /\ UNCHANGED key
    BY <2>2, FailKeepsKeys, KeysStay DEF AdminInv, Fail
  <2> QED BY <2>1, <2>2
<1>2. RolesInv' /\ PlansInv' /\ CredsInv' /\ CodesInv'
  BY <1>1, RolesStay, PlansStay, CredsStay, CodesStay DEF AdminInv
<1> QED BY <1>1, <1>2 DEF AdminInv, NoneReturns, credVars

LEMMA PlansDesk ==
    ASSUME AdminInv, desk = "plans", NEW w \in Workers, PlanStep(w) \/ (Fail(w) /\ UNCHANGED plan),
           UNCHANGED <<desk, roleVars, key, credVars, codeVars>>
    PROVE  AdminInv' /\ NoneReturns
<1>1. PlansInv' /\ PlanRequestsInv' /\ late \subseteq late'
  <2>1. CASE PlanStep(w)
    BY <2>1, PlanStepKeeps DEF AdminInv
  <2>2. CASE Fail(w) /\ UNCHANGED plan
    BY <2>2, FailKeepsPlans, PlansStay DEF AdminInv, Fail
  <2> QED BY <2>1, <2>2
<1>2. RolesInv' /\ KeysInv' /\ CredsInv' /\ CodesInv'
  BY <1>1, RolesStay, KeysStay, CredsStay, CodesStay DEF AdminInv
<1> QED BY <1>1, <1>2 DEF AdminInv, NoneReturns, credVars

LEMMA CredsDesk ==
    ASSUME AdminInv, desk = "credentials",
           ClockStep \/ \E w \in Workers : CredStep(w) \/ (Fail(w) /\ UNCHANGED credVars),
           UNCHANGED <<desk, roleVars, key, plan, codeVars>>
    PROVE  AdminInv' /\ NoneReturns
<1>1. /\ CredsInv' /\ CredRequestsInv' /\ late \subseteq late'
      /\ \A c \in Creds : cred[c].state = "revoked" => cred'[c].state = "revoked"
  <2>1. ASSUME NEW w \in Workers, CredStep(w)
        PROVE  /\ CredsInv' /\ CredRequestsInv' /\ late \subseteq late'
               /\ \A c \in Creds : cred[c].state = "revoked" => cred'[c].state = "revoked"
    BY <2>1, CredStepKeeps DEF AdminInv
  <2>2. ASSUME NEW w \in Workers, Fail(w) /\ UNCHANGED credVars
        PROVE  /\ CredsInv' /\ CredRequestsInv' /\ late \subseteq late'
               /\ \A c \in Creds : cred[c].state = "revoked" => cred'[c].state = "revoked"
    BY <2>2, FailKeepsCreds, CredsStay DEF AdminInv, Fail, credVars
  <2>3. CASE ClockStep
    BY <2>3, ClockStepKeeps DEF AdminInv
  <2> QED BY <2>1, <2>2, <2>3
<1>2. RolesInv' /\ KeysInv' /\ PlansInv' /\ CodesInv'
  BY <1>1, RolesStay, KeysStay, PlansStay, CodesStay DEF AdminInv
<1> QED BY <1>1, <1>2 DEF AdminInv, NoneReturns

LEMMA CodesDesk ==
    ASSUME AdminInv, desk = "codes", NEW w \in Workers, CodeStep(w) \/ (Fail(w) /\ UNCHANGED codeVars),
           UNCHANGED <<desk, roleVars, key, plan, credVars>>
    PROVE  AdminInv' /\ NoneReturns
<1>1. CodesInv' /\ CodeRequestsInv' /\ late \subseteq late'
  <2>1. CASE CodeStep(w)
    BY <2>1, CodeStepKeeps DEF AdminInv
  <2>2. CASE Fail(w) /\ UNCHANGED codeVars
    BY <2>2, FailKeepsCodes, CodesStay DEF AdminInv, Fail
  <2> QED BY <2>1, <2>2
<1>2. RolesInv' /\ KeysInv' /\ PlansInv' /\ CredsInv'
  BY <1>1, RolesStay, KeysStay, PlansStay, CredsStay DEF AdminInv
<1> QED BY <1>1, <1>2 DEF AdminInv, NoneReturns, credVars

(* Nothing changes. *)
LEMMA AdminStutters ==
    ASSUME AdminInv, UNCHANGED vars
    PROVE  AdminInv' /\ NoneReturns
<1>1. RolesInv' /\ KeysInv' /\ PlansInv' /\ CredsInv' /\ CodesInv'
  BY RolesStay, KeysStay, PlansStay, CredsStay, CodesStay DEF AdminInv, vars
<1>2. desk = "roles" => RoleRequestsInv'
  BY DEF AdminInv, vars, roleVars, RoleRequestsInv, RoleRequestOK, Owners, Of, Granting
<1>3. desk = "keys" => KeyRequestsInv'
  BY DEF AdminInv, vars, KeyRequestsInv, KeyRequestOK, Counting, Active, Creating
<1>4. desk = "plans" => PlanRequestsInv'
  BY DEF AdminInv, vars, PlanRequestsInv, PlanRequestOK
<1>5. desk = "credentials" => CredRequestsInv'
  BY DEF AdminInv, vars, credVars, CredRequestsInv, CredRequestOK
<1>6. ASSUME desk = "codes"
      PROVE  CodeRequestsInv'
  <2>1. \A w \in Workers : (RecodeOK(tx[w]) /\ SignupOK(tx[w]))'
    BY SMTT(30), <1>6 DEF AdminInv, vars, codeVars, CodeRequestsInv, RecodeOK, SignupOK, Missed, Takes,
                Leaves, HasRoom, Former, Crossed
  <2> QED BY <1>6, <2>1 DEF AdminInv, vars, CodeRequestsInv
<1> QED BY <1>1, <1>2, <1>3, <1>4, <1>5, <1>6 DEF AdminInv, NoneReturns, vars, credVars

LEMMA AdminStep ==
    ASSUME AdminInv, [Next]_vars
    PROVE  AdminInv' /\ NoneReturns
<1>1. desk \in {"roles", "keys", "plans", "credentials", "codes"}
  BY AdministrationAssumption DEF AdminInv
<1>2. CASE UNCHANGED vars
  BY <1>2, AdminStutters
<1>3. ASSUME NEW w \in Workers, desk = "roles", RoleStep(w),
             UNCHANGED <<desk, key, plan, credVars, codeVars>>
      PROVE  AdminInv' /\ NoneReturns
  BY <1>3, RolesDesk
<1>4. ASSUME NEW w \in Workers, desk = "keys", KeyStep(w),
             UNCHANGED <<desk, roleVars, plan, credVars, codeVars>>
      PROVE  AdminInv' /\ NoneReturns
  BY <1>4, KeysDesk
<1>5. ASSUME NEW w \in Workers, desk = "plans", PlanStep(w),
             UNCHANGED <<desk, roleVars, key, credVars, codeVars>>
      PROVE  AdminInv' /\ NoneReturns
  BY <1>5, PlansDesk
<1>6. ASSUME NEW w \in Workers, desk = "credentials", CredStep(w),
             UNCHANGED <<desk, roleVars, key, plan, codeVars>>
      PROVE  AdminInv' /\ NoneReturns
  BY <1>6, CredsDesk
<1>7. ASSUME NEW w \in Workers, desk = "codes", CodeStep(w),
             UNCHANGED <<desk, roleVars, key, plan, credVars>>
      PROVE  AdminInv' /\ NoneReturns
  BY <1>7, CodesDesk
<1>8. ASSUME NEW w \in Workers, Fail(w), UNCHANGED <<desk, roleVars, key, plan, credVars, codeVars>>
      PROVE  AdminInv' /\ NoneReturns
  BY <1>1, <1>8, RolesDesk, KeysDesk, PlansDesk, CredsDesk, CodesDesk
<1>9. ASSUME desk = "credentials", ClockStep, UNCHANGED <<desk, roleVars, key, plan, codeVars>>
      PROVE  AdminInv' /\ NoneReturns
  BY <1>9, CredsDesk
<1> QED BY <1>2, <1>3, <1>4, <1>5, <1>6, <1>7, <1>8, <1>9 DEF Next

LEMMA AdminInvariant == Spec => []AdminInv
<1>1. AdminInv /\ [Next]_vars => AdminInv'
  BY AdminStep
<1> QED BY AdminStart, <1>1, PTL DEF Spec

(* The requests under way are as idle and as stale as they may be. *)
LEMMA AdminTypes == AdminInv => TypeOK
<1> SUFFICES ASSUME AdminInv PROVE OverlapTypeOK
  BY DEF AdminInv, TypeOK, RolesInv, KeysInv, PlansInv, CredsInv, CodesInv
<1>1. desk \in {"roles", "keys", "plans", "credentials", "codes"}
  BY AdministrationAssumption DEF AdminInv
<1>2. CASE desk = "roles"
  BY <1>2 DEF AdminInv, RoleRequestsInv, RoleRequests, OverlapTypeOK, Idle
<1>3. CASE desk = "keys"
  BY <1>3 DEF AdminInv, KeyRequestsInv, KeyRequests, KeyRequestOK, OverlapTypeOK, Idle
<1>4. CASE desk = "plans"
  <2> SUFFICES ASSUME NEW w \in Workers
               PROVE  (tx[w].op = "idle" => tx[w] = Idle) /\ tx[w].stale \subseteq tx[w].minds
    BY DEF OverlapTypeOK
  <2>1. tx[w] \in PlanRequests /\ PlanRequestOK(tx[w])
    BY <1>4 DEF AdminInv, PlanRequestsInv
  <2> QED BY <2>1 DEF PlanRequests, PlanRequestOK, Idle
<1>5. CASE desk = "credentials"
  BY <1>5 DEF AdminInv, CredRequestsInv, CredRequests, OverlapTypeOK, Idle
<1>6. CASE desk = "codes"
  <2> SUFFICES ASSUME NEW w \in Workers
               PROVE  (tx[w].op = "idle" => tx[w] = Idle) /\ tx[w].stale \subseteq tx[w].minds
    BY DEF OverlapTypeOK
  <2>1. tx[w] \in CodeRequests /\ RecodeOK(tx[w]) /\ SignupOK(tx[w])
    BY <1>6 DEF AdminInv, CodeRequestsInv
  <2>2. tx[w] = Idle \/ tx[w].op \in {"recode", "signup"}
    BY <2>1 DEF CodeRequests
  <2>3. CASE tx[w] = Idle
    BY <2>3 DEF Idle
  <2>4. CASE tx[w].op = "recode"
    BY <2>1, <2>4 DEF RecodeOK
  <2>5. CASE tx[w].op = "signup"
    BY <2>1, <2>5 DEF SignupOK
  <2> QED BY <2>2, <2>3, <2>4, <2>5
<1> QED BY <1>1, <1>2, <1>3, <1>4, <1>5, <1>6

-----------------------------------------------------------------------------
(* An owner remains, an account that can sign in, no owner was made but by *)
(* an owner, and no role is granted more often than there are requests,    *)
(* however grants, revocations and disabling overlap, unless the write was *)
(* over one that had not been read.  (admin/service.py: grant_role,        *)
(* revoke_role, disable_user.)                                             *)
THEOREM RolesHeld == Spec => []RolesAreHeld
<1>1. AdminInv => RolesAreHeld
  BY AdminTypes DEF AdminInv, RolesInv, RolesAreHeld
<1> QED BY AdminInvariant, <1>1, PTL

(* Keys are created within the limit, but for those requests that overlap; *)
(* a spend cap keeps its window; and a minute lets no more requests in     *)
(* than rate_limit_per_minute.  (api_keys/service.py: create_key,          *)
(* update_key, enforce_rate_limit.)                                        *)
THEOREM KeyLimitsKept == Spec => []KeyLimitsHold
<1>1. AdminInv => KeyLimitsHold
  BY DEF AdminInv, KeysInv, CredsInv, KeyLimitsHold
<1> QED BY AdminInvariant, <1>1, PTL

(* No fixture is on sale and a price belongs to one plan, in whichever     *)
(* column and however edits overlap, unless one was over another.          *)
(* (admin/service.py: _ensure_unique_billing_plan, update_billing_plan.)   *)
THEOREM PlansStaySellable == Spec => []PlansSellable
<1>1. AdminInv => PlansSellable
  BY DEF AdminInv, PlansInv
<1> QED BY AdminInvariant, <1>1, PTL

(* A shared link leads to who shared it and earns for that user, and       *)
(* former codes are limited, unless changes of the same codes overlap.     *)
(* (referrals/service.py: set_custom_code, attribute_signup.)              *)
THEOREM SharedLinksWork == Spec => []LinksKeepWorking
<1>1. AdminInv => LinksKeepWorking
  BY DEF AdminInv, CodesInv
<1> QED BY AdminInvariant, <1>1, PTL

(* Whatever is written back late, a key or client that is revoked is not   *)
(* in use again.  (api_keys/service.py: update_key, authenticate_key;      *)
(* service_clients/service.py: authenticate_token.)                        *)
THEOREM RevokedStays == Spec => RevokedStaysRevoked
<1>1. AdminInv /\ [Next]_vars => NoneReturns
  BY AdminStep
<1> QED BY AdminInvariant, <1>1, PTL DEF Spec, RevokedStaysRevoked, NoneReturns

=============================================================================
