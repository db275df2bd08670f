--------------------------- MODULE AccountsProofs ---------------------------
(***************************************************************************)
(* How an account is entered and left, for any numbers of logins, tokens,  *)
(* proofs of identity and attempts: the sessions for any set of requests   *)
(* that overlap, signing in for any finite one; the bound on wrong guesses *)
(* for two at a time.                                                      *)
(*                                                                         *)
(* Sessions.  A family has one live token because the UPDATE of a rotation *)
(* is conditional: its successor takes the place of the token it revoked.  *)
(* That what was ended stays ended depends on requests under way: those    *)
(* that are to end a family have all its live tokens to revoke (Covers),   *)
(* and those that revoke have read a token_version that is not beyond the  *)
(* stored one, and access tokens that are not either (Versions).           *)
(*                                                                         *)
(* Signing in.  Nothing that a request reads is locked, so the invariants  *)
(* say what it knows in spite of that: what it has in hand (Hand), whose   *)
(* the identity was when it looked for the account (Knows), what it has    *)
(* seen of the address (Saw), and how much the guesses and uses that are   *)
(* under way can still add to what was counted (GuessesInv, UsesInv).      *)
(***************************************************************************)
EXTENDS MCAccounts, FiniteSetTheorems, TLAPS

TxRows == [op : Operations, token : Tokens \union {<<>>}, version : Nat,
           bulk : BOOLEAN, todo : SUBSET Tokens, seen : SUBSET Families,
           old : SUBSET Tokens]

OneLive ==
    \A t, u \in Tokens : refresh[t] = "live" /\ refresh[u] = "live" /\ t[1] = u[1] => t = u

(* A family that is, or is about to be, ended: it has been issued. *)
Known(f) == \E t \in Tokens : t[1] = f /\ refresh[t] # "unused"

(* A request that is to end f revokes all that is live of it. *)
Covers ==
    \A w \in Workers : \A f \in tx[w].seen :
        /\ Known(f)
        /\ \A t \in Tokens : t[1] = f /\ refresh[t] = "live" => t \in tx[w].todo

Dead ==
    \A f \in ended :
        /\ Known(f)
        /\ \A t \in Tokens : t[1] = f => refresh[t] # "live"

(* A token that is being rotated has been issued. *)
Carries ==
    \A w \in Workers : tx[w].op = "refresh" =>
        tx[w].token \in Tokens /\ refresh[tx[w].token] # "unused"

FamiliesInv == TypeOK /\ Carries /\ OneLive /\ Covers /\ Dead

(* No token_version that anybody has read or written is beyond the stored  *)
(* one, and those that are barred are behind it.                           *)
VersionsInv ==
    \/ lapped
    \/ /\ \A t \in Tokens : refresh[t] # "unused" => access[t] =< tokenVersion
       /\ \A w \in Workers : tx[w].version =< tokenVersion
       /\ \A w \in Workers : \A t \in tx[w].old : refresh[t] # "unused"
       /\ \A t \in barred : refresh[t] # "unused" /\ access[t] < tokenVersion

-----------------------------------------------------------------------------
(* A token is a pair, of its family and its place. *)
LEMMA TokenPairs ==
    ASSUME NEW t \in Tokens
    PROVE  t[1] \in Families /\ t[2] \in 1 .. Length[t[1]] /\ t = <<t[1], t[2]>>
  BY DEF Tokens

(* The idle request is one. *)
LEMMA FreeTyped == Free \in TxRows
  BY DEF Free, TxRows, Operations

(* What a request keeps when a family is taken out of what it has seen. *)
LEMMA ForgetKeeps ==
    ASSUME NEW r \in TxRows, NEW S
    PROVE  LET q == [r EXCEPT !.seen = S]
           IN  q.op = r.op /\ q.token = r.token /\ q.version = r.version
               /\ q.todo = r.todo /\ q.old = r.old /\ q.seen = S
  BY DEF TxRows

(* Initially nothing is issued, ended or under way. *)
LEMMA InitInv == Init => FamiliesInv /\ VersionsInv
<1> SUFFICES ASSUME Init PROVE FamiliesInv /\ VersionsInv
  OBVIOUS
<1>1. TypeOK
  <2>1. active \in BOOLEAN /\ lapped \in BOOLEAN
    BY Zenon DEF Init
  <2>2. tx \in [Workers -> TxRows]
    BY FreeTyped, Zenon DEF Init
  <2>3. /\ refresh \in [Tokens -> {"unused", "live", "revoked"}]
        /\ access \in [Tokens -> Nat] /\ tokenVersion \in Nat
        /\ ended \subseteq Families /\ barred \subseteq Tokens
    BY DEF Init
  <2> QED
    BY <2>1, <2>2, <2>3, Zenon DEF TypeOK, TxRows
<1>2. Carries /\ OneLive /\ Covers /\ Dead
  BY DEF Init, Carries, OneLive, Covers, Dead, Free
<1>3. VersionsInv
  BY DEF Init, VersionsInv, Free
<1> QED
  BY <1>1, <1>2, <1>3 DEF FamiliesInv

-----------------------------------------------------------------------------
(* The three ways in which a step changes the rows of refresh_tokens, and  *)
(* one in which it changes none.                                           *)

(* A request begins, goes on or ends without a write to the tokens. *)
LEMMA WaitKeeps ==
    ASSUME FamiliesInv, NEW w \in Workers, NEW r \in TxRows,
           tx' = [tx EXCEPT ![w] = r],
           UNCHANGED <<tokenVars, tokenVersion, historyVars>>, active' \in BOOLEAN,
           r.op = "refresh" => r.token \in Tokens /\ refresh[r.token] # "unused",
           \A f \in r.seen :
              /\ Known(f)
              /\ \A t \in Tokens : t[1] = f /\ refresh[t] = "live" => t \in r.todo
    PROVE  FamiliesInv'
<1>1. tx' \in [Workers -> TxRows]
  BY Zenon DEF FamiliesInv, TypeOK, TxRows
<1>2. TypeOK'
  BY <1>1 DEF FamiliesInv, TypeOK, TxRows, tokenVars, historyVars
<1>3. refresh' = refresh /\ ended' = ended
  BY DEF tokenVars, historyVars
<1>4. \A v \in Workers : tx'[v] = IF v = w THEN r ELSE tx[v]
  BY DEF FamiliesInv, TypeOK
<1>5. Carries' /\ Covers'
  BY <1>3, <1>4 DEF FamiliesInv, Carries, Covers, Known
<1>6. OneLive' /\ Dead'
  BY <1>3 DEF FamiliesInv, OneLive, Dead, Known
<1> QED
  BY <1>2, <1>5, <1>6 DEF FamiliesInv

(* A request revokes the rows it has found, and ends its families. *)
LEMMA RevokeKeeps ==
    ASSUME FamiliesInv, NEW w \in Workers,
           tx' = [tx EXCEPT ![w] = Free],
           refresh' = Revoked(tx[w].todo), ended' = ended \union tx[w].seen,
           access' = access, tokenVersion' \in Nat, active' \in BOOLEAN,
           barred' \subseteq Tokens, lapped' \in BOOLEAN
    PROVE  FamiliesInv'
<1>1. tx' \in [Workers -> TxRows]
  BY FreeTyped, Zenon DEF FamiliesInv, TypeOK, TxRows
<1>2. refresh' \in [Tokens -> {"unused", "live", "revoked"}]
  BY DEF FamiliesInv, TypeOK, Revoked
<1>3. ended' \subseteq Families
  BY DEF FamiliesInv, TypeOK
<1>4. TypeOK'
  BY <1>1, <1>2, <1>3, Zenon DEF FamiliesInv, TypeOK, TxRows
<1>5. \A t \in Tokens : /\ refresh'[t] = "unused" <=> refresh[t] = "unused"
                        /\ refresh'[t] = "live" <=> refresh[t] = "live" /\ t \notin tx[w].todo
  BY DEF FamiliesInv, TypeOK, Revoked
<1>6. \A v \in Workers : tx'[v] = IF v = w THEN Free ELSE tx[v]
  BY DEF FamiliesInv, TypeOK
<1>7. \A f : Known(f)' <=> Known(f)
  BY <1>5 DEF Known
<1>8. Carries'
  BY <1>5, <1>6 DEF FamiliesInv, Carries, Free
<1>9. OneLive'
  BY <1>5 DEF FamiliesInv, OneLive
<1>10. Covers'
  <2> SUFFICES ASSUME NEW v \in Workers, NEW f \in tx'[v].seen
               PROVE  /\ Known(f)'
                      /\ \A t \in Tokens : t[1] = f /\ refresh'[t] = "live" => t \in tx'[v].todo
    BY DEF Covers
  <2>1. v # w /\ tx'[v] = tx[v]
    BY <1>6 DEF Free
  <2> QED
    BY <2>1, <1>5, <1>7 DEF FamiliesInv, Covers
<1>11. Dead'
  BY <1>5, <1>7 DEF FamiliesInv, Dead, Covers
<1> QED
  BY <1>4, <1>8, <1>9, <1>10, <1>11 DEF FamiliesInv

(* A login issues the first token of a family of its own. *)
LEMMA LoginKeeps ==
    ASSUME FamiliesInv, NEW w \in Workers, NEW f \in Families, LoginCommit(w, f)
    PROVE  FamiliesInv'
<1> DEFINE new == <<f, 1>>
<1>1. /\ tx' = [tx EXCEPT ![w] = Free]
      /\ refresh' = [refresh EXCEPT ![new] = "live"]
      /\ access' = [access EXCEPT ![new] = tx[w].version]
      /\ UNCHANGED <<tokenVersion, active, ended, barred, lapped>>
  BY DEF LoginCommit, Issue, End, VersionWritten, userVars, historyVars
<1>2. \A t \in Tokens : t[1] = f => refresh[t] = "unused"
  BY DEF LoginCommit, Of, Issued
<1>3. tx' \in [Workers -> TxRows]
  BY <1>1, FreeTyped, Zenon DEF FamiliesInv, TypeOK, TxRows
<1>4. TypeOK'
  BY <1>1, <1>3 DEF FamiliesInv, TypeOK, TxRows
<1>5. \A t \in Tokens : refresh'[t] = IF t = new THEN "live" ELSE refresh[t]
  BY <1>1 DEF FamiliesInv, TypeOK
<1>6. \A v \in Workers : tx'[v] = IF v = w THEN Free ELSE tx[v]
  BY <1>1 DEF FamiliesInv, TypeOK
<1>7. \A g : Known(g) => g # f /\ Known(g)'
  BY <1>2, <1>5 DEF Known
<1>8. Carries'
  BY <1>5, <1>6 DEF FamiliesInv, Carries, Free
<1>9. OneLive'
  BY <1>2, <1>5 DEF FamiliesInv, OneLive
<1>10. Covers'
  BY <1>5, <1>6, <1>7 DEF FamiliesInv, Covers, Free
<1>11. Dead'
  BY <1>1, <1>5, <1>7 DEF FamiliesInv, Dead
<1> QED
  BY <1>4, <1>8, <1>9, <1>10, <1>11 DEF FamiliesInv

(* A rotation puts a successor in the place of the token it revokes, and   *)
(* nobody counts on having seen the whole family any more.                 *)
LEMMA RotateKeeps ==
    ASSUME FamiliesInv, NEW w \in Workers, NEW t \in Tokens, NEW u \in Tokens, u[1] = t[1],
           Rotate(w, t, u), UNCHANGED <<userVars, historyVars>>
    PROVE  FamiliesInv'
<1>1. /\ refresh[t] = "live" /\ u # t
      /\ refresh' = [[refresh EXCEPT ![t] = "revoked"] EXCEPT ![u] = "live"]
      /\ access' = [access EXCEPT ![u] = tx[w].version]
      /\ refresh[u] = "unused"
  BY DEF Rotate, Issue, VersionWritten, FamiliesInv, TypeOK
<1>2. \A v \in Workers :
         tx'[v] = IF v = w THEN Free ELSE [tx[v] EXCEPT !.seen = @ \ {t[1]}]
  BY DEF Rotate
<1> DEFINE Forgot(v) == tx[v].seen \ {t[1]}
<1>21. \A v \in Workers : v # w =>
          /\ tx'[v].op = tx[v].op /\ tx'[v].token = tx[v].token
          /\ tx'[v].version = tx[v].version /\ tx'[v].todo = tx[v].todo
          /\ tx'[v].old = tx[v].old /\ tx'[v].seen = Forgot(v)
  <2> SUFFICES ASSUME NEW v \in Workers, v # w
               PROVE  /\ tx'[v].op = tx[v].op /\ tx'[v].token = tx[v].token
                      /\ tx'[v].version = tx[v].version /\ tx'[v].todo = tx[v].todo
                      /\ tx'[v].old = tx[v].old /\ tx'[v].seen = Forgot(v)
    OBVIOUS
  <2>1. tx[v] \in TxRows
    BY DEF FamiliesInv, TypeOK, TxRows
  <2>2. tx'[v] = [tx[v] EXCEPT !.seen = Forgot(v)]
    BY <1>2
  <2> HIDE DEF Forgot
  <2> QED
    BY <2>1, <2>2, ForgetKeeps
<1>22. tx'[w] = Free
  BY <1>2
<1>3. tx' \in [Workers -> TxRows]
  <2>1. \A v \in Workers : [tx[v] EXCEPT !.seen = @ \ {t[1]}] \in TxRows
    BY DEF FamiliesInv, TypeOK, TxRows
  <2> QED
    BY <2>1, FreeTyped DEF Rotate
<1>4. TypeOK'
  BY <1>1, <1>3 DEF FamiliesInv, TypeOK, TxRows, userVars, historyVars
<1>5. \A x \in Tokens :
         refresh'[x] = IF x = u THEN "live" ELSE IF x = t THEN "revoked" ELSE refresh[x]
  BY <1>1 DEF FamiliesInv, TypeOK
<1>6. \A g : Known(g) => Known(g)'
  BY <1>5 DEF Known
<1>7. Carries'
  <2>1. \A v \in Workers : tx'[v].op = "refresh" => v # w /\ tx'[v].token = tx[v].token
                                                  /\ tx[v].op = "refresh"
    BY <1>21, <1>22 DEF Free
  <2> QED
    BY <2>1, <1>5 DEF FamiliesInv, Carries
<1>8. OneLive'
  BY <1>1, <1>5 DEF FamiliesInv, OneLive
<1>9. Covers'
  <2> SUFFICES ASSUME NEW v \in Workers, NEW f \in tx'[v].seen
               PROVE  /\ Known(f)'
                      /\ \A x \in Tokens : x[1] = f /\ refresh'[x] = "live" => x \in tx'[v].todo
    BY DEF Covers
  <2>1. f # t[1] /\ f \in tx[v].seen /\ tx'[v].todo = tx[v].todo
    BY <1>21, <1>22 DEF Free
  <2> QED
    BY <2>1, <1>5, <1>6 DEF FamiliesInv, Covers
<1>10. Dead'
  <2>1. t[1] \notin ended
    BY <1>1 DEF FamiliesInv, Dead
  <2> QED
    BY <2>1, <1>5, <1>6 DEF FamiliesInv, Dead, historyVars
<1> QED
  BY <1>4, <1>7, <1>8, <1>9, <1>10 DEF FamiliesInv

-----------------------------------------------------------------------------
(* The same steps and the token_versions. *)

(* A request begins, goes on or ends: it has read the stored version. *)
LEMMA WaitVersions ==
    ASSUME FamiliesInv, VersionsInv, NEW w \in Workers, NEW r \in TxRows,
           tx' = [tx EXCEPT ![w] = r],
           UNCHANGED <<tokenVars, tokenVersion, historyVars>>,
           r.version = tokenVersion \/ r.version = 0 \/ r.version = tx[w].version,
           \A t \in r.old : refresh[t] # "unused" \/ t \in tx[w].old
    PROVE  VersionsInv'
<1>1. UNCHANGED <<refresh, access, tokenVersion, barred, lapped>>
  BY DEF tokenVars, historyVars
<1>2. CASE lapped
  BY <1>1, <1>2 DEF VersionsInv
<1>3. CASE ~ lapped
  <2>1. \A v \in Workers : tx'[v] = IF v = w THEN r ELSE tx[v]
    BY DEF FamiliesInv, TypeOK
  <2>2. tokenVersion \in Nat
    BY DEF FamiliesInv, TypeOK
  <2>3. r.version =< tokenVersion /\ \A t \in r.old : refresh[t] # "unused"
    BY <1>3, <2>2 DEF VersionsInv
  <2> QED
    BY <1>1, <1>3, <2>1, <2>3 DEF VersionsInv
<1> QED
  BY <1>2, <1>3

(* A request revokes rows and leaves the token_version alone. *)
LEMMA EndVersions ==
    ASSUME FamiliesInv, VersionsInv, NEW w \in Workers, EndCommit(w)
    PROVE  VersionsInv'
<1>1. /\ tx' = [tx EXCEPT ![w] = Free] /\ refresh' = Revoked(tx[w].todo)
      /\ UNCHANGED <<access, tokenVersion, barred, lapped>>
  BY DEF EndCommit, End, userVars
<1>2. \A v \in Workers : tx'[v] = IF v = w THEN Free ELSE tx[v]
  BY <1>1 DEF FamiliesInv, TypeOK
<1>3. \A t \in Tokens : refresh'[t] = "unused" <=> refresh[t] = "unused"
  BY <1>1 DEF FamiliesInv, TypeOK, Revoked
<1>4. /\ tokenVersion \in Nat /\ barred \subseteq Tokens
      /\ \A v \in Workers : tx[v].old \subseteq Tokens
  BY DEF FamiliesInv, TypeOK
<1> QED
  BY <1>1, <1>2, <1>3, <1>4 DEF VersionsInv, Free

(* A request revokes everything: the version goes up by one, or it has     *)
(* been written over another's.                                            *)
LEMMA RevocationVersions ==
    ASSUME FamiliesInv, VersionsInv, NEW w \in Workers, RevokeAllCommit(w)
    PROVE  VersionsInv'
<1>1. /\ tx' = [tx EXCEPT ![w] = Free] /\ refresh' = Revoked(tx[w].todo)
      /\ access' = access /\ tokenVersion' = tx[w].version + 1
      /\ barred' = barred \union tx[w].old
      /\ lapped' = (lapped \/ tokenVersion # tx[w].version)
  BY DEF RevokeAllCommit, End, NextVersion
<1>2. CASE lapped \/ tokenVersion # tx[w].version
  BY <1>1, <1>2 DEF VersionsInv
<1>3. CASE ~ lapped /\ tokenVersion = tx[w].version
  <2>1. \A v \in Workers : tx'[v] = IF v = w THEN Free ELSE tx[v]
    BY <1>1 DEF FamiliesInv, TypeOK
  <2>2. \A t \in Tokens : refresh'[t] = "unused" <=> refresh[t] = "unused"
    BY <1>1 DEF FamiliesInv, TypeOK, Revoked
  <2>3. /\ tokenVersion \in Nat /\ barred \subseteq Tokens
        /\ \A t \in Tokens : access[t] \in Nat
        /\ \A v \in Workers : tx[v].old \subseteq Tokens /\ tx[v].version \in Nat
    BY DEF FamiliesInv, TypeOK
  <2>4. tokenVersion' = tokenVersion + 1
    BY <1>1, <1>3
  <2>5. \A t \in Tokens : refresh'[t] # "unused" => access'[t] < tokenVersion'
    BY <1>1, <1>3, <2>2, <2>3, <2>4 DEF VersionsInv
  <2>6. \A v \in Workers : tx'[v].version =< tokenVersion'
    BY <1>3, <2>1, <2>3, <2>4 DEF VersionsInv, Free
  <2>7. \A v \in Workers : \A t \in tx'[v].old : refresh'[t] # "unused"
    BY <1>3, <2>1, <2>2, <2>3 DEF VersionsInv, Free
  <2>8. \A t \in barred' : t \in Tokens /\ refresh'[t] # "unused"
    BY <1>1, <1>3, <2>2, <2>3 DEF VersionsInv
  <2>9. tokenVersion' \in Nat /\ \A t \in Tokens : access'[t] \in Nat
    BY <1>1, <2>3, <2>4
  <2> QED
    BY <2>5, <2>6, <2>7, <2>8, <2>9 DEF VersionsInv
<1> QED
  BY <1>2, <1>3

(* A pair of tokens is issued, with a version that was read. *)
LEMMA IssueVersions ==
    ASSUME FamiliesInv, VersionsInv, NEW w \in Workers, NEW u \in Tokens,
           refresh[u] = "unused",
           \A x \in Tokens : refresh'[x] = "unused" <=> refresh[x] = "unused" /\ x # u,
           access' = [access EXCEPT ![u] = tx[w].version],
           UNCHANGED <<tokenVersion, barred, lapped>>,
           tx'[w] = Free,
           \A v \in Workers : v # w => /\ tx'[v].version = tx[v].version
                                       /\ tx'[v].old = tx[v].old
    PROVE  VersionsInv'
<1>1. /\ tokenVersion \in Nat /\ barred \subseteq Tokens
      /\ \A v \in Workers : tx[v].old \subseteq Tokens
      /\ \A x \in Tokens : access'[x] = IF x = u THEN tx[w].version ELSE access[x]
  BY DEF FamiliesInv, TypeOK
<1>2. CASE lapped
  BY <1>2 DEF VersionsInv
<1>3. CASE ~ lapped
  <2>1. \A x \in Tokens : refresh'[x] # "unused" => access'[x] =< tokenVersion'
    BY <1>1, <1>3 DEF VersionsInv
  <2>2. \A v \in Workers : tx'[v].version =< tokenVersion'
    BY <1>1, <1>3 DEF VersionsInv, Free
  <2>3. \A v \in Workers : \A x \in tx'[v].old : refresh'[x] # "unused"
    BY <1>1, <1>3 DEF VersionsInv, Free
  <2>4. \A x \in barred' : refresh'[x] # "unused" /\ access'[x] < tokenVersion'
    BY <1>1, <1>3 DEF VersionsInv
  <2> QED
    BY <2>1, <2>2, <2>3, <2>4 DEF VersionsInv
<1> QED
  BY <1>2, <1>3

-----------------------------------------------------------------------------
(* Every action keeps both. *)
Inv == FamiliesInv /\ VersionsInv

(* A request that only waits keeps them. *)
LEMMA WaitInv ==
    ASSUME Inv, NEW w \in Workers, NEW r \in TxRows, tx' = [tx EXCEPT ![w] = r],
           UNCHANGED <<tokenVars, tokenVersion, historyVars>>, active' \in BOOLEAN,
           r.op = "refresh" => r.token \in Tokens /\ refresh[r.token] # "unused",
           \A f \in r.seen :
              /\ Known(f)
              /\ \A t \in Tokens : t[1] = f /\ refresh[t] = "live" => t \in r.todo,
           r.version = tokenVersion \/ r.version = 0 \/ r.version = tx[w].version,
           \A t \in r.old : refresh[t] # "unused" \/ t \in tx[w].old
    PROVE  Inv'
<1>1. FamiliesInv'
  BY WaitKeeps DEF Inv
<1>2. VersionsInv'
  BY WaitVersions DEF Inv
<1> QED
  BY <1>1, <1>2 DEF Inv

(* A request that starts with the user row alone. *)
LEMMA BeginInv ==
    ASSUME Inv, NEW w \in Workers, NEW r \in TxRows, tx' = [tx EXCEPT ![w] = r],
           UNCHANGED <<tokenVars, userVars, historyVars>>,
           r.op # "refresh", r.seen = {}, r.version = tokenVersion \/ r.version = 0,
           r.old = {} \/ r.old = Issued
    PROVE  Inv'
<1>1. UNCHANGED <<tokenVars, tokenVersion, historyVars>> /\ active' \in BOOLEAN
  BY DEF userVars, Inv, FamiliesInv, TypeOK
<1>2. \A t \in r.old : refresh[t] # "unused"
  BY DEF Issued
<1> QED
  BY <1>1, <1>2, WaitInv

(* A request that starts to end the family of a token that is issued. *)
LEMMA CutInv ==
    ASSUME Inv, NEW w \in Workers, NEW t \in Issued, NEW op \in {"cut", "logout"},
           NEW R \in SUBSET Tokens, NEW S \in SUBSET {t[1]},
           tx' = [tx EXCEPT ![w] = [Free EXCEPT !.op = op, !.todo = R, !.seen = S]],
           UNCHANGED <<tokenVars, userVars, historyVars>>,
           S # {} => \A x \in Tokens : x[1] = t[1] /\ refresh[x] = "live" => x \in R
    PROVE  Inv'
<1> DEFINE r == [Free EXCEPT !.op = op, !.todo = R, !.seen = S]
<1>1. t \in Tokens /\ refresh[t] # "unused" /\ t[1] \in Families
  BY TokenPairs DEF Issued
<1>2. r \in TxRows
  BY <1>1 DEF Free, TxRows, Operations
<1>3. r.op = op /\ r.todo = R /\ r.seen = S /\ r.version = 0 /\ r.old = {}
  BY DEF Free
<1>4. \A f \in S : f = t[1] /\ Known(f)
  BY <1>1 DEF Known
<1>5. UNCHANGED <<tokenVars, tokenVersion, historyVars>> /\ active' \in BOOLEAN
  BY DEF userVars, Inv, FamiliesInv, TypeOK
<1>6. tx' = [tx EXCEPT ![w] = r]
  OBVIOUS
<1> HIDE DEF r
<1> QED
  BY <1>2, <1>3, <1>4, <1>5, <1>6, WaitInv

(* POST /auth/refresh, as far as it reads. *)
LEMMA RefreshInv ==
    ASSUME Inv, NEW w \in Workers, NEW t \in Tokens, NEW past \in BOOLEAN,
           RefreshBegin(w, t, past)
    PROVE  Inv'
<1>1. t \in Issued /\ UNCHANGED <<tokenVars, userVars, historyVars>>
  BY DEF RefreshBegin
<1>2. CASE refresh[t] = "revoked" \/ past
  <2>1. tx' = [tx EXCEPT ![w] = [Free EXCEPT !.op = "cut", !.todo = FamilyLive(t),
                                             !.seen = {t[1]}]]
    BY <1>2 DEF RefreshBegin, BeginEnding
  <2>2. FamilyLive(t) \in SUBSET Tokens
    BY DEF FamilyLive, Live
  <2>3. \A x \in Tokens : x[1] = t[1] /\ refresh[x] = "live" => x \in FamilyLive(t)
    BY DEF FamilyLive, Live, Of
  <2> QED
    BY <1>1, <2>1, <2>2, <2>3, CutInv
<1>3. CASE ~ (refresh[t] = "revoked" \/ past)
  <2> DEFINE r == [Free EXCEPT !.op = "refresh", !.token = t, !.version = tokenVersion]
  <2>1. tx' = [tx EXCEPT ![w] = r]
    BY <1>3 DEF RefreshBegin
  <2>2. tokenVersion \in Nat /\ active' \in BOOLEAN
        /\ UNCHANGED <<tokenVars, tokenVersion, historyVars>>
    BY <1>1 DEF userVars, Inv, FamiliesInv, TypeOK
  <2>3. r \in TxRows
    BY <2>2 DEF Free, TxRows, Operations
  <2>4. r.token = t /\ r.seen = {} /\ r.version = tokenVersion /\ r.old = {}
    BY DEF Free
  <2>5. refresh[t] # "unused"
    BY <1>1 DEF Issued
  <2> HIDE DEF r
  <2> QED
    BY <2>1, <2>2, <2>3, <2>4, <2>5, WaitInv
<1> QED
  BY <1>2, <1>3

(* POST /auth/refresh, its UPDATE: it rotates, or it finds the token used. *)
LEMMA RefreshCommitInv ==
    ASSUME Inv, NEW w \in Workers, RefreshCommit(w)
    PROVE  Inv'
<1> DEFINE t == tx[w].token
<1>1. t \in Tokens /\ refresh[t] # "unused" /\ UNCHANGED <<userVars, historyVars>>
  BY DEF RefreshCommit, Inv, FamiliesInv, Carries
<1>2. ASSUME NEW u \in Of(t[1]), Rotate(w, t, u)
      PROVE  Inv'
  <2>1. u \in Tokens /\ u[1] = t[1]
    BY DEF Of
  <2>2. FamiliesInv'
    BY <1>1, <1>2, <2>1, RotateKeeps DEF Inv
  <2>3. /\ refresh[t] = "live"
        /\ refresh' = [[refresh EXCEPT ![t] = "revoked"] EXCEPT ![u] = "live"]
        /\ access' = [access EXCEPT ![u] = tx[w].version]
        /\ [refresh EXCEPT ![t] = "revoked"][u] = "unused"
    BY <1>2 DEF Rotate, Issue, VersionWritten
  <2>4. /\ refresh[u] = "unused"
        /\ \A x \in Tokens : refresh'[x] = "unused" <=> refresh[x] = "unused" /\ x # u
    BY <1>1, <2>1, <2>3 DEF Inv, FamiliesInv, TypeOK
  <2>5. tx'[w] = Free /\ \A v \in Workers : v # w =>
            tx'[v].version = tx[v].version /\ tx'[v].old = tx[v].old
    <3>1. \A v \in Workers :
             tx'[v] = IF v = w THEN Free ELSE [tx[v] EXCEPT !.seen = @ \ {t[1]}]
      BY <1>2 DEF Rotate
    <3>2. tx'[w] = Free
      BY <3>1
    <3>3. ASSUME NEW v \in Workers, v # w
          PROVE  tx'[v].version = tx[v].version /\ tx'[v].old = tx[v].old
      <4> DEFINE forgot == tx[v].seen \ {t[1]}
      <4>1. tx[v] \in TxRows
        BY DEF Inv, FamiliesInv, TypeOK, TxRows
      <4>2. tx'[v] = [tx[v] EXCEPT !.seen = forgot]
        BY <3>1, <3>3
      <4> HIDE DEF forgot
      <4> QED
        BY <4>1, <4>2, ForgetKeeps
    <3> QED
      BY <3>2, <3>3
  <2>6. UNCHANGED <<tokenVersion, barred, lapped>>
    BY <1>1 DEF userVars, historyVars
  <2>7. VersionsInv'
    BY <2>1, <2>3, <2>4, <2>5, <2>6, IssueVersions DEF Inv
  <2> QED
    BY <2>2, <2>7 DEF Inv
<1>3. CASE Reused(w, t)
  <2>1. /\ tx' = [tx EXCEPT ![w] = [Free EXCEPT !.op = "cut", !.todo = FamilyLive(t),
                                                !.seen = {t[1]}]]
        /\ UNCHANGED <<tokenVars, userVars, historyVars>>
    BY <1>1, <1>3 DEF Reused
  <2>2. FamilyLive(t) \in SUBSET Tokens /\ t \in Issued
    BY <1>1 DEF FamilyLive, Live, Issued
  <2>3. \A x \in Tokens : x[1] = t[1] /\ refresh[x] = "live" => x \in FamilyLive(t)
    BY DEF FamilyLive, Live, Of
  <2> HIDE DEF t
  <2> QED
    BY <2>1, <2>2, <2>3, CutInv
<1> QED
  BY <1>2, <1>3 DEF RefreshCommit

(* POST /auth/logout: its one row is all that lives of the family. *)
LEMMA LogoutInv ==
    ASSUME Inv, NEW w \in Workers, NEW t \in Tokens, LogoutBegin(w, t)
    PROVE  Inv'
<1> DEFINE R == {t} \intersect Live
           S == IF t \in Live THEN {t[1]} ELSE {}
<1>1. /\ t \in Issued /\ UNCHANGED <<tokenVars, userVars, historyVars>>
      /\ tx' = [tx EXCEPT ![w] = [Free EXCEPT !.op = "logout", !.todo = R, !.seen = S]]
  BY DEF LogoutBegin, BeginEnding
<1>2. S # {} => \A x \in Tokens : x[1] = t[1] /\ refresh[x] = "live" => x \in R
  BY DEF Live, Inv, FamiliesInv, OneLive
<1>3. R \in SUBSET Tokens /\ S \in SUBSET {t[1]}
  OBVIOUS
<1> HIDE DEF R, S
<1> QED
  BY <1>1, <1>2, <1>3, CutInv

(* The bulk UPDATE of a revocation takes its snapshot: all that lives. *)
LEMMA RevokeAllInv ==
    ASSUME Inv, NEW w \in Workers, RevokeAll(w)
    PROVE  Inv'
<1> DEFINE S == {t[1] : t \in Issued}
           r == [tx[w] EXCEPT !.bulk = TRUE, !.todo = Live, !.seen = S]
<1>1. /\ tx' = [tx EXCEPT ![w] = r] /\ tx[w].op # "refresh"
      /\ UNCHANGED <<tokenVars, userVars, historyVars>>
  BY DEF RevokeAll
<1>2. tx[w] \in TxRows
  BY DEF Inv, FamiliesInv, TypeOK, TxRows
<1>3. S \in SUBSET Families /\ Live \in SUBSET Tokens /\ \A f \in S : Known(f)
  BY TokenPairs DEF Issued, Live, Known
<1> HIDE DEF S
<1>4. r \in TxRows
  BY <1>2, <1>3 DEF TxRows
<1>5. /\ r.op = tx[w].op /\ r.todo = Live /\ r.seen = S
      /\ r.version = tx[w].version /\ r.old = tx[w].old
  BY <1>2 DEF TxRows
<1>6. UNCHANGED <<tokenVars, tokenVersion, historyVars>> /\ active' \in BOOLEAN
  BY <1>1 DEF userVars, Inv, FamiliesInv, TypeOK
<1>7. \A f \in r.seen : /\ Known(f)
                        /\ \A t \in Tokens : t[1] = f /\ refresh[t] = "live" => t \in r.todo
  BY <1>3, <1>5 DEF Live
<1> HIDE DEF r
<1> QED
  BY <1>1, <1>4, <1>5, <1>6, <1>7, WaitInv

-----------------------------------------------------------------------------
(* The row with which a revocation begins. *)
LEMMA RevocationRow ==
    ASSUME Inv, NEW op \in {"password", "disable", "revoke"}
    PROVE  LET r == [Free EXCEPT !.op = op, !.version = tokenVersion, !.old = Issued]
           IN  /\ r \in TxRows /\ r.op # "refresh" /\ r.seen = {}
               /\ r.version = tokenVersion /\ r.old = Issued
<1>1. tokenVersion \in Nat /\ Issued \subseteq Tokens
  BY DEF Inv, FamiliesInv, TypeOK, Issued
<1> QED
  BY <1>1 DEF Free, TxRows, Operations

(* An action of any request keeps the invariant. *)
LEMMA ActionKeeps ==
    ASSUME Inv, Next
    PROVE  Inv'
<1> USE DEF Inv
<1>1. ASSUME NEW w \in Workers, LoginBegin(w)  PROVE Inv'
  <2> DEFINE r == [Free EXCEPT !.op = "login", !.version = tokenVersion]
  <2>1. tx' = [tx EXCEPT ![w] = r]
    BY <1>1 DEF LoginBegin, Begin
  <2>2. UNCHANGED <<tokenVars, userVars, historyVars>>
    BY <1>1 DEF LoginBegin
  <2>3. tokenVersion \in Nat
    BY DEF FamiliesInv, TypeOK
  <2>4. /\ r \in TxRows /\ r.op # "refresh" /\ r.seen = {}
        /\ r.version = tokenVersion /\ r.old = {}
    BY <2>3 DEF Free, TxRows, Operations
  <2> HIDE DEF r
  <2> QED
    BY <2>1, <2>2, <2>4, BeginInv
<1>2. ASSUME NEW w \in Workers, NEW f \in Families, LoginCommit(w, f)  PROVE Inv'
  <2> DEFINE new == <<f, 1>>
  <2>1. FamiliesInv'
    BY <1>2, LoginKeeps
  <2>2. /\ tx' = [tx EXCEPT ![w] = Free]
        /\ refresh[new] = "unused" /\ refresh' = [refresh EXCEPT ![new] = "live"]
        /\ access' = [access EXCEPT ![new] = tx[w].version]
        /\ UNCHANGED <<tokenVersion, barred, lapped>>
    BY <1>2 DEF LoginCommit, Issue, End, VersionWritten, userVars, historyVars
  <2>3. \A v \in Workers : tx'[v] = IF v = w THEN Free ELSE tx[v]
    BY <2>2 DEF FamiliesInv, TypeOK
  <2>4. CASE new \in Tokens
    <3>1. \A x \in Tokens : refresh'[x] = "unused" <=> refresh[x] = "unused" /\ x # new
      BY <2>2, <2>4 DEF FamiliesInv, TypeOK
    <3> HIDE DEF new
    <3>2. /\ refresh[new] = "unused" /\ access' = [access EXCEPT ![new] = tx[w].version]
          /\ UNCHANGED <<tokenVersion, barred, lapped>>
      BY <2>2
    <3>3. /\ tx'[w] = Free
          /\ \A v \in Workers : v # w => /\ tx'[v].version = tx[v].version
                                        /\ tx'[v].old = tx[v].old
      BY <2>3
    <3>4. FamiliesInv /\ VersionsInv
      BY DEF Inv
    <3>5. VersionsInv'
      BY ONLY <2>4, <3>1, <3>2, <3>3, <3>4, IssueVersions
    <3> QED
      BY <2>1, <3>5
  <2>5. CASE new \notin Tokens
    <3>1. UNCHANGED <<refresh, access>>
      BY <2>2, <2>5 DEF FamiliesInv, TypeOK
    <3>2. /\ UNCHANGED <<tokenVars, tokenVersion, historyVars>>
          /\ Free.version = 0 /\ Free.old = {}
      BY <1>2, <2>2, <3>1 DEF LoginCommit, tokenVars, Free
    <3>3. VersionsInv'
      BY <2>2, <3>2, FreeTyped, WaitVersions
    <3> QED
      BY <2>1, <3>3
  <2> QED
    BY <2>4, <2>5
<1>3. ASSUME NEW w \in Workers, NEW t \in Tokens, NEW past \in BOOLEAN, RefreshBegin(w, t, past)
      PROVE  Inv'
  BY <1>3, RefreshInv
<1>4. ASSUME NEW w \in Workers, RefreshCommit(w)  PROVE Inv'
  BY <1>4, RefreshCommitInv
<1>5. ASSUME NEW w \in Workers, NEW t \in Tokens, LogoutBegin(w, t)  PROVE Inv'
  BY <1>5, LogoutInv
<1>6. ASSUME NEW w \in Workers, EndCommit(w)  PROVE Inv'
  <2>1. VersionsInv'
    BY <1>6, EndVersions
  <2>2. /\ tx' = [tx EXCEPT ![w] = Free] /\ refresh' = Revoked(tx[w].todo)
        /\ ended' = ended \union tx[w].seen
        /\ UNCHANGED <<access, tokenVersion, active, barred, lapped>>
    BY <1>6 DEF EndCommit, End, userVars
  <2>3. FamiliesInv'
    BY <2>2, RevokeKeeps DEF FamiliesInv, TypeOK
  <2> QED
    BY <2>1, <2>3
<1>7. ASSUME NEW w \in Workers, NEW op \in {"password", "disable", "revoke"},
             BeginRevocation(w, op), UNCHANGED <<tokenVars, userVars, historyVars>>
      PROVE  Inv'
  <2>1. tx' = [tx EXCEPT ![w] = [Free EXCEPT !.op = op, !.version = tokenVersion,
                                             !.old = Issued]]
    BY <1>7 DEF BeginRevocation
  <2> QED
    BY <1>7, <2>1, RevocationRow, BeginInv
<1>8. ASSUME NEW w \in Workers, RevokeAll(w)  PROVE Inv'
  BY <1>8, RevokeAllInv
<1>9. ASSUME NEW w \in Workers, RevokeAllCommit(w)  PROVE Inv'
  <2>1. VersionsInv'
    BY <1>9, RevocationVersions
  <2>2. /\ tx' = [tx EXCEPT ![w] = Free] /\ refresh' = Revoked(tx[w].todo)
        /\ access' = access /\ ended' = ended \union tx[w].seen
        /\ tokenVersion' = tx[w].version + 1
        /\ active' = (active /\ tx[w].op # "disable")
        /\ barred' = barred \union tx[w].old
        /\ lapped' = (lapped \/ tokenVersion # tx[w].version)
    BY <1>9 DEF RevokeAllCommit, End, NextVersion
  <2>3. tokenVersion' \in Nat /\ barred' \subseteq Tokens
    BY <2>2 DEF FamiliesInv, TypeOK
  <2>4. active' \in BOOLEAN /\ lapped' \in BOOLEAN
    BY <2>2, Zenon DEF FamiliesInv, TypeOK
  <2>5. FamiliesInv'
    BY <2>2, <2>3, <2>4, RevokeKeeps
  <2> QED
    BY <2>1, <2>5
<1>10. ASSUME NEW w \in Workers, EnableBegin(w)  PROVE Inv'
  <2> DEFINE r == [Free EXCEPT !.op = "enable", !.todo = {}, !.seen = {}]
  <2>1. tx' = [tx EXCEPT ![w] = r] /\ UNCHANGED <<tokenVars, userVars, historyVars>>
    BY <1>10 DEF EnableBegin, BeginEnding
  <2>2. /\ r \in TxRows /\ r.op # "refresh" /\ r.seen = {}
        /\ r.version = 0 /\ r.old = {}
    BY DEF Free, TxRows, Operations
  <2> HIDE DEF r
  <2> QED
    BY <2>1, <2>2, BeginInv
<1>11. ASSUME NEW w \in Workers, EnableCommit(w) \/ Fail(w)  PROVE Inv'
  <2>1. tx' = [tx EXCEPT ![w] = Free] /\ UNCHANGED <<tokenVars, tokenVersion, historyVars>>
    BY <1>11 DEF EnableCommit, Fail, End, userVars
  <2>2. active' = TRUE \/ active' = active
    BY <1>11 DEF EnableCommit, Fail, userVars
  <2>3. active' \in BOOLEAN
    BY <2>2, Zenon DEF FamiliesInv, TypeOK
  <2>4. Free.op # "refresh" /\ Free.seen = {} /\ Free.version = 0 /\ Free.old = {}
    BY DEF Free
  <2> QED
    BY <2>1, <2>3, <2>4, FreeTyped, WaitInv
<1> QED
  BY <1>1, <1>2, <1>3, <1>4, <1>5, <1>6, <1>7, <1>8, <1>9, <1>10, <1>11
  DEF Next, PasswordBegin, AdminBegin

(* The invariant is inductive: the strengthening the two properties need. *)
LEMMA InvHolds == Spec => []Inv
<1>1. Init => Inv
  BY InitInv DEF Inv
<1>2. Inv /\ [Next]_vars => Inv'
  <2>1. Inv /\ Next => Inv'
    BY ActionKeeps
  <2>2. Inv /\ UNCHANGED vars => Inv'
    BY DEF Inv, FamiliesInv, VersionsInv, TypeOK, Carries, OneLive, Covers, Dead, Known,
           vars, tokenVars, userVars, historyVars
  <2> QED
    BY <2>1, <2>2
<1> QED
  BY <1>1, <1>2, PTL DEF Spec

(* However the requests of an account overlap, a family of refresh tokens  *)
(* has at most one that can be used.                                       *)
THEOREM FamilyNeverForks == Spec => []OneLivePerFamily
<1>1. Inv => OneLivePerFamily
  BY DEF Inv, FamiliesInv, OneLive, OneLivePerFamily
<1> QED
  BY <1>1, InvHolds, PTL

(* A family that was ended has no token that can be used, and an access    *)
(* token from before a revocation is not accepted after it.                *)
THEOREM SessionsStayEnded == Spec => []EndedStaysEnded
<1>1. Inv => EndedFamiliesStayDead
  BY DEF Inv, FamiliesInv, Dead, EndedFamiliesStayDead, Of, Live
<1>2. Inv => BarredStaysBarred
  <2> SUFFICES ASSUME Inv, ~ lapped, NEW t \in barred PROVE access[t] # tokenVersion
    BY DEF BarredStaysBarred, Accepted
  <2>1. access[t] \in Nat /\ tokenVersion \in Nat
    BY DEF Inv, FamiliesInv, TypeOK
  <2> QED
    BY <2>1 DEF Inv, VersionsInv
<1> QED
  BY <1>1, <1>2, InvHolds, PTL DEF EndedStaysEnded

-----------------------------------------------------------------------------
(* Signing in.                                                             *)

(* What a request has in hand: a code or nonce that has been issued, read  *)
(* while it had attempts left; and what it does is part of the method.     *)
Hand(w) ==
    /\ requests[w].attempts < OtpMaxAttempts
    /\ requests[w].proof \in Proofs => proof[requests[w].proof].state # "none"
    /\ requests[w].op = "guess" => method = "phone" /\ requests[w].proof \in Proofs
    /\ requests[w].op = "link" => method # "oauth" /\ requests[w].proof \in Proofs
    /\ requests[w].op \in {"signin", "created"} =>
          method = "oauth" \/ requests[w].proof \in Proofs
    /\ requests[w].op \in {"verify", "email"} => method = "oauth"

(* A proof that is in use has attempts left and has not been accepted.     *)
InUse(n) ==
    proof[n].state = "live" => proof[n].attempts < OtpMaxAttempts /\ proof[n].uses = 0

SignInBase ==
    /\ SignIn!TypeOK
    /\ \A w \in Workers : Hand(w)
    /\ \A n \in Proofs : InUse(n)

(* The row of a request is a request.                                      *)
LEMMA FreeRequest ==
    /\ SignIn!Free \in SignIn!Requests
    /\ SignIn!Free.op = "idle" /\ SignIn!Free.proof = Nobody
    /\ SignIn!Free.attempts = 0 /\ SignIn!Free.attempts < OtpMaxAttempts
    /\ SignIn!Free.user = Nobody
  BY SignInAssumption DEF SignIn!Free, SignIn!Requests, SignIn!Purposes, SignIn!Emails

(* The columns beside the proofs and the requests. *)
ColumnsTyped ==
    /\ method \in SignIn!Methods
    /\ holder \in SignIn!Accounts \union {Nobody}
    /\ created \in BOOLEAN
    /\ email \in SignIn!Emails
    /\ verified \in BOOLEAN
    /\ proven \subseteq SignIn!Emails
    /\ excused \in BOOLEAN
    /\ crossed \in BOOLEAN

(* A step that gives a request nothing that it may not have.               *)
LEMMA BaseKept ==
    ASSUME SignInBase, NEW w \in Workers, ColumnsTyped', method' = method,
           proof' \in [Proofs -> SignIn!ProofStates],
           \A n \in Proofs : proof'[n].state = "none" => proof[n].state = "none",
           \A n \in Proofs : InUse(n)',
           NEW r \in SignIn!Requests,
           requests' = [requests EXCEPT ![w] = r],
           Hand(w)'
    PROVE  SignInBase'
<1>1. SignIn!TypeOK'
  BY DEF SignInBase, SignIn!TypeOK, ColumnsTyped
<1>2. ASSUME NEW v \in Workers, v # w PROVE Hand(v)'
  BY <1>2 DEF SignInBase, SignIn!TypeOK, Hand
<1> QED BY <1>1, <1>2 DEF SignInBase

(* A request has begun that has r in hand, and nothing else was written.   *)
LEMMA BeginBase ==
    ASSUME SignInBase, NEW w \in Workers,
           UNCHANGED <<method, proof, holder, created, email, verified, excused, crossed>>,
           proven' \subseteq SignIn!Emails,
           NEW r \in SignIn!Requests,
           requests' = [requests EXCEPT ![w] = r],
           r.attempts < OtpMaxAttempts,
           r.proof \in Proofs => proof[r.proof].state # "none",
           r.op = "guess" => method = "phone" /\ r.proof \in Proofs,
           r.op = "link" => method # "oauth" /\ r.proof \in Proofs,
           r.op \in {"signin", "created"} => method = "oauth" \/ r.proof \in Proofs,
           r.op \in {"verify", "email"} => method = "oauth"
    PROVE  SignInBase'
<1>1. requests'[w] = r
  BY DEF SignInBase, SignIn!TypeOK
<1>2. ColumnsTyped'
  BY DEF SignInBase, SignIn!TypeOK, ColumnsTyped
<1>3. Hand(w)'
  BY <1>1 DEF Hand
<1>4. /\ proof' \in [Proofs -> SignIn!ProofStates]
      /\ \A n \in Proofs : InUse(n)'
  BY DEF SignInBase, SignIn!TypeOK, InUse
<1> QED BY <1>2, <1>3, <1>4, BaseKept

(* What is presented has been issued, and is not used up.                  *)
LEMMA PresentedInUse ==
    ASSUME SignInBase, NEW n, NEW purpose \in SignIn!Purposes, SignIn!Presented(n, purpose)
    PROVE  /\ n \in Proofs /\ proof[n].state = "live" /\ proof[n].attempts \in Nat
           /\ proof[n].attempts < OtpMaxAttempts /\ proof[n].uses = 0
  BY DEF SignInBase, SignIn!TypeOK, SignIn!ProofStates, SignIn!Presented, SignIn!Live,
         SignIn!Purposes, InUse

LEMMA RequestBeginBase ==
    ASSUME SignInBase, NEW w \in Workers, SignIn!RequestBegin(w)
    PROVE  SignInBase'
<1>1. PICK r \in SignIn!Requests :
        /\ r.op = "request" /\ r.proof = Nobody /\ r.attempts = 0
        /\ requests' = [requests EXCEPT ![w] = r]
  <2>1. ASSUME NEW purpose \in SignIn!Purposes
        PROVE  /\ SignIn!CodeRequest(purpose) \in SignIn!Requests
               /\ SignIn!CodeRequest(purpose).op = "request"
               /\ SignIn!CodeRequest(purpose).proof = Nobody
               /\ SignIn!CodeRequest(purpose).attempts = 0
    <3>1. SignIn!Live(purpose) \in SUBSET Proofs
      BY DEF SignIn!Live
    <3> QED BY <3>1, FreeRequest DEF SignIn!Requests, SignIn!CodeRequest
  <2>2. ASSUME NEW r \in {SignIn!LoginNonceRequest, SignIn!LinkNonceRequest}
        PROVE  /\ r \in SignIn!Requests /\ r.op = "request" /\ r.proof = Nobody
               /\ r.attempts = 0
    <3>1. ASSUME NEW purpose \in SignIn!Purposes,
                 r = [SignIn!Free EXCEPT !.op = "request", !.purpose = purpose]
          PROVE  /\ r \in SignIn!Requests /\ r.op = "request" /\ r.proof = Nobody
                 /\ r.attempts = 0
      BY <3>1, FreeRequest DEF SignIn!Requests
    <3>2. \E purpose \in SignIn!Purposes :
             r = [SignIn!Free EXCEPT !.op = "request", !.purpose = purpose]
      BY <2>2 DEF SignIn!LoginNonceRequest, SignIn!LinkNonceRequest, SignIn!Purposes
    <3> QED BY <3>1, <3>2
  <2> QED BY <2>1, <2>2 DEF SignIn!RequestBegin, SignIn!Begin
<1>2. r.attempts < OtpMaxAttempts /\ r.proof \notin Proofs
  BY <1>1, SignInAssumption
<1>3. /\ UNCHANGED <<method, proof, holder, created, email, verified, excused, crossed>>
      /\ proven' \subseteq SignIn!Emails
  BY DEF SignIn!RequestBegin, SignIn!accountVars, SignIn!historyVars, SignInBase, SignIn!TypeOK
<1> QED BY <1>1, <1>2, <1>3, BeginBase

LEMMA GuessBeginBase ==
    ASSUME SignInBase, NEW w \in Workers, NEW n \in Proofs, NEW purpose \in SignIn!Purposes,
           SignIn!GuessBegin(w, n, purpose)
    PROVE  SignInBase'
<1> DEFINE r == [SignIn!Free EXCEPT !.op = "guess", !.proof = n, !.attempts = proof[n].attempts]
<1>1. /\ proof[n].state = "live" /\ proof[n].attempts \in Nat
      /\ proof[n].attempts < OtpMaxAttempts /\ method = "phone"
  BY PresentedInUse DEF SignIn!GuessBegin
<1>2. /\ r \in SignIn!Requests /\ r.op = "guess" /\ r.proof = n
      /\ r.attempts = proof[n].attempts
  BY <1>1, FreeRequest DEF SignIn!Requests
<1>3. /\ UNCHANGED <<method, proof, holder, created, email, verified, excused, crossed>>
      /\ proven' \subseteq SignIn!Emails
      /\ requests' = [requests EXCEPT ![w] = r]
  BY DEF SignIn!GuessBegin, SignIn!Begin, SignIn!accountVars, SignIn!historyVars, SignInBase,
         SignIn!TypeOK
<1> HIDE DEF r
<1> QED BY <1>1, <1>2, <1>3, BeginBase

LEMMA SignInBeginBase ==
    ASSUME SignInBase, NEW w \in Workers, SignIn!SignInBegin(w)
    PROVE  SignInBase'
<1>1. /\ UNCHANGED <<method, proof, holder, created, email, verified, excused, crossed>>
      /\ proven' \subseteq SignIn!Emails
  BY DEF SignIn!SignInBegin, SignIn!accountVars, SignIn!Emails, SignInBase, SignIn!TypeOK
<1>2. CASE method = "oauth"
  <2> DEFINE r == [SignIn!Free EXCEPT !.op = "signin"]
  <2>1. requests' = [requests EXCEPT ![w] = r]
    BY <1>2 DEF SignIn!SignInBegin, SignIn!Begin
  <2>2. r \in SignIn!Requests /\ r.op = "signin" /\ r.proof = Nobody /\ r.attempts = 0
    BY FreeRequest DEF SignIn!Requests
  <2>3. r.attempts < OtpMaxAttempts /\ r.proof \notin Proofs
    BY <2>2, SignInAssumption
  <2> HIDE DEF r
  <2> QED BY <1>1, <1>2, <2>1, <2>2, <2>3, BeginBase
<1>3. CASE method # "oauth"
  <2>1. PICK n \in Proofs :
          /\ SignIn!Presented(n, "login")
          /\ requests' = [requests EXCEPT ![w] =
               [SignIn!Free EXCEPT !.op = "signin", !.proof = n, !.attempts = proof[n].attempts]]
    BY <1>3 DEF SignIn!SignInBegin, SignIn!Begin
  <2> DEFINE r == [SignIn!Free EXCEPT !.op = "signin", !.proof = n,
                                      !.attempts = proof[n].attempts]
  <2>2. /\ proof[n].state = "live" /\ proof[n].attempts \in Nat
        /\ proof[n].attempts < OtpMaxAttempts
    BY <2>1, PresentedInUse DEF SignIn!Purposes
  <2>3. /\ r \in SignIn!Requests /\ r.op = "signin" /\ r.proof = n
        /\ r.attempts = proof[n].attempts
    BY <2>2, FreeRequest DEF SignIn!Requests
  <2> HIDE DEF r
  <2> QED BY <1>1, <2>1, <2>2, <2>3, BeginBase DEF r
<1> QED BY <1>2, <1>3

LEMMA LinkBeginBase ==
    ASSUME SignInBase, NEW w \in Workers, NEW n \in Proofs, SignIn!LinkBegin(w, n)
    PROVE  SignInBase'
<1> DEFINE r == [SignIn!Free EXCEPT !.op = "link", !.proof = n, !.attempts = proof[n].attempts]
<1>1. /\ proof[n].state = "live" /\ proof[n].attempts \in Nat
      /\ proof[n].attempts < OtpMaxAttempts /\ method # "oauth"
  BY PresentedInUse DEF SignIn!LinkBegin, SignIn!Purposes
<1>2. /\ r \in SignIn!Requests /\ r.op = "link" /\ r.proof = n
      /\ r.attempts = proof[n].attempts
  BY <1>1, FreeRequest DEF SignIn!Requests
<1>3. /\ UNCHANGED <<method, proof, holder, created, email, verified, excused, crossed>>
      /\ proven' \subseteq SignIn!Emails
      /\ requests' = [requests EXCEPT ![w] = r]
  BY DEF SignIn!LinkBegin, SignIn!Begin, SignIn!accountVars, SignIn!historyVars, SignInBase,
         SignIn!TypeOK
<1> HIDE DEF r
<1> QED BY <1>1, <1>2, <1>3, BeginBase

LEMMA RowTyped == SignInBase =>
    SignIn!Row \in [email : SignIn!Emails, verified : BOOLEAN,
                    holder : SignIn!Accounts \union {Nobody}]
  BY DEF SignInBase, SignIn!TypeOK, SignIn!Row

LEMMA VerifyBeginBase ==
    ASSUME SignInBase, NEW w \in Workers, SignIn!VerifyBegin(w)
    PROVE  SignInBase'
<1> DEFINE r == [SignIn!Free EXCEPT !.op = "verify", !.read = SignIn!Row]
<1>1. r \in SignIn!Requests /\ r.op = "verify" /\ r.proof = Nobody /\ r.attempts = 0
  BY FreeRequest, RowTyped DEF SignIn!Requests
<1>2. /\ UNCHANGED <<method, proof, holder, created, email, verified, excused, crossed>>
      /\ proven' \subseteq SignIn!Emails /\ method = "oauth"
      /\ requests' = [requests EXCEPT ![w] = r]
  BY DEF SignIn!VerifyBegin, SignIn!Begin, SignIn!accountVars, SignIn!historyVars, SignInBase,
         SignIn!TypeOK
<1>3. r.attempts < OtpMaxAttempts /\ r.proof \notin Proofs
  BY <1>1, SignInAssumption
<1> HIDE DEF r
<1> QED BY <1>1, <1>2, <1>3, BeginBase

LEMMA EmailBeginBase ==
    ASSUME SignInBase, NEW w \in Workers, NEW a \in SignIn!Emails, SignIn!EmailBegin(w, a)
    PROVE  SignInBase'
<1> DEFINE r == [SignIn!Free EXCEPT !.op = "email", !.address = a, !.read = SignIn!Row]
<1>1. r \in SignIn!Requests /\ r.op = "email" /\ r.proof = Nobody /\ r.attempts = 0
  BY FreeRequest, RowTyped DEF SignIn!Requests
<1>2. /\ UNCHANGED <<method, proof, holder, created, email, verified, excused, crossed>>
      /\ proven' \subseteq SignIn!Emails /\ method = "oauth"
      /\ requests' = [requests EXCEPT ![w] = r]
  BY DEF SignIn!EmailBegin, SignIn!Begin, SignIn!accountVars, SignIn!historyVars, SignInBase,
         SignIn!TypeOK
<1>3. r.attempts < OtpMaxAttempts /\ r.proof \notin Proofs
  BY <1>1, SignInAssumption
<1> HIDE DEF r
<1> QED BY <1>1, <1>2, <1>3, BeginBase

LEMMA FindBase ==
    ASSUME SignInBase, NEW w \in Workers, SignIn!Find(w)
    PROVE  SignInBase'
<1> DEFINE r == [requests[w] EXCEPT !.user = SignIn!Found, !.read = SignIn!Row]
<1>1. requests[w] \in SignIn!Requests /\ Hand(w) /\ SignIn!Found \in SignIn!Accounts
  BY DEF SignInBase, SignIn!TypeOK, SignIn!Find, SignIn!Found, SignIn!Accounts
<1>2. /\ r \in SignIn!Requests /\ r.op = "signin" /\ r.proof = requests[w].proof
      /\ r.attempts = requests[w].attempts
  BY <1>1, RowTyped DEF SignIn!Requests, SignIn!Find
<1>3. /\ UNCHANGED <<method, proof, holder, created, email, verified, excused, crossed>>
      /\ proven' \subseteq SignIn!Emails /\ requests[w].op = "signin"
  BY DEF SignIn!Find, SignIn!accountVars, SignIn!historyVars, SignInBase, SignIn!TypeOK
<1>4. requests' = [requests EXCEPT ![w] = r]
  BY <1>1 DEF SignIn!Find, SignIn!Requests, SignInBase, SignIn!TypeOK
<1> HIDE DEF r
<1> QED BY <1>1, <1>2, <1>3, <1>4, BeginBase DEF Hand

-----------------------------------------------------------------------------
(* What becomes of a proof: a wrong guess is counted, on what was read ... *)
LEMMA CountedIsProof ==
    ASSUME SignInBase, NEW n \in Proofs, NEW a \in Nat, a < OtpMaxAttempts,
           proof[n].state # "none"
    PROVE  /\ SignIn!Counted(n, a) \in [Proofs -> SignIn!ProofStates]
           /\ \A m \in Proofs \ {n} : SignIn!Counted(n, a)[m] = proof[m]
           /\ SignIn!Counted(n, a)[n].state =
                IF a + 1 >= OtpMaxAttempts THEN "used" ELSE proof[n].state
           /\ SignIn!Counted(n, a)[n].attempts = a + 1
           /\ SignIn!Counted(n, a)[n].guesses = proof[n].guesses + 1
           /\ SignIn!Counted(n, a)[n].uses = proof[n].uses
<1> DEFINE q == proof[n]
           s == IF a + 1 >= OtpMaxAttempts THEN "used" ELSE q.state
           r == [[[q EXCEPT !.guesses = q.guesses + 1] EXCEPT !.attempts = a + 1]
                   EXCEPT !.state = s]
<1>1. q \in SignIn!ProofStates /\ proof \in [Proofs -> SignIn!ProofStates]
  BY DEF SignInBase, SignIn!TypeOK
<1>2. SignIn!Counted(n, a) = [proof EXCEPT ![n] = r]
  BY <1>1 DEF SignIn!Counted
<1>3. s \in {"none", "live", "used"} /\ a + 1 \in 0 .. OtpMaxAttempts
  BY <1>1, SignInAssumption DEF SignIn!ProofStates
<1>4. /\ r \in SignIn!ProofStates
      /\ r.state = s /\ r.attempts = a + 1 /\ r.uses = q.uses /\ r.guesses = q.guesses + 1
  <2> DEFINE x == [q EXCEPT !.guesses = q.guesses + 1]
             y == [x EXCEPT !.attempts = a + 1]
  <2> HIDE DEF s, q
  <2>1. /\ x \in SignIn!ProofStates
        /\ x.state = q.state /\ x.attempts = q.attempts /\ x.uses = q.uses /\ x.guesses = q.guesses + 1
    BY <1>1, <1>3 DEF SignIn!ProofStates
  <2> HIDE DEF x
  <2>2. /\ y \in SignIn!ProofStates
        /\ y.state = q.state /\ y.attempts = a + 1 /\ y.uses = q.uses /\ y.guesses = q.guesses + 1
    BY <1>3, <2>1 DEF SignIn!ProofStates
  <2>3. r = [y EXCEPT !.state = s]
    BY DEF x
  <2> HIDE DEF y, r
  <2> QED BY <1>3, <2>2, <2>3 DEF SignIn!ProofStates
<1> HIDE DEF r
<1>5. /\ SignIn!Counted(n, a) \in [Proofs -> SignIn!ProofStates]
      /\ \A m \in Proofs \ {n} : SignIn!Counted(n, a)[m] = proof[m]
      /\ SignIn!Counted(n, a)[n] = r
  BY <1>1, <1>2, <1>4
<1> QED BY <1>4, <1>5

(* ... or it is accepted.                                                  *)
LEMMA ConsumedIsProof ==
    ASSUME SignInBase, NEW n \in Proofs, NEW a \in Nat, a < OtpMaxAttempts
    PROVE  /\ SignIn!Consumed(n, a) \in [Proofs -> SignIn!ProofStates]
           /\ \A m \in Proofs \ {n} : SignIn!Consumed(n, a)[m] = proof[m]
           /\ SignIn!Consumed(n, a)[n].state = "used"
           /\ SignIn!Consumed(n, a)[n].guesses = proof[n].guesses
           /\ SignIn!Consumed(n, a)[n].uses = proof[n].uses + 1
<1> DEFINE q == proof[n]
           t == IF method = "phone" THEN a + 1 ELSE q.attempts
           r == [[[q EXCEPT !.uses = q.uses + 1] EXCEPT !.state = "used"]
                   EXCEPT !.attempts = t]
<1>1. q \in SignIn!ProofStates /\ proof \in [Proofs -> SignIn!ProofStates]
  BY DEF SignInBase, SignIn!TypeOK
<1>2. SignIn!Consumed(n, a) = [proof EXCEPT ![n] = r]
  BY <1>1 DEF SignIn!Consumed
<1>3. t \in 0 .. OtpMaxAttempts
  BY <1>1, SignInAssumption DEF SignIn!ProofStates
<1>4. /\ r \in SignIn!ProofStates
      /\ r.state = "used" /\ r.attempts = t /\ r.uses = q.uses + 1 /\ r.guesses = q.guesses
  <2> DEFINE x == [q EXCEPT !.uses = q.uses + 1]
             y == [x EXCEPT !.state = "used"]
  <2> HIDE DEF t, q
  <2>1. /\ x \in SignIn!ProofStates
        /\ x.state = q.state /\ x.attempts = q.attempts /\ x.uses = q.uses + 1 /\ x.guesses = q.guesses
    BY <1>1, <1>3 DEF SignIn!ProofStates
  <2> HIDE DEF x
  <2>2. /\ y \in SignIn!ProofStates
        /\ y.state = "used" /\ y.attempts = q.attempts /\ y.uses = q.uses + 1 /\ y.guesses = q.guesses
    BY <1>3, <2>1 DEF SignIn!ProofStates
  <2>3. r = [y EXCEPT !.attempts = t]
    BY DEF x
  <2> HIDE DEF y, r
  <2> QED BY <1>3, <2>2, <2>3 DEF SignIn!ProofStates
<1> HIDE DEF r
<1>5. /\ SignIn!Consumed(n, a) \in [Proofs -> SignIn!ProofStates]
      /\ \A m \in Proofs \ {n} : SignIn!Consumed(n, a)[m] = proof[m]
      /\ SignIn!Consumed(n, a)[n] = r
  BY <1>1, <1>2, <1>4
<1> QED BY <1>4, <1>5

(* Rows after a step: each as it was, or in use only if that is allowed.   *)
ProofsMayBecome ==
    /\ proof' \in [Proofs -> SignIn!ProofStates]
    /\ \A n \in Proofs : proof'[n].state = "none" => proof[n].state = "none"
    /\ \A n \in Proofs : InUse(n)'

LEMMA ProofsKept == SignInBase /\ UNCHANGED proof => ProofsMayBecome
  BY DEF SignInBase, SignIn!TypeOK, ProofsMayBecome, InUse

LEMMA ProofsConsumed ==
    ASSUME SignInBase, NEW w \in Workers, requests[w].proof \in Proofs,
           proof' = SignIn!Consumed(requests[w].proof, requests[w].attempts)
    PROVE  ProofsMayBecome
<1>1. requests[w].attempts \in Nat /\ requests[w].attempts < OtpMaxAttempts
  BY DEF SignInBase, SignIn!TypeOK, SignIn!Requests, Hand
<1> QED BY <1>1, ConsumedIsProof DEF SignInBase, ProofsMayBecome, InUse

(* A request that ends.                                                    *)
LEMMA EndBase ==
    ASSUME SignInBase, NEW w \in Workers, SignIn!End(w), ProofsMayBecome,
           ColumnsTyped', method' = method
    PROVE  SignInBase'
<1> DEFINE r == SignIn!Free
<1>1. r \in SignIn!Requests /\ requests' = [requests EXCEPT ![w] = r]
  BY FreeRequest DEF SignIn!End
<1>2. requests'[w] = r
  BY <1>1 DEF SignInBase, SignIn!TypeOK
<1>3. Hand(w)'
  BY <1>2, FreeRequest, SignInAssumption DEF Hand
<1> HIDE DEF r
<1> QED BY <1>1, <1>3, BaseKept DEF ProofsMayBecome

LEMMA ColumnsKept == SignInBase /\ UNCHANGED <<method, holder, created, email, verified, proven, excused, crossed>> => ColumnsTyped'
  BY DEF SignInBase, SignIn!TypeOK, ColumnsTyped

LEMMA RequestCommitBase ==
    ASSUME SignInBase, NEW w \in Workers, SignIn!RequestCommit(w)
    PROVE  SignInBase'
<1>1. PICK n \in Proofs :
        /\ proof[n].state = "none"
        /\ proof' = [m \in Proofs |->
             IF m = n
             THEN [state |-> "live", purpose |-> requests[w].purpose, attempts |-> 0,
                   uses |-> 0, guesses |-> 0]
             ELSE IF m \in requests[w].todo THEN [proof[m] EXCEPT !.state = "used"]
             ELSE proof[m]]
  BY DEF SignIn!RequestCommit
<1>2. ASSUME NEW m \in Proofs
      PROVE  /\ proof'[m] \in SignIn!ProofStates
             /\ proof'[m].state = "none" => proof[m].state = "none"
             /\ InUse(m)'
  <2>1. requests[w].purpose \in SignIn!Purposes /\ proof[m] \in SignIn!ProofStates
    BY DEF SignInBase, SignIn!TypeOK, SignIn!Requests
  <2>2. CASE m = n
    BY <1>1, <2>1, <2>2, SignInAssumption DEF SignIn!ProofStates, InUse
  <2>3. CASE m # n /\ m \in requests[w].todo
    <3>1. proof'[m] = [proof[m] EXCEPT !.state = "used"]
      BY <1>1, <2>3
    <3> QED BY <2>1, <3>1 DEF SignIn!ProofStates, InUse
  <2>4. CASE m # n /\ m \notin requests[w].todo
    <3>1. proof'[m] = proof[m]
      BY <1>1, <2>4
    <3> QED BY <2>1, <3>1 DEF SignInBase, InUse
  <2> QED BY <2>2, <2>3, <2>4
<1>3. ProofsMayBecome
  <2>1. proof' = [m \in Proofs |-> proof'[m]]
    BY <1>1
  <2> QED BY <1>2, <2>1 DEF ProofsMayBecome
<1>4. /\ SignIn!End(w)
      /\ UNCHANGED <<method, holder, created, email, verified, proven, excused, crossed>>
  BY DEF SignIn!RequestCommit, SignIn!accountVars, SignIn!historyVars
<1> QED BY <1>3, <1>4, ColumnsKept, EndBase

LEMMA GuessCommitBase ==
    ASSUME SignInBase, NEW w \in Workers, SignIn!GuessCommit(w)
    PROVE  SignInBase'
<1>1. /\ requests[w].attempts \in Nat /\ requests[w].attempts < OtpMaxAttempts
      /\ requests[w].proof \in Proofs /\ proof[requests[w].proof].state # "none"
  BY DEF SignInBase, SignIn!TypeOK, SignIn!Requests, Hand, SignIn!GuessCommit
<1>2. ProofsMayBecome
  <2>1. proof' = SignIn!Counted(requests[w].proof, requests[w].attempts)
    BY DEF SignIn!GuessCommit
  <2> DEFINE n == requests[w].proof
             a == requests[w].attempts
  <2>2. /\ proof' \in [Proofs -> SignIn!ProofStates]
        /\ \A m \in Proofs \ {n} : proof'[m] = proof[m]
        /\ proof'[n].state = IF a + 1 >= OtpMaxAttempts THEN "used" ELSE proof[n].state
        /\ proof'[n].attempts = a + 1
        /\ proof'[n].uses = proof[n].uses
    <3> HIDE DEF n, a
    <3> QED BY <1>1, <2>1, CountedIsProof DEF n, a
  <2> HIDE DEF n, a
  <2>3. ASSUME NEW m \in Proofs
        PROVE  (proof'[m].state = "none" => proof[m].state = "none") /\ InUse(m)'
    <3>1. CASE m # n
      BY <2>2, <3>1 DEF SignInBase, InUse
    <3>2. CASE m = n
      BY <1>1, <2>2, <3>2, SignInAssumption DEF SignInBase, InUse, n, a
    <3> QED BY <3>1, <3>2
  <2> QED BY <2>2, <2>3 DEF ProofsMayBecome
<1>3. /\ SignIn!End(w)
      /\ UNCHANGED <<method, holder, created, email, verified, proven, excused, crossed>>
  BY DEF SignIn!GuessCommit, SignIn!accountVars, SignIn!historyVars
<1> QED BY <1>2, <1>3, ColumnsKept, EndBase

LEMMA CreateBase ==
    ASSUME SignInBase, NEW w \in Workers, SignIn!Create(w)
    PROVE  SignInBase'
<1> DEFINE r == [requests[w] EXCEPT !.op = "created", !.user = New, !.read = SignIn!Row]
<1>1. requests[w] \in SignIn!Requests /\ Hand(w) /\ requests[w].op = "signin"
  BY DEF SignInBase, SignIn!TypeOK, SignIn!Create
<1>2. /\ r \in SignIn!Requests /\ r.op = "created" /\ r.proof = requests[w].proof
      /\ r.attempts = requests[w].attempts
  BY <1>1, RowTyped DEF SignIn!Requests, SignIn!Accounts
<1>3. requests' = [requests EXCEPT ![w] = r] /\ requests'[w] = r
  BY <1>1 DEF SignIn!Create, SignIn!Requests, SignInBase, SignIn!TypeOK
<1> HIDE DEF r
<1>4. ColumnsTyped' /\ method' = method
  BY DEF SignIn!Create, SignIn!historyVars, SignInBase, SignIn!TypeOK, ColumnsTyped
<1>5. ProofsMayBecome
  <2>1. CASE method = "phone"
    BY <1>1, <2>1, ProofsConsumed DEF SignIn!Create, Hand
  <2>2. CASE method # "phone"
    BY <2>2, ProofsKept DEF SignIn!Create
  <2> QED BY <2>1, <2>2
<1>6. requests[w].proof \in Proofs => proof'[requests[w].proof].state # "none"
  BY <1>1, <1>5 DEF ProofsMayBecome, Hand
<1>7. Hand(w)'
  BY <1>1, <1>2, <1>3, <1>4, <1>6 DEF Hand
<1> QED BY <1>2, <1>3, <1>4, <1>5, <1>7, BaseKept DEF ProofsMayBecome

(* The identity goes to the account that signs in.                         *)
LEMMA EnterTyped ==
    ASSUME SignInBase, NEW w \in Workers, SignIn!Enter(w), verified' \in BOOLEAN,
           crossed' \in BOOLEAN
    PROVE  /\ ColumnsTyped' /\ method' = method /\ SignIn!End(w)
           /\ requests[w].op \in {"signin", "created"} /\ Hand(w)
<1>1. requests[w].user \in SignIn!Accounts
  BY DEF SignIn!Enter, SignInBase, SignIn!TypeOK, SignIn!Requests
<1>2. holder' \in SignIn!Accounts \union {Nobody}
  BY <1>1 DEF SignIn!Enter, SignIn!Holder, SignInBase, SignIn!TypeOK
<1> QED BY <1>2 DEF SignIn!Enter, SignInBase, SignIn!TypeOK, ColumnsTyped

LEMMA PhoneSignInBase ==
    ASSUME SignInBase, NEW w \in Workers, SignIn!PhoneSignInCommit(w)
    PROVE  SignInBase'
<1>1. /\ ColumnsTyped' /\ method' = method /\ SignIn!End(w)
      /\ requests[w].op \in {"signin", "created"} /\ Hand(w)
  BY EnterTyped DEF SignIn!PhoneSignInCommit, SignInBase, SignIn!TypeOK
<1>2. ProofsMayBecome
  BY <1>1, ProofsKept, ProofsConsumed DEF SignIn!PhoneSignInCommit, Hand
<1> QED BY <1>1, <1>2, EndBase

LEMMA WalletSignInBase ==
    ASSUME SignInBase, NEW w \in Workers, SignIn!WalletSignInCommit(w)
    PROVE  SignInBase'
<1>1. /\ ColumnsTyped' /\ method' = method /\ SignIn!End(w)
      /\ requests[w].op \in {"signin", "created"} /\ Hand(w)
  BY EnterTyped DEF SignIn!WalletSignInCommit, SignInBase, SignIn!TypeOK
<1>2. ProofsMayBecome
  BY <1>1, ProofsConsumed DEF SignIn!WalletSignInCommit, Hand
<1> QED BY <1>1, <1>2, EndBase

LEMMA OAuthSignInBase ==
    ASSUME SignInBase, NEW w \in Workers, SignIn!OAuthSignInCommit(w)
    PROVE  SignInBase'
<1>0. verified' \in BOOLEAN /\ crossed' \in BOOLEAN
  BY DEF SignIn!OAuthSignInCommit, SignInBase, SignIn!TypeOK
<1>1. ColumnsTyped' /\ method' = method /\ SignIn!End(w)
  BY <1>0, EnterTyped DEF SignIn!OAuthSignInCommit
<1>2. ProofsMayBecome
  BY ProofsKept DEF SignIn!OAuthSignInCommit
<1> QED BY <1>1, <1>2, EndBase

LEMMA LinkCommitBase ==
    ASSUME SignInBase, NEW w \in Workers, SignIn!LinkCommit(w)
    PROVE  SignInBase'
<1>1. ColumnsTyped' /\ method' = method /\ SignIn!End(w)
  BY DEF SignIn!LinkCommit, SignIn!historyVars, SignIn!Accounts, SignInBase, SignIn!TypeOK,
         ColumnsTyped
<1>2. ProofsMayBecome
  BY ProofsConsumed DEF SignIn!LinkCommit, SignInBase, Hand
<1> QED BY <1>1, <1>2, EndBase

LEMMA VerifyCommitBase ==
    ASSUME SignInBase, NEW w \in Workers, SignIn!VerifyCommit(w)
    PROVE  SignInBase'
<1>1. ColumnsTyped' /\ method' = method /\ SignIn!End(w)
  BY DEF SignIn!VerifyCommit, SignIn!Stale, SignInBase, SignIn!TypeOK, ColumnsTyped
<1>2. ProofsMayBecome
  BY ProofsKept DEF SignIn!VerifyCommit
<1> QED BY <1>1, <1>2, EndBase

LEMMA EmailCommitBase ==
    ASSUME SignInBase, NEW w \in Workers, SignIn!EmailCommit(w)
    PROVE  SignInBase'
<1>1. requests[w].address \in SignIn!Emails
  BY DEF SignInBase, SignIn!TypeOK, SignIn!Requests
<1>2. ColumnsTyped' /\ method' = method /\ SignIn!End(w)
  BY <1>1 DEF SignIn!EmailCommit, SignIn!StillVerified, SignInBase, SignIn!TypeOK, ColumnsTyped
<1>3. ProofsMayBecome
  BY ProofsKept DEF SignIn!EmailCommit
<1> QED BY <1>2, <1>3, EndBase

LEMMA FailBase ==
    ASSUME SignInBase, NEW w \in Workers, SignIn!Fail(w)
    PROVE  SignInBase'
<1>1. ColumnsTyped' /\ method' = method /\ SignIn!End(w)
  BY DEF SignIn!Fail, SignIn!accountVars, SignInBase, SignIn!TypeOK, ColumnsTyped
<1>2. ProofsMayBecome
  BY ProofsKept DEF SignIn!Fail
<1> QED BY <1>1, <1>2, EndBase

(* What is not of a request.                                               *)
LEMMA ElseBase ==
    ASSUME SignInBase,
           SignIn!Unlink \/ (\E n \in Proofs : SignIn!Expire(n)) \/ SignIn!Spent
             \/ UNCHANGED SignIn!vars
    PROVE  SignInBase'
<1>1. ColumnsTyped'
  <2>1. CASE SignIn!Unlink
    BY <2>1 DEF SignIn!Unlink, SignInBase, SignIn!TypeOK, ColumnsTyped
  <2>2. CASE UNCHANGED <<method, SignIn!accountVars, SignIn!historyVars>>
    BY <2>2 DEF SignIn!accountVars, SignIn!historyVars, SignInBase, SignIn!TypeOK, ColumnsTyped
  <2> QED BY <2>1, <2>2 DEF SignIn!Expire, SignIn!Spent, SignIn!vars
<1>2. ProofsMayBecome
  <2>1. CASE UNCHANGED proof
    BY <2>1, ProofsKept
  <2>2. ASSUME NEW n \in Proofs, SignIn!Expire(n) PROVE ProofsMayBecome
    <3> DEFINE r == [proof[n] EXCEPT !.state = "used"]
    <3>1. proof \in [Proofs -> SignIn!ProofStates]
      BY DEF SignInBase, SignIn!TypeOK
    <3>2. r \in SignIn!ProofStates /\ r.state = "used"
      BY <3>1 DEF SignIn!ProofStates
    <3>3. proof' = [proof EXCEPT ![n] = r]
      BY <2>2 DEF SignIn!Expire
    <3> HIDE DEF r
    <3> QED BY <3>1, <3>2, <3>3 DEF SignInBase, ProofsMayBecome, InUse
  <2> QED BY <2>1, <2>2 DEF SignIn!Unlink, SignIn!Spent, SignIn!vars
<1>3. UNCHANGED <<requests, method>>
  BY DEF SignIn!Unlink, SignIn!Expire, SignIn!Spent, SignIn!vars
<1>4. SignIn!TypeOK'
  BY <1>1, <1>2, <1>3 DEF SignInBase, SignIn!TypeOK, ColumnsTyped, ProofsMayBecome
<1>5. \A w \in Workers : Hand(w)'
  BY <1>2, <1>3 DEF SignInBase, Hand, ProofsMayBecome
<1> QED BY <1>2, <1>4, <1>5 DEF SignInBase, ProofsMayBecome

LEMMA SignInBaseStep == SignInBase /\ [SignIn!Next]_SignIn!vars => SignInBase'
<1> SUFFICES ASSUME SignInBase, [SignIn!Next]_SignIn!vars PROVE SignInBase'
  OBVIOUS
<1>1. CASE SignIn!Unlink \/ (\E n \in Proofs : SignIn!Expire(n)) \/ SignIn!Spent
             \/ UNCHANGED SignIn!vars
  BY <1>1, ElseBase
<1>2. ASSUME NEW w \in Workers,
             \/ SignIn!RequestBegin(w)
             \/ SignIn!RequestCommit(w)
             \/ \E n \in Proofs, purpose \in SignIn!Purposes : SignIn!GuessBegin(w, n, purpose)
             \/ SignIn!GuessCommit(w)
             \/ SignIn!SignInBegin(w)
             \/ SignIn!Find(w)
             \/ SignIn!Create(w)
             \/ SignIn!PhoneSignInCommit(w)
             \/ SignIn!WalletSignInCommit(w)
             \/ SignIn!OAuthSignInCommit(w)
             \/ \E n \in Proofs : SignIn!LinkBegin(w, n)
             \/ SignIn!LinkCommit(w)
             \/ SignIn!VerifyBegin(w)
             \/ SignIn!VerifyCommit(w)
             \/ \E address \in SignIn!Emails : SignIn!EmailBegin(w, address)
             \/ SignIn!EmailCommit(w)
             \/ SignIn!Fail(w)
      PROVE  SignInBase'
  BY <1>2, RequestBeginBase, RequestCommitBase, GuessBeginBase, GuessCommitBase,
     SignInBeginBase, FindBase, CreateBase, PhoneSignInBase, WalletSignInBase,
     OAuthSignInBase, LinkBeginBase, LinkCommitBase, VerifyBeginBase, VerifyCommitBase,
     EmailBeginBase, EmailCommitBase, FailBase
<1> QED BY <1>1, <1>2 DEF SignIn!Next

LEMMA SignInBaseInit == SignIn!Init => SignInBase
<1> SUFFICES ASSUME SignIn!Init PROVE SignInBase
  OBVIOUS
<1>1. proof \in [Proofs -> SignIn!ProofStates]
  BY SignInAssumption DEF SignIn!Init, SignIn!ProofStates, SignIn!Purposes
<1>2. requests \in [Workers -> SignIn!Requests]
  BY FreeRequest DEF SignIn!Init
<1>3. SignIn!TypeOK
  BY <1>1, <1>2 DEF SignIn!Init, SignIn!TypeOK, SignIn!Emails
<1>4. \A w \in Workers : Hand(w)
  BY FreeRequest, SignInAssumption DEF SignIn!Init, Hand
<1>5. \A n \in Proofs : InUse(n)
  BY DEF SignIn!Init, InUse
<1> QED BY <1>3, <1>4, <1>5 DEF SignInBase

-----------------------------------------------------------------------------
(* A request that has found its account read whose identity it is, and one *)
(* that has created it that the identity was nobody's.                     *)
Knows(w) ==
    /\ requests[w].op = "signin" /\ requests[w].user # Nobody => requests[w].read.holder # Nobody
    /\ requests[w].op = "created" => requests[w].user = New /\ requests[w].read.holder = Nobody

(* The new account has its identity, or the request that made it is on its *)
(* way to give it that.                                                    *)
NewIsHeld ==
    created /\ ~ excused =>
        holder = New \/ \E w \in Workers : requests[w].op = "created"

ReachInv == method # "oauth" => NewIsHeld /\ \A w \in Workers : Knows(w)

LEMMA MethodStays == [SignIn!Next]_SignIn!vars => method' = method
<1>1. ASSUME NEW w \in Workers,
             \/ SignIn!RequestBegin(w)
             \/ SignIn!RequestCommit(w)
             \/ \E n \in Proofs, purpose \in SignIn!Purposes : SignIn!GuessBegin(w, n, purpose)
             \/ SignIn!GuessCommit(w)
             \/ SignIn!SignInBegin(w)
             \/ SignIn!Find(w)
             \/ SignIn!Create(w)
      PROVE  method' = method
  BY <1>1 DEF SignIn!RequestBegin, SignIn!RequestCommit, SignIn!GuessBegin,
              SignIn!GuessCommit, SignIn!SignInBegin, SignIn!Find, SignIn!Create
<1>2. ASSUME NEW w \in Workers,
             \/ SignIn!PhoneSignInCommit(w)
             \/ SignIn!WalletSignInCommit(w)
             \/ SignIn!OAuthSignInCommit(w)
             \/ \E n \in Proofs : SignIn!LinkBegin(w, n)
             \/ SignIn!LinkCommit(w)
      PROVE  method' = method
  BY <1>2 DEF SignIn!PhoneSignInCommit, SignIn!WalletSignInCommit, SignIn!OAuthSignInCommit,
              SignIn!Enter, SignIn!LinkBegin, SignIn!LinkCommit
<1>3. ASSUME NEW w \in Workers,
             \/ SignIn!VerifyBegin(w)
             \/ SignIn!VerifyCommit(w)
             \/ \E address \in SignIn!Emails : SignIn!EmailBegin(w, address)
             \/ SignIn!EmailCommit(w)
             \/ SignIn!Fail(w)
      PROVE  method' = method
  BY <1>3 DEF SignIn!VerifyBegin, SignIn!VerifyCommit, SignIn!EmailBegin, SignIn!EmailCommit,
              SignIn!Fail
<1>4. SignIn!Unlink \/ (\E n \in Proofs : SignIn!Expire(n)) \/ SignIn!Spent
        \/ UNCHANGED SignIn!vars => method' = method
  BY DEF SignIn!Unlink, SignIn!Expire, SignIn!Spent, SignIn!vars
<1> QED BY <1>1, <1>2, <1>3, <1>4 DEF SignIn!Next

LEMMA ReachStep == SignInBase /\ ReachInv /\ [SignIn!Next]_SignIn!vars => ReachInv'
<1> SUFFICES ASSUME SignInBase, ReachInv, [SignIn!Next]_SignIn!vars, method # "oauth"
             PROVE  NewIsHeld' /\ \A w \in Workers : Knows(w)'
  <2>1. [SignIn!Next]_SignIn!vars => method' = method
    BY MethodStays
  <2> QED BY <2>1 DEF ReachInv
<1> DEFINE Goal == NewIsHeld' /\ \A w \in Workers : Knows(w)'
<1>1. /\ requests \in [Workers -> SignIn!Requests]
      /\ NewIsHeld /\ \A w \in Workers : Knows(w)
      /\ SignIn!Free.op = "idle"
  BY FreeRequest DEF SignInBase, SignIn!TypeOK, ReachInv
<1>2. ASSUME UNCHANGED <<requests, created, holder, excused>> PROVE Goal
  BY <1>1, <1>2 DEF NewIsHeld, Knows
<1>3. ASSUME SignIn!Unlink PROVE Goal
  BY <1>1, <1>3 DEF SignIn!Unlink, NewIsHeld, Knows
<1>4. ASSUME NEW w \in Workers, NEW r, requests' = [requests EXCEPT ![w] = r],
             r.op \notin {"signin", "created"} \/ (r.op = "signin" /\ r.user = Nobody),
             requests[w].op # "created", UNCHANGED <<created, holder, excused>>
      PROVE  Goal
  BY <1>1, <1>4 DEF NewIsHeld, Knows
<1>5. ASSUME NEW w \in Workers, SignIn!RequestBegin(w) PROVE Goal
  <2>1. PICK r : /\ requests' = [requests EXCEPT ![w] = r] /\ r.op = "request"
                 /\ requests[w].op = "idle"
    BY <1>5 DEF SignIn!RequestBegin, SignIn!Begin, SignIn!CodeRequest,
                SignIn!LoginNonceRequest, SignIn!LinkNonceRequest, SignIn!Free
  <2> QED BY <1>4, <1>5, <2>1
          DEF SignIn!RequestBegin, SignIn!accountVars, SignIn!historyVars
<1>6. ASSUME NEW w \in Workers, SignIn!SignInBegin(w) PROVE Goal
  <2>1. PICK r : /\ requests' = [requests EXCEPT ![w] = r] /\ r.op = "signin"
                 /\ r.user = Nobody /\ requests[w].op = "idle"
    <3>1. CASE method = "oauth"
      BY <1>6, <3>1 DEF SignIn!SignInBegin, SignIn!Begin, SignIn!Free
    <3>2. CASE method # "oauth"
      <4>1. PICK n \in Proofs : SignIn!Begin(w, [SignIn!Free EXCEPT !.op = "signin", !.proof = n,
                                                  !.attempts = proof[n].attempts])
        BY <1>6, <3>2 DEF SignIn!SignInBegin
      <4>2. ASSUME NEW a
            PROVE  /\ [SignIn!Free EXCEPT !.op = "signin", !.proof = n, !.attempts = a].op = "signin"
                   /\ [SignIn!Free EXCEPT !.op = "signin", !.proof = n, !.attempts = a].user = Nobody
        BY DEF SignIn!Free
      <4> QED BY <4>1, <4>2 DEF SignIn!Begin
    <3> QED BY <3>1, <3>2
  <2> QED BY <1>4, <1>6, <2>1 DEF SignIn!SignInBegin, SignIn!accountVars
<1>7. ASSUME NEW w \in Workers,
             \/ \E n \in Proofs, purpose \in SignIn!Purposes : SignIn!GuessBegin(w, n, purpose)
             \/ \E n \in Proofs : SignIn!LinkBegin(w, n)
             \/ SignIn!VerifyBegin(w)
             \/ \E address \in SignIn!Emails : SignIn!EmailBegin(w, address)
      PROVE  Goal
  <2>1. PICK r : /\ requests' = [requests EXCEPT ![w] = r]
                 /\ r.op \in {"guess", "link", "verify", "email"}
                 /\ requests[w].op = "idle"
    BY <1>7 DEF SignIn!GuessBegin, SignIn!LinkBegin, SignIn!VerifyBegin, SignIn!EmailBegin,
                SignIn!Begin, SignIn!Free
  <2> QED BY <1>4, <1>7, <2>1
          DEF SignIn!GuessBegin, SignIn!LinkBegin, SignIn!VerifyBegin, SignIn!EmailBegin,
              SignIn!accountVars, SignIn!historyVars
<1>8. ASSUME NEW w \in Workers,
             SignIn!RequestCommit(w) \/ SignIn!GuessCommit(w) \/ SignIn!VerifyCommit(w)
               \/ SignIn!EmailCommit(w)
      PROVE  Goal
  <2>1. /\ requests' = [requests EXCEPT ![w] = SignIn!Free]
        /\ requests[w].op # "created" /\ UNCHANGED <<created, holder, excused>>
    BY <1>8 DEF SignIn!RequestCommit, SignIn!GuessCommit, SignIn!VerifyCommit,
                SignIn!EmailCommit, SignIn!End, SignIn!accountVars, SignIn!historyVars
  <2> QED BY <1>1, <1>4, <2>1
<1>9. ASSUME NEW w \in Workers, SignIn!Find(w) PROVE Goal
  <2> DEFINE r == [requests[w] EXCEPT !.user = SignIn!Found, !.read = SignIn!Row]
  <2>1. /\ requests' = [requests EXCEPT ![w] = r] /\ requests[w].op = "signin"
        /\ UNCHANGED <<created, holder, excused>>
    BY <1>1, <1>9 DEF SignIn!Find, SignIn!Requests, SignIn!accountVars, SignIn!historyVars
  <2>2. holder # Nobody
    BY <1>9 DEF SignIn!Find, SignIn!Found
  <2>3. r.op = "signin" /\ r.read.holder = holder
    BY <1>1, <2>1 DEF SignIn!Requests, SignIn!Row
  <2> HIDE DEF r
  <2> QED BY <1>1, <2>1, <2>2, <2>3 DEF NewIsHeld, Knows
<1>10. ASSUME NEW w \in Workers, SignIn!Create(w) PROVE Goal
  <2> DEFINE r == [requests[w] EXCEPT !.op = "created", !.user = New, !.read = SignIn!Row]
  <2>1. requests' = [requests EXCEPT ![w] = r]
    BY <1>1, <1>10 DEF SignIn!Create, SignIn!Requests
  <2>2. holder = Nobody
    BY <1>10 DEF SignIn!Create, SignIn!Found
  <2>3. r.op = "created" /\ r.user = New /\ r.read.holder = holder
    BY <1>1, <2>1 DEF SignIn!Requests, SignIn!Row
  <2> HIDE DEF r
  <2> QED BY <1>1, <2>1, <2>2, <2>3 DEF NewIsHeld, Knows
<1>11. ASSUME NEW w \in Workers, SignIn!Enter(w) PROVE Goal
  <2>1. /\ requests' = [requests EXCEPT ![w] = SignIn!Free]
        /\ UNCHANGED <<created, excused>>
        /\ requests[w].op \in {"signin", "created"} /\ requests[w].user # Nobody
    BY <1>11 DEF SignIn!Enter, SignIn!End
  <2>2. CASE requests[w].op = "signin"
    <3>1. holder' = holder
      BY <1>1, <1>11, <2>1, <2>2 DEF Knows, SignIn!Enter
    <3> QED BY <1>1, <1>4, <2>1, <2>2, <3>1
  <2>3. CASE requests[w].op = "created"
    <3>1. holder' = New
      BY <1>1, <1>11, <2>3 DEF Knows, SignIn!Enter, SignIn!Holder
    <3> QED BY <1>1, <2>1, <3>1 DEF NewIsHeld, Knows
  <2> QED BY <2>1, <2>2, <2>3
<1>12. ASSUME NEW w \in Workers, SignIn!LinkCommit(w) PROVE Goal
  <2>1. /\ requests' = [requests EXCEPT ![w] = SignIn!Free]
        /\ UNCHANGED <<created, excused>> /\ requests[w].op = "link"
        /\ holder \in {Own, Nobody}
    BY <1>12 DEF SignIn!LinkCommit, SignIn!End, SignIn!historyVars
  <2>2. holder # New
    BY <2>1, SignInAssumption
  <2> QED BY <1>1, <2>1, <2>2 DEF NewIsHeld, Knows
<1>13. ASSUME NEW w \in Workers, SignIn!Fail(w) PROVE Goal
  <2>1. /\ requests' = [requests EXCEPT ![w] = SignIn!Free]
        /\ UNCHANGED <<created, holder>>
        /\ excused' = (excused \/ requests[w].op = "created")
    BY <1>13 DEF SignIn!Fail, SignIn!End, SignIn!accountVars
  <2> QED BY <1>1, <2>1 DEF NewIsHeld, Knows
<1> QED
  BY <1>2, <1>3, <1>5, <1>6, <1>7, <1>8, <1>9, <1>10, <1>11, <1>12, <1>13
  DEF SignIn!Next, SignIn!vars, SignIn!accountVars, SignIn!historyVars, SignIn!Expire,
      SignIn!Spent, SignIn!PhoneSignInCommit, SignIn!WalletSignInCommit,
      SignIn!OAuthSignInCommit

(* The behaviours of MCAccounts are those of SignIn, and of UserSessions.  *)
LEMMA AccountsParts == AccountsSpec => Spec /\ SignIn!Spec
<1>1. AccountsInit => Init /\ SignIn!Init
  BY DEF AccountsInit
<1>2. [AccountsNext]_<<subject, vars, signInVars>> => [Next]_vars
  BY DEF AccountsNext
<1>3. [AccountsNext]_<<subject, vars, signInVars>> => [SignIn!Next]_SignIn!vars
  BY DEF AccountsNext, signInVars, SignIn!vars, SignIn!accountVars, SignIn!historyVars
<1> QED BY <1>1, <1>2, <1>3, PTL DEF AccountsSpec, Spec, SignIn!Spec

(* An account that signing in has created can be signed in to again,       *)
(* whatever overlaps, unless it was cut off or unlinked itself.  (auth/    *)
(* phone.py, auth/wallet.py: login_or_create; users/service.py.)           *)
THEOREM NewStaysReachable == AccountsSpec => []NewIsReachable
<1>1. SignIn!Init => SignInBase /\ ReachInv
  BY SignInBaseInit, FreeRequest DEF SignIn!Init, ReachInv, NewIsHeld, Knows
<1>2. (SignInBase /\ ReachInv) /\ [SignIn!Next]_SignIn!vars => (SignInBase /\ ReachInv)'
  BY SignInBaseStep, ReachStep
<1>3. ReachInv => NewIsReachable
  BY SignInAssumption DEF ReachInv, NewIsHeld, NewIsReachable, SignIn!NewIsReachable
<1> QED BY <1>1, <1>2, <1>3, AccountsParts, PTL DEF SignIn!Spec

-----------------------------------------------------------------------------
(* What a request has seen of the address: a provider has verified the one *)
(* of its profile, and by that or by the identity the account was found;   *)
(* a link was mailed to the one it was read with; and an account that has  *)
(* an OAuth sign-in does not change it.                                    *)
Saw(w) ==
    /\ requests[w].op = "signin" /\ method = "oauth" =>
          /\ Profile \in proven
          /\ requests[w].user = Own =>
                requests[w].read.holder = Own \/ requests[w].read.email = Profile
    /\ requests[w].op = "created" => requests[w].user = New
    /\ requests[w].op = "verify" => requests[w].read.email \in proven
    /\ requests[w].op = "email" => requests[w].read.holder # Own

(* The address of an account that has an OAuth sign-in is the profile's.   *)
AddressInv ==
    \/ crossed
    \/ /\ verified => email \in proven
       /\ method = "oauth" /\ holder = Own => email = Profile

SawInv == AddressInv /\ \A w \in Workers : Saw(w)

(* A step that writes no address and no identity.                          *)
LEMMA SawKept ==
    ASSUME SignInBase, SawInv, NEW w \in Workers, NEW r, requests' = [requests EXCEPT ![w] = r],
           UNCHANGED <<method, email, verified, holder, crossed>>, proven \subseteq proven',
           Saw(w)'
    PROVE  SawInv'
<1>1. requests \in [Workers -> SignIn!Requests]
  BY DEF SignInBase, SignIn!TypeOK
<1>2. AddressInv'
  BY DEF SawInv, AddressInv
<1>3. ASSUME NEW v \in Workers, v # w PROVE Saw(v)'
  BY <1>1, <1>3 DEF SawInv, Saw
<1> QED BY <1>2, <1>3 DEF SawInv

(* A request ends, and what it wrote is in order.                          *)
LEMMA SawEnd ==
    ASSUME SignInBase, SawInv, NEW w \in Workers, SignIn!End(w), AddressInv',
           UNCHANGED <<method, proven>>
    PROVE  SawInv'
<1>1. requests \in [Workers -> SignIn!Requests] /\ requests' = [requests EXCEPT ![w] = SignIn!Free]
  BY DEF SignInBase, SignIn!TypeOK, SignIn!End
<1>2. ASSUME NEW v \in Workers PROVE Saw(v)'
  BY <1>1, FreeRequest DEF SawInv, Saw
<1> QED BY <1>2 DEF SawInv

LEMMA SawStep == SignInBase /\ SawInv /\ [SignIn!Next]_SignIn!vars => SawInv'
<1> SUFFICES ASSUME SignInBase, SawInv, [SignIn!Next]_SignIn!vars
             PROVE  SawInv'
  OBVIOUS
<1>1. /\ requests \in [Workers -> SignIn!Requests] /\ AddressInv
      /\ \A w \in Workers : Saw(w) /\ Hand(w)
  BY DEF SignInBase, SignIn!TypeOK, SawInv
<1>2. CASE UNCHANGED <<requests, method, email, verified, holder, proven, crossed>>
  BY <1>2 DEF SawInv, AddressInv, Saw
<1>3. CASE SignIn!Unlink
  <2>1. method # "oauth" /\ UNCHANGED <<requests, method, email, verified, proven, crossed>>
    BY <1>3 DEF SignIn!Unlink
  <2> QED BY <2>1 DEF SawInv, AddressInv, Saw
<1>4. ASSUME NEW w \in Workers,
             \/ SignIn!RequestBegin(w)
             \/ \E n \in Proofs, purpose \in SignIn!Purposes : SignIn!GuessBegin(w, n, purpose)
             \/ \E n \in Proofs : SignIn!LinkBegin(w, n)
      PROVE  SawInv'
  <2>1. PICK r : requests' = [requests EXCEPT ![w] = r] /\ r.op \in {"request", "guess", "link"}
    <3>1. CASE SignIn!RequestBegin(w)
      <4>1. PICK r : requests' = [requests EXCEPT ![w] = r]
                     /\ \/ \E purpose \in SignIn!Purposes : r = SignIn!CodeRequest(purpose)
                        \/ r = SignIn!LoginNonceRequest
                        \/ r = SignIn!LinkNonceRequest
        BY <3>1 DEF SignIn!RequestBegin, SignIn!Begin
      <4>2. r.op = "request"
        BY <4>1 DEF SignIn!CodeRequest, SignIn!LoginNonceRequest, SignIn!LinkNonceRequest,
                    SignIn!Free
      <4> QED BY <4>1, <4>2
    <3>2. CASE \E n \in Proofs, purpose \in SignIn!Purposes : SignIn!GuessBegin(w, n, purpose)
      <4>1. PICK n \in Proofs, purpose \in SignIn!Purposes : SignIn!GuessBegin(w, n, purpose)
        BY <3>2
      <4>2. [SignIn!Free EXCEPT !.op = "guess", !.proof = n, !.attempts = proof[n].attempts].op
            = "guess"
        BY DEF SignIn!Free
      <4> QED BY <4>1, <4>2 DEF SignIn!GuessBegin, SignIn!Begin
    <3>3. CASE \E n \in Proofs : SignIn!LinkBegin(w, n)
      <4>1. PICK n \in Proofs : SignIn!LinkBegin(w, n)
        BY <3>3
      <4>2. [SignIn!Free EXCEPT !.op = "link", !.proof = n, !.attempts = proof[n].attempts].op
            = "link"
        BY DEF SignIn!Free
      <4> QED BY <4>1, <4>2 DEF SignIn!LinkBegin, SignIn!Begin
    <3> QED BY <1>4, <3>1, <3>2, <3>3
  <2>2. UNCHANGED <<method, email, verified, holder, crossed, proven>>
    BY <1>4 DEF SignIn!RequestBegin, SignIn!GuessBegin, SignIn!LinkBegin, SignIn!accountVars,
                SignIn!historyVars
  <2>3. Saw(w)'
    BY <1>1, <2>1 DEF Saw
  <2> QED BY <2>1, <2>2, <2>3, SawKept
<1>5. ASSUME NEW w \in Workers, SignIn!SignInBegin(w) PROVE SawInv'
  <2>1. /\ UNCHANGED <<method, email, verified, holder, crossed>>
        /\ proven \subseteq proven' /\ (method = "oauth" => Profile \in proven')
    BY <1>5 DEF SignIn!SignInBegin, SignIn!accountVars
  <2>2. PICK r : requests' = [requests EXCEPT ![w] = r] /\ r.op = "signin" /\ r.user = Nobody
    <3>1. CASE method = "oauth"
      <4>1. /\ [SignIn!Free EXCEPT !.op = "signin"].op = "signin"
            /\ [SignIn!Free EXCEPT !.op = "signin"].user = Nobody
        BY DEF SignIn!Free
      <4> QED BY <1>5, <3>1, <4>1 DEF SignIn!SignInBegin, SignIn!Begin
    <3>2. CASE method # "oauth"
      <4>1. PICK n \in Proofs : SignIn!Begin(w, [SignIn!Free EXCEPT !.op = "signin", !.proof = n,
                                                  !.attempts = proof[n].attempts])
        BY <1>5, <3>2 DEF SignIn!SignInBegin
      <4>2. ASSUME NEW a
            PROVE  /\ [SignIn!Free EXCEPT !.op = "signin", !.proof = n, !.attempts = a].op = "signin"
                   /\ [SignIn!Free EXCEPT !.op = "signin", !.proof = n, !.attempts = a].user = Nobody
        BY DEF SignIn!Free
      <4> QED BY <4>1, <4>2 DEF SignIn!Begin
    <3> QED BY <3>1, <3>2
  <2>3. Saw(w)'
    BY <1>1, <2>1, <2>2, SignInAssumption DEF Saw
  <2> QED BY <2>1, <2>2, <2>3, SawKept
<1>6. ASSUME NEW w \in Workers, SignIn!Find(w) PROVE SawInv'
  <2> DEFINE r == [requests[w] EXCEPT !.user = SignIn!Found, !.read = SignIn!Row]
  <2>1. /\ requests' = [requests EXCEPT ![w] = r] /\ requests[w].op = "signin"
        /\ UNCHANGED <<method, email, verified, holder, crossed, proven>>
    BY <1>1, <1>6 DEF SignIn!Find, SignIn!Requests, SignIn!accountVars, SignIn!historyVars
  <2>2. /\ r.op = "signin" /\ r.user = SignIn!Found /\ r.read.holder = holder
        /\ r.read.email = email
    BY <1>1, <2>1 DEF SignIn!Requests, SignIn!Row
  <2>3. method = "oauth" /\ SignIn!Found = Own => holder = Own \/ email = Profile
    BY SignInAssumption DEF SignIn!Found
  <2> HIDE DEF r
  <2>4. Saw(w)'
    BY <1>1, <2>1, <2>2, <2>3 DEF Saw
  <2> QED BY <2>1, <2>4, SawKept
<1>7. ASSUME NEW w \in Workers, SignIn!Create(w) PROVE SawInv'
  <2> DEFINE r == [requests[w] EXCEPT !.op = "created", !.user = New, !.read = SignIn!Row]
  <2>1. /\ requests' = [requests EXCEPT ![w] = r]
        /\ UNCHANGED <<method, email, verified, holder, crossed, proven>>
    BY <1>1, <1>7 DEF SignIn!Create, SignIn!Requests, SignIn!historyVars
  <2>2. r.op = "created" /\ r.user = New
    BY <1>1, <2>1 DEF SignIn!Requests
  <2> HIDE DEF r
  <2>3. Saw(w)'
    BY <1>1, <2>1, <2>2 DEF Saw
  <2> QED BY <2>1, <2>3, SawKept
<1>8. ASSUME NEW w \in Workers, SignIn!VerifyBegin(w) PROVE SawInv'
  <2> DEFINE r == [SignIn!Free EXCEPT !.op = "verify", !.read = SignIn!Row]
  <2>1. /\ requests' = [requests EXCEPT ![w] = r]
        /\ UNCHANGED <<method, email, verified, holder, crossed>>
        /\ proven' = proven \union {email}
    BY <1>8 DEF SignIn!VerifyBegin, SignIn!Begin, SignIn!accountVars
  <2>2. r.op = "verify" /\ r.read.email = email
    BY DEF SignIn!Free, SignIn!Row
  <2> HIDE DEF r
  <2>3. Saw(w)'
    BY <1>1, <2>1, <2>2 DEF Saw
  <2> QED BY <2>1, <2>3, SawKept
<1>9. ASSUME NEW w \in Workers, NEW a \in SignIn!Emails, SignIn!EmailBegin(w, a) PROVE SawInv'
  <2> DEFINE r == [SignIn!Free EXCEPT !.op = "email", !.address = a, !.read = SignIn!Row]
  <2>1. /\ requests' = [requests EXCEPT ![w] = r]
        /\ UNCHANGED <<method, email, verified, holder, crossed, proven>>
        /\ holder # Own
    BY <1>9 DEF SignIn!EmailBegin, SignIn!Begin, SignIn!accountVars, SignIn!historyVars
  <2>2. r.op = "email" /\ r.read.holder = holder
    BY DEF SignIn!Free, SignIn!Row
  <2> HIDE DEF r
  <2>3. Saw(w)'
    BY <1>1, <2>1, <2>2 DEF Saw
  <2> QED BY <2>1, <2>3, SawKept
<1>10. ASSUME NEW w \in Workers,
              \/ SignIn!RequestCommit(w) \/ SignIn!GuessCommit(w) \/ SignIn!Fail(w)
              \/ SignIn!LinkCommit(w) \/ SignIn!PhoneSignInCommit(w)
              \/ SignIn!WalletSignInCommit(w)
       PROVE  SawInv'
  <2>1. /\ SignIn!End(w) /\ UNCHANGED <<method, email, verified, proven, crossed>>
        /\ holder' = holder \/ method # "oauth"
    BY <1>1, <1>10
    DEF SignIn!RequestCommit, SignIn!GuessCommit, SignIn!Fail, SignIn!LinkCommit,
        SignIn!PhoneSignInCommit, SignIn!WalletSignInCommit, SignIn!Enter, Hand,
        SignIn!accountVars, SignIn!historyVars
  <2>2. AddressInv'
    BY <1>1, <2>1 DEF AddressInv
  <2> QED BY <2>1, <2>2, SawEnd
<1>11. ASSUME NEW w \in Workers, SignIn!OAuthSignInCommit(w) PROVE SawInv'
  <2>1. /\ method = "oauth" /\ SignIn!End(w) /\ UNCHANGED <<method, email, proven>>
        /\ requests[w].op \in {"signin", "created"}
        /\ holder' = IF requests[w].read.holder = Nobody THEN requests[w].user ELSE holder
        /\ verified' = (verified \/ (requests[w].user = Own /\ ~ requests[w].read.verified))
        /\ crossed' = (crossed \/ (requests[w].user = Own /\ SignIn!Stale(w)))
    BY <1>11 DEF SignIn!OAuthSignInCommit, SignIn!Enter, SignIn!Holder
  <2>2. CASE crossed'
    BY <2>1, <2>2, SawEnd DEF AddressInv
  <2>3. CASE ~ crossed' /\ requests[w].user # Own
    <3>1. AddressInv'
      BY <1>1, <2>1, <2>3 DEF AddressInv
    <3> QED BY <2>1, <3>1, SawEnd
  <2>4. CASE ~ crossed' /\ requests[w].user = Own
    <3>1. requests[w].read = SignIn!Row /\ ~ crossed
      BY <2>1, <2>4 DEF SignIn!Stale
    <3>2. requests[w].read.holder = holder /\ requests[w].read.email = email
      BY <3>1 DEF SignIn!Row
    <3>3. requests[w].op = "signin"
      BY <1>1, <2>1, <2>4, SignInAssumption DEF Saw
    <3>4. email = Profile /\ Profile \in proven
      BY <1>1, <2>1, <2>4, <3>1, <3>2, <3>3 DEF Saw, AddressInv
    <3>5. AddressInv'
      BY <2>1, <3>4 DEF AddressInv
    <3> QED BY <2>1, <3>5, SawEnd
  <2> QED BY <2>2, <2>3, <2>4
<1>12. ASSUME NEW w \in Workers, SignIn!VerifyCommit(w) PROVE SawInv'
  <2>1. /\ requests[w].op = "verify" /\ SignIn!End(w)
        /\ UNCHANGED <<method, email, proven, holder>>
        /\ crossed' = (crossed \/ requests[w].read # SignIn!Row)
    BY <1>12 DEF SignIn!VerifyCommit, SignIn!Stale
  <2>2. crossed' \/ email \in proven
    <3>1. requests[w].read = SignIn!Row => requests[w].read.email = email
      BY DEF SignIn!Row
    <3>2. requests[w].read.email \in proven
      BY <1>1, <2>1 DEF Saw
    <3> QED BY <2>1, <3>1, <3>2
  <2>3. AddressInv'
    BY <1>1, <2>1, <2>2 DEF AddressInv
  <2> QED BY <2>1, <2>3, SawEnd
<1>13. ASSUME NEW w \in Workers, SignIn!EmailCommit(w) PROVE SawInv'
  <2>1. /\ requests[w].op = "email" /\ SignIn!End(w)
        /\ UNCHANGED <<method, proven, holder>>
        /\ verified' = (verified /\ ~ requests[w].read.verified)
        /\ crossed' = (crossed \/ requests[w].read # SignIn!Row)
    BY <1>13 DEF SignIn!EmailCommit, SignIn!Stale, SignIn!StillVerified
  <2>2. crossed' \/ (requests[w].read.verified = verified /\ holder # Own)
    <3>1. requests[w].read = SignIn!Row
          => requests[w].read.verified = verified /\ requests[w].read.holder = holder
      BY DEF SignIn!Row
    <3>2. requests[w].read.holder # Own
      BY <1>1, <2>1 DEF Saw
    <3> QED BY <2>1, <3>1, <3>2
  <2>3. AddressInv'
    BY <2>1, <2>2 DEF AddressInv
  <2> QED BY <2>1, <2>3, SawEnd
<1> QED
  BY <1>2, <1>3, <1>4, <1>5, <1>6, <1>7, <1>8, <1>9, <1>10, <1>11, <1>12, <1>13
  DEF SignIn!Next, SignIn!vars, SignIn!accountVars, SignIn!historyVars, SignIn!Expire,
      SignIn!Spent

(* A verified address is one whose owner has been seen, through any order  *)
(* of verifications, sign-ins and changes of address, unless one of them   *)
(* wrote over a row that had changed.  (auth/oauth.py: login_or_create;    *)
(* auth/routes.py: verify_email; users/service.py: update_me.)             *)
THEOREM VerifiedIsProven == AccountsSpec => []VerifiedWasProven
<1>1. SignIn!Init => SignInBase /\ SawInv
  <2> SUFFICES ASSUME SignIn!Init PROVE SawInv
    BY SignInBaseInit
  <2>1. AddressInv
    BY DEF SignIn!Init, AddressInv
  <2>2. \A w \in Workers : Saw(w)
    BY FreeRequest DEF SignIn!Init, Saw
  <2> QED BY <2>1, <2>2 DEF SawInv
<1>2. (SignInBase /\ SawInv) /\ [SignIn!Next]_SignIn!vars => (SignInBase /\ SawInv)'
  BY SignInBaseStep, SawStep
<1>3. SawInv => VerifiedWasProven
  BY DEF SawInv, AddressInv, VerifiedWasProven, SignIn!VerifiedWasProven
<1> QED BY <1>1, <1>2, <1>3, AccountsParts, PTL DEF SignIn!Spec

-----------------------------------------------------------------------------
(* How often a code or nonce is accepted or refused.                       *)

(* The request will consume the proof if it ends well.                     *)
Holds(w, n) ==
    /\ requests[w].proof = n
    /\ \/ requests[w].op \in {"signin", "link"}
       \/ requests[w].op = "created" /\ method = "wallet"

(* The request has read a code that it was not told rightly.               *)
Guesses(w, n) == requests[w].op = "guess" /\ requests[w].proof = n

Holders(n) == {w \in Workers : Holds(w, n)}

(* Each use was that of a request which had the proof in hand with the     *)
(* ones that still have it: with the first use it is out of use.           *)
UsesInv(n) == proof[n].uses + Cardinality(Holders(n)) =< Cardinality(Workers)

(* Twice the sum of the x numbers from OtpMaxAttempts downwards: the       *)
(* guesses that bring the counter to x, if each of them but the last is    *)
(* written over by one that had read the counter before.                   *)
Twice(x) == x * (2 * OtpMaxAttempts - x + 1)

(* Of a code in use with a counted guesses: those that were made, also as  *)
(* a guess that puts the counter back will find them; of two guesses under *)
(* way one has read the counter as it is.  Of a code out of use: those     *)
(* that were made and those under way.                                     *)
GuessesInv(n) ==
    LET g == proof[n].guesses
        a == proof[n].attempts
        read(w) == requests[w].attempts
    IN  /\ proof[n].state = "none" => g = 0
        /\ proof[n].state = "live" =>
              /\ 2 * g =< Twice(a)
              /\ \A w \in Workers : Guesses(w, n) /\ read(w) =< a
                    => 2 * g =< Twice(read(w)) + 2 * (a - read(w))
              /\ \A v, w \in Workers : v # w /\ Guesses(v, n) /\ Guesses(w, n)
                    => a \in {read(v), read(w)}
        /\ proof[n].state = "used" =>
              /\ 2 * g =< Twice(OtpMaxAttempts) + 2
              /\ \A w \in Workers : Guesses(w, n) => 2 * g =< Twice(OtpMaxAttempts)
              /\ \A v, w \in Workers : v # w /\ Guesses(v, n) /\ Guesses(w, n)
                    => 2 * g + 2 =< Twice(OtpMaxAttempts)

TwoAtATime == \A u, v, w \in Workers : u = v \/ v = w \/ u = w

LEMMA TwiceGrows ==
    ASSUME NEW x \in 0 .. OtpMaxAttempts, NEW y \in x .. OtpMaxAttempts
    PROVE  /\ Twice(x) \in Nat /\ Twice(x) + 2 * (y - x) =< Twice(y)
<1>1. OtpMaxAttempts \in Nat /\ x \in Nat /\ y \in Nat /\ x =< y /\ y =< OtpMaxAttempts
  BY SignInAssumption
<1>2. Twice(y) - (Twice(x) + 2 * (y - x)) = (y - x) * (2 * OtpMaxAttempts - 1 - x - y)
  BY <1>1 DEF Twice
<1>3. (y - x) * (2 * OtpMaxAttempts - 1 - x - y) >= 0
  <2>1. CASE x = y
    BY <1>1, <2>1
  <2>2. CASE x < y
    <3> DEFINE d == y - x
               e == 2 * OtpMaxAttempts - 1 - x - y
    <3>1. d \in Nat /\ e \in Nat
      BY <1>1, <2>2
    <3> HIDE DEF d, e
    <3>2. d * e >= 0
      BY <3>1
    <3> QED BY <3>2 DEF d, e
  <2> QED BY <1>1, <2>1, <2>2
<1>4. Twice(x) \in Nat /\ Twice(y) \in Nat
  <2>1. ASSUME NEW z \in 0 .. OtpMaxAttempts PROVE Twice(z) \in Nat
    <3> DEFINE e == 2 * OtpMaxAttempts - z + 1
    <3>1. z \in Nat /\ e \in Nat
      BY <1>1
    <3> HIDE DEF e
    <3>2. z * e \in Nat
      BY <3>1
    <3> QED BY <3>2 DEF Twice, e
  <2> QED BY <1>1, <2>1
<1> QED BY <1>1, <1>2, <1>3, <1>4

LEMMA TwiceNext ==
    ASSUME NEW x \in 0 .. (OtpMaxAttempts - 1)
    PROVE  Twice(x + 1) = Twice(x) + 2 * (OtpMaxAttempts - x)
  BY SignInAssumption DEF Twice

LEMMA TwiceLast ==
    /\ Twice(0) = 0
    /\ Twice(OtpMaxAttempts) = OtpMaxAttempts * (OtpMaxAttempts + 1)
    /\ Twice(OtpMaxAttempts) \in Nat
    /\ Twice(OtpMaxAttempts - 1) + 2 = Twice(OtpMaxAttempts)
<1>1. OtpMaxAttempts \in Nat /\ OtpMaxAttempts >= 1
  BY SignInAssumption
<1>2. Twice(0) = 0 /\ Twice(OtpMaxAttempts) = OtpMaxAttempts * (OtpMaxAttempts + 1)
  BY <1>1 DEF Twice
<1>3. Twice(OtpMaxAttempts) \in Nat
  BY <1>1, TwiceGrows
<1>4. Twice(OtpMaxAttempts - 1) + 2 = Twice(OtpMaxAttempts)
  BY <1>1 DEF Twice
<1> QED BY <1>2, <1>3, <1>4

(* One more guess, that read r, of a code that had counted a.              *)
LEMMA OneMore ==
    ASSUME NEW a \in 0 .. (OtpMaxAttempts - 1), NEW r \in 0 .. (OtpMaxAttempts - 1),
           NEW g \in Nat, 2 * g =< Twice(a), r =< a => 2 * g =< Twice(r) + 2 * (a - r)
    PROVE  2 * (g + 1) =< Twice(r + 1) /\ Twice(r + 1) \in Nat
<1> DEFINE K == OtpMaxAttempts
<1>1. /\ K \in Nat /\ a \in Nat /\ r \in Nat /\ a < K /\ r < K
      /\ a \in 0 .. K /\ r \in 0 .. K /\ r + 1 \in 0 .. K
      /\ K \in a .. K /\ K \in r .. K /\ K \in (r + 1) .. K
  BY SignInAssumption
<1>2. Twice(a) \in Nat /\ Twice(r) \in Nat /\ Twice(r + 1) \in Nat
  <2>1. Twice(a) \in Nat
    BY <1>1, TwiceGrows
  <2>2. Twice(r) \in Nat
    BY <1>1, TwiceGrows
  <2>3. Twice(r + 1) \in Nat
    BY <1>1, TwiceGrows
  <2> QED BY <2>1, <2>2, <2>3
<1>3. Twice(r + 1) = Twice(r) + 2 * (K - r)
  BY TwiceNext
<1>4. CASE r =< a
  <2> HIDE DEF K
  <2> QED BY <1>1, <1>2, <1>3, <1>4
<1>5. CASE r > a
  <2>1. r + 1 \in a .. K
    BY <1>1, <1>5
  <2>2. Twice(a) + 2 * (r + 1 - a) =< Twice(r + 1)
    BY <1>1, <2>1, TwiceGrows
  <2> HIDE DEF K
  <2> QED BY <1>1, <1>2, <1>5, <2>2
<1> QED BY <1>1, <1>4, <1>5

LEMMA TwiceTyped == \A x \in Nat : x < OtpMaxAttempts => Twice(x) \in Nat
<1> SUFFICES ASSUME NEW x \in Nat, x < OtpMaxAttempts PROVE Twice(x) \in Nat
  OBVIOUS
<1>1. x \in 0 .. OtpMaxAttempts /\ OtpMaxAttempts \in x .. OtpMaxAttempts
  BY SignInAssumption
<1> QED BY <1>1, TwiceGrows

-----------------------------------------------------------------------------
(* What a step is to the proofs.                                           *)

(* No request gets hold of a proof.                                        *)
Calm ==
    \A v \in Workers, n \in Proofs :
        /\ Holds(v, n)' => Holds(v, n)
        /\ Guesses(v, n)' => Guesses(v, n) /\ requests'[v].attempts = requests[v].attempts

(* The counters stay, and the proof too unless it goes out of use.         *)
Untried(n) ==
    /\ proof'[n].guesses = proof[n].guesses
    /\ \/ proof'[n].state = "used"
       \/ proof'[n].state = proof[n].state /\ proof'[n].attempts = proof[n].attempts

Fresh(n) ==
    /\ proof[n].state = "none"
    /\ proof'[n].state = "live" /\ proof'[n].attempts = 0
    /\ proof'[n].guesses = 0 /\ proof'[n].uses = 0

(* Nothing is done with a proof, but that one may be issued.               *)
LetBe ==
    /\ Calm
    /\ \A n \in Proofs : Fresh(n) \/ (Untried(n) /\ proof'[n].uses = proof[n].uses)

(* A request w has read the proof n, which is in use.                      *)
Taken(w, n) ==
    /\ UNCHANGED proof
    /\ proof[n].state = "live" /\ proof[n].uses = 0
    /\ requests[w].op = "idle"
    /\ \A v \in Workers \ {w} : requests'[v] = requests[v]
    /\ requests'[w].proof = n /\ requests'[w].attempts = proof[n].attempts
    /\ method' = method

(* A request accepts its proof.                                            *)
Admitted(w, n) ==
    /\ Calm
    /\ Holds(w, n) /\ ~ Holds(w, n)'
    /\ proof'[n].state = "used" /\ proof'[n].guesses = proof[n].guesses
    /\ proof'[n].uses = proof[n].uses + 1
    /\ \A m \in Proofs \ {n} : proof'[m] = proof[m]

(* A guess is counted.                                                     *)
Refused(w, n) ==
    /\ Calm
    /\ Guesses(w, n) /\ ~ Guesses(w, n)' /\ method = "phone"
    /\ proof'[n].state =
         IF requests[w].attempts + 1 >= OtpMaxAttempts THEN "used" ELSE proof[n].state
    /\ proof'[n].attempts = requests[w].attempts + 1
    /\ proof'[n].guesses = proof[n].guesses + 1
    /\ proof'[n].uses = proof[n].uses
    /\ \A m \in Proofs \ {n} : proof'[m] = proof[m]

LEMMA CalmBegin ==
    ASSUME SignInBase, NEW w \in Workers, NEW r, requests' = [requests EXCEPT ![w] = r],
           method' = method, r.proof \notin Proofs
    PROVE  Calm
  BY DEF SignInBase, SignIn!TypeOK, Calm, Holds, Guesses

LEMMA CalmEnd ==
    ASSUME SignInBase, NEW w \in Workers, SignIn!End(w), method' = method
    PROVE  /\ Calm
           /\ \A n \in Proofs : ~ Holds(w, n)' /\ ~ Guesses(w, n)'
<1>1. /\ requests' = [requests EXCEPT ![w] = SignIn!Free] /\ SignIn!Free.proof \notin Proofs
      /\ requests'[w] = SignIn!Free
  BY FreeRequest, SignInAssumption DEF SignIn!End, SignInBase, SignIn!TypeOK
<1>2. Calm
  BY <1>1, CalmBegin
<1> QED BY <1>1, <1>2 DEF Holds, Guesses

LEMMA LetBeProof ==
    ASSUME SignInBase, Calm, UNCHANGED proof
    PROVE  LetBe
  BY DEF LetBe, Untried

LEMMA AdmittedEnd ==
    ASSUME SignInBase, NEW w \in Workers, NEW n \in Proofs, Calm, Holds(w, n), ~ Holds(w, n)',
           proof' = SignIn!Consumed(n, requests[w].attempts)
    PROVE  Admitted(w, n)
<1>1. requests[w].attempts \in Nat /\ requests[w].attempts < OtpMaxAttempts
  BY DEF SignInBase, SignIn!TypeOK, SignIn!Requests, Hand
<1> DEFINE a == requests[w].attempts
<1>2. /\ \A m \in Proofs \ {n} : SignIn!Consumed(n, a)[m] = proof[m]
      /\ SignIn!Consumed(n, a)[n].state = "used"
      /\ SignIn!Consumed(n, a)[n].guesses = proof[n].guesses
      /\ SignIn!Consumed(n, a)[n].uses = proof[n].uses + 1
  <2> HIDE DEF a
  <2> QED BY <1>1, ConsumedIsProof DEF a
<1> QED BY <1>2 DEF Admitted

(* Requests that take a proof, and those that take none.                   *)
LEMMA TakenBegin ==
    ASSUME SignInBase, NEW w \in Workers, NEW n \in Proofs, NEW purpose \in SignIn!Purposes,
           SignIn!Presented(n, purpose), NEW r, SignIn!Begin(w, r),
           r.proof = n, r.attempts = proof[n].attempts, UNCHANGED <<method, proof>>
    PROVE  Taken(w, n)
<1>1. proof[n].state = "live" /\ proof[n].uses = 0
  BY PresentedInUse
<1> QED BY <1>1 DEF Taken, SignIn!Begin, SignInBase, SignIn!TypeOK

Step ==
    \/ LetBe
    \/ \E w \in Workers, n \in Proofs : Taken(w, n) \/ Admitted(w, n) \/ Refused(w, n)

LEMMA BeginIsStep ==
    ASSUME SignInBase, NEW w \in Workers,
           \/ \E n \in Proofs, purpose \in SignIn!Purposes : SignIn!GuessBegin(w, n, purpose)
           \/ SignIn!SignInBegin(w)
           \/ \E n \in Proofs : SignIn!LinkBegin(w, n)
    PROVE  Step
<1>1. ASSUME NEW n, NEW op
      PROVE  LET r == [SignIn!Free EXCEPT !.op = op, !.proof = n, !.attempts = proof[n].attempts]
             IN  r.proof = n /\ r.attempts = proof[n].attempts
  BY DEF SignIn!Free
<1>2. CASE \E n \in Proofs, purpose \in SignIn!Purposes : SignIn!GuessBegin(w, n, purpose)
  <2>1. PICK n \in Proofs, purpose \in SignIn!Purposes : SignIn!GuessBegin(w, n, purpose)
    BY <1>2
  <2> DEFINE r == [SignIn!Free EXCEPT !.op = "guess", !.proof = n,
                                      !.attempts = proof[n].attempts]
  <2>2. /\ SignIn!Presented(n, purpose) /\ SignIn!Begin(w, r) /\ UNCHANGED <<method, proof>>
    BY <2>1 DEF SignIn!GuessBegin
  <2>3. r.proof = n /\ r.attempts = proof[n].attempts
    BY <1>1
  <2> HIDE DEF r
  <2> QED BY <2>2, <2>3, TakenBegin DEF Step
<1>3. CASE \E n \in Proofs : SignIn!LinkBegin(w, n)
  <2>1. PICK n \in Proofs : SignIn!LinkBegin(w, n)
    BY <1>3
  <2> DEFINE r == [SignIn!Free EXCEPT !.op = "link", !.proof = n,
                                      !.attempts = proof[n].attempts]
  <2>2. /\ SignIn!Presented(n, "link") /\ SignIn!Begin(w, r) /\ UNCHANGED <<method, proof>>
    BY <2>1 DEF SignIn!LinkBegin
  <2>3. r.proof = n /\ r.attempts = proof[n].attempts
    BY <1>1
  <2> HIDE DEF r
  <2>4. "link" \in SignIn!Purposes
    BY DEF SignIn!Purposes
  <2> QED BY <2>2, <2>3, <2>4, TakenBegin DEF Step
<1>4. CASE SignIn!SignInBegin(w) /\ method # "oauth"
  <2>1. PICK n \in Proofs :
          /\ SignIn!Presented(n, "login")
          /\ SignIn!Begin(w, [SignIn!Free EXCEPT !.op = "signin", !.proof = n,
                                                 !.attempts = proof[n].attempts])
    BY <1>4 DEF SignIn!SignInBegin
  <2> DEFINE r == [SignIn!Free EXCEPT !.op = "signin", !.proof = n,
                                      !.attempts = proof[n].attempts]
  <2>2. /\ SignIn!Presented(n, "login") /\ SignIn!Begin(w, r) /\ UNCHANGED <<method, proof>>
    BY <1>4, <2>1 DEF SignIn!SignInBegin
  <2>3. r.proof = n /\ r.attempts = proof[n].attempts
    BY <1>1
  <2> HIDE DEF r
  <2>4. "login" \in SignIn!Purposes
    BY DEF SignIn!Purposes
  <2> QED BY <2>2, <2>3, <2>4, TakenBegin DEF Step
<1>5. CASE SignIn!SignInBegin(w) /\ method = "oauth"
  <2> DEFINE r == [SignIn!Free EXCEPT !.op = "signin"]
  <2>1. requests' = [requests EXCEPT ![w] = r] /\ UNCHANGED <<method, proof>>
    BY <1>5 DEF SignIn!SignInBegin, SignIn!Begin
  <2>2. r.proof \notin Proofs
    BY SignInAssumption DEF SignIn!Free
  <2> HIDE DEF r
  <2> QED BY <2>1, <2>2, CalmBegin, LetBeProof DEF Step
<1> QED BY <1>2, <1>3, <1>4, <1>5

LEMMA AloneIsStep ==
    ASSUME SignInBase, NEW w \in Workers,
           \/ SignIn!RequestBegin(w)
           \/ SignIn!VerifyBegin(w)
           \/ \E address \in SignIn!Emails : SignIn!EmailBegin(w, address)
    PROVE  Step
<1>1. UNCHANGED <<method, proof>>
  BY DEF SignIn!RequestBegin, SignIn!VerifyBegin, SignIn!EmailBegin
<1>2. PICK r : requests' = [requests EXCEPT ![w] = r] /\ r.proof = Nobody
  <2>1. CASE SignIn!RequestBegin(w)
    <3>1. PICK r : requests' = [requests EXCEPT ![w] = r]
                   /\ \/ \E purpose \in SignIn!Purposes : r = SignIn!CodeRequest(purpose)
                      \/ r = SignIn!LoginNonceRequest
                      \/ r = SignIn!LinkNonceRequest
      BY <2>1 DEF SignIn!RequestBegin, SignIn!Begin
    <3>2. r.proof = Nobody
      BY <3>1 DEF SignIn!CodeRequest, SignIn!LoginNonceRequest, SignIn!LinkNonceRequest,
                  SignIn!Free
    <3> QED BY <3>1, <3>2
  <2>2. CASE SignIn!VerifyBegin(w)
    <3>1. [SignIn!Free EXCEPT !.op = "verify", !.read = SignIn!Row].proof = Nobody
      BY DEF SignIn!Free
    <3> QED BY <2>2, <3>1 DEF SignIn!VerifyBegin, SignIn!Begin
  <2>3. CASE \E address \in SignIn!Emails : SignIn!EmailBegin(w, address)
    <3>1. PICK address : SignIn!EmailBegin(w, address)
      BY <2>3
    <3>2. [SignIn!Free EXCEPT !.op = "email", !.address = address, !.read = SignIn!Row].proof
          = Nobody
      BY DEF SignIn!Free
    <3> QED BY <3>1, <3>2 DEF SignIn!EmailBegin, SignIn!Begin
  <2> QED BY <2>1, <2>2, <2>3
<1> QED BY <1>1, <1>2, CalmBegin, LetBeProof, SignInAssumption DEF Step

(* A request that ends and accepts or refuses nothing.                     *)
LEMMA EndIsStep ==
    ASSUME SignInBase, NEW w \in Workers, SignIn!End(w), UNCHANGED <<method, proof>>
    PROVE  Step
  BY CalmEnd, LetBeProof DEF Step

LEMMA IssueIsStep ==
    ASSUME SignInBase, NEW w \in Workers, SignIn!RequestCommit(w)
    PROVE  Step
<1>1. Calm
  BY CalmEnd DEF SignIn!RequestCommit
<1>2. PICK n \in Proofs :
        /\ proof[n].state = "none"
        /\ proof' = [m \in Proofs |->
             IF m = n
             THEN [state |-> "live", purpose |-> requests[w].purpose, attempts |-> 0,
                   uses |-> 0, guesses |-> 0]
             ELSE IF m \in requests[w].todo THEN [proof[m] EXCEPT !.state = "used"]
             ELSE proof[m]]
  BY DEF SignIn!RequestCommit
<1>3. ASSUME NEW m \in Proofs
      PROVE  Fresh(m) \/ (Untried(m) /\ proof'[m].uses = proof[m].uses)
  <2>1. proof[m] \in SignIn!ProofStates
    BY DEF SignInBase, SignIn!TypeOK
  <2>2. CASE m = n
    BY <1>2, <2>2 DEF Fresh
  <2>3. CASE m # n /\ m \in requests[w].todo
    <3>1. proof'[m] = [proof[m] EXCEPT !.state = "used"]
      BY <1>2, <2>3
    <3> QED BY <2>1, <3>1 DEF SignIn!ProofStates, Untried
  <2>4. CASE m # n /\ m \notin requests[w].todo
    BY <1>2, <2>4 DEF Untried
  <2> QED BY <2>2, <2>3, <2>4
<1> QED BY <1>1, <1>3 DEF LetBe, Step

LEMMA GuessIsStep ==
    ASSUME SignInBase, NEW w \in Workers, SignIn!GuessCommit(w)
    PROVE  Step
<1> DEFINE a == requests[w].attempts
<1>0. PICK n \in Proofs : n = requests[w].proof
  BY DEF SignInBase, Hand, SignIn!GuessCommit
<1>1. /\ a \in Nat /\ a < OtpMaxAttempts /\ proof[n].state # "none"
      /\ method = "phone" /\ requests[w].op = "guess" /\ method' = method
  BY <1>0 DEF SignInBase, SignIn!TypeOK, SignIn!Requests, Hand, SignIn!GuessCommit
<1>2. Calm /\ ~ Guesses(w, n)'
  BY <1>1, CalmEnd DEF SignIn!GuessCommit
<1>3. proof' = SignIn!Counted(n, a) /\ Guesses(w, n)
  BY <1>0, <1>1 DEF SignIn!GuessCommit, Guesses
<1>4. /\ \A m \in Proofs \ {n} : proof'[m] = proof[m]
      /\ proof'[n].state = IF a + 1 >= OtpMaxAttempts THEN "used" ELSE proof[n].state
      /\ proof'[n].attempts = a + 1
      /\ proof'[n].guesses = proof[n].guesses + 1
      /\ proof'[n].uses = proof[n].uses
  <2> HIDE DEF a
  <2> QED BY <1>1, <1>3, CountedIsProof
<1>5. Refused(w, n)
  BY <1>1, <1>2, <1>3, <1>4 DEF Refused
<1> QED BY <1>1, <1>5 DEF Step

LEMMA LookIsStep ==
    ASSUME SignInBase, NEW w \in Workers, SignIn!Find(w) \/ SignIn!Create(w)
    PROVE  Step
<1> DEFINE found == [requests[w] EXCEPT !.user = SignIn!Found, !.read = SignIn!Row]
           new == [requests[w] EXCEPT !.op = "created", !.user = New, !.read = SignIn!Row]
<1>1. /\ requests \in [Workers -> SignIn!Requests] /\ Hand(w) /\ requests[w].op = "signin"
      /\ method' = method
  BY DEF SignInBase, SignIn!TypeOK, SignIn!Find, SignIn!Create
<1>2. /\ found.op = "signin" /\ found.proof = requests[w].proof
      /\ found.attempts = requests[w].attempts
      /\ new.op = "created" /\ new.proof = requests[w].proof
      /\ new.attempts = requests[w].attempts
  BY <1>1 DEF SignIn!Requests
<1>3. SignIn!Find(w) => requests' = [requests EXCEPT ![w] = found] /\ UNCHANGED proof
  BY <1>1 DEF SignIn!Find, SignIn!Requests
<1>4. SignIn!Create(w) =>
        /\ requests' = [requests EXCEPT ![w] = new]
        /\ proof' = IF method = "phone"
                    THEN SignIn!Consumed(requests[w].proof, requests[w].attempts) ELSE proof
  BY <1>1 DEF SignIn!Create, SignIn!Requests
<1> HIDE DEF found, new
<1>5. Calm
  BY <1>1, <1>2, <1>3, <1>4 DEF Calm, Holds, Guesses
<1>6. CASE UNCHANGED proof
  BY <1>5, <1>6, LetBeProof DEF Step
<1>7. CASE SignIn!Create(w) /\ method = "phone"
  <2>1. PICK n \in Proofs : n = requests[w].proof
    BY <1>1, <1>7 DEF Hand
  <2>2. Holds(w, n)
    BY <1>1, <2>1 DEF Holds
  <2>3. proof' = SignIn!Consumed(n, requests[w].attempts)
    BY <1>4, <1>7, <2>1
  <2>4. ~ Holds(w, n)'
    BY <1>1, <1>2, <1>4, <1>7 DEF Holds
  <2> QED BY <1>5, <2>2, <2>3, <2>4, AdmittedEnd DEF Step
<1> QED BY <1>3, <1>4, <1>6, <1>7

LEMMA EnterIsStep ==
    ASSUME SignInBase, NEW w \in Workers,
           \/ SignIn!PhoneSignInCommit(w)
           \/ SignIn!WalletSignInCommit(w)
           \/ SignIn!OAuthSignInCommit(w)
           \/ SignIn!LinkCommit(w)
    PROVE  Step
<1>1. SignIn!End(w) /\ method' = method
  BY DEF SignIn!PhoneSignInCommit, SignIn!WalletSignInCommit, SignIn!OAuthSignInCommit,
         SignIn!LinkCommit, SignIn!Enter
<1>2. CASE UNCHANGED proof
  BY <1>1, <1>2, EndIsStep
<1>3. ASSUME proof' = SignIn!Consumed(requests[w].proof, requests[w].attempts),
             requests[w].proof \in Proofs,
             requests[w].op \in {"signin", "link"}
               \/ (requests[w].op = "created" /\ method = "wallet")
      PROVE  Step
  <2>1. PICK n \in Proofs :
          Holds(w, n) /\ proof' = SignIn!Consumed(n, requests[w].attempts)
    BY <1>3 DEF Holds
  <2>2. Calm /\ ~ Holds(w, n)'
    BY <1>1, <2>1, CalmEnd
  <2> QED BY <2>1, <2>2, AdmittedEnd DEF Step
<1>4. Hand(w)
  BY DEF SignInBase
<1>5. CASE SignIn!PhoneSignInCommit(w) /\ requests[w].op # "created"
  BY <1>3, <1>4, <1>5 DEF SignIn!PhoneSignInCommit, SignIn!Enter, Hand
<1>6. CASE SignIn!WalletSignInCommit(w)
  BY <1>3, <1>4, <1>6 DEF SignIn!WalletSignInCommit, SignIn!Enter, Hand
<1>7. CASE SignIn!LinkCommit(w)
  BY <1>3, <1>4, <1>7 DEF SignIn!LinkCommit, Hand
<1> QED BY <1>2, <1>5, <1>6, <1>7 DEF SignIn!PhoneSignInCommit, SignIn!OAuthSignInCommit

LEMMA ElseIsStep ==
    ASSUME SignInBase,
           SignIn!Unlink \/ (\E n \in Proofs : SignIn!Expire(n)) \/ SignIn!Spent
             \/ UNCHANGED SignIn!vars
    PROVE  Step
<1>1. Calm
  BY DEF SignIn!Unlink, SignIn!Expire, SignIn!Spent, SignIn!vars, Calm, Holds, Guesses
<1>2. CASE UNCHANGED proof
  BY <1>1, <1>2, LetBeProof DEF Step
<1>3. ASSUME NEW n \in Proofs, SignIn!Expire(n) PROVE Step
  <2> DEFINE r == [proof[n] EXCEPT !.state = "used"]
  <2>1. proof \in [Proofs -> SignIn!ProofStates]
    BY DEF SignInBase, SignIn!TypeOK
  <2>2. /\ r.state = "used" /\ r.guesses = proof[n].guesses /\ r.uses = proof[n].uses
        /\ proof' = [proof EXCEPT ![n] = r]
    BY <1>3, <2>1 DEF SignIn!ProofStates, SignIn!Expire
  <2> HIDE DEF r
  <2>3. \A m \in Proofs : Untried(m) /\ proof'[m].uses = proof[m].uses
    BY <2>1, <2>2 DEF Untried
  <2> QED BY <1>1, <2>3 DEF LetBe, Step
<1> QED BY <1>2, <1>3 DEF SignIn!Unlink, SignIn!Spent, SignIn!vars

LEMMA EveryStep == SignInBase /\ [SignIn!Next]_SignIn!vars => Step
<1> SUFFICES ASSUME SignInBase, [SignIn!Next]_SignIn!vars PROVE Step
  OBVIOUS
<1>1. CASE SignIn!Unlink \/ (\E n \in Proofs : SignIn!Expire(n)) \/ SignIn!Spent
             \/ UNCHANGED SignIn!vars
  BY <1>1, ElseIsStep
<1>2. ASSUME NEW w \in Workers, SignIn!VerifyCommit(w) \/ SignIn!EmailCommit(w) \/ SignIn!Fail(w)
      PROVE  Step
  BY <1>2, EndIsStep DEF SignIn!VerifyCommit, SignIn!EmailCommit, SignIn!Fail
<1> QED BY <1>1, <1>2, BeginIsStep, AloneIsStep, IssueIsStep, GuessIsStep, LookIsStep,
           EnterIsStep DEF SignIn!Next

-----------------------------------------------------------------------------
LEMMA HoldersFinite ==
    /\ IsFiniteSet(Workers) /\ Cardinality(Workers) \in Nat
    /\ \A S \in SUBSET Workers :
          /\ IsFiniteSet(S) /\ Cardinality(S) \in Nat
          /\ Cardinality(S) =< Cardinality(Workers)
  BY SignInAssumption, FS_Subset, FS_CardinalityType

LEMMA UsesStep ==
    ASSUME SignInBase, SignInBase', \A n \in Proofs : UsesInv(n), Step
    PROVE  \A n \in Proofs : UsesInv(n)'
<1>1. /\ proof \in [Proofs -> SignIn!ProofStates] /\ proof' \in [Proofs -> SignIn!ProofStates]
  BY DEF SignInBase, SignIn!TypeOK
<1>2. ASSUME NEW n \in Proofs
      PROVE  /\ proof[n].uses \in Nat /\ proof'[n].uses \in Nat
             /\ Holders(n) \in SUBSET Workers /\ Holders(n)' \in SUBSET Workers
  BY <1>1 DEF SignIn!ProofStates, Holders
<1>3. ASSUME NEW n \in Proofs, proof'[n].uses = 0 PROVE UsesInv(n)'
  BY <1>2, <1>3, HoldersFinite DEF UsesInv
<1>4. ASSUME NEW n \in Proofs, proof'[n].uses = proof[n].uses, Holders(n)' \subseteq Holders(n)
      PROVE  UsesInv(n)'
  <2> DEFINE S == Holders(n)
             T == Holders(n)'
             c == Cardinality(Workers)
  <2>1. IsFiniteSet(S) /\ T \subseteq S /\ Cardinality(S) \in Nat /\ Cardinality(T) \in Nat
        /\ c \in Nat
    BY <1>2, <1>4, HoldersFinite
  <2> HIDE DEF S, T
  <2>2. Cardinality(T) =< Cardinality(S)
    BY <2>1, FS_Subset
  <2>3. proof[n].uses + Cardinality(S) =< c
    BY DEF UsesInv, S
  <2>4. proof'[n].uses + Cardinality(T) =< c
    <3> HIDE DEF c
    <3> QED BY <1>2, <1>4, <2>1, <2>2, <2>3
  <2> QED BY <2>4 DEF UsesInv, T
<1>5. CASE LetBe
  <2>1. ASSUME NEW n \in Proofs PROVE Holders(n)' \subseteq Holders(n)
    BY <1>5 DEF LetBe, Calm, Holders
  <2> QED BY <1>3, <1>4, <1>5, <2>1 DEF LetBe, Fresh
<1>6. ASSUME NEW w \in Workers, NEW m \in Proofs, Taken(w, m), NEW n \in Proofs
      PROVE  UsesInv(n)'
  <2>1. CASE n = m
    BY <1>3, <1>6, <2>1 DEF Taken
  <2>2. CASE n # m
    <3>1. Holders(n)' \subseteq Holders(n)
      BY <1>6, <2>2 DEF Taken, Holders, Holds
    <3> QED BY <1>4, <1>6, <3>1 DEF Taken
  <2> QED BY <2>1, <2>2
<1>7. ASSUME NEW w \in Workers, NEW m \in Proofs, Admitted(w, m), NEW n \in Proofs
      PROVE  UsesInv(n)'
  <2>1. CASE n # m
    <3>1. Holders(n)' \subseteq Holders(n)
      BY <1>7 DEF Admitted, Calm, Holders
    <3> QED BY <1>4, <1>7, <2>1, <3>1 DEF Admitted
  <2>2. CASE n = m
    <3> DEFINE S == Holders(n)
               T == Holders(n)'
               c == Cardinality(Workers)
    <3>1. w \in S /\ T \subseteq S \ {w}
      BY <1>7, <2>2 DEF Admitted, Calm, Holders
    <3>2. /\ IsFiniteSet(S) /\ IsFiniteSet(S \ {w}) /\ Cardinality(S) \in Nat
          /\ Cardinality(T) \in Nat /\ Cardinality(S \ {w}) \in Nat /\ c \in Nat
      <4>1. S \ {w} \in SUBSET Workers
        BY <1>2
      <4> QED BY <1>2, <4>1, HoldersFinite
    <3> HIDE DEF S, T
    <3>3. Cardinality(S \ {w}) = Cardinality(S) - 1
      BY <3>1, <3>2, FS_RemoveElement
    <3>4. Cardinality(T) =< Cardinality(S \ {w})
      BY <3>1, <3>2, FS_Subset
    <3>5. proof[n].uses + Cardinality(S) =< c /\ proof'[n].uses = proof[n].uses + 1
      BY <1>7, <2>2 DEF UsesInv, S, Admitted
    <3>6. proof'[n].uses + Cardinality(T) =< c
      <4> HIDE DEF c
      <4> QED BY <1>2, <3>2, <3>3, <3>4, <3>5
    <3> QED BY <3>6 DEF UsesInv, T
  <2> QED BY <2>1, <2>2
<1>8. ASSUME NEW w \in Workers, NEW m \in Proofs, Refused(w, m), NEW n \in Proofs
      PROVE  UsesInv(n)'
  <2>1. Holders(n)' \subseteq Holders(n)
    BY <1>8 DEF Refused, Calm, Holders
  <2>2. proof'[n].uses = proof[n].uses
    BY <1>8 DEF Refused
  <2> QED BY <1>4, <2>1, <2>2
<1> QED BY <1>5, <1>6, <1>7, <1>8 DEF Step

-----------------------------------------------------------------------------
(* The numbers of a proof and of the requests.                             *)
LEMMA Numbers ==
    ASSUME SignInBase
    PROVE  /\ OtpMaxAttempts \in Nat /\ OtpMaxAttempts >= 1
           /\ \A n \in Proofs : /\ proof[n].state \in {"none", "live", "used"}
                                /\ proof[n].guesses \in Nat
                                /\ proof[n].attempts \in 0 .. OtpMaxAttempts
                                /\ proof[n].state = "live" => proof[n].attempts < OtpMaxAttempts
           /\ \A w \in Workers : requests[w].attempts \in Nat /\ requests[w].attempts < OtpMaxAttempts
           /\ \A n \in Proofs, w \in Workers : Guesses(w, n) => proof[n].state # "none"
  BY SignInAssumption
  DEF SignInBase, SignIn!TypeOK, SignIn!ProofStates, SignIn!Requests, Hand, InUse, Guesses

(* No guess was taken or counted: what has gone out of use was within the  *)
(* bound with what is under way.                                           *)
LEMMA GuessesKept ==
    ASSUME SignInBase, NEW n \in Proofs, GuessesInv(n), Untried(n),
           \A v \in Workers : Guesses(v, n)' =>
               Guesses(v, n) /\ requests'[v].attempts = requests[v].attempts
    PROVE  GuessesInv(n)'
<1> DEFINE g == proof[n].guesses
           a == proof[n].attempts
           K == OtpMaxAttempts
<1>1. /\ g \in Nat /\ a \in 0 .. K /\ K \in Nat /\ K >= 1
      /\ \A w \in Workers : requests[w].attempts \in Nat /\ requests[w].attempts < K
      /\ proof[n].state \in {"none", "live", "used"}
      /\ proof[n].state = "live" => a < K
  BY Numbers
<1>2. CASE proof'[n].state = proof[n].state /\ proof'[n].attempts = a
  BY <1>2 DEF GuessesInv, Untried
<1>3. CASE proof'[n].state = "used" /\ proof[n].state = "used"
  BY <1>3 DEF GuessesInv, Untried
<1>4. CASE proof'[n].state = "used" /\ proof[n].state = "none"
  <2>1. g = 0 /\ proof'[n].guesses = 0 /\ \A w \in Workers : ~ Guesses(w, n)'
    BY <1>4, Numbers DEF GuessesInv, Untried
  <2>2. Twice(K) \in Nat
    BY TwiceLast
  <2>3. 2 * proof'[n].guesses =< Twice(K) + 2
    BY <2>1, <2>2
  <2> QED BY <1>4, <2>1, <2>3 DEF GuessesInv
<1>5. CASE proof'[n].state = "used" /\ proof[n].state = "live"
  <2>1. a \in 0 .. (K - 1) /\ Twice(a) \in Nat /\ Twice(K) \in Nat
        /\ 2 * g =< Twice(a) /\ Twice(a) + 2 * (K - a) =< Twice(K)
    <3>1. a \in 0 .. (K - 1) /\ a \in 0 .. K /\ K \in a .. K
      BY <1>1, <1>5
    <3>2. 2 * g =< Twice(a)
      BY <1>5 DEF GuessesInv
    <3> HIDE DEF a, g, K
    <3> QED BY <3>1, <3>2, TwiceGrows, TwiceLast DEF K
  <2>2. 2 * g + 2 =< Twice(K)
    <3> HIDE DEF a, g, K
    <3> QED BY <1>1, <2>1
  <2>3. 2 * g =< Twice(K) + 2 /\ 2 * g =< Twice(K)
    <3> HIDE DEF a, g, K
    <3> QED BY <1>1, <2>1, <2>2
  <2>4. proof'[n].guesses = g
    BY DEF Untried
  <2> QED BY <1>5, <2>2, <2>3, <2>4 DEF GuessesInv
<1> QED BY <1>1, <1>2, <1>3, <1>4, <1>5 DEF Untried

(* A guess is counted: on a code in use it brings the counter to one more  *)
(* than it read, with no more guesses made than that can be.               *)
LEMMA GuessesRefused ==
    ASSUME SignInBase, TwoAtATime, NEW w \in Workers, NEW n \in Proofs, Refused(w, n),
           GuessesInv(n)
    PROVE  GuessesInv(n)'
<1> DEFINE g == proof[n].guesses
           a == proof[n].attempts
           r == requests[w].attempts
           K == OtpMaxAttempts
<1>1. /\ g \in Nat /\ a \in 0 .. K /\ K \in Nat /\ K >= 1
      /\ \A v \in Workers : requests[v].attempts \in Nat /\ requests[v].attempts < K
      /\ r \in Nat /\ r < K
      /\ proof[n].state \in {"live", "used"}
      /\ proof[n].state = "live" => a < K
  BY Numbers DEF Refused
<1>2. /\ proof'[n].guesses = g + 1 /\ proof'[n].attempts = r + 1
      /\ proof'[n].state = IF r + 1 >= K THEN "used" ELSE proof[n].state
      /\ Guesses(w, n)
  BY DEF Refused
<1>3. ASSUME NEW v \in Workers, Guesses(v, n)'
      PROVE  /\ Guesses(v, n) /\ v # w
             /\ requests'[v].attempts = requests[v].attempts
  BY <1>3 DEF Refused, Calm
<1>4. ASSUME NEW u \in Workers, NEW v \in Workers, u # v, Guesses(u, n)', Guesses(v, n)'
      PROVE  FALSE
  BY <1>3, <1>4 DEF TwoAtATime
<1>5. CASE proof[n].state = "used"
  <2>1. /\ 2 * g =< Twice(K)
        /\ \A v \in Workers : Guesses(v, n)' => 2 * g + 2 =< Twice(K)
    BY <1>2, <1>3, <1>5 DEF GuessesInv
  <2>2. Twice(K) \in Nat
    BY TwiceLast
  <2>3. /\ 2 * (g + 1) =< Twice(K) + 2
        /\ \A v \in Workers : Guesses(v, n)' => 2 * (g + 1) =< Twice(K)
    <3> HIDE DEF g, K
    <3> QED BY <1>1, <2>1, <2>2
  <2> QED BY <1>2, <1>4, <1>5, <2>3 DEF GuessesInv
<1>6. CASE proof[n].state = "live"
  <2>1. /\ 2 * g =< Twice(a)
        /\ r =< a => 2 * g =< Twice(r) + 2 * (a - r)
    BY <1>2, <1>6 DEF GuessesInv
  <2>3. 2 * (g + 1) =< Twice(r + 1) /\ Twice(r + 1) \in Nat
    <3>1. a \in 0 .. (K - 1) /\ r \in 0 .. (K - 1)
      <4> HIDE DEF a, r, g, K
      <4> QED BY <1>1, <1>6
    <3> HIDE DEF a, r, g
    <3> QED BY <1>1, <2>1, <3>1, OneMore
  <2>4. CASE r + 1 >= K
    <3>1. proof'[n].state = "used" /\ r + 1 = K
      <4> HIDE DEF a, r, K, g
      <4> QED BY <1>1, <1>2, <2>4
    <3>2. 2 * (g + 1) =< Twice(K) /\ 2 * (g + 1) =< Twice(K) + 2
      <4>1. 2 * (g + 1) =< Twice(K) /\ Twice(K) \in Nat
        BY <2>3, <3>1, TwiceLast
      <4> HIDE DEF K, g
      <4> QED BY <1>1, <4>1
    <3> QED BY <1>2, <1>4, <3>1, <3>2 DEF GuessesInv
  <2>5. CASE r + 1 < K
    <3>1. proof'[n].state = "live"
      <4> HIDE DEF a, r, K, g
      <4> QED BY <1>1, <1>2, <1>6, <2>5
    <3>2. ASSUME NEW v \in Workers, Guesses(v, n)', requests'[v].attempts =< r + 1
          PROVE  2 * (g + 1) =< Twice(requests'[v].attempts)
                                  + 2 * (r + 1 - requests'[v].attempts)
      <4> DEFINE s == requests[v].attempts
      <4>1. /\ requests'[v].attempts = s /\ s \in Nat /\ s =< r + 1
            /\ a \in {s, r}
            /\ s =< a => 2 * g =< Twice(s) + 2 * (a - s)
        BY <1>1, <1>2, <1>3, <1>6, <3>2 DEF GuessesInv
      <4>2. Twice(s) \in Nat
        <5>1. s \in 0 .. K /\ K \in s .. K
          BY <1>1, <4>1
        <5> HIDE DEF s
        <5> QED BY <5>1, TwiceGrows
      <4>3. 2 * (g + 1) =< Twice(s) + 2 * (r + 1 - s)
        <5> HIDE DEF s, a, r, g, K
        <5>1. CASE s = r + 1
          BY <1>1, <2>3, <5>1
        <5>2. CASE s =< r
          BY <1>1, <4>1, <4>2, <5>2
        <5> QED BY <1>1, <4>1, <5>1, <5>2
      <4> QED BY <4>1, <4>3
    <3>3. 2 * proof'[n].guesses =< Twice(proof'[n].attempts)
      BY <1>2, <2>3
    <3>4. ASSUME NEW v \in Workers, Guesses(v, n)',
                 requests'[v].attempts =< proof'[n].attempts
          PROVE  2 * proof'[n].guesses =< Twice(requests'[v].attempts)
                                           + 2 * (proof'[n].attempts - requests'[v].attempts)
      <4>1. requests'[v].attempts =< r + 1
        BY <1>2, <3>4
      <4>2. 2 * (g + 1) =< Twice(requests'[v].attempts) + 2 * (r + 1 - requests'[v].attempts)
        BY <3>2, <3>4, <4>1
      <4>3. /\ proof'[n].guesses = g + 1 /\ proof'[n].attempts = r + 1
            /\ g \in Nat /\ r \in Nat /\ requests'[v].attempts \in Nat
            /\ Twice(requests'[v].attempts) \in Nat
        BY <1>1, <1>2, <1>3, <3>4, TwiceTyped
      <4> DEFINE s == requests'[v].attempts
                 t == Twice(s)
                 h == proof'[n].guesses
                 b == proof'[n].attempts
      <4> HIDE DEF s, t, h, b, g, r
      <4>4. 2 * h =< t + 2 * (b - s)
        BY <4>2, <4>3 DEF s, t, h, b
      <4> QED BY <4>4 DEF s, t, h, b
    <3> QED BY <1>4, <3>1, <3>3, <3>4 DEF GuessesInv
  <2> QED BY <1>1, <2>4, <2>5
<1> QED BY <1>1, <1>5, <1>6

(* A request reads the code, or a nonce.                                   *)
LEMMA GuessesTaken ==
    ASSUME SignInBase, NEW w \in Workers, NEW n \in Proofs, Taken(w, n), GuessesInv(n)
    PROVE  GuessesInv(n)'
<1> DEFINE g == proof[n].guesses
           a == proof[n].attempts
<1>1. /\ g \in Nat /\ a \in Nat /\ 2 * g =< Twice(a) /\ proof[n].state = "live"
      /\ Twice(a) \in Nat
  <2>1. a \in 0 .. OtpMaxAttempts /\ OtpMaxAttempts \in a .. OtpMaxAttempts /\ g \in Nat
    BY Numbers
  <2>2. 2 * g =< Twice(a) /\ proof[n].state = "live"
    BY DEF Taken, GuessesInv
  <2> HIDE DEF a, g
  <2> QED BY <2>1, <2>2, TwiceGrows
<1>2. 2 * g =< Twice(a) + 2 * (a - a)
  <2> HIDE DEF a, g
  <2> QED BY <1>1
<1>3. /\ proof' = proof /\ requests'[w].attempts = a
      /\ \A v \in Workers \ {w} : requests'[v] = requests[v]
  BY DEF Taken
<1>4. ASSUME NEW v \in Workers, v # w, Guesses(v, n)'
      PROVE  Guesses(v, n) /\ requests'[v].attempts = requests[v].attempts
  BY <1>3, <1>4 DEF Guesses
<1>5. ASSUME NEW v \in Workers, Guesses(v, n)', requests'[v].attempts =< a
      PROVE  2 * g =< Twice(requests'[v].attempts) + 2 * (a - requests'[v].attempts)
  <2>1. CASE v = w
    BY <1>2, <1>3, <2>1
  <2>2. CASE v # w
    BY <1>1, <1>4, <1>5, <2>2 DEF GuessesInv
  <2> QED BY <2>1, <2>2
<1>6. ASSUME NEW u \in Workers, NEW v \in Workers, u # v, Guesses(u, n)', Guesses(v, n)'
      PROVE  a \in {requests'[u].attempts, requests'[v].attempts}
  <2>1. CASE u = w \/ v = w
    BY <1>3, <2>1
  <2>2. CASE u # w /\ v # w
    BY <1>1, <1>4, <1>6, <2>2 DEF GuessesInv
  <2> QED BY <2>1, <2>2
<1>7. 2 * proof'[n].guesses =< Twice(proof'[n].attempts)
  BY <1>1, <1>3
<1> QED BY <1>1, <1>3, <1>5, <1>6, <1>7 DEF GuessesInv

LEMMA GuessesStep ==
    ASSUME SignInBase, TwoAtATime, \A n \in Proofs : GuessesInv(n), Step
    PROVE  \A n \in Proofs : GuessesInv(n)'
<1>1. ASSUME NEW n \in Proofs, Calm, Untried(n) PROVE GuessesInv(n)'
  BY <1>1, GuessesKept DEF Calm
<1>2. ASSUME NEW n \in Proofs, Calm, Fresh(n) PROVE GuessesInv(n)'
  <2>1. \A v \in Workers : ~ Guesses(v, n)'
    BY <1>2, Numbers DEF Calm, Fresh
  <2>2. 2 * proof'[n].guesses =< Twice(proof'[n].attempts)
    BY <1>2, TwiceLast DEF Fresh
  <2> QED BY <1>2, <2>1, <2>2 DEF Fresh, GuessesInv
<1>3. CASE LetBe
  BY <1>1, <1>2, <1>3 DEF LetBe
<1>4. ASSUME NEW w \in Workers, NEW m \in Proofs, Taken(w, m), NEW n \in Proofs
      PROVE  GuessesInv(n)'
  <2>1. CASE n = m
    BY <1>4, <2>1, GuessesTaken
  <2>2. CASE n # m
    <3>1. Untried(n)
      BY <1>4 DEF Taken, Untried
    <3>2. \A v \in Workers : Guesses(v, n)' =>
              Guesses(v, n) /\ requests'[v].attempts = requests[v].attempts
      BY <1>4, <2>2 DEF Taken, Guesses
    <3> QED BY <3>1, <3>2, GuessesKept
  <2> QED BY <2>1, <2>2
<1>5. ASSUME NEW w \in Workers, NEW m \in Proofs, Admitted(w, m), NEW n \in Proofs
      PROVE  GuessesInv(n)'
  BY <1>1, <1>5 DEF Admitted, Untried
<1>6. ASSUME NEW w \in Workers, NEW m \in Proofs, Refused(w, m), NEW n \in Proofs
      PROVE  GuessesInv(n)'
  <2>1. CASE n = m
    BY <1>6, <2>1, GuessesRefused
  <2>2. CASE n # m
    BY <1>1, <1>6, <2>2 DEF Refused, Untried
  <2> QED BY <2>1, <2>2
<1> QED BY <1>3, <1>4, <1>5, <1>6 DEF Step

ProofsInv ==
    /\ \A n \in Proofs : UsesInv(n)
    /\ \A n \in Proofs : GuessesInv(n)

LEMMA ProofsInvBounds == SignInBase /\ ProofsInv => ProofsBounded
<1> SUFFICES ASSUME SignInBase, ProofsInv
             PROVE  SignIn!TypeOK /\ SignIn!GuessesBounded /\ SignIn!UsedByOverlapOnly
  BY DEF ProofsBounded, SignIn!ProofsBounded
<1>1. SignIn!UsedByOverlapOnly
  <2>1. ASSUME NEW n \in Proofs PROVE proof[n].uses =< Cardinality(Workers)
    <3>1. proof[n].uses \in Nat /\ Holders(n) \in SUBSET Workers
      BY DEF SignInBase, SignIn!TypeOK, SignIn!ProofStates, Holders
    <3>2. proof[n].uses + Cardinality(Holders(n)) =< Cardinality(Workers)
      BY DEF ProofsInv, UsesInv
    <3> QED BY <3>1, <3>2, HoldersFinite
  <2> QED BY <2>1 DEF SignIn!UsedByOverlapOnly, SignIn!Cardinality, Cardinality
<1>2. SignIn!GuessesBounded
  <2>1. ASSUME NEW n \in Proofs
        PROVE  proof[n].guesses =< (OtpMaxAttempts * (OtpMaxAttempts + 1)) \div 2 + 1
    <3> DEFINE g == proof[n].guesses
               a == proof[n].attempts
               t == Twice(OtpMaxAttempts)
    <3>1. /\ g \in Nat /\ t \in Nat /\ t = OtpMaxAttempts * (OtpMaxAttempts + 1)
          /\ proof[n].state \in {"none", "live", "used"}
      BY Numbers, TwiceLast
    <3>2. Twice(a) \in Nat /\ Twice(a) =< t
      <4>1. a \in 0 .. OtpMaxAttempts /\ OtpMaxAttempts \in a .. OtpMaxAttempts
        BY Numbers
      <4> HIDE DEF a
      <4>2. /\ Twice(a) \in Nat /\ Twice(a) + 2 * (OtpMaxAttempts - a) =< Twice(OtpMaxAttempts)
        BY <4>1, TwiceGrows
      <4> QED BY <3>1, <4>1, <4>2
    <3>3. \/ g = 0
          \/ 2 * g =< Twice(a)
          \/ 2 * g =< t + 2
      BY <3>1 DEF ProofsInv, GuessesInv
    <3>4. 2 * g =< t + 2
      <4> HIDE DEF g, a, t
      <4> QED BY <3>1, <3>2, <3>3
    <3>5. g =< t \div 2 + 1
      <4> HIDE DEF g, a, t
      <4> QED BY <3>1, <3>4
    <3> QED BY <3>1, <3>5
  <2> QED BY <2>1 DEF SignIn!GuessesBounded
<1> QED BY <1>1, <1>2 DEF SignInBase

LEMMA ProofsInvInit == SignIn!Init => ProofsInv
<1> SUFFICES ASSUME SignIn!Init, NEW n \in Proofs
             PROVE  UsesInv(n) /\ GuessesInv(n)
  BY DEF ProofsInv
<1>1. /\ proof[n].uses = 0 /\ proof[n].guesses = 0 /\ proof[n].state = "none"
      /\ Holders(n) \in SUBSET Workers
  BY DEF SignIn!Init, Holders
<1>2. UsesInv(n)
  BY <1>1, HoldersFinite DEF UsesInv
<1> QED BY <1>1, <1>2 DEF GuessesInv

(* With two requests at a time, a code or nonce is accepted by no more     *)
(* than these two, and refuses no more guesses than the sum of the numbers *)
(* up to otp_max_attempts and one: however the requests write the counter  *)
(* over each other.  (auth/phone.py: verify_code; auth/wallet.py.)         *)
THEOREM CodesAreBounded == TwoAtATime => (AccountsSpec => []ProofsBounded)
<1> SUFFICES ASSUME TwoAtATime PROVE AccountsSpec => []ProofsBounded
  OBVIOUS
<1>1. SignIn!Init => SignInBase /\ ProofsInv
  BY SignInBaseInit, ProofsInvInit
<1>2. (SignInBase /\ ProofsInv) /\ [SignIn!Next]_SignIn!vars => (SignInBase /\ ProofsInv)'
  <2> SUFFICES ASSUME SignInBase, ProofsInv, [SignIn!Next]_SignIn!vars
               PROVE  SignInBase' /\ ProofsInv'
    OBVIOUS
  <2>1. SignInBase' /\ Step
    BY SignInBaseStep, EveryStep
  <2>2. (\A n \in Proofs : UsesInv(n)') /\ (\A n \in Proofs : GuessesInv(n)')
    BY <2>1, UsesStep, GuessesStep DEF ProofsInv
  <2> QED BY <2>1, <2>2 DEF ProofsInv
<1>3. SignInBase /\ ProofsInv => ProofsBounded
  BY ProofsInvBounds
<1> QED BY <1>1, <1>2, <1>3, AccountsParts, PTL DEF SignIn!Spec
=============================================================================
