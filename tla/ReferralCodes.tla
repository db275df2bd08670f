--------------------------- MODULE ReferralCodes ---------------------------
(***************************************************************************)
(* Referral codes: the current one of a user, generated or chosen, those   *)
(* it had before, and the signups that are attributed by them.             *)
(*                                                                         *)
(* users.referral_code and referral_code_aliases.code are unique each, not *)
(* together: that nobody takes a code another user has had is looked up.   *)
(* Codes are told apart regardless of case; a generated one has never been *)
(* in use.                                                                 *)
(***************************************************************************)
EXTENDS Overlap

CONSTANTS
    Members,     \* users with referral codes
    Links,       \* bound: the codes
    AliasLimit,  \* MAX_REFERRAL_CODE_ALIASES
    Signups,     \* bound: accounts registered with a code
    NoCode, NoMember

ASSUME CodesAssumption ==
    /\ NoCode \notin Links
    /\ NoMember \notin Members
    /\ AliasLimit \in Nat

VARIABLES
    current,  \* users.referral_code
    alias,    \* rows of referral_code_aliases, pairs of a user and a code
    referral, \* rows of referrals: who each signup is attributed to
    shared,   \* history: codes that users were given, pairs again
    followed  \* history: the pair each signup came by, and whether the code moved

codeVars == <<current, alias, referral, shared, followed>>

NoLink == [link |-> <<NoMember, NoCode>>, moved |-> FALSE]

Aliases == Members \X Links
Referrals == [Signups -> Members \union {NoMember}]

CodesTypeOK ==
    /\ current \in [Members -> Links \union {NoCode}]
    /\ alias \subseteq Aliases
    /\ referral \in Referrals
    /\ shared \subseteq Members \X Links
    /\ followed \in [Signups -> [link : (Members \union {NoMember}) \X (Links \union {NoCode}),
                                 moved : BOOLEAN]]

CodesInit ==
    /\ current = [u \in Members |-> NoCode]
    /\ alias = {}
    /\ referral = [n \in Signups |-> NoMember]
    /\ shared = {}
    /\ followed = [n \in Signups |-> NoLink]

-----------------------------------------------------------------------------
(* _find_code_owner: two queries, the first of current codes ... *)
Bearer(c) == {u \in Members : current[u] = c}

(* Mutant: ... is the only one. *)
FoundCurrent(c, first) == first

(* ... the second, if that finds nobody, of former ones. *)
Found(c, first) == IF first # {} THEN first ELSE {u \in Members : <<u, c>> \in alias}

Former(u) == {a \in alias : a[1] = u}

Recode(w, u, c, old, drops) ==
    /\ Open(w, [op |-> "recode", stale |-> {}, user |-> u, code |-> c, old |-> old,
                drops |-> drops,
                minds |-> {<<"codes", u>>, <<"code", c>>, <<"code", old>>}])
    /\ UNCHANGED <<codeVars, late>>

(* ensure_referral_code, in GET /referrals/me: the first one is generated. *)
EnsureBegin(w, u, c) ==
    /\ current[u] = NoCode
    /\ \A v \in Members : current[v] # c /\ <<v, c>> \notin alias \union shared
    /\ \A v \in Workers : tx[v].op = "recode" => tx[v].code # c
    /\ Recode(w, u, c, NoCode, {})

(* set_custom_code: a code that nobody has, as long as the one it replaces *)
(* may become an alias; or one of the user's own former codes.             *)
SetBegin(w, u, c) ==
    /\ c # current[u]
    /\ \/ /\ Found(c, Bearer(c)) = {}
          /\ current[u] # NoCode => Cardinality(Former(u)) < AliasLimit
       \/ Found(c, Bearer(c)) = {u} /\ <<u, c>> \in alias
    /\ Recode(w, u, c, current[u], {<<u, c>>} \intersect alias)

(* The unique indexes: a code is the current one of one user at most, and  *)
(* has one alias row at most.                                              *)
UniqueCodes(codes, aliases) ==
    /\ \A u, v \in Members : codes[u] = codes[v] /\ codes[u] # NoCode => u = v
    /\ \A a, b \in aliases : a[2] = b[2] => a = b

(* The code before, if there was one, becomes an alias: a new row, which a *)
(* concurrent request must not have inserted.                              *)
RecodeCommit(w) ==
    LET t == tx[w]
        row == IF t.old = NoCode THEN {} ELSE {<<t.user, t.old>>}
        codes == [current EXCEPT ![t.user] = t.code]
        aliases == (alias \ t.drops) \union row
    IN  /\ t.op = "recode"
        /\ row \intersect (alias \ t.drops) = {}
        /\ UniqueCodes(codes, aliases)
        /\ current' = codes
        /\ alias' = aliases
        /\ shared' = shared \union {<<t.user, t.code>>}
        /\ Close(w, {<<"codes", t.user>>, <<"code", t.code>>, <<"code", t.old>>})
        /\ UNCHANGED <<referral, followed>>

(* register, with the code of a link that a user was given.  (The account  *)
(* is committed before it is attributed; if the rest fails it stays        *)
(* without a referral, and the signup in the model is another account's.)  *)
SignupBegin(w, n, link) ==
    /\ followed[n] = NoLink
    /\ \A v \in Workers : tx[v].op = "signup" => tx[v].at # n
    /\ Open(w, [op |-> "signup", minds |-> {<<"code", link[2]>>}, stale |-> {},
                at |-> n, link |-> link, first |-> Bearer(link[2])])
    /\ UNCHANGED <<codeVars, late>>

(* attribute_signup: a code that is not found is no error. *)
SignupCommit(w) ==
    LET t == tx[w]
        found == Found(t.link[2], t.first)
    IN  /\ t.op = "signup"
        /\ IF found = {} THEN UNCHANGED referral
           ELSE \E u \in found : referral' = [referral EXCEPT ![t.at] = u]
        /\ followed' = [followed EXCEPT ![t.at] = [link |-> t.link, moved |-> t.stale # {}]]
        /\ Close(w, {})
        /\ UNCHANGED <<current, alias, shared>>

CodeStep(w) ==
    \/ \E u \in Members, c \in Links : EnsureBegin(w, u, c) \/ SetBegin(w, u, c)
    \/ RecodeCommit(w)
    \/ \E n \in Signups, link \in shared : SignupBegin(w, n, link)
    \/ SignupCommit(w)

-----------------------------------------------------------------------------
(* The two tables have been written by requests that overlap. *)
Crossed(link) == {<<"codes", link[1]>>, <<"code", link[2]>>} \intersect late # {}

(* A link that a user was given leads to that user and to nobody else,     *)
(* through every change of the code.  (referrals/service.py:               *)
(* set_custom_code, "links already shared with it don't break".)           *)
SharedLinksLead ==
    \A link \in shared :
        \/ \A u \in Members : current[u] = link[2] \/ <<u, link[2]>> \in alias <=> u = link[1]
        \/ Crossed(link)

(* Who signs up by such a link is attributed to that user, unless the code *)
(* moves between the two queries.  (referrals/service.py:                  *)
(* attribute_signup, _find_code_owner.)                                    *)
SignupsAttributed ==
    \A n \in Signups : LET f == followed[n] IN
        f # NoLink => referral[n] = f.link[1] \/ f.moved \/ Crossed(f.link)

(* The former codes of a user are limited.  (referrals/service.py:         *)
(* set_custom_code, MAX_REFERRAL_CODE_ALIASES.)                            *)
AliasesLimited ==
    \A u \in Members : Cardinality(Former(u)) =< AliasLimit \/ <<"codes", u>> \in late

(* Links that were shared keep working, and earn, as codes change.         *)
LinksKeepWorking == SharedLinksLead /\ SignupsAttributed /\ AliasesLimited

=============================================================================
