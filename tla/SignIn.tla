------------------------------- MODULE SignIn -------------------------------
(***************************************************************************)
(* Proofs of identity: one-time codes for a phone number, signed nonces    *)
(* for a wallet address, OAuth profiles and e-mail links; the accounts     *)
(* they sign in to, and linking them to an account that exists.            *)
(*                                                                         *)
(* There is one phone number, one address and one OAuth profile.  Own is   *)
(* an account with a password and an e-mail address, New the account that  *)
(* signing in with an unknown identity creates.  A behaviour uses one      *)
(* method; the methods share no rows but the account's.                    *)
(*                                                                         *)
(* A request locks nothing that it reads; the ORM writes the columns that  *)
(* differ from what it read.  UserManager.create commits, so a request     *)
(* that creates an account is two transactions.                            *)
(***************************************************************************)
EXTENDS Naturals, FiniteSets

CONSTANTS
    Workers,       \* requests that can be under way at a time
    Proofs,        \* phone_verification_codes or wallet_nonces, by age
    OtpMaxAttempts,\* settings.otp_max_attempts
    Own, New, Nobody,
    Profile,       \* the e-mail address of the OAuth profile, first of Own too
    Other          \* another address Own may take

Methods == {"phone", "wallet", "oauth"}
Purposes == {"login", "link"}
Emails == {Profile, Other}

VARIABLES
    method,   \* how this behaviour signs in
    proof,    \* the codes or nonces
    holder,   \* whose phone number, wallet or OAuth account it is
    created,  \* whether New exists
    email,    \* users.email of Own
    verified, \* users.is_verified of Own
    tx,       \* the requests under way
    proven,   \* history: addresses whose owner has been seen
    excused,  \* history: New was interrupted on its way, or unlinked itself
    crossed   \* history: Own's row was written by a request that read an older one

accountVars == <<holder, created, email, verified>>
historyVars == <<proven, excused, crossed>>
vars == <<method, proof, accountVars, tx, historyVars>>

(* A code or nonce; uses and guesses count what was accepted and refused. *)
ProofStates ==
    [state : {"none", "live", "used"}, purpose : Purposes, attempts : 0 .. OtpMaxAttempts,
     uses : Nat, guesses : Nat]

Accounts == {Own, New}

Requests ==
    [op : {"idle", "request", "guess", "signin", "created", "link", "verify", "email"},
     proof : Proofs \union {Nobody}, attempts : Nat, purpose : Purposes,
     user : Accounts \union {Nobody}, todo : SUBSET Proofs,
     read : [email : Emails, verified : BOOLEAN, holder : Accounts \union {Nobody}],
     address : Emails]

TypeOK ==
    /\ method \in Methods
    /\ proof \in [Proofs -> ProofStates]
    /\ holder \in Accounts \union {Nobody}
    /\ created \in BOOLEAN
    /\ email \in Emails
    /\ verified \in BOOLEAN
    /\ tx \in [Workers -> Requests]
    /\ proven \subseteq Emails
    /\ excused \in BOOLEAN
    /\ crossed \in BOOLEAN

-----------------------------------------------------------------------------
Row == [email |-> email, verified |-> verified, holder |-> holder]

Free == [op |-> "idle", proof |-> Nobody, attempts |-> 0, purpose |-> "login",
         user |-> Nobody, todo |-> {},
         read |-> [email |-> Profile, verified |-> FALSE, holder |-> Nobody],
         address |-> Profile]

Begin(w, request) ==
    /\ tx[w].op = "idle"
    /\ tx' = [tx EXCEPT ![w] = request]

End(w) == tx' = [tx EXCEPT ![w] = Free]

Live(purpose) == {n \in Proofs : proof[n].state = "live" /\ proof[n].purpose = purpose}

(* The code that verify_code looks at: the newest live one; any nonce whose *)
(* message was signed.                                                     *)
Presented(n, purpose) ==
    /\ n \in IF method = "phone" THEN Live(purpose) ELSE Live("login") \union Live("link")
    /\ method = "phone" => \A m \in Live(purpose) : m =< n
    /\ method = "wallet" /\ purpose = "link" => proof[n].purpose = "link"

-----------------------------------------------------------------------------
(* request_otp takes the older codes out of use and adds one ... *)
CodeRequest(purpose) ==
    [Free EXCEPT !.op = "request", !.purpose = purpose, !.todo = Live(purpose)]

(* ... and the nonces of a wallet just add up: create_login_nonce's, for   *)
(* any account, and create_nonce's, for the account that asks.             *)
LoginNonceRequest == [Free EXCEPT !.op = "request", !.purpose = "login"]
LinkNonceRequest == [Free EXCEPT !.op = "request", !.purpose = "link"]

RequestBegin(w) ==
    /\ \E n \in Proofs : proof[n].state = "none"
    /\ \/ method = "phone" /\ \E purpose \in Purposes : Begin(w, CodeRequest(purpose))
       \/ method = "wallet" /\ Begin(w, LoginNonceRequest)
       \/ method = "wallet" /\ Begin(w, LinkNonceRequest)
    /\ UNCHANGED <<method, proof, accountVars, historyVars>>

RequestCommit(w) ==
    \E n \in Proofs :
        /\ tx[w].op = "request"
        /\ proof[n].state = "none"
        /\ \A m \in Proofs : m < n => proof[m].state # "none"
        /\ proof' = [m \in Proofs |->
               IF m = n
               THEN [state |-> "live", purpose |-> tx[w].purpose, attempts |-> 0,
                     uses |-> 0, guesses |-> 0]
               ELSE IF m \in tx[w].todo THEN [proof[m] EXCEPT !.state = "used"]
               ELSE proof[m]]
        /\ End(w)
        /\ UNCHANGED <<method, accountVars, historyVars>>

(* Its time to live passes. *)
Expire(n) ==
    /\ proof[n].state = "live"
    /\ proof' = [proof EXCEPT ![n].state = "used"]
    /\ UNCHANGED <<method, accountVars, tx, historyVars>>

(* A wrong code: the request has read the row. *)
GuessBegin(w, n, purpose) ==
    /\ method = "phone"
    /\ Presented(n, purpose)
    /\ Begin(w, [Free EXCEPT !.op = "guess", !.proof = n, !.attempts = proof[n].attempts])
    /\ UNCHANGED <<method, proof, accountVars, historyVars>>

(* record.attempts += 1 on what was read, and the end of the code.         *)
Counted(n, attempts) ==
    [proof EXCEPT ![n].guesses = @ + 1,
                  ![n].attempts = attempts + 1,
                  ![n].state = IF attempts + 1 >= OtpMaxAttempts THEN "used" ELSE @]

GuessCommit(w) ==
    /\ tx[w].op = "guess"
    /\ proof' = Counted(tx[w].proof, tx[w].attempts)
    /\ End(w)
    /\ UNCHANGED <<method, accountVars, historyVars>>

-----------------------------------------------------------------------------
(* Signing in: the proof is read and found right ... *)
SignInBegin(w) ==
    /\ IF method = "oauth"
       THEN Begin(w, [Free EXCEPT !.op = "signin"]) /\ proven' = proven \union {Profile}
       ELSE \E n \in Proofs :
               /\ Presented(n, "login")
               /\ Begin(w, [Free EXCEPT !.op = "signin", !.proof = n,
                                        !.attempts = proof[n].attempts])
               /\ UNCHANGED proven
    /\ UNCHANGED <<method, proof, accountVars, excused, crossed>>

(* Mutant: the code stays in use. *)
Kept(n, attempts) ==
    [proof EXCEPT ![n].uses = @ + 1,
                  ![n].attempts = IF method = "phone" THEN attempts + 1 ELSE @]

(* consumed_at or used_at is set. *)
Consumed(n, attempts) ==
    [proof EXCEPT ![n].uses = @ + 1,
                  ![n].state = "used",
                  ![n].attempts = IF method = "phone" THEN attempts + 1 ELSE @]

(* ... then the account is looked for: by the identity, for an OAuth       *)
(* profile by its address as well ...                                      *)
Found ==
    IF holder # Nobody THEN holder
    ELSE IF method # "oauth" THEN Nobody
    ELSE IF email = Profile THEN Own
    ELSE IF created THEN New
    ELSE Nobody

Find(w) ==
    /\ tx[w].op = "signin"
    /\ tx[w].user = Nobody
    /\ Found # Nobody
    /\ tx' = [tx EXCEPT ![w].user = Found, ![w].read = Row]
    /\ UNCHANGED <<method, proof, accountVars, historyVars>>

(* ... or created and committed, with the code consumed.  Its address may  *)
(* be taken (UserAlreadyExists): then the request fails, see Fail.         *)
Create(w) ==
    /\ tx[w].op = "signin"
    /\ tx[w].user = Nobody
    /\ Found = Nobody
    /\ ~ created
    /\ created' = TRUE
    /\ proof' = IF method = "phone" THEN Consumed(tx[w].proof, tx[w].attempts) ELSE proof
    /\ tx' = [tx EXCEPT ![w].op = "created", ![w].user = New, ![w].read = Row]
    /\ UNCHANGED <<method, holder, email, verified, historyVars>>

(* Own's row was changed by another request since w read it. *)
Stale(w) == tx[w].read # Row

(* Mutant: a new account signs in without taking the identity. *)
Forgotten(u) == IF u = New THEN holder ELSE u

(* The identity goes to u: a column or a row with a unique index. *)
Holder(u) == u

(* The rest of the sign-in, with the session issued, commits: an identity  *)
(* that was nobody's when it was looked up must not have become anyone's.  *)
Enter(w) ==
    /\ tx[w].op \in {"signin", "created"}
    /\ tx[w].user # Nobody
    /\ tx[w].read.holder = Nobody => holder = Nobody
    /\ holder' = IF tx[w].read.holder = Nobody THEN Holder(tx[w].user) ELSE holder
    /\ End(w)
    /\ UNCHANGED <<method, created, email, proven, excused>>

(* PhoneService.login_or_create: the code of a new account went with it.   *)
PhoneSignInCommit(w) ==
    /\ method = "phone"
    /\ Enter(w)
    /\ proof' = IF tx[w].op = "created" THEN proof ELSE Consumed(tx[w].proof, tx[w].attempts)
    /\ UNCHANGED <<verified, crossed>>

(* WalletAuthService.login_or_create. *)
WalletSignInCommit(w) ==
    /\ method = "wallet"
    /\ Enter(w)
    /\ proof' = Consumed(tx[w].proof, tx[w].attempts)
    /\ UNCHANGED <<verified, crossed>>

(* OAuthService.login_or_create: the provider has verified the address.    *)
OAuthSignInCommit(w) ==
    LET own == tx[w].user = Own
    IN  /\ method = "oauth"
        /\ Enter(w)
        /\ verified' = (verified \/ (own /\ ~ tx[w].read.verified))
        /\ crossed' = (crossed \/ (own /\ Stale(w)))
        /\ UNCHANGED proof

(* link_phone and verify_wallet by Own: refused when the identity is       *)
(* another account's.                                                      *)
LinkBegin(w, n) ==
    /\ method \in {"phone", "wallet"}
    /\ Presented(n, "link")
    /\ holder \in {Own, Nobody}
    /\ Begin(w, [Free EXCEPT !.op = "link", !.proof = n, !.attempts = proof[n].attempts])
    /\ UNCHANGED <<method, proof, accountVars, historyVars>>

LinkCommit(w) ==
    /\ tx[w].op = "link"
    /\ holder \in {Own, Nobody}
    /\ holder' = Own
    /\ proof' = Consumed(tx[w].proof, tx[w].attempts)
    /\ End(w)
    /\ UNCHANGED <<method, created, email, verified, historyVars>>

(* unlink_phone needs a verified address, which New has not; unlink_wallet *)
(* needs nothing.                                                          *)
Unlink ==
    /\ \/ method = "phone" /\ holder = Own /\ verified
       \/ method = "wallet" /\ holder # Nobody
    /\ holder' = Nobody
    /\ excused' = (excused \/ holder = New)
    /\ UNCHANGED <<method, proof, created, email, verified, tx, proven, crossed>>

-----------------------------------------------------------------------------
(* POST /auth/verify-email with the link mailed to an address: the link    *)
(* holds the address, which must still be that of the account.             *)
VerifyBegin(w) ==
    /\ method = "oauth"
    /\ ~ verified
    /\ Begin(w, [Free EXCEPT !.op = "verify", !.read = Row])
    /\ proven' = proven \union {email}
    /\ UNCHANGED <<method, proof, accountVars, excused, crossed>>

VerifyCommit(w) ==
    /\ tx[w].op = "verify"
    /\ verified' = TRUE
    /\ crossed' = (crossed \/ Stale(w))
    /\ End(w)
    /\ UNCHANGED <<method, proof, holder, created, email, proven, excused>>

(* update_me: not for an account with an OAuth sign-in, nor to an address  *)
(* that is taken.                                                          *)
EmailBegin(w, address) ==
    /\ method = "oauth"
    /\ address # email
    /\ holder # Own
    /\ ~ (created /\ address = Profile)
    /\ Begin(w, [Free EXCEPT !.op = "email", !.address = address, !.read = Row])
    /\ UNCHANGED <<method, proof, accountVars, historyVars>>

(* Mutant: the verified flag stays with the account. *)
KeepsVerified(w) == verified

(* is_verified is set to False, which writes it if it was read as True.    *)
StillVerified(w) == verified /\ ~ tx[w].read.verified

EmailCommit(w) ==
    /\ tx[w].op = "email"
    /\ ~ (created /\ tx[w].address = Profile)
    /\ email' = tx[w].address
    /\ verified' = StillVerified(w)
    /\ crossed' = (crossed \/ Stale(w))
    /\ End(w)
    /\ UNCHANGED <<method, proof, holder, created, proven, excused>>

(* The request raises, is refused by a unique index or its process dies.   *)
Fail(w) ==
    /\ tx[w].op # "idle"
    /\ excused' = (excused \/ tx[w].op = "created")
    /\ End(w)
    /\ UNCHANGED <<method, proof, accountVars, proven, crossed>>

-----------------------------------------------------------------------------
Init ==
    /\ method \in Methods
    /\ proof = [n \in Proofs |-> [state |-> "none", purpose |-> "login", attempts |-> 0,
                                  uses |-> 0, guesses |-> 0]]
    /\ holder = Nobody
    /\ created = FALSE
    /\ email = Profile
    /\ verified \in BOOLEAN
    /\ tx = [w \in Workers |-> Free]
    /\ proven = IF verified THEN {Profile} ELSE {}
    /\ excused = FALSE
    /\ crossed = FALSE

(* The bound on proofs is reached. *)
Spent ==
    /\ \A n \in Proofs : proof[n].state = "used"
    /\ \A w \in Workers : tx[w].op = "idle"
    /\ UNCHANGED vars

Next ==
    \/ \E w \in Workers :
          \/ RequestBegin(w)
          \/ RequestCommit(w)
          \/ \E n \in Proofs, purpose \in Purposes : GuessBegin(w, n, purpose)
          \/ GuessCommit(w)
          \/ SignInBegin(w)
          \/ Find(w)
          \/ Create(w)
          \/ PhoneSignInCommit(w)
          \/ WalletSignInCommit(w)
          \/ OAuthSignInCommit(w)
          \/ \E n \in Proofs : LinkBegin(w, n)
          \/ LinkCommit(w)
          \/ VerifyBegin(w)
          \/ VerifyCommit(w)
          \/ \E address \in Emails : EmailBegin(w, address)
          \/ EmailCommit(w)
          \/ Fail(w)
    \/ Unlink
    \/ \E n \in Proofs : Expire(n)
    \/ Spent

Spec == Init /\ [][Next]_vars

-----------------------------------------------------------------------------
(* The attempts of a code are limited although requests that overlap write *)
(* the counter over each other.  With two at a time one of them can put it *)
(* back to one more than it read, while the other used up the rest: the    *)
(* otp_max_attempts guesses become the sum of the numbers up to it, and    *)
(* one under way at the end.  (phone.py: verify_code.)                     *)
GuessesBounded ==
    \A n \in Proofs :
        proof[n].guesses =< (OtpMaxAttempts * (OtpMaxAttempts + 1)) \div 2 + 1

(* A code or nonce that was accepted is accepted only for requests already *)
(* under way: no more often than there are requests at a time.             *)
(* (phone.py: consumed_at; wallet.py and wallets/service.py: used_at.)     *)
UsedByOverlapOnly ==
    \A n \in Proofs : proof[n].uses =< Cardinality(Workers)

(* A code or nonce bounds what can be done with it: wrong guesses and      *)
(* uses.  (The type invariant is checked with it.)                         *)
ProofsBounded == TypeOK /\ GuessesBounded /\ UsedByOverlapOnly

(* An account that signing in has created can be signed in to again:       *)
(* nothing but a request cut off between its two commits, or its own       *)
(* unlinking, separates it from its identity.  (phone.py, wallet.py:       *)
(* login_or_create; an OAuth account is found again by its address.)       *)
NewIsReachable ==
    \/ ~ created
    \/ method = "oauth"
    \/ holder # Nobody
    \/ excused
    \/ \E w \in Workers : tx[w].op = "created"

(* A verified address is one whose owner has been seen: HYP-56, "an        *)
(* unproven address ... must never be asserted" to the chat, through any   *)
(* order of verifications, OAuth sign-ins and changes of address; unless   *)
(* one of them wrote over a row that changed after it was read.            *)
(* (auth/service.py: chat_identity_proven; users/service.py: update_me.)   *)
VerifiedWasProven == verified => email \in proven \/ crossed

=============================================================================
