----------------------------- MODULE MCAccounts -----------------------------
(***************************************************************************)
(* How an account is entered and left: its sessions, and the proofs of     *)
(* identity that sign in to it or are linked to it.  Sessions are rows of  *)
(* refresh_tokens, proofs rows of the tables of codes, nonces and links,   *)
(* and no request touches both; a behaviour is about one of them.          *)
(***************************************************************************)
EXTENDS UserSessions, FiniteSets, TLC

CONSTANTS f1, Proofs, OtpMaxAttempts, Own, New, Nobody, Profile, Other

ASSUME SignInAssumption ==
    /\ IsFiniteSet(Workers)
    /\ Proofs \subseteq Nat
    /\ OtpMaxAttempts \in Nat \ {0}
    /\ Own # New /\ Nobody \notin {Own, New} \cup Proofs
    /\ Profile # Other

VARIABLES
    subject,  \* what the behaviour is about
    method, proof, holder, created, email, verified, requests,
    proven, excused, crossed

signInVars == <<method, proof, holder, created, email, verified, requests,
                proven, excused, crossed>>

SignIn == INSTANCE SignIn WITH tx <- requests

(* One login that may be renewed twice, and another. *)
MCLength == [f \in Families |-> IF f = f1 THEN 3 ELSE 1]

Symmetry == Permutations(Workers)

AccountsInit ==
    /\ subject \in {"sessions", "signin"}
    /\ Init
    /\ SignIn!Init
    /\ subject = "sessions" => method = "phone" /\ ~ verified

AccountsNext ==
    \/ subject = "sessions" /\ Next /\ UNCHANGED <<subject, signInVars>>
    \/ subject = "signin" /\ SignIn!Next /\ UNCHANGED <<subject, vars>>

AccountsSpec == AccountsInit /\ [][AccountsNext]_<<subject, vars, signInVars>>

-----------------------------------------------------------------------------
(* A code or nonce bounds what can be done with it: wrong guesses and      *)
(* uses.  (auth/phone.py, auth/wallet.py; see SignIn.)                     *)
ProofsBounded == SignIn!ProofsBounded

(* An account that signing in has created can be signed in to again.       *)
(* (auth/phone.py and auth/wallet.py: login_or_create; see SignIn.)        *)
NewIsReachable == SignIn!NewIsReachable

(* A verified address is one whose owner has been seen.                    *)
(* (auth/service.py, users/service.py: update_me; see SignIn.)             *)
VerifiedWasProven == SignIn!VerifiedWasProven

=============================================================================
