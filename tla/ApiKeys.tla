------------------------------ MODULE ApiKeys ------------------------------
(***************************************************************************)
(* The API keys of one verified user: its own, and the managed one that    *)
(* the broker mints.                                                       *)
(***************************************************************************)
EXTENDS Overlap

CONSTANTS
    MaxKeys,     \* bound: rows of api_keys of one user
    Capped,      \* bound: the keys that may be given spend limits
    KeyLimit     \* MAX_ACTIVE_API_KEYS

ASSUME KeysAssumption ==
    /\ MaxKeys \in Nat /\ KeyLimit \in Nat
    /\ Capped \subseteq 1 .. MaxKeys

VARIABLE key  \* rows of api_keys

Keys == 1 .. MaxKeys
KeyRows == [state : {"none", "active", "revoked"},
            managed : BOOLEAN,  \* whether its name is MANAGED_CHAT_KEY_NAME
            minted : BOOLEAN,   \* whether mint_managed_chat_key inserted it
            cap : BOOLEAN,      \* credit_limit or usd_limit_cents is set
            window : BOOLEAN]   \* limit_period is set
NoKey == [state |-> "none", managed |-> FALSE, minted |-> FALSE, cap |-> FALSE,
          window |-> FALSE]

KeysTypeOK == key \in [Keys -> KeyRows]

KeysInit == key = [k \in Keys |-> NoKey]

-----------------------------------------------------------------------------
Active == {k \in Keys : key[k].state = "active"}
ChatKeys == {k \in Active : key[k].managed}

OpenKey(w, op, inserts, columns) ==
    /\ Open(w, [op |-> op, minds |-> {"limits"} \X DOMAIN columns,
                stale |-> {}, inserts |-> inserts, columns |-> columns])
    /\ UNCHANGED <<key, late>>

OneRow(k, row) == [i \in {k} |-> Changed(key[k], row)]

(* validate_spend_limits. *)
LimitsFit(row) == row.cap => row.window

(* create_key: the keys in use are counted, the managed one among them. *)
CreateBegin(w) ==
    /\ Cardinality(Active) < KeyLimit
    /\ OpenKey(w, "create", {[NoKey EXCEPT !.state = "active"]}, <<>>)

(* mint_managed_chat_key: the first key in use of that name is rotated and *)
(* loses its restrictions, others of that name are revoked; without one, a *)
(* key is inserted.                                                        *)
MintBegin(w) ==
    LET first == CHOOSE k \in ChatKeys : \A i \in ChatKeys : k =< i
        rotated(k) == [key[k] EXCEPT !.cap = FALSE, !.window = FALSE]
        revoked(k) == [key[k] EXCEPT !.state = "revoked"]
    IN  OpenKey(w, "mint",
                IF ChatKeys = {}
                THEN {[NoKey EXCEPT !.state = "active", !.managed = TRUE, !.minted = TRUE]}
                ELSE {},
                [k \in ChatKeys |-> Changed(key[k], IF k = first THEN rotated(k)
                                                    ELSE revoked(k))])

(* Mutant: the PATCH is checked by itself. *)
UpdateUncheckedBegin(w, k, row) ==
    LET patch == Changed(key[k], row)
    IN  /\ k \in Active \ ChatKeys
        /\ row # key[k]
        /\ "cap" \in DOMAIN patch /\ row.cap => "window" \in DOMAIN patch /\ row.window
        /\ OpenKey(w, "update", {}, OneRow(k, row))

(* update_key: a PATCH of the spend limits, checked with what it leaves. *)
UpdateBegin(w, k, row) ==
    /\ k \in Active \ ChatKeys
    /\ row # key[k]
    /\ LimitsFit(row)
    /\ OpenKey(w, "update", {}, OneRow(k, row))

(* update_api_key of an administrator: any name, revoked or not. *)
RenameBegin(w, k, managed) ==
    /\ key[k].state # "none"
    /\ managed # key[k].managed
    /\ OpenKey(w, "update", {}, OneRow(k, [key[k] EXCEPT !.managed = managed]))

(* revoke_key, which does not find the managed key; revoke_api_key, which does. *)
RevokeKeyBegin(w, k) ==
    /\ k \in Active
    /\ OpenKey(w, "discard", {}, OneRow(k, [key[k] EXCEPT !.state = "revoked"]))

(* The rows after the commit of w. *)
Stored(w) ==
    LET columns == tx[w].columns
        free == {k \in Keys : key[k].state = "none"}
        slot == CHOOSE k \in free : \A i \in free : k =< i
        new == CHOOSE row \in tx[w].inserts : TRUE
    IN  [k \in Keys |-> IF tx[w].inserts # {} /\ k = slot THEN new
                        ELSE IF k \in DOMAIN columns THEN Written(key[k], columns[k])
                        ELSE key[k]]

Limits(row) == <<row.cap, row.window>>

KeyCommit(w) ==
    /\ tx[w].op \in {"create", "mint", "update", "discard"}
    /\ tx[w].inserts # {} => \E k \in Keys : key[k].state = "none"
    /\ key' = Stored(w)
    /\ Close(w, {<<"limits", k>> : k \in {i \in Keys : Limits(Stored(w)[i]) # Limits(key[i])}})

KeyStep(w) ==
    \/ CreateBegin(w)
    \/ MintBegin(w)
    \/ \E k \in Keys :
          \/ \E cap, window \in BOOLEAN :
                k \in Capped /\ UpdateBegin(w, k, [key[k] EXCEPT !.cap = cap, !.window = window])
          \/ \E managed \in BOOLEAN : RenameBegin(w, k, managed)
          \/ RevokeKeyBegin(w, k)
    \/ KeyCommit(w)

-----------------------------------------------------------------------------
(* Creating keys stays within the limit, but for what overlaps: count and  *)
(* INSERT are two steps.  (api_keys/service.py: create_key.)               *)
KeysCreatedWithinLimit ==
    Cardinality({k \in Active : ~ key[k].minted}) =< KeyLimit + Cardinality(Workers) - 1

(* A spend cap has a window, unless two requests have changed the limits   *)
(* of the key one over the other.  (api_keys/service.py: update_key.)      *)
CapHasWindow == \A k \in Keys : LimitsFit(key[k]) \/ <<"limits", k>> \in late

=============================================================================
