------------------------ MODULE MinerLifecycleProofs ------------------------
(***************************************************************************)
(* The two safety properties of MinerLifecycle, for any set of models,     *)
(* endpoints, registrations and provisioners.                              *)
(*                                                                         *)
(* That a model which is served was attested since its registration rests  *)
(* on the row lock: RowsInv says that a provisioner which holds it proves  *)
(* for the registration of the rows it is going to write.  That the active *)
(* token is the one in the enclave needs to follow it while it is sealed   *)
(* and not committed: SecretsInv says so of the rows and of the drafts of  *)
(* a provisioner side by side.                                             *)
(***************************************************************************)
EXTENDS MinerLifecycle, FiniteSetTheorems, Functions, TLAPS

Drafts == [secret : Nat, pin : Pins, proved : Nat]

(* What a provisioner has sealed so far. *)
Sealings == UNION {[S -> Drafts] : S \in SUBSET Models}

Docs == [model : Models, regs : Nat, pin : Pins]

Works == [pc : {"idle", "load", "flush", "models", "seal"},
          endpoint : Endpoints \cup {Nobody}, todo : SUBSET Models,
          doc : Docs \cup {Nothing}, sealed : Sealings]

Regs == [inventory : Inventories, again : BOOLEAN, status : {"pending", Kept},
         health : Healths \cup {Kept}]

Sweeps == [health : Healths \cup {Kept}, status : Statuses \cup {Kept}]

Calls == [pc : {"dial", "stale"}, pin : Pins, endpoint : Endpoints,
          status : Statuses \cup {Kept}]

Typed ==
    /\ miner \in MinerRows
    /\ model \in [Models -> ModelRows]
    /\ token \in [Models -> [secret : Nat, lapsed : BOOLEAN]]
    /\ enclave \in [Endpoints -> [boot : 0 .. MaxBoots, secret : Nat]]
    /\ guard \in BOOLEAN
    /\ owner \in Provisioners \cup {Nobody}
    /\ work \in [Provisioners -> Works]
    /\ reg \in Regs \cup {Nothing}
    /\ sweep \in Sweeps \cup {Nothing}
    /\ request \in Calls \cup {Nothing}
    /\ faults \in 0 .. MaxFaults
    /\ torn \in BOOLEAN

(* Who holds the row lock works on the rows that are there, and for their  *)
(* registration; who does not has nothing in hand.                         *)
AtWork(p) ==
    /\ owner = p
    /\ work[p].todo \subseteq {m \in Models : model[m].status # "absent"}
    /\ \A m \in DOMAIN work[p].sealed : work[p].sealed[m].proved = miner.regs
    /\ work[p].pc = "seal" =>
          /\ work[p].doc \in Docs
          /\ work[p].doc.regs = miner.regs
          /\ work[p].doc.model \in work[p].todo

Outside(p) ==
    /\ owner # p
    /\ work[p].todo = {}
    /\ DOMAIN work[p].sealed = {}

Held(p) == IF work[p].pc \in {"models", "seal"} THEN AtWork(p) ELSE Outside(p)

Lock == \A p \in Provisioners : Held(p)

(* The rows are those of the last registration.                            *)
RowsInv ==
    \A m \in Models :
        /\ model[m].born = miner.regs
        /\ model[m].status = "attested" =>
              model[m].pin \in Pins /\ model[m].proved = model[m].born

(* From the load of the row to the commit the endpoint is one of a row.    *)
Loaded ==
    \A p \in Provisioners :
        work[p].pc \in {"flush", "models", "seal"} => work[p].endpoint \in Endpoints

MinerInv == Typed /\ Lock /\ Loaded /\ RowsInv

-----------------------------------------------------------------------------
(* What is sealed: nothing at first, and one model more at a time.         *)
LEMMA EmptySealing == IdleWork.sealed \in Sealings /\ DOMAIN IdleWork.sealed = {}
<1> DEFINE e == [m \in {} |-> Nothing]
<1>1. e \in [{} -> Drafts] /\ DOMAIN e = {} /\ {} \in SUBSET Models
  OBVIOUS
<1>2. IdleWork.sealed = e
  BY DEF IdleWork
<1> HIDE DEF e
<1> QED BY <1>1, <1>2 DEF Sealings

LEMMA IdleWorkTyped == IdleWork \in Works
  BY EmptySealing DEF IdleWork, Works

LEMMA SealingParts ==
    ASSUME NEW s \in Sealings
    PROVE  /\ DOMAIN s \subseteq Models
           /\ \A m \in DOMAIN s : s[m] \in Drafts
  BY DEF Sealings

LEMMA SealingGrows ==
    ASSUME NEW s \in Sealings, NEW n \in Models, NEW d \in Drafts
    PROVE  [m \in DOMAIN s \cup {n} |-> IF m = n THEN d ELSE s[m]] \in Sealings
<1> DEFINE S == DOMAIN s \cup {n}
           t == [m \in S |-> IF m = n THEN d ELSE s[m]]
<1>1. S \in SUBSET Models
  BY SealingParts
<1>2. \A m \in S : (IF m = n THEN d ELSE s[m]) \in Drafts
  BY SealingParts
<1>3. t \in [S -> Drafts]
  BY <1>2
<1> HIDE DEF S, t
<1>4. t \in Sealings
  BY <1>1, <1>3 DEF Sealings
<1> QED BY <1>4 DEF t, S

(* The rows a registration writes.                                         *)
LEMMA NewModelsTyped ==
    ASSUME NEW i \in Inventories, NEW b \in Nat
    PROVE  /\ NewModels(i, b) \in [Models -> ModelRows]
           /\ \A m \in Models : /\ NewModels(i, b)[m].born = b
                                /\ NewModels(i, b)[m].status # "attested"
<1>1. PICK S \in SUBSET Models : i.at \in [S -> Endpoints \cup {Nobody}]
  BY MinerAssumption
<1>2. \A m \in DOMAIN i.at : i.at[m] \in Endpoints \cup {Nobody}
  BY <1>1
<1> QED BY <1>2 DEF NewModels, ModelRows

(* There is always a token that nobody holds.                              *)
LEMMA ImageFinite ==
    ASSUME NEW S, IsFiniteSet(S), NEW f
    PROVE  IsFiniteSet({f[x] : x \in S})
<1> DEFINE T == {f[x] : x \in S}
           g == [x \in S |-> f[x]]
<1>1. g \in Surjection(S, T)
  BY DEF Surjection
<1> HIDE DEF T, g
<1>2. IsFiniteSet(T)
  BY <1>1, FS_Surjection
<1> QED BY <1>2 DEF T

LEMMA InUseFinite == Typed => IsFiniteSet(InUse)
<1> SUFFICES ASSUME Typed PROVE IsFiniteSet(InUse)
  OBVIOUS
<1> DEFINE tok == [m \in Models |-> token[m].secret]
           enc == [e \in Endpoints |-> enclave[e].secret]
           drafts(p) == {work[p].sealed[m].secret : m \in DOMAIN work[p].sealed}
           all == [p \in Provisioners |-> drafts(p)]
           A == {tok[m] : m \in Models}
           B == {enc[e] : e \in Endpoints}
           C == {all[p] : p \in Provisioners}
<1>1. IsFiniteSet(A)
  <2> HIDE DEF tok
  <2> QED BY ImageFinite, MinerAssumption
<1>2. IsFiniteSet(B)
  <2> HIDE DEF enc
  <2> QED BY ImageFinite, MinerAssumption
<1>3. IsFiniteSet(C)
  <2> HIDE DEF all
  <2> QED BY ImageFinite, MinerAssumption
<1>4. ASSUME NEW p \in Provisioners PROVE IsFiniteSet(drafts(p))
  <2> DEFINE S == DOMAIN work[p].sealed
             d == [m \in S |-> work[p].sealed[m].secret]
  <2>1. work[p].sealed \in Sealings
    BY DEF Typed, Works
  <2>2. IsFiniteSet(S)
    <3>1. S \in SUBSET Models
      BY <2>1, SealingParts
    <3> HIDE DEF S
    <3> QED BY <3>1, MinerAssumption, FS_Subset
  <2>3. drafts(p) = {d[m] : m \in S}
    OBVIOUS
  <2> HIDE DEF S, d, drafts
  <2> QED BY <2>2, <2>3, ImageFinite
<1>5. IsFiniteSet(UNION C)
  <2>1. \A T \in C : IsFiniteSet(T)
    BY <1>4
  <2> HIDE DEF C
  <2> QED BY <2>1, <1>3, FS_UNION
<1>6. InUse = A \cup B \cup UNION C
  BY DEF InUse
<1> HIDE DEF A, B, C
<1>7. IsFiniteSet(A \cup B)
  BY <1>1, <1>2, FS_Union
<1>8. IsFiniteSet((A \cup B) \cup UNION C)
  BY <1>5, <1>7, FS_Union
<1> QED BY <1>6, <1>8

LEMMA SecretTyped == Typed => NewSecret \in Nat
<1> SUFFICES ASSUME Typed PROVE NewSecret \in Nat
  OBVIOUS
<1> DEFINE n == Cardinality(InUse) + 1
<1>1. IsFiniteSet(InUse) /\ Cardinality(InUse) \in Nat
  BY InUseFinite, FS_CardinalityType
<1>2. n \in Nat /\ 1 .. n \subseteq Nat
  BY <1>1
<1>3. Cardinality(1 .. n) = n
  BY <1>1, FS_Interval
<1>4. \E s \in 1 .. n : s \notin InUse
  <2> SUFFICES ASSUME 1 .. n \in SUBSET InUse PROVE FALSE
    OBVIOUS
  <2>1. Cardinality(1 .. n) =< Cardinality(InUse)
    <3> HIDE DEF n
    <3> QED BY <1>1, FS_Subset
  <2> QED BY <1>1, <1>3, <2>1
<1> QED BY <1>2, <1>4 DEF NewSecret

(* A step that leaves the provisioners alone.                              *)
LEMMA LockKept ==
    ASSUME Lock, UNCHANGED <<work, owner>>,
           miner'.regs = miner.regs,
           \A m \in Models : model[m].status # "absent" => model'[m].status # "absent"
    PROVE  Lock'
  BY DEF Lock, Held, AtWork, Outside

(* A step of p, which leaves the others as they are.                       *)
LEMMA LockOfOthers ==
    ASSUME Lock, NEW p \in Provisioners, Held(p)',
           \A q \in Provisioners \ {p} : work'[q] = work[q],
           \A q \in Provisioners \ {p} : owner = q <=> owner' = q,
           miner'.regs = miner.regs,
           \A m \in Models : model[m].status # "absent" => model'[m].status # "absent"
    PROVE  Lock'
<1>1. ASSUME NEW q \in Provisioners \ {p} PROVE Held(q)'
  BY <1>1 DEF Lock, Held, AtWork, Outside
<1> QED BY <1>1 DEF Lock

(* What does not touch the provisioners and the models.                    *)
LEMMA OthersKeepInv ==
    ASSUME MinerInv,
           \/ RegisterLoad \/ Heartbeat \/ GuardExpires \/ Inspect \/ Sweep \/ Serve
           \/ (\E e \in Endpoints : Restart(e)) \/ Age
    PROVE  MinerInv'
<1>1. ASSUME RegisterLoad PROVE MinerInv'
  <2>1. Typed'
    BY <1>1, MinerAssumption DEF MinerInv, Typed, RegisterLoad, Change, MinerRows, Regs, Healths, Statuses, Kept
  <2>2. UNCHANGED <<work, owner, model>> /\ miner'.regs = miner.regs
    BY <1>1 DEF MinerInv, Typed, MinerRows, RegisterLoad, Change
  <2>3. Lock'
    BY <2>2, LockKept DEF MinerInv
  <2>4. Loaded' /\ RowsInv'
    BY <2>2 DEF MinerInv, Loaded, RowsInv
  <2> QED BY <2>1, <2>3, <2>4 DEF MinerInv
<1>2. ASSUME Heartbeat PROVE MinerInv'
  <2>1. Typed'
    <3>1. PICK h \in Reports : miner' = [miner EXCEPT !.seen = 2, !.health = h]
      BY <1>2 DEF Heartbeat
    <3>2. miner' \in MinerRows
      <4>1. miner \in MinerRows /\ h \in Healths
        BY MinerAssumption DEF MinerInv, Typed, Healths
      <4>2. [miner EXCEPT !.seen = 2] \in MinerRows
        BY <4>1 DEF MinerRows
      <4>3. miner' = [[miner EXCEPT !.seen = 2] EXCEPT !.health = h]
        BY <3>1, <4>1 DEF MinerRows
      <4> QED BY <4>1, <4>2, <4>3 DEF MinerRows
    <3> QED BY <1>2, <3>2 DEF MinerInv, Typed, Heartbeat
  <2>2. UNCHANGED <<work, owner, model>> /\ miner'.regs = miner.regs
    BY <1>2 DEF MinerInv, Typed, MinerRows, Heartbeat
  <2>3. Lock'
    BY <2>2, LockKept DEF MinerInv
  <2>4. Loaded' /\ RowsInv'
    BY <2>2 DEF MinerInv, Loaded, RowsInv
  <2> QED BY <2>1, <2>3, <2>4 DEF MinerInv
<1>3. ASSUME GuardExpires PROVE MinerInv'
  <2>1. Typed'
    BY <1>3, MinerAssumption DEF MinerInv, Typed, GuardExpires
  <2>2. UNCHANGED <<work, owner, model>> /\ miner'.regs = miner.regs
    BY <1>3 DEF MinerInv, Typed, MinerRows, GuardExpires
  <2>3. Lock'
    BY <2>2, LockKept DEF MinerInv
  <2>4. Loaded' /\ RowsInv'
    BY <2>2 DEF MinerInv, Loaded, RowsInv
  <2> QED BY <2>1, <2>3, <2>4 DEF MinerInv
<1>4. ASSUME Inspect PROVE MinerInv'
  <2>1. Typed'
    BY <1>4, MinerAssumption DEF MinerInv, Typed, Inspect, MinerRows, Sweeps, Healths, Statuses, Kept
  <2>2. UNCHANGED <<work, owner, model>> /\ miner'.regs = miner.regs
    BY <1>4 DEF MinerInv, Typed, MinerRows, Inspect
  <2>3. Lock'
    BY <2>2, LockKept DEF MinerInv
  <2>4. Loaded' /\ RowsInv'
    BY <2>2 DEF MinerInv, Loaded, RowsInv
  <2> QED BY <2>1, <2>3, <2>4 DEF MinerInv
<1>5. ASSUME Sweep PROVE MinerInv'
  <2>1. Typed'
    BY <1>5, MinerAssumption DEF MinerInv, Typed, Sweep, MinerRows, Sweeps, Healths, Statuses, Kept, Flushed, NoToken
  <2>2. UNCHANGED <<work, owner, model>> /\ miner'.regs = miner.regs
    BY <1>5 DEF MinerInv, Typed, MinerRows, Sweep
  <2>3. Lock'
    BY <2>2, LockKept DEF MinerInv
  <2>4. Loaded' /\ RowsInv'
    BY <2>2 DEF MinerInv, Loaded, RowsInv
  <2> QED BY <2>1, <2>3, <2>4 DEF MinerInv
<1>6. ASSUME NEW n \in Models, Select(n) PROVE MinerInv'
  <2>1. Typed'
    BY <1>6, MinerAssumption DEF MinerInv, Typed, Select, MinerRows, Calls, Statuses, Kept, Change, Eligible, ModelRows, Resolve, RowsInv
  <2>2. UNCHANGED <<work, owner, model>> /\ miner'.regs = miner.regs
    BY <1>6 DEF MinerInv, Typed, MinerRows, Select
  <2>3. Lock'
    BY <2>2, LockKept DEF MinerInv
  <2>4. Loaded' /\ RowsInv'
    BY <2>2 DEF MinerInv, Loaded, RowsInv
  <2> QED BY <2>1, <2>3, <2>4 DEF MinerInv
<1>7. ASSUME Dial PROVE MinerInv'
  <2>1. Typed'
    BY <1>7, MinerAssumption DEF MinerInv, Typed, Dial, Calls
  <2>2. UNCHANGED <<work, owner, model>> /\ miner'.regs = miner.regs
    BY <1>7 DEF MinerInv, Typed, MinerRows, Dial
  <2>3. Lock'
    BY <2>2, LockKept DEF MinerInv
  <2>4. Loaded' /\ RowsInv'
    BY <2>2 DEF MinerInv, Loaded, RowsInv
  <2> QED BY <2>1, <2>3, <2>4 DEF MinerInv
<1>8. ASSUME MarkStale PROVE MinerInv'
  <2>1. Typed'
    BY <1>8, MinerAssumption DEF MinerInv, Typed, MarkStale, MinerRows, Calls, Statuses, Kept, Flushed
  <2>2. UNCHANGED <<work, owner, model>> /\ miner'.regs = miner.regs
    BY <1>8 DEF MinerInv, Typed, MinerRows, MarkStale
  <2>3. Lock'
    BY <2>2, LockKept DEF MinerInv
  <2>4. Loaded' /\ RowsInv'
    BY <2>2 DEF MinerInv, Loaded, RowsInv
  <2> QED BY <2>1, <2>3, <2>4 DEF MinerInv
<1>9. ASSUME NEW e \in Endpoints, Restart(e) PROVE MinerInv'
  <2>1. Typed'
    BY <1>9, MinerAssumption DEF MinerInv, Typed, Restart
  <2>2. UNCHANGED <<work, owner, model>> /\ miner'.regs = miner.regs
    BY <1>9 DEF MinerInv, Typed, MinerRows, Restart
  <2>3. Lock'
    BY <2>2, LockKept DEF MinerInv
  <2>4. Loaded' /\ RowsInv'
    BY <2>2 DEF MinerInv, Loaded, RowsInv
  <2> QED BY <2>1, <2>3, <2>4 DEF MinerInv
<1>10. ASSUME Age PROVE MinerInv'
  <2>1. Typed'
    <3>1. miner' \in MinerRows
      <4>1. CASE miner.seen > 0 /\ miner' = [miner EXCEPT !.seen = @ - 1]
        BY <4>1 DEF MinerInv, Typed, MinerRows
      <4>2. CASE miner' = [miner EXCEPT !.due = TRUE]
        BY <4>2 DEF MinerInv, Typed, MinerRows
      <4> QED BY <1>10, <4>1, <4>2 DEF MinerInv, Typed, Age
    <3>2. token' \in [Models -> [secret : Nat, lapsed : BOOLEAN]]
      BY <1>10 DEF MinerInv, Typed, Age
    <3> QED BY <1>10, <3>1, <3>2 DEF MinerInv, Typed, Age
  <2>2. UNCHANGED <<work, owner, model>> /\ miner'.regs = miner.regs
    BY <1>10 DEF MinerInv, Typed, MinerRows, Age
  <2>3. Lock'
    BY <2>2, LockKept DEF MinerInv
  <2>4. Loaded' /\ RowsInv'
    BY <2>2 DEF MinerInv, Loaded, RowsInv
  <2> QED BY <2>1, <2>3, <2>4 DEF MinerInv
<1> QED
  BY <1>1, <1>2, <1>3, <1>4, <1>5, <1>6, <1>7, <1>8, <1>9, <1>10 DEF Serve

(* The registration is committed: nobody holds the lock.                   *)
LEMMA RegisterCommitKeepsInv ==
    ASSUME MinerInv, RegisterCommit
    PROVE  MinerInv'
<1> DEFINE born == miner.regs + 1
<1>1. miner \in MinerRows /\ reg \in Regs /\ born \in Nat
  BY DEF MinerInv, Typed, MinerRows, RegisterCommit
<1>2. model' = NewModels(reg.inventory, born) /\ reg.inventory \in Inventories
  BY <1>1 DEF RegisterCommit, ReplacedModels, Regs
<1>3. miner' \in MinerRows /\ miner'.regs = born
  <2> DEFINE s == Flushed(reg.status, miner.status)
             h == Flushed(reg.health, miner.health)
             e == reg.inventory.endpoint
             d == miner.due /\ reg.status # "pending"
  <2>1. s \in Statuses /\ h \in Healths /\ e \in Endpoints /\ d \in BOOLEAN
    BY <1>1, MinerAssumption DEF MinerRows, Regs, Flushed, Kept, Statuses, Healths
  <2>2. miner' = [miner EXCEPT !.endpoint = e, !.status = s, !.health = h,
                               !.seen = 2, !.due = d, !.regs = born]
    BY <1>1 DEF RegisterCommit, MinerRows
  <2>3. miner' = [endpoint |-> e, status |-> s, health |-> h, seen |-> 2, due |-> d,
                  regs |-> born]
    <3> HIDE DEF s, h, e, d, born
    <3> QED BY <1>1, <2>2 DEF MinerRows
  <2> HIDE DEF s, h, e, d
  <2> QED BY <1>1, <2>1, <2>3 DEF MinerRows
<1>4. Typed'
  <2>1. model' \in [Models -> ModelRows]
    BY <1>1, <1>2, NewModelsTyped
  <2>2. token' \in [Models -> [secret : Nat, lapsed : BOOLEAN]]
    BY DEF MinerInv, Typed, RegisterCommit, NoToken
  <2> QED BY <1>3, <2>1, <2>2 DEF MinerInv, Typed, RegisterCommit
<1>5. Lock'
  <2>1. \A p \in Provisioners : owner # p
    BY MinerAssumption DEF RegisterCommit
  <2> QED BY <2>1 DEF MinerInv, Lock, Held, AtWork, Outside, RegisterCommit
<1>6. RowsInv'
  <2>1. \A m \in Models : model'[m].born = born /\ model'[m].status # "attested"
    BY <1>1, <1>2, NewModelsTyped
  <2> QED BY <1>3, <2>1 DEF RowsInv
<1>7. Loaded'
  BY DEF MinerInv, Loaded, RegisterCommit
<1> QED BY <1>4, <1>5, <1>6, <1>7 DEF MinerInv

(* The steps of a provisioner before it holds the lock.                    *)
LEMMA BeginKeepsInv ==
    ASSUME MinerInv, NEW p \in Provisioners, Acquire(p) \/ Load(p) \/ Flush(p)
    PROVE  MinerInv'
<1>1. work[p] \in Works /\ Held(p) /\ miner.endpoint \in Endpoints
  BY DEF MinerInv, Typed, Lock, MinerRows
<1>2. work' = [work EXCEPT ![p] = work'[p]]
  BY DEF MinerInv, Typed, Acquire, Load, Flush
<1>3. work'[p] \in Works
  <2>1. CASE Acquire(p)
    <3>1. work'[p] = [work[p] EXCEPT !.pc = "load"]
      BY <2>1 DEF MinerInv, Typed, Acquire
    <3> QED BY <1>1, <3>1 DEF Works
  <2>3. CASE Load(p)
    <3>1. work'[p] = [work[p] EXCEPT !.pc = "flush", !.endpoint = miner.endpoint]
      BY <1>1, <2>3 DEF MinerInv, Typed, Works, Load
    <3> QED BY <1>1, <3>1 DEF Works
  <2>2. CASE Flush(p)
    <3> DEFINE advertised == {m \in Models : model[m].status # "absent"}
    <3>1. work'[p] = [work[p] EXCEPT !.pc = "models", !.todo = advertised]
      BY <1>1, <2>2 DEF MinerInv, Typed, Works, Flush
    <3>2. advertised \in SUBSET Models
      OBVIOUS
    <3> HIDE DEF advertised
    <3> QED BY <1>1, <3>1, <3>2 DEF Works
  <2> QED BY <2>1, <2>2, <2>3
<1>4. Typed'
  BY <1>2, <1>3 DEF MinerInv, Typed, Acquire, Load, Flush
<1>5. Held(p)'
  <2>1. CASE Acquire(p) \/ Load(p)
    <3>1. work[p].pc \notin {"models", "seal"} /\ owner' = owner
      BY <2>1 DEF Acquire, Load
    <3>2. Outside(p)
      BY <1>1, <3>1 DEF Held
    <3>3. work'[p].pc \in {"load", "flush"} /\ work'[p].todo = work[p].todo
          /\ work'[p].sealed = work[p].sealed
      BY <1>1, <2>1 DEF MinerInv, Typed, Works, Acquire, Load
    <3> QED BY <3>1, <3>2, <3>3 DEF Held, Outside
  <2>2. CASE Flush(p)
    <3>1. Outside(p)
      BY <1>1, <2>2 DEF Held, Flush
    <3>2. /\ work'[p].pc = "models" /\ work'[p].sealed = work[p].sealed
          /\ work'[p].todo = {m \in Models : model[m].status # "absent"}
      BY <1>1, <2>2 DEF MinerInv, Typed, Works, Flush
    <3>3. owner' = p /\ model' = model
      BY <2>2 DEF Flush
    <3> QED BY <3>1, <3>2, <3>3 DEF Held, AtWork, Outside
  <2> QED BY <2>1, <2>2
<1>6. /\ \A q \in Provisioners \ {p} : work'[q] = work[q]
      /\ \A q \in Provisioners \ {p} : owner = q <=> owner' = q
  BY <1>2, MinerAssumption DEF MinerInv, Typed, Acquire, Load, Flush
<1>7. Lock'
  BY <1>5, <1>6, LockOfOthers DEF MinerInv, Acquire, Load, Flush
<1>8. Loaded'
  BY <1>1, <1>6 DEF MinerInv, Typed, Works, Loaded, Acquire, Load, Flush
<1>9. RowsInv'
  BY DEF MinerInv, RowsInv, Acquire, Load, Flush
<1> QED BY <1>4, <1>7, <1>8, <1>9 DEF MinerInv

(* A document is fetched.                                                  *)
LEMMA AttestKeepsInv ==
    ASSUME MinerInv, NEW p \in Provisioners, Attest(p)
    PROVE  MinerInv'
<1>1. work[p] \in Works /\ AtWork(p) /\ work[p].endpoint \in Endpoints /\ miner.regs \in Nat
  BY DEF MinerInv, Typed, Lock, Held, Loaded, MinerRows, Attest
<1>2. PICK m \in work[p].todo :
        LET e == Resolve(model[m].at, work[p].endpoint)
        IN  work' = [work EXCEPT
               ![p].pc = "seal",
               ![p].doc = [model |-> m, regs |-> miner.regs,
                           pin |-> [endpoint |-> e, boot |-> enclave[e].boot]]]
  BY DEF Attest
<1> DEFINE e == Resolve(model[m].at, work[p].endpoint)
           doc == [model |-> m, regs |-> miner.regs,
                   pin |-> [endpoint |-> e, boot |-> enclave[e].boot]]
<1>3. m \in Models /\ e \in Endpoints
  BY <1>1 DEF Works, MinerInv, Typed, ModelRows, Resolve
<1>4. doc \in Docs /\ doc.regs = miner.regs /\ doc.model = m
  BY <1>1, <1>3, MinerAssumption DEF Docs, Pins, MinerInv, Typed
<1>5. work' = [work EXCEPT ![p] = [work[p] EXCEPT !.pc = "seal", !.doc = doc]]
  BY <1>1, <1>2 DEF MinerInv, Typed, Works
<1> HIDE DEF doc
<1>6. work'[p] \in Works /\ work' \in [Provisioners -> Works]
  BY <1>1, <1>4, <1>5 DEF Works, MinerInv, Typed
<1>7. Typed'
  BY <1>6 DEF MinerInv, Typed, Attest
<1>8. Held(p)'
  BY <1>1, <1>4, <1>5 DEF MinerInv, Typed, Works, Held, AtWork, Attest
<1>9. \A q \in Provisioners \ {p} : work'[q] = work[q]
  BY <1>5 DEF MinerInv, Typed
<1>10. Lock'
  BY <1>8, <1>9, LockOfOthers DEF MinerInv, Attest
<1>11. Loaded'
  BY <1>1, <1>5 DEF MinerInv, Typed, Works, Loaded
<1>12. RowsInv'
  BY DEF MinerInv, RowsInv, Attest
<1> QED BY <1>7, <1>10, <1>11, <1>12 DEF MinerInv

(* The token is sealed.                                                    *)
LEMMA SealKeepsInv ==
    ASSUME MinerInv, NEW p \in Provisioners, Seal(p)
    PROVE  MinerInv'
<1>1. work[p] \in Works /\ AtWork(p) /\ work[p].doc \in Docs /\ NewSecret \in Nat
  BY SecretTyped DEF MinerInv, Typed, Lock, Held, AtWork, Seal
<1> DEFINE doc == work[p].doc
           draft == [secret |-> NewSecret, pin |-> doc.pin, proved |-> doc.regs]
           sealed == [m \in DOMAIN work[p].sealed \cup {doc.model} |->
                         IF m = doc.model THEN draft ELSE work[p].sealed[m]]
<1>2. draft \in Drafts /\ doc.model \in Models /\ doc.pin \in Pins
  BY <1>1 DEF Docs, Drafts
<1>3. work[p].sealed \in Sealings
  BY <1>1 DEF Works
<1>4. sealed \in Sealings
  <2> HIDE DEF draft, doc
  <2> QED BY <1>2, <1>3, SealingGrows
<1>5. \A m \in DOMAIN sealed : sealed[m].proved = miner.regs
  BY <1>1 DEF AtWork, Seal
<1>6. work' = [work EXCEPT ![p] = [work[p] EXCEPT !.pc = "models", !.doc = Nothing,
                  !.todo = @ \ {doc.model}, !.sealed = sealed]]
  BY <1>1 DEF MinerInv, Typed, Works, Seal
<1>7. enclave' = [enclave EXCEPT ![doc.pin.endpoint].secret = NewSecret]
  BY DEF Seal
<1> HIDE DEF sealed, draft, doc
<1>8. work'[p] \in Works /\ work' \in [Provisioners -> Works]
  BY <1>1, <1>4, <1>6 DEF Works, MinerInv, Typed
<1>9. enclave' \in [Endpoints -> [boot : 0 .. MaxBoots, secret : Nat]]
  BY <1>1, <1>2, <1>7 DEF Pins, MinerInv, Typed
<1>10. Typed'
  BY <1>8, <1>9 DEF MinerInv, Typed, Seal
<1>11. Held(p)'
  BY <1>1, <1>5, <1>6 DEF MinerInv, Typed, Works, Held, AtWork, Seal
<1>12. \A q \in Provisioners \ {p} : work'[q] = work[q]
  BY <1>6 DEF MinerInv, Typed
<1>13. Lock'
  BY <1>11, <1>12, LockOfOthers DEF MinerInv, Seal
<1>14. Loaded'
  BY <1>1, <1>6 DEF MinerInv, Typed, Works, Loaded, Seal
<1>15. RowsInv'
  BY DEF MinerInv, RowsInv, Seal
<1> QED BY <1>10, <1>13, <1>14, <1>15 DEF MinerInv

(* The model fails, at the enclave or before.                              *)
LEMMA SkipKeepsInv ==
    ASSUME MinerInv, NEW p \in Provisioners, Reject(p) \/ FailModel(p)
    PROVE  MinerInv'
<1>1. work[p] \in Works /\ AtWork(p) /\ work[p].doc \in Docs /\ NewSecret \in Nat
  BY SecretTyped DEF MinerInv, Typed, Lock, Held, AtWork, Reject, FailModel
<1>2. work' = [work EXCEPT ![p] = [work[p] EXCEPT !.pc = "models", !.doc = Nothing,
                  !.todo = @ \ {work[p].doc.model}]]
  BY <1>1 DEF MinerInv, Typed, Works, Reject, FailModel
<1>3. work'[p] \in Works /\ work' \in [Provisioners -> Works]
  BY <1>1, <1>2 DEF Works, MinerInv, Typed
<1>4. enclave' \in [Endpoints -> [boot : 0 .. MaxBoots, secret : Nat]]
  BY <1>1 DEF Docs, Pins, MinerInv, Typed, Reject, FailModel
<1>5. Typed'
  <2>1. faults' \in 0 .. MaxFaults
    <3>1. faults \in 0 .. MaxFaults
      BY DEF MinerInv, Typed
    <3>2. faults' = faults \/ (faults < MaxFaults /\ faults' = faults + 1)
      BY DEF Reject, FailModel
    <3> QED BY <3>1, <3>2, MinerAssumption
  <2>2. torn' \in BOOLEAN
    BY DEF MinerInv, Typed, Reject, FailModel
  <2>3. UNCHANGED <<miner, model, token, guard, owner, reg, sweep, request>>
    BY DEF Reject, FailModel
  <2> QED BY <1>3, <1>4, <2>1, <2>2, <2>3 DEF MinerInv, Typed
<1>6. Held(p)'
  BY <1>1, <1>2 DEF MinerInv, Typed, Works, Held, AtWork, Reject, FailModel
<1>7. \A q \in Provisioners \ {p} : work'[q] = work[q]
  BY <1>2 DEF MinerInv, Typed
<1>8. Lock'
  BY <1>6, <1>7, LockOfOthers DEF MinerInv, Reject, FailModel
<1>9. Loaded'
  BY <1>1, <1>2 DEF MinerInv, Typed, Works, Loaded, Reject, FailModel
<1>10. RowsInv'
  BY DEF MinerInv, RowsInv, Reject, FailModel
<1> QED BY <1>5, <1>8, <1>9, <1>10 DEF MinerInv

(* All that was sealed is committed.                                       *)
LEMMA FinishKeepsInv ==
    ASSUME MinerInv, NEW p \in Provisioners, Finish(p)
    PROVE  MinerInv'
<1> DEFINE sealed == work[p].sealed
<1>1. work[p] \in Works /\ AtWork(p) /\ sealed \in Sealings
  BY DEF MinerInv, Typed, Works, Lock, Held, Finish
<1>2. /\ DOMAIN sealed \subseteq Models
      /\ \A m \in DOMAIN sealed : sealed[m] \in Drafts /\ sealed[m].proved = miner.regs
  BY <1>1, SealingParts DEF AtWork
<1>3. /\ work' = [work EXCEPT ![p] = IdleWork]
      /\ work' \in [Provisioners -> Works]
  BY IdleWorkTyped DEF MinerInv, Typed, Finish
<1>4. miner' \in MinerRows /\ miner'.regs = miner.regs
  BY DEF MinerInv, Typed, MinerRows, Statuses, Finish
<1>5. \A m \in Models : model'[m] =
        IF m \in DOMAIN sealed
        THEN [model[m] EXCEPT !.status = "attested", !.pin = sealed[m].pin,
                              !.proved = sealed[m].proved]
        ELSE model[m]
  BY DEF Finish
<1>6. model' \in [Models -> ModelRows]
  <2>1. ASSUME NEW m \in Models PROVE model'[m] \in ModelRows
    <3>1. CASE m \in DOMAIN sealed
      <4> DEFINE d == sealed[m]
      <4>1. d \in Drafts /\ model[m] \in ModelRows
        BY <1>2, <3>1 DEF MinerInv, Typed
      <4>2. model'[m] = [model[m] EXCEPT !.status = "attested", !.pin = d.pin,
                                         !.proved = d.proved]
        BY <1>5, <3>1
      <4> HIDE DEF d
      <4> QED BY <4>1, <4>2 DEF Drafts, ModelRows
    <3>2. CASE m \notin DOMAIN sealed
      BY <1>5, <3>2 DEF MinerInv, Typed
    <3> QED BY <3>1, <3>2
  <2>2. model' = [m \in Models |-> model'[m]]
    BY DEF Finish
  <2> QED BY <2>1, <2>2
<1>7. token' \in [Models -> [secret : Nat, lapsed : BOOLEAN]]
  BY <1>2 DEF Finish, Superseded, Drafts, MinerInv, Typed
<1>8. Typed'
  BY <1>3, <1>4, <1>6, <1>7 DEF MinerInv, Typed, Finish
<1>9. Held(p)'
  <2>1. work'[p] = IdleWork /\ owner' = Nobody /\ p # Nobody
    BY <1>3, MinerAssumption DEF MinerInv, Typed, Finish
  <2>2. IdleWork.pc = "idle" /\ IdleWork.todo = {}
    BY DEF IdleWork
  <2> QED BY <2>1, <2>2, EmptySealing DEF Held, Outside
<1>10. /\ \A q \in Provisioners \ {p} : work'[q] = work[q]
       /\ \A q \in Provisioners \ {p} : owner = q <=> owner' = q
  BY <1>1, <1>3, MinerAssumption DEF MinerInv, Typed, AtWork, Finish
<1>11. \A m \in Models : model[m].status # "absent" => model'[m].status # "absent"
  BY <1>5 DEF MinerInv, Typed, ModelRows
<1>12. Lock'
  BY <1>4, <1>9, <1>10, <1>11, LockOfOthers DEF MinerInv
<1>13. Loaded'
  BY <1>3 DEF MinerInv, Typed, Loaded, IdleWork
<1>14. RowsInv'
  <2>1. ASSUME NEW m \in Models, m \in DOMAIN sealed
        PROVE  /\ model'[m].born = miner.regs
               /\ model'[m].pin \in Pins /\ model'[m].proved = model'[m].born
    <3> DEFINE d == sealed[m]
    <3>1. d \in Drafts /\ d.proved = miner.regs
      BY <1>2, <2>1
    <3>2. model'[m] = [model[m] EXCEPT !.status = "attested", !.pin = d.pin,
                                       !.proved = d.proved]
      BY <1>5, <2>1
    <3>3. model[m] \in ModelRows /\ model[m].born = miner.regs
      BY DEF MinerInv, Typed, RowsInv
    <3> HIDE DEF d
    <3> QED BY <3>1, <3>2, <3>3 DEF ModelRows, Drafts
  <2>2. ASSUME NEW m \in Models, m \notin DOMAIN sealed PROVE model'[m] = model[m]
    BY <1>5, <2>2
  <2> QED BY <1>4, <2>1, <2>2 DEF MinerInv, RowsInv
<1> QED BY <1>8, <1>12, <1>13, <1>14 DEF MinerInv

(* A provisioner gives up.                                                 *)
LEMMA CrashKeepsInv ==
    ASSUME MinerInv, NEW p \in Provisioners, Crash(p)
    PROVE  MinerInv'
<1>1. /\ work' = [work EXCEPT ![p] = IdleWork]
      /\ work' \in [Provisioners -> Works]
  BY IdleWorkTyped DEF MinerInv, Typed, Crash
<1>2. Typed'
  <2>1. faults' \in 0 .. MaxFaults
    <3>1. faults \in 0 .. MaxFaults /\ faults < MaxFaults /\ faults' = faults + 1
      BY DEF MinerInv, Typed, Crash
    <3> QED BY <3>1, MinerAssumption
  <2>3. torn' \in BOOLEAN /\ guard' \in BOOLEAN
    BY DEF MinerInv, Typed, Crash
  <2>2. owner' \in Provisioners \cup {Nobody}
    BY DEF MinerInv, Typed, Crash
  <2> QED BY <1>1, <2>1, <2>2, <2>3 DEF MinerInv, Typed, Crash
<1>3. Held(p)'
  BY <1>1, EmptySealing, MinerAssumption DEF MinerInv, Typed, Held, Outside, IdleWork, Crash
<1>4. /\ \A q \in Provisioners \ {p} : work'[q] = work[q]
      /\ \A q \in Provisioners \ {p} : owner = q <=> owner' = q
  BY <1>1, MinerAssumption DEF MinerInv, Typed, Crash
<1>5. Lock'
  BY <1>3, <1>4, LockOfOthers DEF MinerInv, Crash
<1>6. Loaded' /\ RowsInv'
  BY <1>1 DEF MinerInv, Typed, Loaded, RowsInv, IdleWork, Crash
<1> QED BY <1>2, <1>5, <1>6 DEF MinerInv

LEMMA MinerStep == MinerInv /\ [Next]_vars => MinerInv'
<1> SUFFICES ASSUME MinerInv, [Next]_vars PROVE MinerInv'
  OBVIOUS
<1>1. CASE UNCHANGED vars
  BY <1>1 DEF vars, MinerInv, Typed, Lock, Held, AtWork, Outside, Loaded, RowsInv
<1>2. CASE RegisterCommit
  BY <1>2, RegisterCommitKeepsInv
<1>3. CASE \/ RegisterLoad \/ Heartbeat \/ GuardExpires \/ Inspect \/ Sweep \/ Serve
           \/ (\E e \in Endpoints : Restart(e)) \/ Age
  BY <1>3, OthersKeepInv
<1>4. ASSUME NEW p \in Provisioners, Provision(p) \/ FailModel(p) \/ Crash(p)
      PROVE  MinerInv'
  BY <1>4, BeginKeepsInv, AttestKeepsInv, SealKeepsInv, SkipKeepsInv, FinishKeepsInv,
     CrashKeepsInv DEF Provision
<1> QED BY <1>1, <1>2, <1>3, <1>4 DEF Next

LEMMA MinerInit == Init => MinerInv
<1> SUFFICES ASSUME Init PROVE MinerInv
  OBVIOUS
<1>1. PICK i \in Inventories :
        /\ miner = [endpoint |-> i.endpoint, status |-> "pending", health |-> "healthy",
                    seen |-> 2, due |-> FALSE, regs |-> 0]
        /\ model = NewModels(i, 0)
  BY DEF Init
<1>2. miner \in MinerRows
  BY <1>1, MinerAssumption DEF MinerRows, Statuses, Healths
<1>3. Typed
  <2>1. model \in [Models -> ModelRows] /\ work \in [Provisioners -> Works]
    BY <1>1, NewModelsTyped, IdleWorkTyped DEF Init
  <2>2. enclave \in [Endpoints -> [boot : 0 .. MaxBoots, secret : Nat]]
    BY MinerAssumption DEF Init
  <2>3. token \in [Models -> [secret : Nat, lapsed : BOOLEAN]]
    BY DEF Init, NoToken
  <2>4. faults \in 0 .. MaxFaults
    BY MinerAssumption DEF Init
  <2> QED BY <1>2, <2>1, <2>2, <2>3, <2>4 DEF Init, Typed
<1>4. Lock /\ Loaded
  BY EmptySealing, MinerAssumption DEF Init, Lock, Held, Outside, Loaded, IdleWork
<1>5. RowsInv
  BY <1>1, NewModelsTyped DEF RowsInv
<1> QED BY <1>3, <1>4, <1>5 DEF MinerInv

LEMMA MinerInvariant == Spec => []MinerInv
  BY MinerInit, MinerStep, PTL DEF Spec

-----------------------------------------------------------------------------
(* A model that is served was attested after the registration that its row *)
(* is of, however registrations and provisioners overlap.  (miners/        *)
(* service.py: upsert_from_registration, replace_models; provisioner/      *)
(* service.py: provision_miner.)                                           *)
THEOREM ServedIsAttested == Spec => []AttestedSinceRegistered
<1>1. MinerInv => AttestedSinceRegistered
  <2> SUFFICES ASSUME MinerInv PROVE AttestedSinceRegistered
    OBVIOUS
  <2>1. \A p \in Provisioners :
          /\ work[p].pc \in {"idle", "load", "flush", "models", "seal"}
          /\ work[p].todo \subseteq {m \in Models : model[m].status # "absent"}
          /\ work[p].pc \in {"models", "seal"} <=> owner = p
    BY DEF MinerInv, Typed, Works, Lock, Held, AtWork, Outside
  <2>2. /\ reg = Nothing \/ reg.inventory \in Inventories
        /\ sweep = Nothing \/ sweep \in [health : Healths \cup {Kept}, status : Statuses \cup {Kept}]
        /\ request = Nothing \/ request.pin \in Pins
    BY DEF MinerInv, Typed, Regs, Sweeps, Calls
  <2>3. TypeOK
    BY <2>1, <2>2 DEF MinerInv, Typed, TypeOK
  <2> QED BY <2>3 DEF MinerInv, RowsInv, AttestedSinceRegistered, Eligible
<1> QED BY MinerInvariant, <1>1, PTL

-----------------------------------------------------------------------------
(* Each model has an enclave to itself: provisioner/service.py, "Each      *)
(* advertised MinerModel is its own single-model enclave".  Of two models  *)
(* behind one endpoint the last to be sealed would have its token there.   *)
Hosts(m) == {i \in Inventories : m \in DOMAIN i.at}

Homes(m) == {Resolve(i.at[m], j.endpoint) : i \in Hosts(m), j \in Inventories}

OwnEnclaves == \A m, n \in Models : m # n => Homes(m) \cap Homes(n) = {}

(* Where the models are and were is where registrations have put them.     *)
Announced == {j.endpoint : j \in Inventories}

PlacesInv ==
    /\ miner.endpoint \in Announced
    /\ \A m \in Models :
          /\ model[m].status # "absent" => \E i \in Hosts(m) : model[m].at = i.at[m]
          /\ model[m].status = "attested" => model[m].pin.endpoint \in Homes(m)
    /\ \A p \in Provisioners :
          /\ work[p].pc \in {"flush", "models", "seal"} => work[p].endpoint \in Announced
          /\ work[p].pc = "seal" => work[p].doc.pin.endpoint \in Homes(work[p].doc.model)
          /\ \A m \in DOMAIN work[p].sealed :
                model[m].status # "absent" /\ work[p].sealed[m].pin.endpoint \in Homes(m)

(* A pin is not of a boot to come.                                         *)
Past(pin) == pin.boot =< enclave[pin.endpoint].boot

BootsInv ==
    /\ \A m \in Models : model[m].status = "attested" => Past(model[m].pin)
    /\ \A p \in Provisioners :
          \A m \in DOMAIN work[p].sealed : Past(work[p].sealed[m].pin)

(* The secret is in the enclave of that pin, if it runs.                   *)
In(pin, secret) == Running(pin) => enclave[pin.endpoint].secret = secret

(* A draft is what its enclave has; a token too, unless there is a draft   *)
(* that is to take its place.                                              *)
DraftsIn(p) == \A m \in DOMAIN work[p].sealed :
                  In(work[p].sealed[m].pin, work[p].sealed[m].secret)

TokenIn(m) ==
    \/ model[m].status # "attested"
    \/ token[m].secret = 0
    \/ \E p \in Provisioners : m \in DOMAIN work[p].sealed
    \/ In(model[m].pin, token[m].secret)

SecretsInv ==
    \/ torn
    \/ /\ \A p \in Provisioners : DraftsIn(p)
       /\ \A m \in Models : TokenIn(m)

SealedInv == MinerInv /\ PlacesInv /\ BootsInv /\ SecretsInv

(* A step that seals, pins and moves nothing.                              *)
LEMMA QuietKeeps ==
    ASSUME SealedInv,
           UNCHANGED <<model, enclave, torn>>, miner'.endpoint = miner.endpoint,
           \A p \in Provisioners :
              /\ work'[p].sealed = work[p].sealed
              /\ work'[p].pc = "seal" => work[p].pc = "seal" /\ work'[p].doc = work[p].doc
              /\ work'[p].pc \in {"flush", "models", "seal"} => work'[p].endpoint \in Announced,
           \A m \in Models : token'[m].secret \in {token[m].secret, 0}
    PROVE  PlacesInv' /\ BootsInv' /\ SecretsInv'
<1>1. PlacesInv'
  BY DEF SealedInv, PlacesInv
<1>2. BootsInv'
  BY DEF SealedInv, BootsInv, Past
<1>3. \A p \in Provisioners : DraftsIn(p) => DraftsIn(p)'
  BY DEF DraftsIn, In, Running
<1>4. \A m \in Models : TokenIn(m) => TokenIn(m)'
  BY DEF TokenIn, In, Running
<1> QED BY <1>1, <1>2, <1>3, <1>4 DEF SealedInv, SecretsInv

LEMMA OthersQuiet ==
    ASSUME SealedInv,
           \/ RegisterLoad \/ Heartbeat \/ GuardExpires \/ Inspect \/ Sweep \/ Serve \/ Age
           \/ \E p \in Provisioners : Acquire(p) \/ Load(p) \/ Flush(p)
    PROVE  PlacesInv' /\ BootsInv' /\ SecretsInv'
<1>1. miner \in MinerRows /\ work \in [Provisioners -> Works]
  BY DEF SealedInv, MinerInv, Typed
<1>2. UNCHANGED <<model, enclave, torn>>
  BY DEF RegisterLoad, Heartbeat, GuardExpires, Inspect, Sweep, Serve, Select, Dial,
         MarkStale, Age, Acquire, Load, Flush
<1>3. miner'.endpoint = miner.endpoint
  BY <1>1 DEF MinerRows, RegisterLoad, Heartbeat, GuardExpires, Inspect, Sweep, Serve, Select,
              Dial, MarkStale, Age, Acquire, Load, Flush
<1>4. \A m \in Models : token'[m].secret \in {token[m].secret, 0}
  <2>1. token \in [Models -> [secret : Nat, lapsed : BOOLEAN]]
    BY DEF SealedInv, MinerInv, Typed
  <2>2. CASE Sweep
    BY <2>1, <2>2 DEF Sweep, NoToken
  <2>3. CASE Age
    BY <2>1, <2>3 DEF Age
  <2>4. CASE UNCHANGED token
    BY <2>4
  <2> QED BY <2>2, <2>3, <2>4
          DEF RegisterLoad, Heartbeat, GuardExpires, Inspect, Serve, Select, Dial, MarkStale,
              Acquire, Load, Flush
<1>5. \A p \in Provisioners :
         /\ work'[p].sealed = work[p].sealed
         /\ work'[p].pc = "seal" => work[p].pc = "seal" /\ work'[p].doc = work[p].doc
         /\ work'[p].pc \in {"flush", "models", "seal"} => work'[p].endpoint \in Announced
  <2>1. CASE UNCHANGED work
    BY <2>1 DEF SealedInv, PlacesInv
  <2>2. ASSUME NEW q \in Provisioners, Acquire(q) \/ Load(q) \/ Flush(q), NEW p \in Provisioners
        PROVE  /\ work'[p].sealed = work[p].sealed
               /\ work'[p].pc = "seal" => work[p].pc = "seal" /\ work'[p].doc = work[p].doc
               /\ work'[p].pc \in {"flush", "models", "seal"} => work'[p].endpoint \in Announced
    BY <1>1, <2>2 DEF SealedInv, PlacesInv, Works, Acquire, Load, Flush
  <2> QED BY <2>1, <2>2
          DEF RegisterLoad, Heartbeat, GuardExpires, Inspect, Sweep, Serve, Select, Dial,
              MarkStale, Age
<1> QED BY <1>2, <1>3, <1>4, <1>5, QuietKeeps

(* After a registration nothing is attested, and nothing was being sealed. *)
LEMMA RegisterKeeps ==
    ASSUME SealedInv, RegisterCommit
    PROVE  PlacesInv' /\ BootsInv' /\ SecretsInv'
<1>1. miner \in MinerRows /\ reg \in Regs /\ reg.inventory \in Inventories
  BY DEF SealedInv, MinerInv, Typed, RegisterCommit, Regs
<1>2. model' = NewModels(reg.inventory, miner.regs + 1) /\ miner.regs + 1 \in Nat
  BY <1>1 DEF RegisterCommit, ReplacedModels, MinerRows
<1>3. \A m \in Models :
        /\ model'[m].status # "attested"
        /\ model'[m].status # "absent" => \E i \in Hosts(m) : model'[m].at = i.at[m]
  <2>1. \A m \in Models : model'[m].status # "attested"
    BY <1>1, <1>2, NewModelsTyped
  <2>2. ASSUME NEW m \in Models, model'[m].status # "absent"
        PROVE  \E i \in Hosts(m) : model'[m].at = i.at[m]
    BY <1>1, <1>2, <2>2 DEF NewModels, Hosts
  <2> QED BY <2>1, <2>2
<1>4. \A p \in Provisioners :
        /\ work[p].pc \notin {"models", "seal"}
        /\ DOMAIN work[p].sealed = {}
        /\ work'[p] = work[p]
  BY MinerAssumption
  DEF SealedInv, MinerInv, Lock, Held, AtWork, Outside, RegisterCommit
<1>5. miner'.endpoint \in Announced
  <2>1. miner'.endpoint = reg.inventory.endpoint
    BY <1>1 DEF RegisterCommit, MinerRows
  <2> QED BY <1>1, <2>1 DEF Announced
<1>6. PlacesInv'
  BY <1>3, <1>4, <1>5 DEF SealedInv, PlacesInv
<1>7. BootsInv'
  BY <1>3, <1>4 DEF BootsInv
<1>8. SecretsInv'
  BY <1>3, <1>4 DEF SecretsInv, DraftsIn, TokenIn
<1> QED BY <1>6, <1>7, <1>8

(* A document is of an enclave of its model.                               *)
LEMMA AttestKeeps ==
    ASSUME SealedInv, NEW p \in Provisioners, Attest(p)
    PROVE  PlacesInv' /\ BootsInv' /\ SecretsInv'
<1>1. /\ work[p] \in Works /\ work \in [Provisioners -> Works]
      /\ work[p].endpoint \in Announced
      /\ work[p].todo \subseteq {m \in Models : model[m].status # "absent"}
  BY DEF SealedInv, MinerInv, Typed, Lock, Held, AtWork, PlacesInv, Attest
<1>2. PICK m \in work[p].todo :
        LET e == Resolve(model[m].at, work[p].endpoint)
        IN  work' = [work EXCEPT
               ![p].pc = "seal",
               ![p].doc = [model |-> m, regs |-> miner.regs,
                           pin |-> [endpoint |-> e, boot |-> enclave[e].boot]]]
  BY DEF Attest
<1> DEFINE e == Resolve(model[m].at, work[p].endpoint)
<1>3. e \in Homes(m)
  BY <1>1 DEF SealedInv, PlacesInv, Homes, Announced
<1>4. \A q \in Provisioners :
        /\ work'[q].sealed = work[q].sealed
        /\ work'[q].endpoint = work[q].endpoint
        /\ q # p => work'[q] = work[q]
  BY <1>1, <1>2 DEF Works
<1>5. work'[p].doc.model = m /\ work'[p].doc.pin.endpoint = e
  BY <1>1, <1>2 DEF Works
<1> HIDE DEF e
<1>6. UNCHANGED <<miner, model, token, enclave, torn>>
  BY DEF Attest
<1>7. PlacesInv'
  <2>1. ASSUME NEW q \in Provisioners
        PROVE  /\ work'[q].pc \in {"flush", "models", "seal"} => work'[q].endpoint \in Announced
               /\ work'[q].pc = "seal" => work'[q].doc.pin.endpoint \in Homes(work'[q].doc.model)
    BY <1>1, <1>3, <1>4, <1>5 DEF SealedInv, PlacesInv
  <2> QED BY <1>4, <1>6, <2>1 DEF SealedInv, PlacesInv
<1>8. BootsInv'
  BY <1>4, <1>6 DEF SealedInv, BootsInv, Past
<1>9. SecretsInv'
  <2>1. \A q \in Provisioners : DraftsIn(q) => DraftsIn(q)'
    BY <1>4, <1>6 DEF DraftsIn, In, Running
  <2>2. \A k \in Models : TokenIn(k) => TokenIn(k)'
    BY <1>4, <1>6 DEF TokenIn, In, Running
  <2> QED BY <1>6, <2>1, <2>2 DEF SealedInv, SecretsInv
<1> QED BY <1>7, <1>8, <1>9

(* The models have nothing to do with each other's enclaves.               *)
LEMMA Elsewhere ==
    ASSUME OwnEnclaves, NEW m \in Models, NEW n \in Models, m # n,
           NEW e \in Homes(m), NEW f \in Homes(n)
    PROVE  e # f
  BY DEF OwnEnclaves

LEMMA SealKeeps ==
    ASSUME OwnEnclaves, SealedInv, NEW p \in Provisioners, Seal(p)
    PROVE  PlacesInv' /\ BootsInv' /\ SecretsInv'
<1> DEFINE doc == work[p].doc
           e == doc.pin.endpoint
           n == doc.model
           secret == NewSecret
<1>1. /\ work[p] \in Works /\ work \in [Provisioners -> Works]
      /\ doc \in Docs /\ n \in Models /\ doc.pin \in Pins /\ e \in Endpoints
      /\ e \in Homes(n) /\ Running(doc.pin) /\ owner = p
  BY DEF SealedInv, MinerInv, Typed, Lock, Held, AtWork, PlacesInv, Seal, Docs, Pins
<1>2. /\ enclave \in [Endpoints -> [boot : 0 .. MaxBoots, secret : Nat]]
      /\ enclave' = [enclave EXCEPT ![e].secret = secret]
      /\ UNCHANGED <<miner, model, token, torn>>
  BY DEF SealedInv, MinerInv, Typed, Seal
<1>3. /\ \A q \in Provisioners \ {p} : work'[q] = work[q] /\ DOMAIN work[q].sealed = {}
      /\ work'[p].pc = "models"
      /\ work'[p].endpoint = work[p].endpoint
      /\ DOMAIN work'[p].sealed = DOMAIN work[p].sealed \cup {n}
      /\ work'[p].sealed[n].secret = secret /\ work'[p].sealed[n].pin = doc.pin
      /\ \A m \in DOMAIN work[p].sealed \ {n} : work'[p].sealed[m] = work[p].sealed[m]
  <2>1. \A q \in Provisioners \ {p} : DOMAIN work[q].sealed = {}
    BY <1>1 DEF SealedInv, MinerInv, Lock, Held, AtWork, Outside
  <2> QED BY <1>1, <2>1 DEF Works, Seal
<1>4. /\ \A f \in Endpoints : enclave'[f].boot = enclave[f].boot
      /\ enclave'[e].secret = secret
      /\ \A f \in Endpoints \ {e} : enclave'[f] = enclave[f]
  BY <1>1, <1>2
<1> HIDE DEF secret
<1>5. PlacesInv'
  <2>1. ASSUME NEW m \in DOMAIN work'[p].sealed
        PROVE  model[m].status # "absent" /\ work'[p].sealed[m].pin.endpoint \in Homes(m)
    <3>1. model[n].status # "absent"
      BY DEF SealedInv, MinerInv, Lock, Held, AtWork, Seal
    <3> QED BY <1>1, <1>3, <3>1 DEF SealedInv, PlacesInv
  <2>2. ASSUME NEW q \in Provisioners
        PROVE  /\ work'[q].pc \in {"flush", "models", "seal"} => work'[q].endpoint \in Announced
               /\ work'[q].pc = "seal" => work'[q].doc.pin.endpoint \in Homes(work'[q].doc.model)
    BY <1>1, <1>3 DEF SealedInv, PlacesInv, Seal
  <2> QED BY <1>2, <1>3, <2>1, <2>2 DEF SealedInv, PlacesInv
<1>6. /\ \A m \in Models : model[m].status = "attested" => model[m].pin \in Pins
      /\ \A m \in DOMAIN work[p].sealed : m \in Models /\ work[p].sealed[m].pin \in Pins
  BY <1>1, SealingParts DEF SealedInv, MinerInv, RowsInv, Works, Drafts
<1>7. BootsInv'
  <2>1. ASSUME NEW q \in Provisioners, NEW m \in DOMAIN work'[q].sealed
        PROVE  Past(work[q].sealed[m].pin)'
    <3>1. CASE q # p
      BY <1>3, <3>1
    <3>2. CASE q = p /\ m = n
      <4>1. doc.pin.boot \in Nat /\ enclave'[e].boot = doc.pin.boot
        BY <1>1, <1>4 DEF Running, Pins
      <4>2. work'[q].sealed[m].pin = doc.pin
        BY <1>3, <3>2
      <4> QED BY <4>1, <4>2 DEF Past
    <3>3. CASE q = p /\ m # n
      <4>1. m \in DOMAIN work[p].sealed
        BY <1>3, <3>3
      <4>2. Past(work[p].sealed[m].pin)
        BY <4>1 DEF SealedInv, BootsInv
      <4>3. /\ work'[q].sealed[m] = work[p].sealed[m]
            /\ work[p].sealed[m].pin.endpoint \in Endpoints
        BY <1>3, <1>6, <3>3, <4>1 DEF Pins
      <4> QED BY <1>4, <4>2, <4>3 DEF Past
    <3> QED BY <3>1, <3>2, <3>3
  <2>2. ASSUME NEW m \in Models, model[m].status = "attested"
        PROVE  Past(model[m].pin)'
    BY <1>2, <1>4, <1>6, <2>2 DEF SealedInv, BootsInv, Past, Pins
  <2> QED BY <1>2, <2>1, <2>2 DEF BootsInv
<1>8. SecretsInv'
  <2>1. CASE torn
    BY <1>2, <2>1 DEF SecretsInv
  <2>2. CASE ~ torn
    <3>1. DraftsIn(p) /\ \A m \in Models : TokenIn(m)
      BY <2>2 DEF SealedInv, SecretsInv
    <3>2. ASSUME NEW m \in DOMAIN work'[p].sealed
          PROVE  In(work[p].sealed[m].pin, work[p].sealed[m].secret)'
      <4>1. CASE m = n
        BY <1>3, <1>4, <4>1 DEF In
      <4>2. CASE m # n
        <5> DEFINE d == work[p].sealed[m]
        <5>1. m \in Models /\ d.pin.endpoint \in Endpoints /\ d.pin.endpoint \in Homes(m)
          BY <1>3, <1>6, <4>2 DEF SealedInv, PlacesInv, Pins
        <5>2. d.pin.endpoint # e
          BY <1>1, <4>2, <5>1, Elsewhere
        <5>3. In(d.pin, d.secret)
          BY <1>3, <3>1, <4>2 DEF DraftsIn
        <5>4. work'[p].sealed[m] = d
          BY <1>3, <4>2
        <5>5. enclave'[d.pin.endpoint] = enclave[d.pin.endpoint]
          BY <1>4, <5>1, <5>2
        <5> HIDE DEF d
        <5> QED BY <5>3, <5>4, <5>5 DEF In, Running
      <4> QED BY <4>1, <4>2
    <3>3. ASSUME NEW q \in Provisioners PROVE DraftsIn(q)'
      BY <1>3, <3>2 DEF DraftsIn
    <3>4. ASSUME NEW m \in Models PROVE TokenIn(m)'
      <4>1. CASE m = n \/ model[m].status # "attested" \/ token[m].secret = 0
                 \/ \E q \in Provisioners : m \in DOMAIN work[q].sealed
        BY <1>2, <1>3, <4>1 DEF TokenIn
      <4>2. CASE m # n /\ model[m].status = "attested" /\ In(model[m].pin, token[m].secret)
        <5>1. model[m].pin.endpoint \in Endpoints /\ model[m].pin.endpoint \in Homes(m)
          BY <1>6, <4>2 DEF SealedInv, PlacesInv, Pins
        <5>2. model[m].pin.endpoint # e
          BY <1>1, <4>2, <5>1, Elsewhere
        <5>3. enclave'[model[m].pin.endpoint] = enclave[model[m].pin.endpoint]
          BY <1>4, <5>1, <5>2
        <5> QED BY <1>2, <4>2, <5>3 DEF TokenIn, In, Running
      <4> QED BY <3>1, <4>1, <4>2 DEF TokenIn
    <3> QED BY <3>3, <3>4 DEF SecretsInv
  <2> QED BY <2>1, <2>2
<1> QED BY <1>5, <1>7, <1>8

(* A model that fails is sealed by nobody, or else torn says so.           *)
LEMMA SkipKeeps ==
    ASSUME SealedInv, NEW p \in Provisioners, Reject(p) \/ FailModel(p)
    PROVE  PlacesInv' /\ BootsInv' /\ SecretsInv'
<1>1. /\ work[p] \in Works /\ work \in [Provisioners -> Works] /\ work[p].doc \in Docs
      /\ enclave \in [Endpoints -> [boot : 0 .. MaxBoots, secret : Nat]]
      /\ \A m \in Models : model[m].status = "attested" => model[m].pin \in Pins
  BY DEF SealedInv, MinerInv, Typed, Lock, Held, AtWork, RowsInv, Reject, FailModel
<1>2. /\ \A q \in Provisioners : /\ work'[q].sealed = work[q].sealed
                                 /\ work'[q].endpoint = work[q].endpoint
                                 /\ q # p => work'[q] = work[q]
      /\ work[p].pc = "seal" /\ work'[p].pc = "models"
  BY <1>1 DEF Works, Reject, FailModel
<1>3. UNCHANGED <<miner, model, token>>
  BY DEF Reject, FailModel
<1>4. \A f \in Endpoints : enclave'[f].boot = enclave[f].boot
  BY <1>1 DEF Reject, FailModel
<1>5. UNCHANGED <<enclave, torn>> \/ torn'
  BY DEF Reject, FailModel
<1>6. PlacesInv'
  <2>1. ASSUME NEW q \in Provisioners
        PROVE  /\ work'[q].pc \in {"flush", "models", "seal"} => work'[q].endpoint \in Announced
               /\ work'[q].pc = "seal" => work'[q].doc.pin.endpoint \in Homes(work'[q].doc.model)
    BY <1>2 DEF SealedInv, PlacesInv
  <2> QED BY <1>2, <1>3, <2>1 DEF SealedInv, PlacesInv
<1>7. BootsInv'
  <2>1. ASSUME NEW q \in Provisioners, NEW m \in DOMAIN work[q].sealed
        PROVE  work[q].sealed[m].pin \in Pins
    BY <1>1, SealingParts DEF Works, Drafts
  <2> QED BY <1>1, <1>2, <1>3, <1>4, <2>1 DEF SealedInv, BootsInv, Past, Pins
<1>8. SecretsInv'
  <2>1. CASE torn'
    BY <2>1 DEF SecretsInv
  <2>2. CASE UNCHANGED <<enclave, torn>>
    <3>1. \A q \in Provisioners : DraftsIn(q) => DraftsIn(q)'
      BY <1>2, <2>2 DEF DraftsIn, In, Running
    <3>2. \A m \in Models : TokenIn(m) => TokenIn(m)'
      BY <1>2, <1>3, <2>2 DEF TokenIn, In, Running
    <3> QED BY <2>2, <3>1, <3>2 DEF SealedInv, SecretsInv
  <2> QED BY <1>5, <2>1, <2>2
<1> QED BY <1>6, <1>7, <1>8

(* The drafts become the rows.                                             *)
LEMMA FinishKeeps ==
    ASSUME SealedInv, NEW p \in Provisioners, Finish(p)
    PROVE  PlacesInv' /\ BootsInv' /\ SecretsInv'
<1> DEFINE sealed == work[p].sealed
<1>1. /\ work[p] \in Works /\ work \in [Provisioners -> Works] /\ owner = p
      /\ miner \in MinerRows /\ model \in [Models -> ModelRows]
  BY DEF SealedInv, MinerInv, Typed, Lock, Held, AtWork, Finish
<1>2. /\ DOMAIN sealed \subseteq Models
      /\ \A m \in DOMAIN sealed : sealed[m] \in Drafts
  BY <1>1, SealingParts DEF Works
<1>3. /\ \A q \in Provisioners : DOMAIN work'[q].sealed = {}
      /\ work'[p].pc = "idle"
      /\ \A q \in Provisioners \ {p} : work'[q] = work[q] /\ DOMAIN work[q].sealed = {}
  <2>1. \A q \in Provisioners \ {p} : DOMAIN work[q].sealed = {}
    BY <1>1 DEF SealedInv, MinerInv, Lock, Held, AtWork, Outside
  <2>2. work' = [work EXCEPT ![p] = IdleWork]
    BY DEF Finish
  <2>3. IdleWork.pc = "idle"
    BY DEF IdleWork
  <2> QED BY <1>1, <2>1, <2>2, <2>3, EmptySealing
<1>4. miner'.endpoint = miner.endpoint /\ UNCHANGED <<enclave, torn>>
  BY <1>1 DEF Finish, MinerRows
<1>5. ASSUME NEW m \in DOMAIN sealed
      PROVE  /\ model'[m].pin = sealed[m].pin
             /\ model'[m].at = model[m].at
             /\ token'[m].secret = sealed[m].secret
  <2> DEFINE d == sealed[m]
  <2>1. model'[m] = [model[m] EXCEPT !.status = "attested", !.pin = d.pin,
                                     !.proved = d.proved]
    BY <1>2 DEF Finish
  <2>2. token'[m].secret = d.secret
    BY <1>2 DEF Finish, Superseded
  <2>3. model[m] \in ModelRows
    BY <1>1, <1>2
  <2> HIDE DEF d
  <2>4. model'[m].pin = d.pin /\ model'[m].at = model[m].at
    BY <2>1, <2>3 DEF ModelRows
  <2> QED BY <2>2, <2>4 DEF d
<1>6. ASSUME NEW m \in Models \ DOMAIN sealed
      PROVE  model'[m] = model[m] /\ token'[m] = token[m]
  BY DEF Finish, Superseded
<1> HIDE DEF sealed
<1>7. \A m \in DOMAIN sealed :
        /\ model[m].status # "absent" /\ sealed[m].pin.endpoint \in Homes(m)
        /\ Past(sealed[m].pin)
  BY <1>1 DEF SealedInv, PlacesInv, BootsInv, sealed
<1>8. PlacesInv'
  <2>1. ASSUME NEW m \in Models
        PROVE  /\ model'[m].status # "absent" => \E i \in Hosts(m) : model'[m].at = i.at[m]
               /\ model'[m].status = "attested" => model'[m].pin.endpoint \in Homes(m)
    <3>1. CASE m \in DOMAIN sealed
      BY <1>5, <1>7, <3>1 DEF SealedInv, PlacesInv
    <3>2. CASE m \notin DOMAIN sealed
      BY <1>6, <3>2 DEF SealedInv, PlacesInv
    <3> QED BY <3>1, <3>2
  <2>2. ASSUME NEW q \in Provisioners
        PROVE  /\ work'[q].pc \in {"flush", "models", "seal"} => work'[q].endpoint \in Announced
               /\ work'[q].pc = "seal" => work'[q].doc.pin.endpoint \in Homes(work'[q].doc.model)
    BY <1>3 DEF SealedInv, PlacesInv
  <2> QED BY <1>3, <1>4, <2>1, <2>2 DEF SealedInv, PlacesInv
<1>9. BootsInv'
  <2>1. ASSUME NEW m \in Models, model'[m].status = "attested" PROVE Past(model[m].pin)'
    <3>1. CASE m \in DOMAIN sealed
      BY <1>4, <1>5, <1>7, <3>1 DEF Past
    <3>2. CASE m \notin DOMAIN sealed
      BY <1>4, <1>6, <2>1, <3>2 DEF SealedInv, BootsInv, Past
    <3> QED BY <3>1, <3>2
  <2> QED BY <1>3, <2>1 DEF BootsInv
<1>10. SecretsInv'
  <2>1. CASE torn
    BY <1>4, <2>1 DEF SecretsInv
  <2>2. CASE ~ torn
    <3>1. DraftsIn(p) /\ \A m \in Models : TokenIn(m)
      BY <2>2 DEF SealedInv, SecretsInv
    <3>2. ASSUME NEW m \in Models PROVE TokenIn(m)'
      <4>1. CASE m \in DOMAIN sealed
        <5>1. In(sealed[m].pin, sealed[m].secret)
          BY <3>1, <4>1 DEF DraftsIn, sealed
        <5> QED BY <1>4, <1>5, <4>1, <5>1 DEF TokenIn, In, Running
      <4>2. CASE m \notin DOMAIN sealed
        <5>1. \A q \in Provisioners : m \notin DOMAIN work[q].sealed
          BY <1>3, <4>2 DEF sealed
        <5> QED BY <1>4, <1>6, <3>1, <4>2, <5>1 DEF TokenIn, In, Running
      <4> QED BY <4>1, <4>2
    <3> QED BY <1>3, <3>2 DEF SecretsInv, DraftsIn
  <2> QED BY <2>1, <2>2
<1> QED BY <1>8, <1>9, <1>10

(* What was sealed and is not committed is torn.                           *)
LEMMA CrashKeeps ==
    ASSUME SealedInv, NEW p \in Provisioners, Crash(p)
    PROVE  PlacesInv' /\ BootsInv' /\ SecretsInv'
<1>1. work \in [Provisioners -> Works] /\ work' = [work EXCEPT ![p] = IdleWork]
  BY DEF SealedInv, MinerInv, Typed, Crash
<1>2. IdleWork.pc = "idle"
  BY DEF IdleWork
<1>3. /\ work'[p].pc = "idle" /\ DOMAIN work'[p].sealed = {}
      /\ \A q \in Provisioners \ {p} : work'[q] = work[q]
  BY <1>1, <1>2, EmptySealing
<1>4. UNCHANGED <<miner, model, token, enclave>>
  BY DEF Crash
<1>5. torn' \/ (~ torn /\ DOMAIN work[p].sealed = {})
  BY DEF Crash
<1>6. PlacesInv'
  <2>1. ASSUME NEW q \in Provisioners
        PROVE  /\ work'[q].pc \in {"flush", "models", "seal"} => work'[q].endpoint \in Announced
               /\ work'[q].pc = "seal" => work'[q].doc.pin.endpoint \in Homes(work'[q].doc.model)
               /\ \A m \in DOMAIN work'[q].sealed :
                     /\ model[m].status # "absent"
                     /\ work'[q].sealed[m].pin.endpoint \in Homes(m)
    BY <1>3 DEF SealedInv, PlacesInv
  <2> QED BY <1>4, <2>1 DEF SealedInv, PlacesInv
<1>7. BootsInv'
  BY <1>3, <1>4 DEF SealedInv, BootsInv, Past
<1>8. SecretsInv'
  <2>1. CASE torn'
    BY <2>1 DEF SecretsInv
  <2>2. CASE ~ torn /\ DOMAIN work[p].sealed = {}
    <3>1. \A q \in Provisioners : DraftsIn(q) => DraftsIn(q)'
      BY <1>3, <1>4 DEF DraftsIn, In, Running
    <3>2. \A m \in Models : TokenIn(m) => TokenIn(m)'
      BY <1>3, <1>4, <2>2 DEF TokenIn, In, Running
    <3> QED BY <2>2, <3>1, <3>2 DEF SealedInv, SecretsInv
  <2> QED BY <1>5, <2>1, <2>2
<1> QED BY <1>6, <1>7, <1>8

(* No pin is of the boot that begins.                                      *)
LEMMA RestartKeeps ==
    ASSUME SealedInv, NEW e \in Endpoints, Restart(e)
    PROVE  PlacesInv' /\ BootsInv' /\ SecretsInv'
<1>1. /\ enclave \in [Endpoints -> [boot : 0 .. MaxBoots, secret : Nat]]
      /\ \A m \in Models : model[m].status = "attested" => model[m].pin \in Pins
      /\ \A p \in Provisioners : work[p] \in Works
  BY DEF SealedInv, MinerInv, Typed, RowsInv
<1>2. ASSUME NEW q \in Provisioners, NEW m \in DOMAIN work[q].sealed
      PROVE  work[q].sealed[m].pin \in Pins
  BY <1>1, SealingParts DEF Works, Drafts
<1>3. /\ UNCHANGED <<miner, model, token, work, torn>>
      /\ enclave'[e].boot = enclave[e].boot + 1
      /\ \A f \in Endpoints \ {e} : enclave'[f] = enclave[f]
  BY <1>1 DEF Restart
<1>4. ASSUME NEW pin \in Pins, Past(pin)
      PROVE  /\ pin.boot =< enclave'[pin.endpoint].boot
             /\ enclave'[pin.endpoint].boot = pin.boot => enclave'[pin.endpoint] = enclave[pin.endpoint]
  BY <1>1, <1>3, <1>4, MinerAssumption DEF Pins, Past
<1>5. PlacesInv'
  BY <1>3 DEF SealedInv, PlacesInv
<1>6. BootsInv'
  BY <1>1, <1>2, <1>3, <1>4 DEF SealedInv, BootsInv, Past
<1>7. ASSUME NEW pin \in Pins, NEW s, Past(pin), In(pin, s)
      PROVE  enclave'[pin.endpoint].boot = pin.boot => enclave'[pin.endpoint].secret = s
  BY <1>4, <1>7 DEF In, Running
<1>8. SecretsInv'
  <2>1. CASE torn
    BY <1>3, <2>1 DEF SecretsInv
  <2>2. CASE ~ torn
    <3>1. ASSUME NEW q \in Provisioners PROVE DraftsIn(q)'
      <4>1. DraftsIn(q)
        BY <2>2 DEF SealedInv, SecretsInv
      <4> SUFFICES ASSUME NEW m \in DOMAIN work[q].sealed
                   PROVE  In(work[q].sealed[m].pin, work[q].sealed[m].secret)'
        BY <1>3 DEF DraftsIn
      <4> DEFINE d == work[q].sealed[m]
      <4>2. d.pin \in Pins /\ Past(d.pin) /\ In(d.pin, d.secret)
        BY <1>2, <4>1 DEF DraftsIn, SealedInv, BootsInv
      <4>3. enclave'[d.pin.endpoint].boot = d.pin.boot => enclave'[d.pin.endpoint].secret = d.secret
        <5> HIDE DEF d
        <5> QED BY <1>7, <4>2
      <4> QED BY <1>3, <4>3 DEF In, Running
    <3>2. ASSUME NEW m \in Models PROVE TokenIn(m)'
      <4>1. TokenIn(m)
        BY <2>2 DEF SealedInv, SecretsInv
      <4>2. CASE model[m].status = "attested" /\ In(model[m].pin, token[m].secret)
        <5>1. Past(model[m].pin) /\ model[m].pin \in Pins
          BY <1>1, <4>2 DEF SealedInv, BootsInv
        <5> QED BY <1>3, <1>7, <4>2, <5>1 DEF TokenIn, In, Running
      <4> QED BY <1>3, <4>1, <4>2 DEF TokenIn
    <3> QED BY <3>1, <3>2 DEF SecretsInv
  <2> QED BY <2>1, <2>2
<1> QED BY <1>5, <1>6, <1>8

LEMMA SealedStep == OwnEnclaves /\ SealedInv /\ [Next]_vars => SealedInv'
<1> SUFFICES ASSUME OwnEnclaves, SealedInv, [Next]_vars PROVE SealedInv'
  OBVIOUS
<1> DEFINE Rest == PlacesInv' /\ BootsInv' /\ SecretsInv'
<1>1. ASSUME UNCHANGED vars PROVE Rest
  BY <1>1, QuietKeeps DEF vars, SealedInv, PlacesInv
<1>2. ASSUME RegisterCommit PROVE Rest
  BY <1>2, RegisterKeeps
<1>3. ASSUME NEW e \in Endpoints, Restart(e) PROVE Rest
  BY <1>3, RestartKeeps
<1>4. ASSUME NEW p \in Provisioners, Provision(p) \/ FailModel(p) \/ Crash(p) PROVE Rest
  BY <1>4, OthersQuiet, AttestKeeps, SealKeeps, SkipKeeps, FinishKeeps, CrashKeeps
  DEF Provision
<1>5. ASSUME \/ RegisterLoad \/ Heartbeat \/ GuardExpires \/ Inspect \/ Sweep \/ Serve
             \/ Age
      PROVE  Rest
  BY <1>5, OthersQuiet
<1>6. Rest
  BY <1>1, <1>2, <1>3, <1>4, <1>5 DEF Next
<1>7. MinerInv'
  BY MinerStep DEF SealedInv
<1> QED BY <1>6, <1>7 DEF SealedInv

LEMMA SealedInit == Init => SealedInv
<1> SUFFICES ASSUME Init PROVE SealedInv
  OBVIOUS
<1>1. PICK i \in Inventories :
        /\ miner = [endpoint |-> i.endpoint, status |-> "pending", health |-> "healthy",
                    seen |-> 2, due |-> FALSE, regs |-> 0]
        /\ model = NewModels(i, 0)
  BY DEF Init
<1>2. \A m \in Models :
        /\ model[m].status # "attested"
        /\ model[m].status # "absent" => \E j \in Hosts(m) : model[m].at = j.at[m]
  BY <1>1 DEF NewModels, Hosts
<1>3. \A p \in Provisioners : work[p].pc = "idle" /\ DOMAIN work[p].sealed = {}
  BY EmptySealing DEF Init, IdleWork
<1>4. PlacesInv
  BY <1>1, <1>2, <1>3 DEF PlacesInv, Announced
<1>5. BootsInv /\ SecretsInv
  BY <1>2, <1>3 DEF BootsInv, SecretsInv, DraftsIn, TokenIn
<1> QED BY <1>4, <1>5, MinerInit DEF SealedInv

(* The token that requests are sent with is the one in the enclave, though *)
(* the key in Redis may expire under its holder, if each model has an      *)
(* enclave to itself.  (provisioner/service.py: provision_miner,           *)
(* _supersede_active_tokens; provisioner/loop.py: per_miner_lock.)         *)
THEOREM TokensAreSealed == OwnEnclaves => (Spec => []ActiveTokenIsSealed)
<1> SUFFICES ASSUME OwnEnclaves PROVE Spec => []ActiveTokenIsSealed
  OBVIOUS
<1>1. SealedInv => ActiveTokenIsSealed
  <2> SUFFICES ASSUME SealedInv, NEW m \in Models,
                      Eligible(m), owner = Nobody, ~ torn, Running(model[m].pin)
               PROVE  enclave[model[m].pin.endpoint].secret = token[m].secret
    BY DEF ActiveTokenIsSealed
  <2>1. \A p \in Provisioners : DOMAIN work[p].sealed = {}
    BY MinerAssumption DEF SealedInv, MinerInv, Lock, Held, AtWork, Outside
  <2>2. TokenIn(m)
    BY DEF SealedInv, SecretsInv
  <2> QED BY <2>1, <2>2 DEF TokenIn, In, Eligible
<1>2. SealedInv /\ [Next]_vars => SealedInv'
  BY SealedStep
<1> QED BY SealedInit, <1>1, <1>2, PTL DEF Spec

=============================================================================
