------------------------------ MODULE Overlap ------------------------------
(***************************************************************************)
(* Requests to the control plane that overlap.  A request reads, decides,  *)
(* and writes at its commit; nothing it reads is locked, so that what      *)
(* another request commits in between goes unnoticed.  A row is written    *)
(* back as the session writes it: only the columns whose value differs     *)
(* from the one loaded.                                                    *)
(*                                                                         *)
(* The modules that extend this one say what the requests are.             *)
(***************************************************************************)
EXTENDS Integers, FiniteSets

CONSTANT Workers \* requests that can be under way at a time

ASSUME WorkersAssumption == IsFiniteSet(Workers) /\ Workers # {}

VARIABLES
    tx,   \* the requests under way
    late  \* history: what was written over a write that had not been read

(* A request: what others could change under it, and what they have. *)
Idle == [op |-> "idle", minds |-> {}, stale |-> {}]

OverlapTypeOK ==
    \A w \in Workers : /\ tx[w].op = "idle" => tx[w] = Idle
                       /\ tx[w].stale \subseteq tx[w].minds

OverlapInit ==
    /\ tx = [w \in Workers |-> Idle]
    /\ late = {}

Open(w, request) ==
    /\ tx[w].op = "idle"
    /\ tx' = [tx EXCEPT ![w] = request]

(* A request that changes W: those under way have read it before. *)
Close(w, W) ==
    /\ late' = late \union (W \intersect tx[w].stale)
    /\ tx' = [v \in Workers |->
                 IF v = w THEN Idle
                 ELSE IF tx[v].op = "idle" THEN tx[v]
                 ELSE [tx[v] EXCEPT !.stale = @ \union (W \intersect tx[v].minds)]]

(* The request is refused, fails or dies: it is rolled back. *)
Fail(w) ==
    /\ tx[w].op # "idle"
    /\ tx' = [tx EXCEPT ![w] = Idle]
    /\ UNCHANGED late

(* Mutant: the session writes the whole row. *)
Whole(loaded, row) == row

(* The columns of a row that the session writes. *)
Changed(loaded, row) ==
    [c \in {d \in DOMAIN loaded : row[d] # loaded[d]} |-> row[c]]

Written(row, columns) ==
    [c \in DOMAIN row |-> IF c \in DOMAIN columns THEN columns[c] ELSE row[c]]

=============================================================================
