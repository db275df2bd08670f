----------------------------- MODULE TokenSums -----------------------------
(***************************************************************************)
(* The SUM(...) aggregates of the billing ledger.  The services ask        *)
(* Postgres for coalesce(sum(case ...), 0) over the rows of                *)
(* inference_usage_events; here the rows are the set S and the case        *)
(* expression is the function f.                                           *)
(*                                                                         *)
(* A sum of token counts is the number of tokens: f[x] numbered tokens are *)
(* laid out for every row x and counted.  This needs no recursion, so that *)
(* the facts about sums that the ledger's proofs use can themselves be     *)
(* proved (module UsageLedgerProofs).                                      *)
(***************************************************************************)
EXTENDS Integers, FiniteSets

(* The tokens of the rows of S, numbered within their row. *)
Units(f, S) == UNION {{x} \X (1 .. f[x]) : x \in S}

(* coalesce(sum(f), 0) over the rows of S. *)
Total(f, S) == Cardinality(Units(f, S))

=============================================================================
