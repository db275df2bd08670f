---------------------------- MODULE MCStripeBilling ----------------------------
(* The first session is for one plan, the others for another. *)
EXTENDS StripeBilling

CONSTANTS s1, p1, p2

MCPriceOf == [s \in Sessions |-> IF s = s1 THEN p1 ELSE p2]

=============================================================================
