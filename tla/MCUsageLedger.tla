--------------------------- MODULE MCUsageLedger ---------------------------
(* The constants of the model-checked instance of UsageLedger. *)
EXTENDS UsageLedger

CONSTANTS k1

(* k1 is a capped daily key. *)
MCCreditLimit == [k \in Keys |-> 3]
MCWalletLimit == [k \in Keys |-> 2]

MCAllowances == {-1, 2}
=============================================================================
