-------------------------- MODULE MCAdministration --------------------------
(* The constants of the model-checked instance of Administration. *)
EXTENDS Administration, TLC

Symmetry == Permutations(Workers)

=============================================================================
