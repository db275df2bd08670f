-------------------------- MODULE MCMinerLifecycle --------------------------
(* The constants of the model-checked instances of MinerLifecycle. *)
EXTENDS MinerLifecycle

(* One model behind the endpoint of the miner, wherever that is. *)
Moves == {[endpoint |-> e, at |-> [m \in Models |-> Nobody]] : e \in Endpoints}
=============================================================================
