\* Two provisioners of one miner, a restart of the enclave, one fault.
SPECIFICATION Spec
CONSTANTS
    Models = {m1}
    Endpoints = {e1}
    Provisioners = {p1, p2}
    Nobody = nobody
    Inventories <- Moves
    Reports = {"healthy"}
    MaxRegistrations = 1
    MaxBoots = 1
    MaxFaults = 1
    MaxInFlight = 1
INVARIANT
    ActiveTokenIsSealed
