\* A registration that may move the miner beside a provisioner, the maintenance
\* pass and requests; one fault.
SPECIFICATION FairSpec
CONSTANTS
    Models = {m1}
    Endpoints = {e1, e2}
    Provisioners = {p1}
    Nobody = nobody
    Inventories <- Moves
    Reports = {"healthy"}
    MaxRegistrations = 1
    MaxBoots = 0
    MaxFaults = 1
    MaxInFlight = 1
INVARIANTS
    AttestedSinceRegistered
PROPERTY
    ProvisionersKeepUp
