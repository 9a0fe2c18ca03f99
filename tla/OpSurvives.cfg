SPECIFICATION Spec
CONSTANTS
    A = A
    B = B
    C = C
    ann = ann
    bob = bob
    cid = cid
    Servers = {A, B}
    Users = {ann, bob, cid}
    Home <- Paired
    Route <- Line
    Changes <- Opping
    MAXMODEPARAMS = 4
    MaxBans = 2
    MaxTS = 2
    Budget <- TwoOps
INVARIANTS
    OpsLegitimate
CHECK_DEADLOCK FALSE
