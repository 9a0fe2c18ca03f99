SPECIFICATION Spec
CONSTANTS
    A = A
    B = B
    C = C
    ann = ann
    bob = bob
    cid = cid
    Servers = {A, B}
    Users = {ann, bob, cid}
    Home <- Paired
    Route <- Line
    Changes <- Mild
    MAXMODEPARAMS = 4
    MaxBans = 2
    MaxTS = 3
    Budget <- Staying
INVARIANTS
    TypeOK
    TSAgree
    StatusAgree
    BansLegitimate
CHECK_DEADLOCK FALSE
