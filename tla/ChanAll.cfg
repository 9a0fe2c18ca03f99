SPECIFICATION AllSpec
CONSTANTS
    A = A
    B = B
    C = C
    ann = ann
    bob = bob
    cid = cid
    Servers = {A, B}
    Users = {ann, bob, cid}
    Home <- Paired
    Route <- Line
    Changes <- Mixed
    MAXMODEPARAMS = 4
    MaxBans = 2
    MaxTS = 2
    Budget <- Everything
INVARIANTS
    ChannelPopulated
    MembersAgree
PROPERTIES
    TSNeverRises
    OpsGranted
CHECK_DEADLOCK FALSE
