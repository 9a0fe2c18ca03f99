SPECIFICATION FairSpec
CONSTANTS
    c1 = c1
    c2 = c2
    r1 = r1
    r2 = r2
    r3 = r3
    NULL = NULL
    Clients = {c1, c2}
    Rbls = {r1, r2}
    MaxId = 3
    DisableAuth = FALSE
    MaxRestarts = 1
    MaxRehashes = 2
INVARIANTS
    TypeOK
    CallbacksLive
    RblsHeld
    AnswersRight
PROPERTIES
    AuthEnds
CHECK_DEADLOCK FALSE
