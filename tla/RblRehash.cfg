SPECIFICATION Spec
CONSTANTS
    c1 = c1
    c2 = c2
    r1 = r1
    r2 = r2
    r3 = r3
    NULL = NULL
    Clients = {c1}
    Rbls = {r1, r2, r3}
    MaxId = 4
    DisableAuth = TRUE
    MaxRestarts = 0
    MaxRehashes = 2
INVARIANTS
    RblsConsulted
CHECK_DEADLOCK FALSE
