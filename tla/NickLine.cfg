SPECIFICATION Spec
CONSTANTS
    A = A
    B = B
    C = C
    u1 = u1
    u2 = u2
    u3 = u3
    Servers = {A, B, C}
    Uids = {u1, u2}
    Nicks = {"n1"}
    Home <- Ends
    UserHost <- Distinct
    Links <- Line
    Fnc = {B}
    NickDelay = TRUE
    Opers = {}
    Faulty = {u2}
    Skew <- NoSkew
    SAVE_NICKTS = 1
    MaxTime = 1
    MaxOps = 3
    MaxUps = 2
    MaxDowns = 1
INVARIANTS
    ServersAgree
CHECK_DEADLOCK FALSE
