SPECIFICATION Spec
CONSTANTS
    A = A
    B = B
    C = C
    u1 = u1
    u2 = u2
    u3 = u3
    Servers = {A, B}
    Uids = {u1, u2}
    Nicks = {"n1", "n2"}
    Home <- Spread
    UserHost <- Distinct
    Links <- OneLink
    Fnc = {A, B}
    NickDelay = FALSE
    Opers = {}
    Faulty = {}
    Skew <- NoSkew
    SAVE_NICKTS = 1
    MaxTime = 1
    MaxOps = 3
    MaxUps = 1
    MaxDowns = 0
INVARIANTS
    NicksAgree
CHECK_DEADLOCK FALSE
