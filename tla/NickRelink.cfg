SPECIFICATION FairSpec
CONSTANTS
    A = A
    B = B
    C = C
    u1 = u1
    u2 = u2
    u3 = u3
    Servers = {A, B}
    Uids = {u1, u2}
    Nicks = {"n1", "n2"}
    Home <- Spread
    UserHost <- Clones
    Links <- OneLink
    Fnc = {A, B}
    NickDelay = FALSE
    Opers = {u1}
    Faulty = {}
    Skew <- NoSkew
    SAVE_NICKTS = 1
    MaxTime = 0
    MaxOps = 3
    MaxUps = 2
    MaxDowns = 1
INVARIANTS
    NoDuplicateUID
PROPERTIES
    StormsEnd
CHECK_DEADLOCK FALSE
