SPECIFICATION NetSpec
CONSTANTS
    A = A
    B = B
    C = C
    u1 = u1
    u2 = u2
    u3 = u3
    Servers = {A, B, C}
    Uids = {u1, u2}
    Nicks = {"n1", "n2"}
    Home <- Spread
    UserHost <- Distinct
    Links <- Triangle
    Fnc = {A}
    NickDelay = FALSE
    Opers = {}
    Faulty = {u1}
    Skew <- OneAhead
    SAVE_NICKTS = 1
    MaxTime = 1
    MaxOps = 4
    MaxUps = 3
    MaxDowns = 0
    Persons = {"l1", "l2", "r1"}
    Locals = {"l1", "l2"}
    Present = {"l1"}
    Nicknames = {"n1"}
    Chans = {"#a", "#b"}
    max_monitor = 1
    max_accept = 1
    max_chans = 1
    WhowasLength = 1
    WhowasSlack = 0
    MaxCommands = 3
INVARIANTS
    TypeOK
    NickUnique
    NicksAgree
    OneTree
    NoStalePointers
    MonitorTrue
PROPERTIES
    LossJustified
CHECK_DEADLOCK FALSE
