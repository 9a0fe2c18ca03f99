SPECIFICATION PartsSpec
CONSTANTS
    NULL = NULL
    q1 = q1
    q2 = q2
    ip1 = ip1
    ip2 = ip2
    name1 = name1
    name2 = name2
    p1 = p1
    p2 = p2
    Queries = {q1, q2}
    Subject <- OneAddress
    Addrs = {ip1, ip2}
    Names = {name1, name2}
    Long = {name2}
    Unaskable = {}
    NIds = 3
    Retries = 2
    Clients = {"c1", "c2"}
    Ips = {"i1", "i2"}
    Ip <- Addresses
    Ident <- Unidented
    ClassNames = {"users", "servers"}
    Auths = {"a", "x"}
    ExemptLimits = {"x"}
    Cover <- TwoWidths
    Configs <- Files
    MaxLocal = 1
    MaxGlobal = 2
    MaxIdent = 2
    MaxRehash = 2
    Bans = {"k", "r"}
    Kind <- Kinds
    People = {"u"}
    Matching <- AllMatch
    KlineDelay = TRUE
    MaxPipe = 1
    MaxLists = 1
    MaxDeaths = 1
    Streams <- FourStreams
    BUF_DATA_SIZE = 4
    READBUF_SIZE = 4
    MAX_FLOOD = 1
    MAX_FLOOD_BURST = 2
    client_flood = 4
    PostDelay = TRUE
    Peers = {p1, p2}
    Lengths <- ShortLines
    MaxSendq = 2
    Takes = {0, 1, 9}
INVARIANTS
    OneRequest
    AnswersConfirmed
    ClassesHeld
    ListWhole
    BannedLeave
    LinesWhole
    QueuesWhole
PROPERTIES
    ResolverAnswers
    AdmittedUnderLimits
    BansComeBack
    LinesParsed
    QueuesMove
CHECK_DEADLOCK FALSE
