SPECIFICATION Spec
CONSTANTS
    NULL = NULL
    ssl = ssl
    plain = plain
    Ports = {ssl}
    SSLPorts = {ssl}
    NClients = 2
    NCtls = 2
    Zips = {}
    SsldCount = 1
    MaxSpin = 1
    MaxRehashes = 1
INVARIANTS
    CountsRight
    NothingFreedInUse
    OneHolder
CHECK_DEADLOCK FALSE
