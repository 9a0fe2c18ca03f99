SPECIFICATION FairSpec
CONSTANTS
    NULL = NULL
    ssl = ssl
    plain = plain
    Ports = {ssl, plain}
    SSLPorts = {ssl}
    NClients = 1
    NCtls = 2
    Zips = {1}
    SsldCount = 1
    MaxSpin = 1
    MaxRehashes = 1
PROPERTIES
    DeadFreed
    HelperReleases
CHECK_DEADLOCK FALSE
