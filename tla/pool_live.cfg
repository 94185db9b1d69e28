SPECIFICATION FairSpec
CONSTANTS
    a = a
    b = b
    c = c
    h1 = h1
    h2 = h2
    Links = {a,b}
    NoLink = NoLink
    NoHost = NoHost
    HostOf <- MCHost1
    FtpLinks = {}
    SecureLinks = {}
    UntypedLinks = {a}
    DiskLinks = {b}
    KnownLinks = {}
    BackMax = 1
    MaxSoc = 1
    OneMore = 0
    FillReserve = 0
    MinFree = 0
    Retries = 1
    HostControl = FALSE
    UserStops = TRUE
    DiskMayFail = TRUE
INVARIANTS OneEntry
PROPERTIES EveryLinkSettles
