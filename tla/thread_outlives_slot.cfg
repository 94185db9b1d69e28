SPECIFICATION Spec
CONSTANTS
    a = a
    b = b
    c = c
    h1 = h1
    h2 = h2
    Links = {a,b}
    NoLink = NoLink
    NoHost = NoHost
    HostOf <- MCHost1
    FtpLinks = {a}
    SecureLinks = {}
    UntypedLinks = {}
    DiskLinks = {b}
    KnownLinks = {}
    BackMax = 3
    MaxSoc = 1
    OneMore = 0
    FillReserve = 1
    MinFree = 0
    Retries = 1
    HostControl = TRUE
    UserStops = FALSE
    DiskMayFail = FALSE
INVARIANTS FtpOwnsSlot
