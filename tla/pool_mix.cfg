SPECIFICATION Spec
CONSTANTS
    a = a
    b = b
    c = c
    h1 = h1
    h2 = h2
    Links = {a, b, c}
    NoLink = NoLink
    NoHost = NoHost
    HostOf <- MCHost2
    FtpLinks = {c}
    SecureLinks = {b}
    UntypedLinks = {}
    DiskLinks = {b}
    KnownLinks = {a}
    BackMax = 3
    MaxSoc = 1
    OneMore = 0
    FillReserve = 1
    MinFree = 0
    Retries = 0
    HostControl = TRUE
    UserStops = TRUE
    DiskMayFail = FALSE
INVARIANTS SocketOwnership LimitsKept FtpOwnsSlot AnswerCached SkippedMeansDone
 
