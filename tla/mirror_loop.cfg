SPECIFICATION Spec
CONSTANTS
    h1 = h1
    h2 = h2
    MaxLinks = 5
    MaxSoc = 2
    Retries = 1
    HostOf <- MCHostOf
INVARIANTS TypeOK NothingForgotten AheadFetched
PROPERTIES FetchedOnce ImagesLast
