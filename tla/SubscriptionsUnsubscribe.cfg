CONSTANTS
    c1 = c1
    c2 = c2
    v1 = v1
    v2 = v2
    NoValue = NoValue
    Client <- MCClient
    Value <- MCValue
    MaxRequests = 3
SPECIFICATION FairSpec
PROPERTIES
    UnsubscribedIsQuiet
