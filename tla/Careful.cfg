SPECIFICATION CarefulSpec
CONSTANTS
    Codes <- MCCodes
    Catalog <- MCCatalog
    DeptOf <- MCDeptOf
    NoDept = NoDept
    Words <- MCWords
    Encrypt <- MCEncrypt
    Account <- MCAccount
    Clients = {c1}
    Threads = {t1, t2}
    NoClient = NoClient
    NoThread = NoThread
    NoName = NoName
    Clobbered = Clobbered
    GarbageReads <- Garbage
    NameLen <- SameLength
    Logins <- OneLogin
    Queries <- KnownQueries
    NoQuery = NoQuery
    MaxStream = 2
    MaxBacklog = 1
INVARIANTS
    HandOff
    ListIsLive
    ListFollowsQuery
PROPERTIES
    EveryThreadEnds
