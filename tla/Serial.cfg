SPECIFICATION SerialSpec
CONSTANTS
    Codes <- MCCodes
    Catalog <- MCCatalog
    DeptOf <- MCDeptOf
    NoDept = NoDept
    Words <- MCWords
    Encrypt <- MCEncrypt
    Account <- TwoAccounts
    Clients = {c1, c2}
    Threads = {t1, t2}
    NoClient = NoClient
    NoThread = NoThread
    NoName = NoName
    Clobbered = Clobbered
    GarbageReads <- Garbage
    NameLen <- SameLength
    Logins <- AllLogins
    Queries <- SomeQueries
    NoQuery = NoQuery
    MaxStream = 2
    MaxBacklog = 1
INVARIANTS
    SessionsTypeOK
    AnswersTheQuery
    HandOff
    ListIsLive
    ListFollowsQuery
    LogNamesTheUser
    OnePieceOfWork
PROPERTIES
    EveryAnswerArrives
    EveryThreadEnds
    ImplementsService
