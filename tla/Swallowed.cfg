SPECIFICATION OutagesSpec
CONSTANTS
    Codes <- MCCodes
    Catalog <- MCCatalog
    DeptOf <- MCDeptOf
    NoDept = NoDept
    Words <- MCWords
    Encrypt <- MCEncrypt
    Account <- MCAccount
    Clients = {c1}
    Threads = {t1, t2}
    NoClient = NoClient
    NoThread = NoThread
    NoName = NoName
    Clobbered = Clobbered
    GarbageReads <- Garbage
    NameLen <- SameLength
    Logins <- MCLogins
    Queries <- MCQueries
    NoQuery = NoQuery
    MaxStream = 1
    MaxBacklog = 2
    NoArgs = NoArgs
    WithFile = WithFile
PROPERTIES
    ServedOnceAllRun
