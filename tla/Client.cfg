SPECIFICATION Spec
CONSTANTS
    james = james
    mallory = mallory
    Users <- MCUsers
    Valid <- MCValid
    NoUser = NoUser
    MaxRequests = 6
INVARIANTS
    TypeOK
    ReplyMatchesWait
    NoSessionWithoutSuccess
    NoEarlyShutdown
    TimelySessionIsAuthenticated
    ShutdownOnlyOnThreeFailures
PROPERTIES
    ValidLoginOpensSession
