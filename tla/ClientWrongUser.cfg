SPECIFICATION Spec
CONSTANTS
    james = james
    mallory = mallory
    Users <- MCUsers
    Valid <- MCValid
    NoUser = NoUser
    MaxRequests = 4
INVARIANTS
    SessionUserIsAuthenticated
