SPECIFICATION Spec
CONSTANTS
    c1 = c1
    c2 = c2
    Conns <- MCConns
    NoConn = NoConn
    UdpSd = 3
    ListenSd = 4
    MaxSd = 6
    MaxOwed = 2
INVARIANTS
    KeepsRunning
