--------------------------- MODULE TcpServer_proofs ---------------------------
(***************************************************************************)
(* For any number of connections and descriptors: the types of TcpServer,  *)
(* that select watches every open socket and max_sd covers it, and that    *)
(* get_endpoint finds the record of the connection now on a descriptor.    *)
(* The three are inductive in this order, each with those before it.       *)
(***************************************************************************)
EXTENDS TcpServer, TLAPS

PeerStates == {"absent", "asking"} \cup Held \cup Ended

(* The bounds the arithmetic below needs.                                  *)
LEMMA Descriptors ==
    /\ NoConn \notin Conns
    /\ UdpSd \in Nat /\ ListenSd \in Nat /\ MaxSd \in Nat
    /\ 0 < UdpSd /\ UdpSd < ListenSd /\ ListenSd < MaxSd
    /\ \A sd \in Sds : sd \in Nat /\ ListenSd < sd /\ sd <= MaxSd
BY TcpServerAssumption, SMT DEF TcpServerAssumption, Sds

(* tcp_server_send leaves the connections and the process in a known state *)
(* whatever record is the newest.                                          *)
LEMMA SendTyped ==
    ASSUME TypeOK, tcp_server_send
    PROVE  peer' \in [Conns -> PeerStates] /\ crashed' \in BOOLEAN
<1>1. CASE endpoints = <<>> \/ sock[endpoints[1].sd] = NoConn
    BY <1>1 DEF tcp_server_send, TypeOK, PeerStates
<1>2. CASE ~(endpoints = <<>> \/ sock[endpoints[1].sd] = NoConn)
    <2> DEFINE c == sock[endpoints[1].sd]
    <2>1. /\ peer' = [peer EXCEPT ![c] = IF @ \in Held THEN "served" ELSE "gone"]
          /\ crashed' = (peer[c] = "gone")
        BY <1>2 DEF tcp_server_send
    <2>2. crashed' \in BOOLEAN
        BY <2>1
    <2>3. peer' \in [Conns -> PeerStates]
        BY <2>1 DEF TypeOK, PeerStates, Held, Ended
    <2> QED BY <2>2, <2>3
<1> QED BY <1>1, <1>2

(* Advance keeps the loop within the descriptors, as long as max_sd is.    *)
LEMMA AdvanceTyped ==
    ASSUME cursor \in UdpSd .. MaxSd, max_sd' \in ListenSd .. MaxSd, Advance
    PROVE  cursor' \in {Waiting} \cup UdpSd .. MaxSd
BY Descriptors, SMT DEF Advance

(* A visited descriptor is one of the loop's.                              *)
LEMMA VisitedTyped ==
    ASSUME TypeOK, NEW sd, Visiting(sd)
    PROVE  cursor \in UdpSd .. MaxSd /\ sd = cursor /\ sd <= max_sd
BY DEF TypeOK, Visiting, Waiting

(* The record create_child_socket puts first keeps the list a list.        *)
LEMMA RecordTyped ==
    ASSUME TypeOK, NEW sd \in Sds, NEW c \in Conns, create_child_socket(sd, c)
    PROVE  /\ endpoints' \in Seq(Endpoint)
           /\ Len(endpoints') = Len(endpoints) + 1
           /\ endpoints'[1] = [sd |-> sd, conn |-> c]
           /\ \A i \in 1 .. Len(endpoints) : endpoints'[i + 1] = endpoints[i]
<1>1. <<[sd |-> sd, conn |-> c]>> \in Seq(Endpoint)
    BY DEF Endpoint
<1>2. endpoints \in Seq(Endpoint) /\ endpoints' = <<[sd |-> sd, conn |-> c]>> \o endpoints
    BY DEF TypeOK, create_child_socket
<1> QED BY <1>1, <1>2

(* Every handler of the loop and every step of a client keeps the types.   *)
LEMMA TypeStep ==
    ASSUME TypeOK, [Next]_vars
    PROVE  TypeOK'
<1> USE Descriptors
<1>1. CASE Select
    <2>1. readable' \subseteq {UdpSd, ListenSd} \cup Sds
        BY <1>1 DEF Select, Readable, TypeOK
    <2>2. cursor' \in {Waiting} \cup UdpSd .. MaxSd
        BY <1>1 DEF Select
    <2> QED BY <1>1, <2>1, <2>2 DEF Select, TypeOK, tableVars
<1>2. CASE Skip
    <2>1. max_sd' \in ListenSd .. MaxSd /\ cursor \in UdpSd .. MaxSd
        BY <1>2, VisitedTyped DEF Skip, TypeOK, tableVars
    <2>2. cursor' \in {Waiting} \cup UdpSd .. MaxSd
        BY <1>2, <2>1, AdvanceTyped DEF Skip
    <2> QED BY <1>2, <2>2 DEF Skip, TypeOK, tableVars
<1>3. CASE UdpReceive
    <2>1. max_sd' \in ListenSd .. MaxSd /\ cursor \in UdpSd .. MaxSd
        BY <1>3, VisitedTyped DEF UdpReceive, TypeOK, tableVars
    <2>2. cursor' \in {Waiting} \cup UdpSd .. MaxSd
        BY <1>3, <2>1, AdvanceTyped DEF UdpReceive
    <2>3. peer' \in [Conns -> PeerStates] /\ crashed' \in BOOLEAN /\ owed' \in Nat
        BY <1>3, SendTyped DEF UdpReceive, TypeOK, PeerStates
    <2> QED BY <1>3, <2>2, <2>3 DEF UdpReceive, TypeOK, tableVars, PeerStates
<1>4. CASE Accept
    <2>1. PICK c \in Conns, sd \in FreeSds :
              /\ sock' = [sock EXCEPT ![sd] = c]
              /\ peer' = [peer EXCEPT ![c] = "open"]
              /\ create_child_socket(sd, c)
        BY <1>4 DEF Accept
    <2>2. sd \in Sds
        BY DEF FreeSds
    <2>3. /\ max_sd' \in ListenSd .. MaxSd
          /\ fds' \subseteq {ListenSd} \cup Sds
        <3>1. /\ fds' = fds \cup {sd}
              /\ max_sd' = IF sd > max_sd THEN sd ELSE max_sd
            BY <2>1 DEF create_child_socket
        <3>2. max_sd \in ListenSd .. MaxSd /\ sd \in Nat /\ ListenSd < sd /\ sd <= MaxSd
            BY <2>2 DEF TypeOK
        <3>3. max_sd' \in ListenSd .. MaxSd
            BY <3>1, <3>2
        <3> QED BY <2>2, <3>1, <3>3 DEF TypeOK
    <2>4. endpoints' \in Seq(Endpoint)
        BY <2>1, <2>2, RecordTyped
    <2>5. cursor' \in {Waiting} \cup UdpSd .. MaxSd
        BY <1>4, <2>3, VisitedTyped, AdvanceTyped DEF Accept
    <2>6. sock' \in [Sds -> Conns \cup {NoConn}] /\ peer' \in [Conns -> PeerStates]
        BY <2>1, <2>2 DEF TypeOK, PeerStates, Held
    <2>7. UNCHANGED <<unread, owed, datagram, readable, crashed>>
        BY <1>4 DEF Accept
    <2> QED BY <2>3, <2>4, <2>5, <2>6, <2>7 DEF TypeOK, PeerStates
<1>5. ASSUME NEW sd \in Sds, tcp_server_receive(sd)
      PROVE  TypeOK'
    <2>1. cursor \in UdpSd .. MaxSd /\ sd <= max_sd
        BY <1>5, VisitedTyped DEF tcp_server_receive
    <2>2. /\ sock' \in [Sds -> Conns \cup {NoConn}]
          /\ peer' \in [Conns -> PeerStates]
          /\ unread' \subseteq Conns
          /\ owed' \in Nat
          /\ fds' \subseteq {ListenSd} \cup Sds
          /\ max_sd' \in ListenSd .. MaxSd
          /\ endpoints' \in Seq(Endpoint)
          /\ crashed' \in BOOLEAN
        <3>1. CASE ReceiveData(sd)
            BY <3>1, SendTyped DEF ReceiveData, TypeOK, tableVars, PeerStates
        <3>2. CASE ReceiveEof(sd)
            <4>1. /\ sock' = [sock EXCEPT ![sd] = NoConn]
                  /\ fds' = fds \ {sd}
                  /\ max_sd' = IF sd = max_sd THEN max_sd - 1 ELSE max_sd
                  /\ UNCHANGED <<endpoints, peer, unread, owed, crashed>>
                BY <3>2 DEF ReceiveEof, close_child_socket
            <4>2. max_sd \in ListenSd .. MaxSd /\ sd \in Nat /\ ListenSd < sd
                BY DEF TypeOK
            <4>3. max_sd' \in ListenSd .. MaxSd
                BY <4>1, <4>2
            <4>4. sock' \in [Sds -> Conns \cup {NoConn}]
                BY <4>1 DEF TypeOK
            <4> QED BY <4>1, <4>3, <4>4 DEF TypeOK, PeerStates
        <3>3. CASE ReceiveError(sd)
            BY <3>3 DEF ReceiveError, TypeOK, tableVars, PeerStates
        <3> QED BY <1>5, <3>1, <3>2, <3>3 DEF tcp_server_receive
    <2>3. cursor' \in {Waiting} \cup UdpSd .. MaxSd
        BY <1>5, <2>1, <2>2, AdvanceTyped DEF tcp_server_receive
    <2> QED BY <1>5, <2>2, <2>3 DEF tcp_server_receive, TypeOK, PeerStates
<1>6. CASE ThreadSends
    <2>1. peer' \in [Conns -> PeerStates] /\ crashed' \in BOOLEAN /\ owed' \in Nat
        BY <1>6, SendTyped DEF ThreadSends, TypeOK
    <2> QED BY <1>6, <2>1 DEF ThreadSends, TypeOK, tableVars, loopVars, PeerStates
<1>7. CASE DatagramArrives
    BY <1>7 DEF DatagramArrives, TypeOK, tableVars, loopVars
<1>8. ASSUME NEW c \in Conns, PeerConnects(c) \/ PeerSends(c) \/ PeerReads(c) \/ PeerEnds(c)
      PROVE  TypeOK'
    <2>1. peer' \in [Conns -> PeerStates] /\ unread' \subseteq Conns
        BY <1>8 DEF PeerConnects, PeerSends, PeerReads, PeerEnds, TypeOK, PeerStates, Held, Ended
    <2> QED BY <1>8, <2>1 DEF PeerConnects, PeerSends, PeerReads, PeerEnds, TypeOK, PeerStates,
                              tableVars, loopVars
<1>9. CASE Idle \/ UNCHANGED vars
    BY <1>9 DEF Idle, vars, TypeOK
<1> QED
    BY <1>1, <1>2, <1>3, <1>4, <1>5, <1>6, <1>7, <1>8, <1>9 DEF Next, Tick

(* The initial state has the types.                                        *)
LEMMA TypeInit ==
    ASSUME Init
    PROVE  TypeOK
<1>1. endpoints \in Seq(Endpoint)
    BY DEF Init
<1>2. max_sd \in ListenSd .. MaxSd
    BY Descriptors DEF Init
<1>3. sock \in [Sds -> Conns \cup {NoConn}] /\ peer \in [Conns -> PeerStates]
    BY DEF Init, PeerStates
<1> QED BY <1>1, <1>2, <1>3 DEF Init, TypeOK, PeerStates

(* The types of TcpServer hold in every state of every behaviour.          *)
THEOREM TypeCorrect == Spec => []TypeOK
BY TypeInit, TypeStep, PTL DEF Spec

-----------------------------------------------------------------------------
\* The part of the state the two invariants below speak of.
TableInv == OpenSocketsAreWatched /\ EndpointIsPeer

(* A step that leaves the table of descriptors alone keeps the invariants. *)
LEMMA TableUnchanged ==
    ASSUME TableInv, UNCHANGED tableVars
    PROVE  TableInv'
BY DEF TableInv, tableVars, OpenSocketsAreWatched, EndpointIsPeer, FirstRecord

(* A connection put on a free descriptor is watched, below max_sd, and     *)
(* recorded before any older record of that descriptor.                    *)
LEMMA AcceptKeepsTable ==
    ASSUME TypeOK, TableInv, NEW c \in Conns, NEW new \in FreeSds,
           sock' = [sock EXCEPT ![new] = c], create_child_socket(new, c)
    PROVE  TableInv'
<1> USE Descriptors
<1>1. new \in Sds /\ new \in Nat /\ sock[new] = NoConn
    BY DEF FreeSds
<1>2. /\ fds' = fds \cup {new}
      /\ max_sd' = IF new > max_sd THEN new ELSE max_sd
    BY DEF create_child_socket
<1>3. OpenSocketsAreWatched'
    <2>1. {sd \in Sds : sock'[sd] # NoConn} = {sd \in Sds : sock[sd] # NoConn} \cup {new}
        BY <1>1 DEF TypeOK
    <2>2. fds' = {ListenSd} \cup {sd \in Sds : sock'[sd] # NoConn}
        BY <1>2, <2>1 DEF TableInv, OpenSocketsAreWatched
    <2>3. max_sd \in Nat /\ fds \subseteq Nat
        BY DEF TypeOK
    <2>4. \A sd \in fds' : sd <= max_sd'
        BY <1>1, <1>2, <2>3 DEF TableInv, OpenSocketsAreWatched
    <2> QED BY <2>2, <2>4 DEF OpenSocketsAreWatched
<1>4. EndpointIsPeer'
    <2> SUFFICES ASSUME NEW sd \in Sds, sock'[sd] # NoConn
                 PROVE  FirstRecord(sd, sock[sd])'
        BY DEF EndpointIsPeer
    <2>1. /\ endpoints' \in Seq(Endpoint)
          /\ Len(endpoints) \in Nat
          /\ Len(endpoints') = Len(endpoints) + 1
          /\ endpoints'[1] = [sd |-> new, conn |-> c]
          /\ \A i \in 1 .. Len(endpoints) : endpoints'[i + 1] = endpoints[i]
        BY <1>1, RecordTyped DEF TypeOK
    <2>2. CASE sd = new
        <3>1. sock'[sd] = c
            BY <1>1, <2>2 DEF TypeOK
        <3>2. 1 \in 1 .. Len(endpoints')
            BY <2>1
        <3> QED BY <2>1, <2>2, <3>1, <3>2 DEF FirstRecord
    <2>3. CASE sd # new
        <3>1. sock'[sd] = sock[sd]
            BY <2>3 DEF TypeOK
        <3>2. PICK i \in 1 .. Len(endpoints) :
                  /\ endpoints[i] = [sd |-> sd, conn |-> sock[sd]]
                  /\ \A j \in 1 .. i - 1 : endpoints[j].sd # sd
            BY <3>1 DEF TableInv, EndpointIsPeer, FirstRecord
        <3>3. i + 1 \in 1 .. Len(endpoints') /\ endpoints'[i + 1] = [sd |-> sd, conn |-> sock'[sd]]
            BY <2>1, <3>1, <3>2
        <3>4. ASSUME NEW j \in 1 .. (i + 1) - 1
              PROVE  endpoints'[j].sd # sd
            <4>1. CASE j = 1
                BY <2>1, <2>3, <4>1
            <4>2. CASE j # 1
                <5>1. j - 1 \in 1 .. i - 1 /\ j - 1 \in 1 .. Len(endpoints)
                    BY <2>1, <3>2, <4>2
                <5>2. endpoints'[(j - 1) + 1] = endpoints[j - 1]
                    BY <2>1, <5>1
                <5>3. endpoints'[j] = endpoints[j - 1]
                    BY <5>2
                <5> QED BY <3>2, <5>1, <5>3
            <4> QED BY <4>1, <4>2
        <3> QED BY <3>3, <3>4 DEF FirstRecord
    <2> QED BY <2>2, <2>3
<1> QED BY <1>3, <1>4 DEF TableInv

(* A child that closes is forgotten by select, and max_sd, which falls by  *)
(* one when the highest closes, still covers the others.                   *)
LEMMA CloseKeepsTable ==
    ASSUME TypeOK, TableInv, NEW old \in Sds, close_child_socket(old), UNCHANGED endpoints
    PROVE  TableInv'
<1> USE Descriptors
<1>1. /\ sock' = [sock EXCEPT ![old] = NoConn]
      /\ fds' = fds \ {old}
      /\ max_sd' = IF old = max_sd THEN max_sd - 1 ELSE max_sd
    BY DEF close_child_socket
<1>2. OpenSocketsAreWatched'
    <2>1. {sd \in Sds : sock'[sd] # NoConn} = {sd \in Sds : sock[sd] # NoConn} \ {old}
        BY <1>1 DEF TypeOK
    <2>2. fds' = {ListenSd} \cup {sd \in Sds : sock'[sd] # NoConn}
        BY <1>1, <2>1 DEF TableInv, OpenSocketsAreWatched
    <2>3. max_sd \in Nat /\ fds \subseteq Nat
        BY DEF TypeOK
    <2>4. \A sd \in fds' : sd <= max_sd'
        BY <1>1, <2>3 DEF TableInv, OpenSocketsAreWatched
    <2> QED BY <2>2, <2>4 DEF OpenSocketsAreWatched
<1>3. \A sd \in Sds : sock'[sd] # NoConn => sock'[sd] = sock[sd]
    BY <1>1 DEF TypeOK
<1>4. EndpointIsPeer'
    BY <1>3 DEF TableInv, EndpointIsPeer, FirstRecord
<1> QED BY <1>2, <1>4 DEF TableInv

(* Only a connection that is accepted or closed touches the table.         *)
LEMMA TableStep ==
    ASSUME TypeOK, TableInv, [Next]_vars
    PROVE  TableInv'
<1>1. CASE Accept
    BY <1>1, AcceptKeepsTable DEF Accept
<1>2. ASSUME NEW sd \in Sds, tcp_server_receive(sd)
      PROVE  TableInv'
    <2>1. CASE ReceiveEof(sd)
        BY <2>1, CloseKeepsTable DEF ReceiveEof
    <2>2. CASE ReceiveData(sd) \/ ReceiveError(sd)
        BY <2>2, TableUnchanged DEF ReceiveData, ReceiveError
    <2> QED BY <1>2, <2>1, <2>2 DEF tcp_server_receive
<1>3. CASE Select \/ Skip \/ UdpReceive
    BY <1>3, TableUnchanged DEF Select, Skip, UdpReceive
<1>4. CASE ThreadSends \/ DatagramArrives \/ Idle \/ UNCHANGED vars
    BY <1>4, TableUnchanged DEF ThreadSends, DatagramArrives, Idle, vars, tableVars
<1>5. ASSUME NEW c \in Conns, PeerConnects(c) \/ PeerSends(c) \/ PeerReads(c) \/ PeerEnds(c)
      PROVE  TableInv'
    BY <1>5, TableUnchanged DEF PeerConnects, PeerSends, PeerReads, PeerEnds
<1> QED BY <1>1, <1>2, <1>3, <1>4, <1>5 DEF Next, Tick

(* The table is right before the first connection.                         *)
LEMMA TableHolds == Spec => []TableInv
<1>1. Init => TableInv
    BY Descriptors DEF Init, TableInv, OpenSocketsAreWatched, EndpointIsPeer
<1>2. TypeOK /\ TableInv /\ [Next]_vars => TableInv'
    BY TableStep
<1> QED BY <1>1, <1>2, TypeCorrect, PTL DEF Spec

(* However connections come and go, select watches exactly the open        *)
(* sockets and max_sd is never below one of them.                          *)
THEOREM WatchesOpenSockets == Spec => []OpenSocketsAreWatched
<1>1. TableInv => OpenSocketsAreWatched
    BY DEF TableInv
<1> QED BY <1>1, TableHolds, PTL

(* However often a descriptor number is used again, get_endpoint returns   *)
(* the record of the connection that has it now.                           *)
THEOREM FindsThePeer == Spec => []EndpointIsPeer
<1>1. TableInv => EndpointIsPeer
    BY DEF TableInv
<1> QED BY <1>1, TableHolds, PTL

-----------------------------------------------------------------------------
\* A connection is on one descriptor, and on it only once it was accepted.
Placed ==
    /\ \A sd \in Sds : sock[sd] # NoConn => peer[sock[sd]] \notin {"absent", "asking"}
    /\ \A sd, other \in Sds : sock[sd] # NoConn /\ sock[sd] = sock[other] => sd = other

\* No step takes back that a connection was accepted, or that it ended.
PeersKept ==
    \A c \in Conns :
        /\ peer[c] \notin {"absent", "asking"} => peer'[c] \notin {"absent", "asking"}
        /\ peer[c] \in Ended => peer'[c] \in Ended

LEMMA SendKeepsPeers ==
    ASSUME TypeOK, Placed, tcp_server_send
    PROVE  PeersKept
<1>1. CASE endpoints = <<>> \/ sock[endpoints[1].sd] = NoConn
    BY <1>1 DEF tcp_server_send, PeersKept
<1>2. CASE ~(endpoints = <<>> \/ sock[endpoints[1].sd] = NoConn)
    <2>1. endpoints[1] \in Endpoint
        BY <1>2 DEF TypeOK
    <2>2. PICK sd \in Sds : sd = endpoints[1].sd
        BY <2>1 DEF Endpoint
    <2>3. PICK c \in Conns : c = sock[sd]
        BY <1>2, <2>2 DEF TypeOK
    <2>4. peer' = [peer EXCEPT ![c] = IF @ \in Held THEN "served" ELSE "gone"]
        BY <1>2, <2>2, <2>3 DEF tcp_server_send
    <2> QED BY <2>4 DEF PeersKept, TypeOK, Ended, Held
<1> QED BY <1>1, <1>2

LEMMA EveryStepKeepsPeers ==
    ASSUME TypeOK, Placed, [Next]_vars
    PROVE  PeersKept
<1>1. CASE UNCHANGED peer
    BY <1>1 DEF PeersKept
<1>2. CASE UdpReceive \/ ThreadSends
    BY <1>1, <1>2, SendKeepsPeers DEF UdpReceive, ThreadSends
<1>3. CASE Accept
    <2>1. PICK c \in Conns : peer[c] = "asking" /\ peer' = [peer EXCEPT ![c] = "open"]
        BY <1>3 DEF Accept
    <2> QED BY <2>1 DEF PeersKept, TypeOK, Ended
<1>4. ASSUME NEW sd \in Sds, tcp_server_receive(sd)
      PROVE  PeersKept
    BY <1>1, <1>4, SendKeepsPeers DEF tcp_server_receive, ReceiveData, ReceiveEof, ReceiveError
<1>5. ASSUME NEW c \in Conns, PeerConnects(c) \/ PeerReads(c) \/ PeerEnds(c)
      PROVE  PeersKept
    BY <1>5 DEF PeerConnects, PeerReads, PeerEnds, PeersKept, TypeOK, Ended, Held
<1>6. CASE Select \/ Skip \/ Idle \/ DatagramArrives \/ UNCHANGED vars
    BY <1>1, <1>6 DEF Select, Skip, Idle, DatagramArrives, vars
<1>7. ASSUME NEW c \in Conns, PeerSends(c)
      PROVE  PeersKept
    BY <1>1, <1>7 DEF PeerSends
<1> QED BY <1>2, <1>3, <1>4, <1>5, <1>6, <1>7 DEF Next, Tick

\* How a step changes the sockets: one is accepted, one is closed, or none.
LEMMA SocketSteps ==
    ASSUME [Next]_vars
    PROVE  \/ UNCHANGED sock
           \/ Accept
           \/ \E sd \in Sds : tcp_server_receive(sd) /\ close_child_socket(sd)
<1>1. ASSUME NEW sd \in Sds, tcp_server_receive(sd)
      PROVE  UNCHANGED sock \/ close_child_socket(sd)
    BY <1>1 DEF tcp_server_receive, ReceiveData, ReceiveEof, ReceiveError, tableVars
<1>2. CASE Select \/ Skip \/ UdpReceive \/ Idle \/ ThreadSends \/ DatagramArrives \/ UNCHANGED vars
    BY <1>2 DEF Select, Skip, UdpReceive, Idle, ThreadSends, DatagramArrives, vars, tableVars
<1>3. ASSUME NEW c \in Conns, PeerConnects(c) \/ PeerSends(c) \/ PeerReads(c) \/ PeerEnds(c)
      PROVE  UNCHANGED sock
    BY <1>3 DEF PeerConnects, PeerSends, PeerReads, PeerEnds, tableVars
<1> QED BY <1>1, <1>2, <1>3 DEF Next, Tick

(* The connection accepted was asking, so it is on no other descriptor.    *)
LEMMA PlacedStep ==
    ASSUME TypeOK, Placed, [Next]_vars
    PROVE  Placed'
<1>1. PeersKept
    BY EveryStepKeepsPeers
<1>2. CASE UNCHANGED sock
    BY <1>1, <1>2, Descriptors DEF Placed, PeersKept, TypeOK
<1>3. CASE Accept
    <2>1. PICK c \in Conns, new \in FreeSds :
              /\ peer[c] = "asking" /\ peer' = [peer EXCEPT ![c] = "open"]
              /\ sock' = [sock EXCEPT ![new] = c]
        BY <1>3 DEF Accept
    <2>2. new \in Sds /\ \A sd \in Sds : sock'[sd] = IF sd = new THEN c ELSE sock[sd]
        BY <2>1 DEF FreeSds, TypeOK
    <2>3. \A sd \in Sds : sock[sd] # c
        BY <2>1, Descriptors DEF Placed
    <2>4. peer'[c] = "open"
        BY <2>1 DEF TypeOK
    <2> QED BY <1>1, <2>2, <2>3, <2>4, Descriptors DEF Placed, PeersKept, TypeOK
<1>4. ASSUME NEW old \in Sds, close_child_socket(old)
      PROVE  Placed'
    <2>1. \A sd \in Sds : sock'[sd] # NoConn => sock'[sd] = sock[sd]
        BY <1>4 DEF close_child_socket, TypeOK
    <2> QED BY <1>1, <2>1, Descriptors DEF Placed, PeersKept, TypeOK
<1> QED BY <1>2, <1>3, <1>4, SocketSteps

\* The part of SnapshotIsFresh that the table does not give.
Fresh ==
    cursor # Waiting /\ ~crashed =>
        \A sd \in readable \cap Sds : sd >= cursor =>
            sock[sd] # NoConn /\ (sock[sd] \in unread \/ peer[sock[sd]] \in Ended)

(* A step that leaves the snapshot, the sockets and what is unread alone.  *)
LEMMA FreshKept ==
    ASSUME TypeOK, Fresh, PeersKept, UNCHANGED <<readable, sock>>,
           unread \subseteq unread', crashed => crashed',
           cursor' = cursor \/ cursor' = Waiting \/ (cursor # Waiting /\ cursor' = cursor + 1)
    PROVE  Fresh'
<1> SUFFICES ASSUME cursor' # Waiting, ~crashed', NEW sd \in readable \cap Sds, sd >= cursor'
             PROVE  sock[sd] # NoConn /\ (sock[sd] \in unread' \/ peer'[sock[sd]] \in Ended)
    BY DEF Fresh
<1>1. cursor # Waiting /\ ~crashed
    OBVIOUS
<1>2. sd >= cursor
    BY <1>1, Descriptors DEF TypeOK, Waiting
<1>3. sock[sd] \in Conns /\ (sock[sd] \in unread \/ peer[sock[sd]] \in Ended)
    BY <1>1, <1>2 DEF Fresh, TypeOK
<1> QED BY <1>3, Descriptors DEF PeersKept

(* The descriptors still to visit are above the one whose handler runs: it *)
(* reads from or closes that one, whose connection no other descriptor has,*)
(* and accepts only on a free one, which is not in what is left to visit.  *)
LEMMA FreshStep ==
    ASSUME TypeOK, Placed, OpenSocketsAreWatched, Fresh, [Next]_vars
    PROVE  Fresh'
<1> USE Descriptors
<1>1. PeersKept
    BY EveryStepKeepsPeers
<1>2. CASE Select
    <2>1. /\ readable' = Readable /\ UNCHANGED <<sock, unread, peer>>
        BY <1>2 DEF Select, tableVars
    <2>2. \A sd \in Readable \cap Sds :
              sock[sd] # NoConn /\ (sock[sd] \in unread \/ peer[sock[sd]] \in Ended)
        BY DEF Readable
    <2> QED BY <2>1, <2>2 DEF Fresh
<1>3. CASE Skip \/ UdpReceive
    <2>1. cursor # Waiting /\ (cursor' = cursor + 1 \/ cursor' = Waiting)
        BY <1>3 DEF Skip, UdpReceive, Visiting, Advance
    <2>2. UNCHANGED <<readable, sock, unread>> /\ ~crashed
        BY <1>3 DEF Skip, UdpReceive, Visiting, tableVars
    <2> QED BY <1>1, <2>1, <2>2, FreshKept
<1>4. CASE Accept
    <2>1. cursor # Waiting /\ (cursor' = cursor + 1 \/ cursor' = Waiting)
        BY <1>4 DEF Accept, Visiting, Advance
    <2>2. UNCHANGED <<readable, unread, crashed>> /\ ~crashed
        BY <1>4 DEF Accept, Visiting
    <2>3. PICK c \in Conns, new \in FreeSds : sock' = [sock EXCEPT ![new] = c]
        BY <1>4 DEF Accept
    <2> SUFFICES ASSUME cursor' # Waiting, NEW sd \in readable \cap Sds, sd >= cursor'
                 PROVE  sock'[sd] # NoConn /\ (sock'[sd] \in unread \/ peer'[sock'[sd]] \in Ended)
        BY <2>2 DEF Fresh
    <2>4. sd >= cursor
        BY <2>1 DEF TypeOK, Waiting
    <2>5. sock[sd] # NoConn /\ (sock[sd] \in unread \/ peer[sock[sd]] \in Ended)
        BY <2>1, <2>2, <2>4 DEF Fresh
    <2>6. sd # new /\ sock'[sd] = sock[sd] /\ sock[sd] \in Conns
        BY <2>3, <2>5 DEF FreeSds, TypeOK
    <2> QED BY <1>1, <2>5, <2>6 DEF PeersKept
<1>5. ASSUME NEW visited \in Sds, tcp_server_receive(visited)
      PROVE  Fresh'
    <2>1. /\ cursor = visited /\ cursor # Waiting /\ ~crashed
          /\ cursor' = cursor + 1 \/ cursor' = Waiting
          /\ visited \in readable /\ UNCHANGED readable
        BY <1>5 DEF tcp_server_receive, Visiting, Advance
    <2> SUFFICES ASSUME ~crashed', cursor' # Waiting, NEW sd \in readable \cap Sds, sd >= cursor'
                 PROVE  sock'[sd] # NoConn /\ (sock'[sd] \in unread' \/ peer'[sock'[sd]] \in Ended)
        BY <2>1 DEF Fresh
    <2>2. sd > visited /\ sd >= cursor
        BY <2>1 DEF TypeOK, Waiting
    <2>3. sock[sd] # NoConn /\ (sock[sd] \in unread \/ peer[sock[sd]] \in Ended)
        BY <2>1, <2>2 DEF Fresh
    <2>4. sd # visited /\ sock[sd] \in Conns /\ sock[sd] # sock[visited]
        BY <2>2, <2>3 DEF Placed, TypeOK
    <2>5. CASE ReceiveData(visited)
        <3>1. sock' = sock /\ unread' = unread \ {sock[visited]}
            BY <2>5 DEF ReceiveData, tableVars
        <3> QED BY <1>1, <2>3, <2>4, <3>1 DEF PeersKept
    <2>6. CASE ReceiveEof(visited)
        <3>1. sock' = [sock EXCEPT ![visited] = NoConn] /\ UNCHANGED <<unread, peer>>
            BY <2>6 DEF ReceiveEof, close_child_socket
        <3>2. sock'[sd] = sock[sd]
            BY <2>4, <3>1 DEF TypeOK
        <3> QED BY <2>3, <3>1, <3>2
    <2>7. CASE ReceiveError(visited)
        BY <2>7 DEF ReceiveError
    <2> QED BY <1>5, <2>5, <2>6, <2>7 DEF tcp_server_receive
<1>6. CASE ThreadSends \/ DatagramArrives \/ Idle \/ UNCHANGED vars
    <2>1. UNCHANGED <<readable, sock, unread, cursor>> /\ (crashed => crashed')
        BY <1>6 DEF ThreadSends, DatagramArrives, Idle, vars, tableVars, loopVars
    <2> QED BY <1>1, <2>1, FreshKept
<1>7. ASSUME NEW c \in Conns, PeerConnects(c) \/ PeerSends(c) \/ PeerReads(c) \/ PeerEnds(c)
      PROVE  Fresh'
    <2>1. UNCHANGED <<readable, sock, cursor, crashed>> /\ unread \subseteq unread'
        BY <1>7 DEF PeerConnects, PeerSends, PeerReads, PeerEnds, tableVars, loopVars
    <2> QED BY <1>1, <2>1, FreshKept
<1> QED BY <1>2, <1>3, <1>4, <1>5, <1>6, <1>7 DEF Next, Tick

(* For any number of connections that come, ask and go in any order, every *)
(* descriptor the loop still has to visit in a tick has the socket that    *)
(* select saw on it, with something to read (serverM.c:293-303).           *)
THEOREM VisitsWhatSelectSaw == Spec => []SnapshotIsFresh
<1>1. Init => Placed /\ Fresh
    BY Descriptors DEF Init, Placed, Fresh
<1>2. TypeOK /\ Placed /\ [Next]_vars => Placed'
    BY PlacedStep
<1>3. TypeOK /\ Placed /\ OpenSocketsAreWatched /\ Fresh /\ [Next]_vars => Fresh'
    BY FreshStep
<1>4. OpenSocketsAreWatched /\ Fresh => SnapshotIsFresh
    <2> SUFFICES ASSUME OpenSocketsAreWatched, Fresh, cursor # Waiting, ~crashed,
                        NEW sd \in readable \cap Sds, sd >= cursor
                 PROVE  /\ sd <= max_sd
                        /\ sock[sd] # NoConn
                        /\ sock[sd] \in unread \/ peer[sock[sd]] \in Ended
        BY DEF SnapshotIsFresh
    <2> QED BY DEF Fresh, OpenSocketsAreWatched
<1> QED BY <1>1, <1>2, <1>3, <1>4, TypeCorrect, WatchesOpenSockets, PTL DEF Spec
=============================================================================
