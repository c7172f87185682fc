------------------------------ MODULE TcpServer ------------------------------
(***************************************************************************)
(* The descriptors of serverM: the TCP server half of networking.c driven  *)
(* by the select loop of serverM.c (tick).  select fills a snapshot of the *)
(* readable descriptors; the loop visits them in ascending order up to     *)
(* max_sd, which the handlers it calls move.  The records of connections   *)
(* in tcp->endpoints are never removed, and the kernel gives the lowest    *)
(* free descriptor to the next connection, so one descriptor may have      *)
(* several records.                                                        *)
(***************************************************************************)
EXTENDS Integers, Sequences, FiniteSets

CONSTANTS
    Conns,      \* connections, each made once
    NoConn,
    UdpSd,      \* the descriptor of the UDP socket, opened first
    ListenSd,   \* the listening descriptor
    MaxSd,      \* the highest descriptor the process may get (bound)
    MaxOwed     \* requests under way together (bound)

Sds == ListenSd + 1 .. MaxSd

ASSUME TcpServerAssumption ==
    /\ NoConn \notin Conns
    /\ UdpSd \in Nat /\ ListenSd \in Nat /\ MaxSd \in Nat
    /\ 0 < UdpSd /\ UdpSd < ListenSd /\ ListenSd < MaxSd
    /\ MaxOwed \in Nat

VARIABLES
    sock,       \* sock[sd]: the connection the kernel has on descriptor sd
    peer,       \* peer[c]: what the client has done with the connection
    unread,     \* the connections with data to read
    owed,       \* requests read and not answered by a backend or a thread
    datagram,   \* a datagram waits on the UDP socket
    fds,        \* server_fd_set, without the UDP socket
    max_sd,
    endpoints,  \* the linked list, the newest record first
    readable,   \* the snapshot of the running tick
    cursor,     \* the descriptor the loop visits next, or Waiting
    crashed

\* A client holds its connection open, with all replies read or some unread.
Held == {"open", "served"}

\* How a connection looks once its client has ended: closed in order, closed
\* with replies unread, and either of them after serverM has written to it.
Ended == {"closed", "reset", "gone"}

vars == <<sock, peer, unread, owed, datagram, fds, max_sd, endpoints, readable, cursor, crashed>>

Waiting == 0

Endpoint == [sd : Sds, conn : Conns]

TypeOK ==
    /\ sock \in [Sds -> Conns \cup {NoConn}]
    /\ peer \in [Conns -> {"absent", "asking"} \cup Held \cup Ended]
    /\ unread \subseteq Conns
    /\ owed \in Nat
    /\ datagram \in BOOLEAN
    /\ fds \subseteq {ListenSd} \cup Sds
    /\ max_sd \in ListenSd .. MaxSd
    /\ endpoints \in Seq(Endpoint)
    /\ readable \subseteq {UdpSd, ListenSd} \cup Sds
    /\ cursor \in {Waiting} \cup UdpSd .. MaxSd
    /\ crashed \in BOOLEAN

Init ==
    /\ sock = [sd \in Sds |-> NoConn]
    /\ peer = [c \in Conns |-> "absent"]
    /\ unread = {}
    /\ owed = 0
    /\ datagram = FALSE
    /\ fds = {ListenSd}
    /\ max_sd = ListenSd
    /\ endpoints = <<>>
    /\ readable = {}
    /\ cursor = Waiting
    /\ crashed = FALSE

tableVars == <<sock, fds, max_sd, endpoints>>
loopVars  == <<readable, cursor>>

-----------------------------------------------------------------------------
(* The clients, through the kernel.                                        *)

PeerConnects(c) ==
    /\ peer[c] = "absent"
    /\ peer' = [peer EXCEPT ![c] = "asking"]
    /\ UNCHANGED <<tableVars, unread, owed, datagram, loopVars, crashed>>

PeerSends(c) ==
    /\ peer[c] \in Held /\ c \notin unread
    /\ Cardinality(unread) + owed < MaxOwed
    /\ unread' = unread \cup {c}
    /\ UNCHANGED <<tableVars, peer, owed, datagram, loopVars, crashed>>

PeerReads(c) ==
    /\ peer[c] = "served"
    /\ peer' = [peer EXCEPT ![c] = "open"]
    /\ UNCHANGED <<tableVars, unread, owed, datagram, loopVars, crashed>>

(* A client that ends with replies unread resets the connection.           *)
PeerEnds(c) ==
    /\ peer[c] \in Held
    /\ peer' = [peer EXCEPT ![c] = IF @ = "open" THEN "closed" ELSE "reset"]
    /\ UNCHANGED <<tableVars, unread, owed, datagram, loopVars, crashed>>

(* A backend answers a request, or a question of the thread of a query.    *)
DatagramArrives ==
    /\ owed > 0 /\ ~datagram
    /\ datagram' = TRUE
    /\ UNCHANGED <<tableVars, peer, unread, owed, loopVars, crashed>>

-----------------------------------------------------------------------------
(* tcp_server_send to the newest record: an error nobody looks at when its *)
(* descriptor is closed.  The first segment to a client that closed or     *)
(* reset the connection is lost and consumes the pending error; the next   *)
(* one raises SIGPIPE, which serverM does not handle.                      *)

tcp_server_send ==
    IF endpoints = <<>> \/ sock[endpoints[1].sd] = NoConn
    THEN UNCHANGED <<peer, crashed>>
    ELSE LET c == sock[endpoints[1].sd]
         IN /\ peer' = [peer EXCEPT ![c] = IF @ \in Held THEN "served" ELSE "gone"]
            /\ crashed' = (peer[c] = "gone")

(* The thread of a query sends its reply at any moment.                    *)
ThreadSends ==
    /\ ~crashed
    /\ owed > 0
    /\ owed' = owed - 1
    /\ tcp_server_send
    /\ UNCHANGED <<tableVars, unread, datagram, loopVars>>

-----------------------------------------------------------------------------
(* The loop.                                                               *)

\* select looks at the descriptors up to max_sd, and always at the datagrams'.
Readable ==
    (IF datagram THEN {UdpSd} ELSE {})
    \cup {sd \in fds :
            /\ sd <= max_sd
            /\ \/ sd = ListenSd /\ \E c \in Conns : peer[c] = "asking"
               \/ sd \in Sds /\ sock[sd] # NoConn
                             /\ (sock[sd] \in unread \/ peer[sock[sd]] \in Ended)}

\* Mutant: read_fds outlives the tick and is not cleared.
SnapshotKept ==
    /\ ~crashed /\ cursor = Waiting
    /\ Readable # {}
    /\ readable' = readable \cup Readable
    /\ cursor' = UdpSd
    /\ UNCHANGED <<tableVars, peer, unread, owed, datagram, crashed>>

Select ==
    /\ ~crashed /\ cursor = Waiting
    /\ Readable # {}
    /\ readable' = Readable
    /\ cursor' = UdpSd
    /\ UNCHANGED <<tableVars, peer, unread, owed, datagram, crashed>>

(* The next descriptor, as long as max_sd, as it is by now, allows.        *)
Advance == cursor' = IF cursor + 1 <= max_sd' THEN cursor + 1 ELSE Waiting

Visiting(sd) == ~crashed /\ cursor # Waiting /\ cursor = sd /\ sd <= max_sd

Skip ==
    /\ Visiting(cursor) /\ cursor \notin readable
    /\ UNCHANGED <<tableVars, peer, unread, owed, datagram, readable, crashed>>
    /\ Advance

(* on_rx forwards the answer to the newest client or wakes a thread.       *)
UdpReceive ==
    /\ Visiting(UdpSd) /\ UdpSd \in readable
    /\ datagram' = FALSE
    /\ \/ owed > 0 /\ owed' = owed - 1 /\ tcp_server_send
       \/ UNCHANGED <<owed, peer, crashed>>
    /\ UNCHANGED <<tableVars, unread, readable>>
    /\ Advance

FreeSds == {sd \in Sds : sock[sd] = NoConn}

\* Mutant: the record is put at the end of the list.
RecordAppended(sd, c) ==
    /\ endpoints' = Append(endpoints, [sd |-> sd, conn |-> c])
    /\ fds' = fds \cup {sd}
    /\ max_sd' = IF sd > max_sd THEN sd ELSE max_sd

\* Mutant: max_sd is taken for the number of descriptors select wants.
MaxIsCount(sd, c) ==
    /\ endpoints' = <<[sd |-> sd, conn |-> c]>> \o endpoints
    /\ fds' = fds \cup {sd}
    /\ max_sd' = IF sd >= max_sd THEN sd + 1 ELSE max_sd

create_child_socket(sd, c) ==
    /\ endpoints' = <<[sd |-> sd, conn |-> c]>> \o endpoints
    /\ fds' = fds \cup {sd}
    /\ max_sd' = IF sd > max_sd THEN sd ELSE max_sd

(* The kernel hands out the lowest free descriptor.                        *)
Accept ==
    /\ Visiting(ListenSd) /\ ListenSd \in readable
    /\ \E c \in Conns, sd \in FreeSds :
          /\ peer[c] = "asking"
          /\ \A other \in FreeSds : sd <= other
          /\ sock' = [sock EXCEPT ![sd] = c]
          /\ peer' = [peer EXCEPT ![c] = "open"]
          /\ create_child_socket(sd, c)
    /\ UNCHANGED <<unread, owed, datagram, readable, crashed>>
    /\ Advance

\* Mutant: any child that closes lowers max_sd.
AlwaysLowered(sd) ==
    /\ sock' = [sock EXCEPT ![sd] = NoConn]
    /\ fds' = fds \ {sd}
    /\ max_sd' = max_sd - 1

close_child_socket(sd) ==
    /\ sock' = [sock EXCEPT ![sd] = NoConn]
    /\ fds' = fds \ {sd}
    /\ max_sd' = IF sd = max_sd THEN max_sd - 1 ELSE max_sd

(* read returns data.  on_rx asks a backend, starts a thread, or answers a *)
(* code of no department on the spot.                                      *)
ReceiveData(sd) ==
    /\ sock[sd] \in unread
    /\ unread' = unread \ {sock[sd]}
    /\ \/ owed' = owed + 1 /\ UNCHANGED <<peer, crashed>>
       \/ tcp_server_send /\ UNCHANGED owed
    /\ UNCHANGED tableVars

(* read returns 0.                                                         *)
ReceiveEof(sd) ==
    /\ sock[sd] \notin unread /\ peer[sock[sd]] \in {"closed", "gone"}
    /\ close_child_socket(sd)
    /\ UNCHANGED <<endpoints, peer, unread, owed, crashed>>

(* read returns -1, a huge size_t: the copy into the segment runs wild.    *)
ReceiveError(sd) ==
    /\ sock[sd] \notin unread /\ peer[sock[sd]] = "reset"
    /\ crashed' = TRUE
    /\ UNCHANGED <<tableVars, peer, unread, owed>>

tcp_server_receive(sd) ==
    /\ Visiting(sd) /\ sd \in readable
    /\ ReceiveData(sd) \/ ReceiveEof(sd) \/ ReceiveError(sd)
    /\ UNCHANGED <<datagram, readable>>
    /\ Advance

-----------------------------------------------------------------------------
Tick ==
    \/ Select \/ Skip \/ UdpReceive \/ Accept
    \/ \E sd \in Sds : tcp_server_receive(sd)

(* select times out and the loop goes round, or serverM is gone.           *)
Idle ==
    /\ crashed \/ (cursor = Waiting /\ Readable = {})
    /\ UNCHANGED vars

Next ==
    \/ Tick \/ Idle \/ ThreadSends \/ DatagramArrives
    \/ \E c \in Conns : PeerConnects(c) \/ PeerSends(c) \/ PeerReads(c) \/ PeerEnds(c)

Spec == Init /\ [][Next]_vars /\ WF_vars(Tick)

-----------------------------------------------------------------------------
(* select watches exactly the sockets that are open, and none of them lies *)
(* beyond max_sd, although max_sd is lowered by one at a time, only when   *)
(* the highest child closes (networking.c:55), and raised on accept (89).  *)
OpenSocketsAreWatched ==
    /\ fds = {ListenSd} \cup {sd \in Sds : sock[sd] # NoConn}
    /\ \A sd \in fds : sd <= max_sd

(* get_endpoint finds the record of the connection that is on a descriptor *)
(* now, not of an earlier one that had the same number.                    *)
FirstRecord(sd, c) ==
    \E i \in 1 .. Len(endpoints) :
        /\ endpoints[i] = [sd |-> sd, conn |-> c]
        /\ \A j \in 1 .. i - 1 : endpoints[j].sd # sd

EndpointIsPeer ==
    \A sd \in Sds : sock[sd] # NoConn => FirstRecord(sd, sock[sd])

(* A descriptor is visited only while the socket the snapshot saw on it is *)
(* still there: no handler earlier in the tick has closed it or put        *)
(* another connection on it.                                               *)
SnapshotIsFresh ==
    cursor # Waiting /\ ~crashed =>
        \A sd \in readable \cap Sds : sd >= cursor =>
            /\ sd <= max_sd
            /\ sock[sd] # NoConn
            /\ sock[sd] \in unread \/ peer[sock[sd]] \in Ended

(* Whatever a client sent is read as long as serverM lives, even if the    *)
(* client is gone by then, however busy the other descriptors are.         *)
EveryRequestIsRead ==
    \A c \in Conns : c \in unread ~> (c \notin unread \/ crashed)

(* serverM keeps running whatever its clients do (Instructions.md:377).    *)
KeepsRunning == ~crashed
=============================================================================
