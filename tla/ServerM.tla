------------------------------- MODULE ServerM -------------------------------
(***************************************************************************)
(* The main server (serverM.c on top of networking.c) and its backends.    *)
(*                                                                         *)
(* The main thread runs a select loop over one UDP socket (toUdp), the     *)
(* listening socket and one TCP socket per connection (toM[c]).  Every     *)
(* query for several courses is handled by a thread of its own, which asks *)
(* the departments for one course after the other and blocks on a          *)
(* semaphore until the main thread has stored the answer.  The threads and *)
(* the main thread share `thread`, `semaphore` (sem), the linked list      *)
(* multi_course_response (list) and the newest connection (endpoint);      *)
(* nothing protects any of them.                                           *)
(***************************************************************************)
EXTENDS Backends

CONSTANTS
    Clients,        \* connections
    Threads,        \* multi_request_threads that may be alive together (bound)
    NoClient, NoThread, NoName,
    Clobbered,      \* a dead stack slot something else was written over
    GarbageReads,   \* the lists of codes a thread may decode from such a slot
    NameLen         \* the length of each user name

ASSUME ServerMAssumption ==
    /\ NoClient \notin Clients
    /\ NoThread \notin Threads
    /\ NoName \notin Words
    /\ Clobbered \notin ClientRequest
    /\ GarbageReads \subseteq Seq(Codes)
    /\ NameLen \in [Words -> Nat]

VARIABLES
    open,       \* connections whose socket serverM holds open
    endpoint,   \* tcp->endpoints: the newest connection, open or not
    toM,        \* toM[c]: requests on the TCP stream from c
    toClient,   \* toClient[c]: replies on the TCP stream to c
    toBackend,  \* toBackend[b]: datagrams at the socket of backend b
    toUdp,      \* datagrams at the UDP socket of serverM
    username,   \* tcp->username: the name written last, and the bytes in use
    frame,      \* the stack slot of the last segment tcp_server_receive read
    thread,     \* the global `thread`: the last multi_request_thread, or null
    pc,         \* pc[t]: the next step of thread t
    query,      \* query[t]: the codes thread t decoded
    asked,      \* asked[t]: how many of them have been waited for
    list,       \* multi_course_response: the courses stored so far
    dangling,   \* the nodes of that list have been freed
    sem         \* the value of `semaphore`

mainVars   == <<open, endpoint, toM, username>>
threadVars == <<pc, query, asked>>
listVars   == <<list, dangling>>
wireVars   == <<toBackend, toUdp>>
serverVars == <<mainVars, frame, toClient, wireVars, thread, threadVars, listVars, sem>>

PcLabels == {"none", "reset", "decode", "ask", "wait", "respond", "free", "clear", "exit"}

UserField == [name : Words \cup {NoName}, len : Nat]

TypeOK ==
    /\ open \subseteq Clients
    /\ endpoint \in Clients \cup {NoClient}
    /\ toM \in [Clients -> Seq(ClientRequest)]
    /\ toClient \in [Clients -> Seq(ClientReply)]
    /\ DOMAIN toBackend = Backend
    /\ \A b \in Backend : toBackend[b] \in Seq(BackendRequest(b))
    /\ toUdp \in Seq(BackendReply)
    /\ username \in UserField
    /\ frame \in ClientRequest \cup {Clobbered}
    /\ thread \in Threads \cup {NoThread}
    /\ pc \in [Threads -> PcLabels]
    /\ query \in [Threads -> Seq(Codes)]
    /\ asked \in [Threads -> Nat]
    /\ list \in Seq(Codes)
    /\ dangling \in BOOLEAN
    /\ sem \in Nat

ServerInit ==
    /\ open = {}
    /\ endpoint = NoClient
    /\ toM = [c \in Clients |-> <<>>]
    /\ toClient = [c \in Clients |-> <<>>]
    /\ toBackend = [b \in Backend |-> <<>>]
    /\ toUdp = <<>>
    /\ username = [name |-> NoName, len |-> 0]
    /\ frame = Clobbered
    /\ thread = NoThread
    /\ pc = [t \in Threads |-> "none"]
    /\ query = [t \in Threads |-> <<>>]
    /\ asked = [t \in Threads |-> 0]
    /\ list = <<>>
    /\ dangling = FALSE
    /\ sem = 0

-----------------------------------------------------------------------------
(* Sending.  tcp_server_send always gets tcp->endpoints, and a send to a   *)
(* socket that was closed fails with an error nobody looks at.             *)

tcp_server_send(reply) ==
    toClient' = IF endpoint \in open
                THEN [toClient EXCEPT ![endpoint] = Append(@, reply)]
                ELSE toClient

udp_send(b, req) == toBackend' = [toBackend EXCEPT ![b] = Append(@, req)]

(* Mutant: the client hears of every unknown code, the thread never.       *)
ErrorAlwaysForwarded(reply) ==
    tcp_server_send(reply) /\ UNCHANGED sem

(* Mutant: the semaphore is posted for an error nobody waits for.          *)
ErrorAlwaysPosts(reply) ==
    IF thread = NoThread
    THEN tcp_server_send(reply) /\ sem' = sem + 1
    ELSE sem' = sem + 1 /\ UNCHANGED toClient

(* Without a thread an error is the answer to a single query; with one it  *)
(* only wakes that thread.                                                 *)
on_course_lookup_error_received(reply) ==
    IF thread = NoThread
    THEN tcp_server_send(reply) /\ UNCHANGED sem
    ELSE sem' = sem + 1 /\ UNCHANGED toClient

(* The prefix of the code chooses the department; an unknown prefix is     *)
(* answered on the spot, by whichever thread runs this.                    *)
send_request_to_department_server(req) ==
    \/ /\ DeptOf[req.code] \in Departments
       /\ udp_send(DeptOf[req.code], req)
       /\ UNCHANGED <<toClient, sem>>
    \/ /\ DeptOf[req.code] = NoDept
       /\ on_course_lookup_error_received([type |-> "ERROR", code |-> req.code])
       /\ UNCHANGED toBackend

-----------------------------------------------------------------------------
(* The select loop: the listening socket and the connections.              *)

(* Any handler the main thread runs next may overwrite the dead stack      *)
(* slot.  A select that returns with nothing to do does not: as the        *)
(* Makefile builds serverM, the bytes of a segment begin 2 KB below the    *)
(* frame of tick, and select uses the first 200 of them at most.           *)
MayClobber == frame' \in {frame, Clobbered}

Accept(c) ==
    /\ c \notin open
    /\ open' = open \cup {c}
    /\ endpoint' = c
    /\ toM' = [toM EXCEPT ![c] = <<>>]
    /\ toClient' = [toClient EXCEPT ![c] = <<>>]
    /\ MayClobber
    /\ UNCHANGED <<username, wireVars, thread, threadVars, listVars, sem>>

(* The client closed the connection: read returns 0, after whatever it     *)
(* sent before has been read.  A client that leaves with replies unread    *)
(* resets the connection instead, which is in module TcpServer.  The       *)
(* endpoint record stays at the head of tcp->endpoints.                    *)
Disconnect(c) ==
    /\ c \in open
    /\ toM[c] = <<>>
    /\ toClient[c] = <<>>
    /\ open' = open \ {c}
    /\ MayClobber
    /\ UNCHANGED <<endpoint, toM, toClient, username, wireVars, thread, threadVars, listVars, sem>>

\* Mutant: only the first login is remembered.
FirstNameOnly(name) ==
    IF username.name = NoName
    THEN username' = [name |-> name, len |-> NameLen[name]]
    ELSE UNCHANGED username

set_username(name) ==
    username' = [name |-> name,
                 len |-> IF username.len > NameLen[name] THEN username.len ELSE NameLen[name]]

clear_username == username' = [name |-> NoName, len |-> 0]

on_auth_request_received(req) ==
    /\ req.type = "AUTH"
    /\ set_username(req.user)
    /\ udp_send(CredentialServer,
                [type |-> "AUTH", user |-> Encrypt[req.user], pass |-> Encrypt[req.pass]])
    /\ UNCHANGED <<toClient, thread, pc, sem>>

on_course_lookup_info_request_received(req) ==
    /\ req.type = "SINGLE"
    /\ send_request_to_department_server(req)
    /\ UNCHANGED <<username, thread, pc>>

on_course_lookup_multi_request_received(req) ==
    /\ req.type = "MULTI"
    /\ \E t \in Threads :
          /\ pc[t] = "none"
          /\ thread' = t
          /\ pc' = [pc EXCEPT ![t] = "reset"]
    /\ UNCHANGED <<username, toClient, toBackend, sem>>

(* One read takes n requests off the stream, as many as have arrived; only *)
(* the first is handled, and the thread of a query for several courses is  *)
(* given a pointer to it.                                                  *)
TcpReceive(c) ==
    /\ c \in open
    /\ \E n \in 1 .. Len(toM[c]) :
          toM' = [toM EXCEPT ![c] = SubSeq(@, n + 1, Len(@))]
    /\ LET req == Head(toM[c])
       IN /\ \/ on_auth_request_received(req)
             \/ on_course_lookup_info_request_received(req)
             \/ on_course_lookup_multi_request_received(req)
          /\ frame' = req
    /\ UNCHANGED <<open, endpoint, toUdp, query, asked, listVars>>

-----------------------------------------------------------------------------
(* The select loop: the UDP socket.                                        *)

\* Mutant: a refused login is cleared and not reported.
RefusalNotSent(reply) ==
    /\ reply.type = "AUTH"
    /\ IF reply.flag = "SUCCESS"
       THEN tcp_server_send(reply) /\ UNCHANGED username
       ELSE clear_username /\ UNCHANGED toClient
    /\ UNCHANGED <<list, sem>>

on_auth_response_received(reply) ==
    /\ reply.type = "AUTH"
    /\ IF reply.flag = "SUCCESS" THEN UNCHANGED username ELSE clear_username
    /\ tcp_server_send(reply)
    /\ UNCHANGED <<list, sem>>

on_single_course_lookup_info_response_received(reply) ==
    /\ reply.type = "SINGLE"
    /\ tcp_server_send(reply)
    /\ UNCHANGED <<username, list, sem>>

\* Mutant: the newest course is stored first.
StoredAtFront(reply) ==
    /\ reply.type = "DETAIL"
    /\ list' = <<reply.code>> \o list
    /\ sem' = sem + 1
    /\ UNCHANGED <<username, toClient>>

\* Mutant: the course is stored and the thread not woken.
StoredOnly(reply) ==
    /\ reply.type = "DETAIL"
    /\ list' = Append(list, reply.code)
    /\ UNCHANGED <<sem, username, toClient>>

on_course_detail_response_received(reply) ==
    /\ reply.type = "DETAIL"
    /\ list' = Append(list, reply.code)
    /\ sem' = sem + 1
    /\ UNCHANGED <<username, toClient>>

on_error_response_received(reply) ==
    /\ reply.type = "ERROR"
    /\ on_course_lookup_error_received(reply)
    /\ UNCHANGED <<username, list>>

UdpReceive ==
    /\ toUdp # <<>>
    /\ LET reply == Head(toUdp)
       IN \/ on_auth_response_received(reply)
          \/ on_single_course_lookup_info_response_received(reply)
          \/ on_course_detail_response_received(reply)
          \/ on_error_response_received(reply)
    /\ toUdp' = Tail(toUdp)
    /\ MayClobber
    /\ UNCHANGED <<open, endpoint, toM, toBackend, thread, threadVars, dangling>>

-----------------------------------------------------------------------------
(* multi_request_thread.                                                   *)

GoTo(t, from, to) == pc[t] = from /\ pc' = [pc EXCEPT ![t] = to]

ThreadReset(t) ==
    /\ GoTo(t, "reset", "decode")
    /\ list' = <<>>
    /\ dangling' = FALSE
    /\ UNCHANGED <<mainVars, frame, toClient, wireVars, thread, query, asked, sem>>

(* What the slot of the segment holds by now: codes, another request (no   *)
(* code is decoded from it) or garbage.                                    *)
Decoded ==
    IF frame = Clobbered THEN GarbageReads
    ELSE IF frame.type = "MULTI" THEN {frame.codes}
    ELSE {<<>>}

ThreadDecode(t) ==
    /\ GoTo(t, "decode", "ask")
    /\ \E codes \in Decoded : query' = [query EXCEPT ![t] = codes]
    /\ asked' = [asked EXCEPT ![t] = 0]
    /\ UNCHANGED <<mainVars, frame, toClient, wireVars, thread, listVars, sem>>

(* Mutant: the thread asks for the next course without waiting.            *)
AskWithoutWait(t) ==
    /\ asked[t] < Len(query[t])
    /\ pc[t] = "ask" /\ UNCHANGED pc
    /\ asked' = [asked EXCEPT ![t] = @ + 1]
    /\ send_request_to_department_server([type |-> "DETAIL", code |-> query[t][asked[t] + 1]])
    /\ UNCHANGED <<mainVars, frame, toUdp, thread, query, listVars>>

(* single_course_code_handler up to its sem_wait.                          *)
ThreadAsk(t) ==
    /\ asked[t] < Len(query[t])
    /\ GoTo(t, "ask", "wait")
    /\ send_request_to_department_server([type |-> "DETAIL", code |-> query[t][asked[t] + 1]])
    /\ UNCHANGED <<mainVars, frame, toUdp, thread, query, asked, listVars>>

\* Mutant: the wait returns without a token.
WakeWithoutToken(t) ==
    /\ sem' = sem - 1
    /\ GoTo(t, "wait", "ask")
    /\ asked' = [asked EXCEPT ![t] = @ + 1]
    /\ UNCHANGED <<mainVars, frame, toClient, wireVars, thread, query, listVars>>

ThreadWake(t) ==
    /\ sem > 0
    /\ sem' = sem - 1
    /\ GoTo(t, "wait", "ask")
    /\ asked' = [asked EXCEPT ![t] = @ + 1]
    /\ UNCHANGED <<mainVars, frame, toClient, wireVars, thread, query, listVars>>

ThreadAsked(t) ==
    /\ asked[t] = Len(query[t])
    /\ GoTo(t, "ask", "respond")
    /\ UNCHANGED <<mainVars, frame, toClient, wireVars, thread, query, asked, listVars, sem>>

(* Mutant: a query that found nothing is asked again.                      *)
RetryIfEmpty(t) ==
    /\ pc[t] = "respond"
    /\ pc' = [pc EXCEPT ![t] = IF list # <<>> THEN "free" ELSE "decode"]
    /\ IF list # <<>>
       THEN tcp_server_send([type |-> "MULTI", codes |-> list])
       ELSE UNCHANGED toClient
    /\ UNCHANGED <<mainVars, frame, wireVars, thread, query, asked, listVars, sem>>

(* An empty list cannot be encoded: zero bytes are sent, nothing arrives.  *)
ThreadRespond(t) ==
    /\ GoTo(t, "respond", "free")
    /\ IF list # <<>>
       THEN tcp_server_send([type |-> "MULTI", codes |-> list])
       ELSE UNCHANGED toClient
    /\ UNCHANGED <<mainVars, frame, wireVars, thread, query, asked, listVars, sem>>

\* Mutant: the list is freed and the pointer to it kept.
FreeOnly(t) ==
    /\ GoTo(t, "free", "exit")
    /\ dangling' = (list # <<>>)
    /\ UNCHANGED <<mainVars, frame, toClient, wireVars, thread, query, asked, list, sem>>

ThreadFree(t) ==
    /\ GoTo(t, "free", "clear")
    /\ dangling' = (list # <<>>)
    /\ UNCHANGED <<mainVars, frame, toClient, wireVars, thread, query, asked, list, sem>>

ThreadClear(t) ==
    /\ GoTo(t, "clear", "exit")
    /\ list' = <<>>
    /\ dangling' = FALSE
    /\ UNCHANGED <<mainVars, frame, toClient, wireVars, thread, query, asked, sem>>

ThreadExit(t) ==
    /\ GoTo(t, "exit", "none")
    /\ thread' = NoThread
    /\ query' = [query EXCEPT ![t] = <<>>]
    /\ asked' = [asked EXCEPT ![t] = 0]
    /\ UNCHANGED <<mainVars, frame, toClient, wireVars, listVars, sem>>

ThreadStep(t) ==
    \/ ThreadReset(t) \/ ThreadDecode(t) \/ ThreadAsk(t) \/ ThreadWake(t) \/ ThreadAsked(t)
    \/ ThreadRespond(t) \/ ThreadFree(t) \/ ThreadClear(t) \/ ThreadExit(t)

-----------------------------------------------------------------------------
(* A backend answers the first datagram at its socket.                     *)
BackendServe(b) ==
    /\ toBackend[b] # <<>>
    /\ toUdp' = Append(toUdp, BackendAnswer(b, Head(toBackend[b])))
    /\ toBackend' = [toBackend EXCEPT ![b] = Tail(@)]
    /\ UNCHANGED <<mainVars, frame, toClient, thread, threadVars, listVars, sem>>

(* A client writes a request to its connection.                            *)
ClientSend(c, req) ==
    /\ c \in open
    /\ toM' = [toM EXCEPT ![c] = Append(@, req)]
    /\ UNCHANGED <<open, endpoint, username, frame, toClient, wireVars, thread, threadVars, listVars, sem>>

(* A client reads the first reply on its connection.                       *)
ClientRead(c) ==
    /\ toClient[c] # <<>>
    /\ toClient' = [toClient EXCEPT ![c] = Tail(@)]
    /\ UNCHANGED <<mainVars, frame, wireVars, thread, threadVars, listVars, sem>>

ServerStep ==
    \/ UdpReceive
    \/ \E c \in Clients : TcpReceive(c)
    \/ \E t \in Threads : ThreadStep(t)
    \/ \E b \in Backend : BackendServe(b)

ServerFairness ==
    /\ WF_serverVars(UdpReceive)
    /\ \A c \in Clients : WF_serverVars(TcpReceive(c))
    /\ \A t \in Threads : WF_serverVars(ThreadStep(t))
    /\ \A b \in Backend : WF_serverVars(BackendServe(b))

=============================================================================
