------------------------------ MODULE Sessions ------------------------------
(***************************************************************************)
(* serverM together with the users in front of its clients.  A user logs   *)
(* in, then asks for courses; a client that waits too long for an answer   *)
(* gives up and lets its user type again (sem_timedwait in client.c).      *)
(*                                                                         *)
(* Three disciplines of the users are specified over the same server:      *)
(*   SerialSpec   one query in the system at a time, asked through the     *)
(*                newest connection, after serverM has come to rest;       *)
(*   CarefulSpec  any number of clients, give up and ask at any moment,    *)
(*                but one query for several courses at a time, and single  *)
(*                queries for catalogued courses only;                     *)
(*   PatientSpec  a client asks again as soon as it is answered, and gives *)
(*                up only when no answer can come any more.                *)
(***************************************************************************)
EXTENDS ServerM

CONSTANTS
    Logins,     \* the AUTH requests users make
    Queries,    \* the SINGLE and MULTI requests users make
    NoQuery,    \* a client that waits for nothing
    MaxStream,  \* the most requests that lie unread on a stream (bound)
    MaxBacklog  \* the most replies and datagrams that wait when a user asks (bound)

ASSUME SessionsAssumption ==
    /\ Logins \subseteq AuthRequest
    /\ Queries \subseteq SingleRequest \cup MultiRequest
    /\ NoQuery \notin ClientRequest
    /\ MaxStream \in Nat
    /\ MaxBacklog \in Nat

VARIABLES
    waiting,    \* waiting[c]: the request the user of c waits for, or NoQuery
    who         \* who[c]: the name the user of c logged in with, or NoName

userVars == <<waiting, who>>
vars == <<serverVars, userVars>>

SessionsTypeOK ==
    /\ TypeOK
    /\ waiting \in [Clients -> ClientRequest \cup {NoQuery}]
    /\ who \in [Clients -> Words \cup {NoName}]

Init ==
    /\ ServerInit
    /\ waiting = [c \in Clients |-> NoQuery]
    /\ who = [c \in Clients |-> NoName]

-----------------------------------------------------------------------------
(* The steps of a client, as serverM sees them.                            *)

Connect(c) ==
    /\ Accept(c)
    /\ waiting' = [waiting EXCEPT ![c] = NoQuery]
    /\ who' = [who EXCEPT ![c] = NoName]

Leave(c) ==
    /\ Disconnect(c)
    /\ waiting' = [waiting EXCEPT ![c] = NoQuery]
    /\ who' = [who EXCEPT ![c] = NoName]

\* Credentials until the login succeeds, queries from then on.
Ask(c, req) ==
    /\ waiting[c] = NoQuery
    /\ req \in IF who[c] = NoName THEN Logins ELSE Queries
    /\ ClientSend(c, req)
    /\ waiting' = [waiting EXCEPT ![c] = req]
    /\ UNCHANGED who

LoggedIn(c) ==
    /\ waiting[c] # NoQuery
    /\ waiting[c].type = "AUTH"
    /\ Head(toClient[c]).type = "AUTH"
    /\ Head(toClient[c]).flag = "SUCCESS"

GetReply(c) ==
    /\ ClientRead(c)
    /\ who' = IF LoggedIn(c) THEN [who EXCEPT ![c] = waiting[c].user] ELSE who
    /\ waiting' = [waiting EXCEPT ![c] = NoQuery]

GiveUp(c) ==
    /\ waiting[c] # NoQuery
    /\ waiting' = [waiting EXCEPT ![c] = NoQuery]
    /\ UNCHANGED <<serverVars, who>>

-----------------------------------------------------------------------------
(* serverM is at rest: no request, datagram, reply or thread is left.      *)

NetworkEmpty ==
    /\ \A c \in Clients : toM[c] = <<>>
    /\ \A b \in Backend : toBackend[b] = <<>>
    /\ toUdp = <<>>

NoLiveThread == \A t \in Threads : pc[t] = "none"

AtRest == NetworkEmpty /\ NoLiveThread

MultiInStream ==
    \E c \in Clients : \E i \in 1 .. Len(toM[c]) : toM[c][i].type = "MULTI"

Serve == ServerStep /\ UNCHANGED userVars

SerialNext ==
    \/ Serve
    \/ \E c \in Clients :
          \/ AtRest /\ Connect(c)
          \/ (AtRest \/ c = endpoint) /\ Leave(c)
          \/ \E req \in Logins \cup Queries :
                AtRest /\ c = endpoint /\ toClient[c] = <<>> /\ Ask(c, req)
          \/ GetReply(c)
          \/ AtRest /\ toClient[c] = <<>> /\ GiveUp(c)

\* The bound of a run whose users ask without waiting for the answer.
Room ==
    /\ \A c \in Clients : Len(toM[c]) < MaxStream /\ Len(toClient[c]) < MaxBacklog
    /\ \A b \in Backend : Len(toBackend[b]) < MaxBacklog
    /\ Len(toUdp) < MaxBacklog

CarefulNext ==
    \/ Serve
    \/ \E c \in Clients :
          \/ Connect(c)
          \/ Leave(c)
          \/ \E req \in Logins \cup Queries :
                /\ Room
                /\ req.type = "SINGLE" => req.code \in Catalog
                /\ req.type = "MULTI" => NoLiveThread /\ ~MultiInStream
                /\ Ask(c, req)
          \/ GetReply(c)
          \/ GiveUp(c)

PatientNext ==
    \/ Serve
    \/ \E c \in Clients :
          \/ Connect(c)
          \/ \E req \in Logins \cup Queries : Ask(c, req)
          \/ GetReply(c)
          \/ NetworkEmpty /\ toClient[c] = <<>> /\ NoLiveThread /\ GiveUp(c)

SerialSpec  == Init /\ [][SerialNext]_vars /\ ServerFairness
CarefulSpec == Init /\ [][CarefulNext]_vars /\ ServerFairness
PatientSpec == Init /\ [][PatientNext]_vars /\ ServerFairness

-----------------------------------------------------------------------------
(* Every reply on a connection is the right answer to the request its user *)
(* waits for, and an answer never comes to a user who waits for nothing:   *)
(* the forwarding by type and by newest connection in serverM.c (86, 200,  *)
(* 219, 230) pairs answers with questions.                                 *)
AnswersTheQuery ==
    \A c \in Clients : toClient[c] # <<>> =>
        /\ waiting[c] # NoQuery
        /\ HasAnswer(waiting[c])
        /\ Len(toClient[c]) = 1
        /\ RightAnswer(waiting[c], Head(toClient[c]))

-----------------------------------------------------------------------------
(* The hand-off between the main thread and a multi_request_thread.        *)

\* An exchange with a department that will post the semaphore is under way.
\* While a thread is registered an error belongs to its query.
DetailPending ==
    \/ \E b \in Backend : \E i \in 1 .. Len(toBackend[b]) : toBackend[b][i].type = "DETAIL"
    \/ \E i \in 1 .. Len(toUdp) :
          \/ toUdp[i].type = "DETAIL"
          \/ toUdp[i].type = "ERROR" /\ thread # NoThread

(* The semaphore is posted for the question its thread is blocked on, and  *)
(* for no other (serverM.c:182 against 233 and 257): a live thread is the  *)
(* registered one; a thread blocks only while its answer is on the way or  *)
(* its token is there, never both; nobody leaves a token behind.           *)
HandOff ==
    /\ \A t \in Threads : pc[t] # "none" => thread = t
    /\ \A t \in Threads : pc[t] = "wait" =>
          \/ DetailPending /\ sem = 0
          \/ ~DetailPending /\ sem = 1
    /\ (\A t \in Threads : pc[t] # "wait") => sem = 0 /\ ~DetailPending

(* The nodes of the shared list are never touched once they are freed      *)
(* (serverM.c:203-205): while the list dangles its thread is the only one  *)
(* alive, about to forget it, and no course is about to be inserted.       *)
ListIsLive ==
    dangling =>
        /\ \A t \in Threads : pc[t] \in {"none", "clear"}
        /\ \E t \in Threads : pc[t] = "clear"
        /\ \A i \in 1 .. Len(toUdp) : toUdp[i].type # "DETAIL"

(* The shared list holds the courses found among the codes asked for so    *)
(* far, in the order of the query: no course of another query, none lost,  *)
(* none twice (insert_to_end_of_linked_list from the main thread against   *)
(* the thread that reads and resets the list).                             *)
Answered(t) ==
    IF pc[t] = "wait" /\ sem > 0 THEN asked[t] + 1 ELSE asked[t]

ListFollowsQuery ==
    \A t \in Threads : pc[t] \in {"ask", "wait", "respond", "free"} =>
        Selects(list, SubSeq(query[t], 1, Answered(t)))

(* The whole of serverM, its threads and its backends do what the service  *)
(* promises, as far as a user can tell: every step of theirs puts the one  *)
(* right answer before the user who waits for it, or is not seen at all,   *)
(* and an answer that is due comes (src/README.md:346, "If a client sends  *)
(* a query, it will be served").                                           *)
Service == INSTANCE QueryService
    WITH connected <- open, asked <- waiting, inbox <- toClient, name <- who

ImplementsService == Service!Spec

(* The name serverM logs with a query (serverM.c:147) is the name the user *)
(* of that connection logged in with, although tcp->username is a single   *)
(* buffer that every login of every connection overwrites.                 *)
LogNamesTheUser ==
    \A c \in Clients : toM[c] # <<>> =>
        (Head(toM[c]).type = "SINGLE" =>
            /\ username.name = who[c]
            /\ username.len = NameLen[who[c]])

(* A request that has an answer gets it: the reply reaches the stream of   *)
(* its client unless the client closed the connection.                     *)
EveryAnswerArrives ==
    \A c \in Clients :
        (waiting[c] # NoQuery /\ HasAnswer(waiting[c])) ~> (toClient[c] # <<>> \/ c \notin open)

(* Every thread started for a query ends: no wait on the semaphore is for  *)
(* ever, whatever the departments answer.                                  *)
EveryThreadEnds == \A t \in Threads : pc[t] # "none" ~> pc[t] = "none"

-----------------------------------------------------------------------------
(* An inductive form of HandOff and ListIsLive for SerialSpec.  There is   *)
(* one piece of work in the system at most, and the phases name the place  *)
(* it can be at.                                                           *)

StreamsEmpty == \A c \in Clients : toM[c] = <<>>
BackendsEmpty == \A b \in Backend : toBackend[b] = <<>>

NoThreadWork == NoLiveThread /\ thread = NoThread /\ sem = 0 /\ ~dangling

Resting == StreamsEmpty /\ BackendsEmpty /\ toUdp = <<>> /\ NoThreadWork

RequestArriving ==
    /\ \E c \in Clients :
          /\ Len(toM[c]) = 1
          /\ \A d \in Clients \ {c} : toM[d] = <<>>
    /\ BackendsEmpty /\ toUdp = <<>> /\ NoThreadWork

\* The only datagram in the system is a request of type `types` at a backend.
AskedBackend(types) ==
    /\ toUdp = <<>>
    /\ \E b \in Backend :
          /\ Len(toBackend[b]) = 1
          /\ Head(toBackend[b]).type \in types
          /\ \A d \in Backend \ {b} : toBackend[d] = <<>>

\* The only datagram in the system is a reply of type `types` to serverM.
ReplyArriving(types) ==
    /\ BackendsEmpty
    /\ Len(toUdp) = 1
    /\ Head(toUdp).type \in types

SingleExchange ==
    /\ StreamsEmpty /\ NoThreadWork
    /\ \/ AskedBackend({"AUTH", "SINGLE"})
       \/ ReplyArriving({"AUTH", "SINGLE", "ERROR"})

ThreadBlocked(t) ==
    /\ pc[t] = "wait" /\ ~dangling
    /\ \/ AskedBackend({"DETAIL"}) /\ sem = 0
       \/ ReplyArriving({"DETAIL", "ERROR"}) /\ sem = 0
       \/ BackendsEmpty /\ toUdp = <<>> /\ sem = 1

ThreadRunning(t) ==
    /\ pc[t] \in PcLabels \ {"none", "wait"}
    /\ dangling => pc[t] = "clear"
    /\ BackendsEmpty /\ toUdp = <<>> /\ sem = 0

ThreadExchange ==
    /\ StreamsEmpty
    /\ \E t \in Threads :
          /\ thread = t
          /\ \A u \in Threads \ {t} : pc[u] = "none"
          /\ ThreadBlocked(t) \/ ThreadRunning(t)

OnePieceOfWork == Resting \/ RequestArriving \/ SingleExchange \/ ThreadExchange

=============================================================================
