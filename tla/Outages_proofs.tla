---------------------------- MODULE Outages_proofs ----------------------------
(***************************************************************************)
(* Type correctness of serverM while backends end and start again, and     *)
(* that a verdict or a course never reaches a user who did not ask for it, *)
(* whatever is lost and however many query threads wait for ever.          *)
(***************************************************************************)
EXTENDS Outages, Careful_proofs

-----------------------------------------------------------------------------
(* The inductive invariant: the phases of the request of the one user.     *)

\* The datagrams somebody will read.
Live(b) == IF Running(b) THEN toBackend[b] ELSE <<>>

\* Verdicts, and courses looked up by themselves, and the requests for them.
ForUser == {"AUTH", "SINGLE"}

LiveEmpty == \A b \in Backend : Live(b) = <<>>
RepliesEmpty == \A c \in Clients : toClient[c] = <<>>

\* Every thread there is waits for an answer that will not come.
ThreadsStuck == \A t \in Threads : pc[t] = "none" \/ (pc[t] = "wait" /\ sem = 0)

UserWaits == endpoint \in open /\ waiting[endpoint] # NoQuery /\ ThreadsStuck

Requested ==
    /\ UserWaits /\ LiveEmpty /\ toUdp = <<>> /\ RepliesEmpty
    /\ Len(toM[endpoint]) = 1 /\ Head(toM[endpoint]) = waiting[endpoint]
    /\ \A c \in Clients \ {endpoint} : toM[c] = <<>>

Forwarded ==
    /\ UserWaits /\ StreamsEmpty /\ toUdp = <<>> /\ RepliesEmpty
    /\ \E b \in Backend :
          /\ Running(b) /\ Len(toBackend[b]) = 1
          /\ RightAnswer(waiting[endpoint], BackendAnswer(b, Head(toBackend[b])))
          /\ \A d \in Backend \ {b} : Live(d) = <<>>

Returned ==
    /\ UserWaits /\ StreamsEmpty /\ LiveEmpty /\ RepliesEmpty
    /\ Len(toUdp) = 1 /\ RightAnswer(waiting[endpoint], Head(toUdp))

Answering ==
    /\ UserWaits /\ StreamsEmpty /\ LiveEmpty /\ toUdp = <<>>
    /\ Len(toClient[endpoint]) = 1 /\ RightAnswer(waiting[endpoint], Head(toClient[endpoint]))
    /\ \A c \in Clients \ {endpoint} : toClient[c] = <<>>

\* What is on the wires is for query threads, or says that something failed.
NothingOwed ==
    /\ StreamsEmpty
    /\ \A b \in Backend : Without(Live(b), ForUser)
    /\ Without(toUdp, ForUser)
    /\ \A c \in Clients : Without(toClient[c], ForUser)

Phase == Requested \/ Forwarded \/ Returned \/ Answering \/ NothingOwed

OutagesInv == OutagesTypeOK /\ open \subseteq {endpoint} /\ Phase

-----------------------------------------------------------------------------
(* Type correctness.                                                       *)

(* A backend that comes or goes leaves an empty socket.                    *)
LEMMA BindTyped ==
    ASSUME SessionsTypeOK, NEW b \in Backend, BindOrEnd(b)
    PROVE  SessionsTypeOK'
BY EmptySeq DEF BindOrEnd, SessionsTypeOK, TypeOK, mainVars, threadVars, listVars, userVars

(* A lost datagram leaves the others in place.                             *)
LEMMA LostTyped ==
    ASSUME SessionsTypeOK, NEW b \in Backend, Lost(b)
    PROVE  SessionsTypeOK'
<1>1. toBackend[b] \in Seq(BackendRequest(b)) /\ toBackend[b] # <<>>
  BY DEF Lost, SessionsTypeOK, TypeOK
<1>2. Tail(toBackend[b]) \in Seq(BackendRequest(b))
  BY <1>1, HeadTyped
<1> QED BY <1>2 DEF Lost, SessionsTypeOK, TypeOK, mainVars, threadVars, listVars, userVars

(* No step of the backends' operator, of serverM or of the user leaves the *)
(* types.                                                                  *)
LEMMA OutagesTyped ==
    ASSUME OutagesTypeOK, [OutagesNext]_outageVars
    PROVE  OutagesTypeOK'
<1> SessionsTypeOK /\ TypeOK
  BY DEF OutagesTypeOK, SessionsTypeOK
<1>1. ASSUME ServerStep, UNCHANGED userVars, UNCHANGED process
      PROVE  OutagesTypeOK'
  BY <1>1, ServerStepTyped DEF OutagesTypeOK, SessionsTypeOK, userVars
<1>2. CASE MainStep
  BY <1>1, <1>2 DEF MainStep, ServerStep
<1>3. ASSUME NEW t \in Threads, QueryThreadStep(t)
      PROVE  OutagesTypeOK'
  BY <1>1, <1>3 DEF QueryThreadStep, ServerStep
<1>4. ASSUME NEW b \in Backend, BackendServes(b)
      PROVE  OutagesTypeOK'
  BY <1>1, <1>4 DEF BackendServes, ServerStep
<1>5. ASSUME NEW b \in Backend, \/ Stop(b) \/ Lost(b)
                                \/ \E args \in {NoArgs, WithFile} : Start(b, args)
      PROVE  OutagesTypeOK'
  <2>1. SessionsTypeOK'
    BY <1>5, BindTyped, LostTyped DEF Stop, Start
  <2>2. process' \in [Backend -> {"none", "running", "exited"}]
    BY <1>5 DEF Stop, Start, Lost, main, OutagesTypeOK
  <2> QED BY <2>1, <2>2 DEF OutagesTypeOK
<1>6. ASSUME NEW c \in Clients, UserStep(c)
      PROVE  OutagesTypeOK'
  BY <1>6, ClientStepTyped DEF UserStep, OutagesTypeOK
<1>7. CASE UNCHANGED outageVars
  BY <1>7, StutterTyped DEF outageVars, OutagesTypeOK
<1> QED BY <1>2, <1>3, <1>4, <1>5, <1>6, <1>7 DEF OutagesNext

(* serverM keeps its types whatever backends end, start again or are not   *)
(* there, for every number of clients, threads and courses.                *)
THEOREM OutagesTypes == OutagesSpec => []OutagesTypeOK
<1>1. OutagesInit => OutagesTypeOK
  BY InitTyped DEF OutagesInit, OutagesTypeOK
<1>2. OutagesTypeOK /\ [OutagesNext]_outageVars => OutagesTypeOK'
  BY OutagesTyped
<1> QED BY <1>1, <1>2, PTL DEF OutagesSpec

-----------------------------------------------------------------------------
(* The wires, step by step.                                                *)

(* Nobody answers before anything is asked.                                *)
LEMMA StalledOwesNothing ==
    ASSUME Stalled
    PROVE  NothingOwed /\ LiveEmpty /\ RepliesEmpty /\ StreamsEmpty
BY DEF Stalled, NothingOwed, LiveEmpty, Live, RepliesEmpty, StreamsEmpty, Without

(* A reply to the newest connection that is not for a user who asked for a *)
(* verdict or a single course.                                             *)
LEMMA OtherReplySent ==
    ASSUME TypeOK, NEW reply \in ClientReply, reply.type \notin ForUser, tcp_server_send(reply),
           \A c \in Clients : Without(toClient[c], ForUser)
    PROVE  \A c \in Clients : Without(toClient'[c], ForUser)
<1>1. CASE endpoint \in open
  <2>1. toClient[endpoint] \in Seq(ClientReply) /\ endpoint \in Clients
    BY <1>1 DEF TypeOK
  <2>2. Without(Append(toClient[endpoint], reply), ForUser)
    BY <2>1, WithoutWritten
  <2>3. toClient' = [toClient EXCEPT ![endpoint] = Append(@, reply)]
    BY <1>1 DEF tcp_server_send
  <2> QED BY <2>2, <2>3 DEF TypeOK
<1>2. CASE endpoint \notin open
  BY <1>2 DEF tcp_server_send
<1> QED BY <1>1, <1>2

(* Nor is the error of a code that no department knows.                    *)
LEMMA ErrorOwesNothing ==
    ASSUME TypeOK, NEW code \in Codes,
           on_course_lookup_error_received([type |-> "ERROR", code |-> code]),
           \A c \in Clients : Without(toClient[c], ForUser)
    PROVE  \A c \in Clients : Without(toClient'[c], ForUser)
<1>1. [type |-> "ERROR", code |-> code] \in ClientReply
  BY DEF ClientReply, ErrorReply
<1>2. CASE thread = NoThread
  BY <1>1, <1>2, OtherReplySent DEF on_course_lookup_error_received, ForUser
<1>3. CASE thread # NoThread
  BY <1>3 DEF on_course_lookup_error_received
<1> QED BY <1>2, <1>3

(* A thread that waits for ever does nothing, nor does one not started.    *)
LEMMA StuckThreadsStay ==
    ASSUME ThreadsStuck, NEW t \in Threads, ThreadStep(t)
    PROVE  FALSE
<1>1. pc[t] # "none" /\ (pc[t] = "wait" => sem > 0)
  BY DEF GoTo, ThreadStep, ThreadReset, ThreadDecode, ThreadAsk, ThreadWake, ThreadAsked,
     ThreadRespond, ThreadFree, ThreadClear, ThreadExit
<1> QED BY <1>1 DEF ThreadsStuck

-----------------------------------------------------------------------------
(* The steps of the backends and of those who start and end them.          *)

(* What lies at a socket is gone when its backend ends or starts; for the  *)
(* request of the user that means nothing, or that it is not answered.     *)
LEMMA BindKeepsPhase ==
    ASSUME OutagesInv, NEW b \in Backend, BindOrEnd(b),
           \A d \in Backend \ {b} : process'[d] = process[d]
    PROVE  Phase'
<1> TypeOK
  BY DEF OutagesInv, OutagesTypeOK, SessionsTypeOK
<1>1. /\ toBackend'[b] = <<>>
      /\ \A d \in Backend \ {b} : toBackend'[d] = toBackend[d]
      /\ UNCHANGED <<open, endpoint, toM, toClient, toUdp, pc, sem, waiting>>
  BY DEF BindOrEnd, mainVars, threadVars, userVars, TypeOK
<1>2. Live(b)' = <<>> /\ \A d \in Backend \ {b} : Live(d)' = Live(d)
  BY <1>1 DEF Live, Running
<1>3. /\ UserWaits' <=> UserWaits
      /\ StreamsEmpty' <=> StreamsEmpty
      /\ RepliesEmpty' <=> RepliesEmpty
      /\ LiveEmpty => LiveEmpty'
  BY <1>1, <1>2 DEF UserWaits, ThreadsStuck, StreamsEmpty, RepliesEmpty, LiveEmpty
<1>4. CASE Requested
  BY <1>1, <1>3, <1>4 DEF Requested, Phase
<1>5. CASE Forwarded
  <2>1. PICK s \in Backend :
            /\ Running(s) /\ Len(toBackend[s]) = 1
            /\ RightAnswer(waiting[endpoint], BackendAnswer(s, Head(toBackend[s])))
            /\ \A d \in Backend \ {s} : Live(d) = <<>>
    BY <1>5 DEF Forwarded
  <2>2. CASE s = b
    <3>1. LiveEmpty'
      BY <1>2, <2>1, <2>2 DEF LiveEmpty
    <3> QED BY <1>1, <1>5, <3>1 DEF Forwarded, NothingOwed, Phase, Without, LiveEmpty,
          StreamsEmpty, RepliesEmpty
  <2>3. CASE s # b
    <3>1. toBackend'[s] = toBackend[s] /\ process'[s] = process[s] /\ waiting' = waiting
      BY <1>1, <2>3
    <3>2. /\ Running(s)' /\ Len(toBackend'[s]) = 1
          /\ RightAnswer(waiting'[endpoint'], BackendAnswer(s, Head(toBackend'[s])))
      BY <1>1, <2>1, <3>1 DEF Running
    <3>3. \A d \in Backend \ {s} : Live(d)' = <<>>
      BY <1>2, <2>1
    <3> QED BY <1>1, <1>3, <1>5, <3>2, <3>3 DEF Forwarded, Phase
  <2> QED BY <2>2, <2>3
<1>6. CASE Returned
  BY <1>1, <1>3, <1>6 DEF Returned, Phase
<1>7. CASE Answering
  BY <1>1, <1>3, <1>7 DEF Answering, Phase
<1>8. CASE NothingOwed
  <2>1. \A d \in Backend : Without(Live(d)', ForUser)
    BY <1>2, <1>8 DEF NothingOwed, Without
  <2> QED BY <1>1, <1>3, <1>8, <2>1 DEF NothingOwed, Phase
<1> QED BY <1>4, <1>5, <1>6, <1>7, <1>8 DEF OutagesInv, Phase

(* A datagram for a backend that is not there was lost before.             *)
LEMMA LostKeepsPhase ==
    ASSUME OutagesInv, NEW b \in Backend, Lost(b)
    PROVE  Phase'
<1> TypeOK
  BY DEF OutagesInv, OutagesTypeOK, SessionsTypeOK
<1>1. /\ ~Running(b)
      /\ \A d \in Backend \ {b} : toBackend'[d] = toBackend[d]
      /\ UNCHANGED <<open, endpoint, toM, toClient, toUdp, pc, sem, waiting, process>>
  BY DEF Lost, mainVars, threadVars, userVars, TypeOK
<1>2. \A d \in Backend : Live(d)' = Live(d) /\ (Running(d)' <=> Running(d))
  BY <1>1 DEF Live, Running
<1>3. /\ UserWaits' <=> UserWaits
      /\ StreamsEmpty' <=> StreamsEmpty
      /\ RepliesEmpty' <=> RepliesEmpty
      /\ LiveEmpty' <=> LiveEmpty
  BY <1>1, <1>2 DEF UserWaits, ThreadsStuck, StreamsEmpty, RepliesEmpty, LiveEmpty
<1>4. Forwarded => Forwarded'
  <2> SUFFICES ASSUME Forwarded PROVE Forwarded'
    OBVIOUS
  <2>1. PICK s \in Backend :
            /\ Running(s) /\ Len(toBackend[s]) = 1
            /\ RightAnswer(waiting[endpoint], BackendAnswer(s, Head(toBackend[s])))
            /\ \A d \in Backend \ {s} : Live(d) = <<>>
    BY DEF Forwarded
  <2>2. s # b /\ toBackend'[s] = toBackend[s]
    BY <1>1, <2>1
  <2>3. /\ Running(s)' /\ Len(toBackend'[s]) = 1
        /\ RightAnswer(waiting'[endpoint'], BackendAnswer(s, Head(toBackend'[s])))
        /\ \A d \in Backend \ {s} : Live(d)' = <<>>
    BY <1>1, <1>2, <2>1, <2>2
  <2> QED BY <1>1, <1>3, <2>3 DEF Forwarded
<1>5. Requested => Requested'
  BY <1>1, <1>3 DEF Requested
<1>6. Returned => Returned'
  BY <1>1, <1>3 DEF Returned
<1>7. Answering => Answering'
  BY <1>1, <1>3 DEF Answering
<1>8. NothingOwed => NothingOwed'
  BY <1>1, <1>2, <1>3 DEF NothingOwed
<1> QED BY <1>4, <1>5, <1>6, <1>7, <1>8 DEF OutagesInv, Phase

(* A backend answers the request of the user, or a question of a thread.   *)
LEMMA BackendServesPhase ==
    ASSUME OutagesInv, NEW b \in Backend, BackendServes(b)
    PROVE  Phase'
<1> DEFINE req == Head(toBackend[b])
           reply == BackendAnswer(b, req)
<1> TypeOK
  BY DEF OutagesInv, OutagesTypeOK, SessionsTypeOK
<1>1. /\ Running(b) /\ toBackend[b] # <<>> /\ toBackend[b] \in Seq(BackendRequest(b))
      /\ toUdp' = Append(toUdp, reply) /\ toUdp \in Seq(BackendReply)
      /\ toBackend'[b] = Tail(toBackend[b])
      /\ \A d \in Backend \ {b} : toBackend'[d] = toBackend[d]
      /\ UNCHANGED <<open, endpoint, toM, toClient, pc, sem, waiting, process>>
  BY DEF BackendServes, BackendServe, mainVars, threadVars, userVars, TypeOK
<1>2. req \in BackendRequest(b) /\ reply \in BackendReply /\ reply.type \in {req.type, "ERROR"}
  BY <1>1, HeadTyped, BackendAnswerType
<1>3. Live(b) = toBackend[b] /\ Live(b)' = toBackend'[b]
  BY <1>1 DEF Live, Running
<1>4. \A d \in Backend \ {b} : Live(d)' = Live(d)
  BY <1>1 DEF Live, Running
<1>5. /\ UserWaits' <=> UserWaits
      /\ StreamsEmpty' <=> StreamsEmpty
      /\ RepliesEmpty' <=> RepliesEmpty
  BY <1>1 DEF UserWaits, ThreadsStuck, StreamsEmpty, RepliesEmpty
<1> HIDE DEF reply
<1>6. CASE Forwarded
  <2>1. PICK s \in Backend :
            /\ Running(s) /\ Len(toBackend[s]) = 1
            /\ RightAnswer(waiting[endpoint], BackendAnswer(s, Head(toBackend[s])))
            /\ \A d \in Backend \ {s} : Live(d) = <<>>
    BY <1>6 DEF Forwarded
  <2>2. s = b
    BY <1>1, <1>3, <2>1
  <2>3. RightAnswer(waiting[endpoint], reply) /\ toBackend'[b] = <<>>
    BY <1>1, <2>1, <2>2, LastTaken DEF reply
  <2>4. LiveEmpty'
    BY <1>3, <1>4, <2>1, <2>2, <2>3 DEF LiveEmpty
  <2>5. Len(toUdp') = 1 /\ Head(toUdp') = reply
    BY <1>1, <1>6, FirstAppended DEF Forwarded
  <2>6. waiting' = waiting /\ endpoint' = endpoint
    BY <1>1
  <2>7. RightAnswer(waiting'[endpoint'], Head(toUdp'))
    BY <2>3, <2>5, <2>6
  <2> QED BY <1>5, <1>6, <2>4, <2>5, <2>7 DEF Forwarded, Returned, Phase
<1>7. CASE NothingOwed
  <2>1. Without(Live(b)', ForUser) /\ req.type \notin ForUser
    BY <1>1, <1>3, <1>7, WithoutRead DEF NothingOwed
  <2>2. reply.type \notin ForUser
    BY <1>2, <2>1 DEF ForUser
  <2>3. Without(toUdp', ForUser)
    BY <1>1, <1>2, <1>7, <2>2, WithoutWritten DEF NothingOwed
  <2> QED BY <1>1, <1>4, <1>5, <1>7, <2>1, <2>3 DEF NothingOwed, Phase
<1>8. ~Requested /\ ~Returned /\ ~Answering
  BY <1>1, <1>3 DEF Requested, Returned, Answering, LiveEmpty
<1> QED BY <1>6, <1>7, <1>8 DEF OutagesInv, Phase

-----------------------------------------------------------------------------
(* The steps of serverM.                                                   *)

(* A request sent over quiet wires is alone there, or lost at once.        *)
LEMMA RequestSent ==
    ASSUME TypeOK, LiveEmpty, toUdp = <<>>, RepliesEmpty, UserWaits', StreamsEmpty',
           UNCHANGED <<endpoint, waiting, toUdp, toClient, process>>,
           NEW b \in Backend, NEW m, udp_send(b, m),
           RightAnswer(waiting[endpoint], BackendAnswer(b, m))
    PROVE  Phase'
<1>1. /\ toBackend'[b] = Append(toBackend[b], m)
      /\ \A d \in Backend \ {b} : toBackend'[d] = toBackend[d]
  BY DEF udp_send, TypeOK
<1>2. RepliesEmpty' /\ \A d \in Backend \ {b} : Live(d)' = <<>>
  BY <1>1 DEF RepliesEmpty, LiveEmpty, Live, Running
<1>3. CASE Running(b)
  <2>1. toBackend[b] = <<>>
    BY <1>3 DEF LiveEmpty, Live
  <2>2. Len(toBackend'[b]) = 1 /\ Head(toBackend'[b]) = m
    BY <1>1, <2>1, FirstAppended
  <2>3. waiting' = waiting /\ endpoint' = endpoint /\ Running(b)'
    BY <1>3 DEF Running
  <2>4. RightAnswer(waiting'[endpoint'], BackendAnswer(b, Head(toBackend'[b])))
    BY <2>2, <2>3
  <2> QED BY <1>2, <2>2, <2>3, <2>4 DEF Forwarded, Phase
<1>4. CASE ~Running(b)
  <2>1. LiveEmpty'
    BY <1>2, <1>4 DEF LiveEmpty, Live, Running
  <2> QED BY <1>2, <2>1 DEF Phase, NothingOwed, LiveEmpty, RepliesEmpty, Without
<1> QED BY <1>3, <1>4

(* The request of the user goes to its backend, to a thread, or is         *)
(* answered with an error at once.                                         *)
LEMMA TcpReceivePhase ==
    ASSUME OutagesInv, NEW c \in Clients, TcpReceive(c), UNCHANGED <<userVars, process>>
    PROVE  Phase'
<1> TypeOK /\ SessionsTypeOK
  BY DEF OutagesInv, OutagesTypeOK, SessionsTypeOK
<1>1. PICK n \in 1 .. Len(toM[c]) : toM' = [toM EXCEPT ![c] = SubSeq(@, n + 1, Len(@))]
  BY DEF TcpReceive
<1>2. c = endpoint /\ toM[c] # <<>> /\ toM[c] \in Seq(ClientRequest)
  BY <1>1, LenProperties, EmptySeq DEF TypeOK, TcpReceive, OutagesInv
<1>3. Requested
  BY <1>2 DEF OutagesInv, Phase, Forwarded, Returned, Answering, NothingOwed, StreamsEmpty
<1>4. PICK req \in ClientRequest : req = Head(toM[c])
  BY <1>2, HeadTyped
<1>5. /\ waiting[endpoint] = req /\ UserWaits /\ LiveEmpty /\ toUdp = <<>> /\ RepliesEmpty
      /\ UNCHANGED <<open, endpoint, toUdp, waiting, process>>
  BY <1>2, <1>3, <1>4 DEF Requested, TcpReceive, userVars
<1>6. StreamsEmpty'
  <2>1. n + 1 = 2 /\ Len(toM[c]) = 1
    BY <1>1, <1>2, <1>3 DEF Requested
  <2>2. toM' = [toM EXCEPT ![c] = <<>>]
    BY <1>1, <1>2, <2>1, LastTaken
  <2> QED BY <1>2, <1>3, <2>2 DEF StreamsEmpty, TypeOK, Requested
<1>7. ASSUME UNCHANGED toBackend, \A d \in Clients : Without(toClient'[d], ForUser)
      PROVE  Phase'
  BY <1>5, <1>6, <1>7 DEF Phase, NothingOwed, LiveEmpty, Live, Running, Without
<1>8. \A d \in Clients : Without(toClient[d], ForUser)
  BY <1>5 DEF RepliesEmpty, Without
<1>9. CASE on_auth_request_received(req)
  <2> DEFINE login == [type |-> "AUTH", user |-> Encrypt[req.user], pass |-> Encrypt[req.pass]]
  <2>1. req \in AuthRequest
    BY <1>9 DEF on_auth_request_received, ClientRequest, SingleRequest, MultiRequest
  <2>2. /\ udp_send(CredentialServer, login) /\ CredentialServer \in Backend
        /\ UNCHANGED <<toClient, pc, sem>>
    BY <1>9 DEF on_auth_request_received, Backend
  <2>3. UserWaits'
    BY <1>5, <2>2 DEF UserWaits, ThreadsStuck
  <2>4. RightAnswer(waiting[endpoint], BackendAnswer(CredentialServer, login))
    BY <1>5, <2>1, LoginIsRight DEF RightAnswers
  <2> HIDE DEF login
  <2> QED BY <1>5, <1>6, <2>2, <2>3, <2>4, RequestSent
<1>10. CASE on_course_lookup_info_request_received(req)
  <2>1. req \in SingleRequest /\ req.code \in Codes
    BY <1>10 DEF on_course_lookup_info_request_received, ClientRequest, AuthRequest,
       SingleRequest, MultiRequest
  <2>2. send_request_to_department_server(req) /\ UNCHANGED pc
    BY <1>10 DEF on_course_lookup_info_request_received
  <2>3. CASE DeptOf[req.code] \in Departments
    <3>1. PICK dept \in Departments : dept = DeptOf[req.code]
      BY <2>3
    <3>2. udp_send(dept, req) /\ dept \in Backend /\ UNCHANGED <<toClient, sem>>
      BY <2>2, <3>1, CodesAssumption DEF send_request_to_department_server, Backend
    <3>3. UserWaits'
      BY <1>5, <2>2, <3>2 DEF UserWaits, ThreadsStuck
    <3>4. RightAnswer(waiting[endpoint], BackendAnswer(dept, req))
      BY <1>5, <2>1, <3>1, CourseIsRight DEF RightAnswers
    <3> QED BY <1>5, <1>6, <3>2, <3>3, <3>4, RequestSent
  <2>4. CASE DeptOf[req.code] \notin Departments
    <3>1. /\ on_course_lookup_error_received([type |-> "ERROR", code |-> req.code])
          /\ UNCHANGED toBackend
      BY <2>2, <2>4 DEF send_request_to_department_server
    <3>2. \A d \in Clients : Without(toClient'[d], ForUser)
      BY <1>8, <2>1, <3>1, ErrorOwesNothing
    <3> QED BY <1>7, <3>1, <3>2
  <2> QED BY <2>3, <2>4
<1>11. CASE on_course_lookup_multi_request_received(req)
  <2>1. UNCHANGED <<toClient, toBackend>>
    BY <1>11 DEF on_course_lookup_multi_request_received
  <2> QED BY <1>7, <1>8, <2>1
<1> QED BY <1>4, <1>9, <1>10, <1>11 DEF TcpReceive

(* The answer to the user goes to the connection it is waited for at; what *)
(* a thread asked for goes to no connection, or says that a code is none.  *)
LEMMA UdpReceivePhase ==
    ASSUME OutagesInv, UdpReceive, UNCHANGED <<userVars, process>>
    PROVE  Phase'
<1> TypeOK
  BY DEF OutagesInv, OutagesTypeOK, SessionsTypeOK
<1>1. PICK reply \in BackendReply : reply = Head(toUdp)
  BY HeadTyped DEF UdpReceive, TypeOK
<1>2. /\ toUdp # <<>> /\ toUdp \in Seq(BackendReply) /\ toUdp' = Tail(toUdp)
      /\ UNCHANGED <<open, endpoint, toM, toBackend, pc, waiting, process>>
  BY DEF UdpReceive, threadVars, userVars, TypeOK
<1>3. Returned \/ NothingOwed
  BY <1>2 DEF OutagesInv, Phase, Requested, Forwarded, Answering
<1>4. Returned => toUdp' = <<>>
  BY <1>2, LastTaken DEF Returned
<1>5. /\ StreamsEmpty' /\ \A b \in Backend : Without(Live(b)', ForUser)
      /\ LiveEmpty => LiveEmpty'
  BY <1>2, <1>3 DEF Returned, NothingOwed, StreamsEmpty, LiveEmpty, Live, Running, Without
<1>6. Without(toUdp', ForUser)
  <2>1. CASE Returned
    BY <1>4, <2>1 DEF Without
  <2>2. CASE NothingOwed
    BY <1>2, <2>2, WithoutRead DEF NothingOwed
  <2> QED BY <1>3, <2>1, <2>2
<1>7. \A c \in Clients : Without(toClient[c], ForUser)
  BY <1>3 DEF Returned, RepliesEmpty, NothingOwed, Without
<1>8. CASE reply.type \in ForUser
  <2>1. Returned
    BY <1>1, <1>2, <1>3, <1>8, WithoutRead DEF NothingOwed
  <2>2. tcp_server_send(reply) /\ UNCHANGED sem
    BY <1>1, <1>8 DEF UdpReceive, on_auth_response_received,
       on_single_course_lookup_info_response_received, on_course_detail_response_received,
       on_error_response_received, ForUser
  <2>3. /\ endpoint \in open /\ endpoint \in Clients
        /\ toClient' = [toClient EXCEPT ![endpoint] = Append(<<>>, reply)]
    BY <2>1, <2>2 DEF Returned, UserWaits, RepliesEmpty, tcp_server_send, TypeOK
  <2>4. /\ toClient'[endpoint] = Append(<<>>, reply)
        /\ \A c \in Clients \ {endpoint} : toClient'[c] = <<>>
    BY <2>1, <2>3 DEF Returned, RepliesEmpty, TypeOK
  <2>5. Len(toClient'[endpoint]) = 1 /\ Head(toClient'[endpoint]) = reply
    BY <2>4, FirstAppended
  <2>6. RightAnswer(waiting[endpoint], reply) /\ endpoint' = endpoint /\ waiting' = waiting
    BY <1>1, <1>2, <2>1 DEF Returned
  <2>7. UserWaits' /\ LiveEmpty'
    BY <1>2, <1>5, <2>1, <2>2 DEF Returned, UserWaits, ThreadsStuck
  <2> QED BY <1>4, <1>5, <2>1, <2>4, <2>5, <2>6, <2>7 DEF Answering, Phase
<1>9. CASE reply.type \notin ForUser
  <2>1. \A c \in Clients : Without(toClient'[c], ForUser)
    <3>1. CASE reply.type = "ERROR"
      <4>1. reply = [type |-> "ERROR", code |-> reply.code] /\ reply.code \in Codes
        BY <3>1 DEF BackendReply, AuthReply, SingleReply, DetailReply, ErrorReply
      <4>2. on_course_lookup_error_received(reply)
        BY <1>1, <3>1 DEF UdpReceive, on_auth_response_received,
           on_single_course_lookup_info_response_received, on_course_detail_response_received,
           on_error_response_received
      <4>3. PICK code \in Codes : code = reply.code
        BY <4>1
      <4>4. on_course_lookup_error_received([type |-> "ERROR", code |-> code])
        BY <4>1, <4>2, <4>3
      <4> QED BY <1>7, <4>4, ErrorOwesNothing
    <3>2. CASE reply.type # "ERROR"
      <4>1. UNCHANGED toClient
        BY <1>1, <1>9, <3>2 DEF UdpReceive, on_auth_response_received,
           on_single_course_lookup_info_response_received, on_course_detail_response_received,
           on_error_response_received, ForUser
      <4> QED BY <1>7, <4>1
    <3> QED BY <3>1, <3>2
  <2> QED BY <1>5, <1>6, <2>1 DEF NothingOwed, Phase
<1> QED BY <1>8, <1>9

(* A thread asks the departments, and tells the client of several courses  *)
(* or of a code that is none.                                              *)
LEMMA ThreadStepPhase ==
    ASSUME OutagesInv, NEW t \in Threads, QueryThreadStep(t)
    PROVE  Phase'
<1> USE DEF mainVars, threadVars, listVars, wireVars
<1> TypeOK
  BY DEF OutagesInv, OutagesTypeOK, SessionsTypeOK
<1>1. ThreadStep(t) /\ UNCHANGED process
  BY DEF QueryThreadStep
<1>2. NothingOwed
  BY <1>1, StuckThreadsStay DEF OutagesInv, Phase, Requested, Forwarded, Returned, Answering,
     UserWaits
<1>3. UNCHANGED <<toM, toUdp>>
  BY <1>1 DEF ThreadStep, ThreadReset, ThreadDecode, ThreadAsk, ThreadWake, ThreadAsked,
     ThreadRespond, ThreadFree, ThreadClear, ThreadExit
<1>4. ASSUME \A c \in Clients : Without(toClient'[c], ForUser),
             \A b \in Backend : Without(toBackend[b], ForUser) => Without(toBackend'[b], ForUser)
      PROVE  Phase'
  <2>1. \A b \in Backend : Without(Live(b)', ForUser)
    BY <1>1, <1>2, <1>4 DEF NothingOwed, Live, Running, Without
  <2> QED BY <1>2, <1>3, <1>4, <2>1 DEF NothingOwed, Phase, StreamsEmpty
<1>5. \A c \in Clients : Without(toClient[c], ForUser)
  BY <1>2 DEF NothingOwed
<1>6. CASE ThreadAsk(t)
  <2>1. PICK code \in Codes : code = query[t][asked[t] + 1]
    <3>1. query[t] \in Seq(Codes) /\ asked[t] \in Nat /\ asked[t] < Len(query[t])
      BY <1>6 DEF TypeOK, ThreadAsk
    <3> QED BY <3>1, ElementOfSeq, LenProperties
  <2>2. send_request_to_department_server(Detail(code))
    BY <1>6, <2>1 DEF ThreadAsk, Detail
  <2>3. CASE DeptOf[code] \in Departments
    <3>1. PICK dept \in Departments : dept = DeptOf[code]
      BY <2>3
    <3>2. udp_send(dept, Detail(code)) /\ UNCHANGED toClient
      BY <2>2, <3>1, CodesAssumption DEF send_request_to_department_server, Detail
    <3>3. dept \in Backend /\ Detail(code) \in BackendRequest(dept)
      BY DEF Backend, Detail, BackendRequest, DetailRequest, Departments, CredentialServer
    <3>4. /\ toBackend[dept] \in Seq(BackendRequest(dept))
          /\ toBackend'[dept] = Append(toBackend[dept], Detail(code))
          /\ \A d \in Backend \ {dept} : toBackend'[d] = toBackend[d]
      BY <3>2, <3>3 DEF udp_send, TypeOK
    <3>5. Without(toBackend[dept], ForUser) => Without(toBackend'[dept], ForUser)
      BY <3>3, <3>4, WithoutWritten DEF Detail, ForUser
    <3> QED BY <1>4, <1>5, <3>2, <3>4, <3>5
  <2>4. CASE DeptOf[code] \notin Departments
    <3>1. /\ on_course_lookup_error_received([type |-> "ERROR", code |-> code])
          /\ UNCHANGED toBackend
      BY <2>2, <2>4 DEF send_request_to_department_server, Detail
    <3>2. \A c \in Clients : Without(toClient'[c], ForUser)
      BY <1>5, <3>1, ErrorOwesNothing
    <3> QED BY <1>4, <3>1, <3>2
  <2> QED BY <2>3, <2>4
<1>7. CASE ThreadRespond(t) /\ list # <<>>
  <2>1. /\ tcp_server_send([type |-> "MULTI", codes |-> list])
        /\ UNCHANGED toBackend
    BY <1>7 DEF ThreadRespond
  <2>2. [type |-> "MULTI", codes |-> list] \in ClientReply
    BY DEF TypeOK, ClientReply, MultiReply
  <2>3. \A c \in Clients : Without(toClient'[c], ForUser)
    BY <1>5, <2>1, <2>2, OtherReplySent DEF ForUser
  <2> QED BY <1>4, <2>1, <2>3
<1>8. CASE ~ThreadAsk(t) /\ ~(ThreadRespond(t) /\ list # <<>>)
  <2>1. UNCHANGED <<toClient, toBackend>>
    BY <1>1, <1>8 DEF ThreadStep, ThreadReset, ThreadDecode, ThreadWake, ThreadAsked,
       ThreadRespond, ThreadFree, ThreadClear, ThreadExit
  <2> QED BY <1>4, <1>5, <2>1
<1> QED BY <1>6, <1>7, <1>8

-----------------------------------------------------------------------------
(* The steps of the user.                                                  *)

(* The user of the one connection asks, reads the answer, or gives up when *)
(* none can come.                                                          *)
LEMMA UserStepPhase ==
    ASSUME OutagesInv, NEW c \in Clients, UserStep(c)
    PROVE  Phase' /\ (open \subseteq {endpoint})'
<1> TypeOK /\ SessionsTypeOK /\ open \subseteq {endpoint} /\ Phase
  BY DEF OutagesInv, OutagesTypeOK, SessionsTypeOK
<1>1. CASE Stalled /\ open = {} /\ Connect(c)
  <2>1. /\ open' = {c} /\ endpoint' = c
        /\ toM' = [toM EXCEPT ![c] = <<>>] /\ toClient' = [toClient EXCEPT ![c] = <<>>]
        /\ UNCHANGED <<toBackend, toUdp, process>>
    BY <1>1 DEF Connect, Accept, wireVars, UserStep
  <2>2. NothingOwed /\ RepliesEmpty
    BY <1>1, StalledOwesNothing
  <2>3. NothingOwed'
    BY <2>1, <2>2 DEF NothingOwed, RepliesEmpty, StreamsEmpty, Live, Running, Without, TypeOK
  <2> QED BY <2>1, <2>3 DEF Phase
<1>2. ASSUME NEW req \in Logins \cup Queries, Stalled, Ask(c, req)
      PROVE  Phase' /\ (open \subseteq {endpoint})'
  <2>1. /\ LiveEmpty /\ RepliesEmpty /\ StreamsEmpty /\ toUdp = <<>> /\ ThreadsStuck
    BY <1>2, StalledOwesNothing DEF Stalled, ThreadsStuck
  <2>2. /\ c \in open /\ c = endpoint
        /\ toM' = [toM EXCEPT ![c] = Append(<<>>, req)]
        /\ waiting' = [waiting EXCEPT ![c] = req]
        /\ UNCHANGED <<open, endpoint, toClient, toBackend, toUdp, pc, sem, process>>
    BY <1>2, <2>1 DEF Ask, ClientSend, wireVars, threadVars, StreamsEmpty, UserStep
  <2>3. req # NoQuery
    BY SessionsAssumption DEF ClientRequest
  <2>4. /\ waiting'[c] = req /\ toM'[c] = Append(<<>>, req)
        /\ \A d \in Clients \ {c} : toM'[d] = <<>>
    BY <2>1, <2>2 DEF StreamsEmpty, SessionsTypeOK, TypeOK
  <2>5. Len(toM'[c]) = 1 /\ Head(toM'[c]) = req
    BY <2>4, FirstAppended
  <2>6. UserWaits' /\ LiveEmpty' /\ RepliesEmpty' /\ toUdp' = <<>>
    BY <2>1, <2>2, <2>3, <2>4 DEF UserWaits, ThreadsStuck, LiveEmpty, Live, Running, RepliesEmpty
  <2>7. Requested'
    BY <2>2, <2>4, <2>5, <2>6 DEF Requested
  <2> QED BY <2>2, <2>7 DEF Phase
<1>3. CASE GetReply(c)
  <2>1. /\ toClient[c] # <<>> /\ toClient[c] \in Seq(ClientReply)
        /\ toClient'[c] = Tail(toClient[c])
        /\ \A d \in Clients \ {c} : toClient'[d] = toClient[d]
        /\ UNCHANGED <<open, endpoint, toM, toBackend, toUdp, process>>
    BY <1>3 DEF GetReply, ClientRead, mainVars, wireVars, TypeOK, UserStep
  <2>2. Answering \/ NothingOwed
    BY <2>1 DEF Phase, Requested, Forwarded, Returned, RepliesEmpty
  <2>3. \A d \in Clients : Without(toClient'[d], ForUser)
    <3>1. CASE Answering
      <4>1. c = endpoint /\ Len(toClient[c]) = 1
        BY <2>1, <3>1 DEF Answering
      <4>2. \A d \in Clients : toClient'[d] = <<>>
        BY <2>1, <3>1, <4>1, LastTaken DEF Answering
      <4> QED BY <4>2 DEF Without
    <3>2. CASE NothingOwed
      <4>1. Without(toClient'[c], ForUser)
        BY <2>1, <3>2, WithoutRead DEF NothingOwed
      <4> QED BY <2>1, <3>2, <4>1 DEF NothingOwed
    <3> QED BY <2>2, <3>1, <3>2
  <2>4. NothingOwed'
    BY <2>1, <2>2, <2>3 DEF NothingOwed, Answering, StreamsEmpty, LiveEmpty, Live, Running,
       Without
  <2> QED BY <2>1, <2>4 DEF Phase
<1>4. CASE Stalled /\ GiveUp(c)
  <2>1. UNCHANGED <<open, endpoint, toM, toClient, toBackend, toUdp, process>>
    BY <1>4 DEF GiveUp, serverVars, mainVars, wireVars, UserStep
  <2>2. NothingOwed'
    BY <1>4, <2>1, StalledOwesNothing DEF NothingOwed, StreamsEmpty, Live, Running
  <2> QED BY <2>1, <2>2 DEF Phase
<1> QED BY <1>1, <1>2, <1>3, <1>4 DEF UserStep

-----------------------------------------------------------------------------
(* The theorem.                                                            *)

(* The phases follow each other, whatever is lost and started.             *)
LEMMA OutagesKept ==
    ASSUME OutagesInv, [OutagesNext]_outageVars
    PROVE  OutagesInv'
<1>1. OutagesTypeOK'
  BY OutagesTyped DEF OutagesInv
<1>2. ASSUME UNCHANGED <<open, endpoint>>
      PROVE  (open \subseteq {endpoint})'
  BY <1>2 DEF OutagesInv
<1>3. CASE MainStep
  <2>1. UNCHANGED <<open, endpoint>>
    BY <1>3 DEF MainStep, UdpReceive, TcpReceive
  <2>2. Phase'
    BY <1>3, UdpReceivePhase, TcpReceivePhase DEF MainStep
  <2> QED BY <1>1, <1>2, <2>1, <2>2 DEF OutagesInv
<1>4. ASSUME NEW t \in Threads, QueryThreadStep(t)
      PROVE  OutagesInv'
  <2>1. UNCHANGED <<open, endpoint>>
    BY <1>4 DEF QueryThreadStep, ThreadStep, ThreadReset, ThreadDecode, ThreadAsk, ThreadWake,
       ThreadAsked, ThreadRespond, ThreadFree, ThreadClear, ThreadExit, mainVars
  <2> QED BY <1>1, <1>2, <1>4, <2>1, ThreadStepPhase DEF OutagesInv
<1>5. ASSUME NEW b \in Backend, BackendServes(b)
      PROVE  OutagesInv'
  <2>1. UNCHANGED <<open, endpoint>>
    BY <1>5 DEF BackendServes, BackendServe, mainVars
  <2> QED BY <1>1, <1>2, <1>5, <2>1, BackendServesPhase DEF OutagesInv
<1>6. ASSUME NEW b \in Backend, \/ Stop(b)
                                \/ \E args \in {NoArgs, WithFile} : Start(b, args)
      PROVE  OutagesInv'
  <2>1. BindOrEnd(b) /\ \A d \in Backend \ {b} : process'[d] = process[d]
    BY <1>6 DEF Stop, Start, OutagesInv, OutagesTypeOK
  <2>2. UNCHANGED <<open, endpoint>>
    BY <2>1 DEF BindOrEnd, mainVars
  <2> QED BY <1>1, <1>2, <2>1, <2>2, BindKeepsPhase DEF OutagesInv
<1>7. ASSUME NEW b \in Backend, Lost(b)
      PROVE  OutagesInv'
  <2>1. UNCHANGED <<open, endpoint>>
    BY <1>7 DEF Lost, mainVars
  <2> QED BY <1>1, <1>2, <1>7, <2>1, LostKeepsPhase DEF OutagesInv
<1>8. ASSUME NEW c \in Clients, UserStep(c)
      PROVE  OutagesInv'
  BY <1>1, <1>8, UserStepPhase DEF OutagesInv
<1>9. CASE UNCHANGED outageVars
  <2>1. UNCHANGED <<open, endpoint, toM, toClient, toBackend, toUdp, pc, sem, waiting, process>>
    BY <1>9 DEF outageVars, vars, serverVars, userVars, mainVars, wireVars, threadVars
  <2>2. Phase'
    BY <2>1 DEF OutagesInv, Phase, Requested, Forwarded, Returned, Answering, NothingOwed,
       UserWaits, ThreadsStuck, StreamsEmpty, LiveEmpty, RepliesEmpty, Live, Running, Without
  <2> QED BY <1>1, <1>2, <2>1, <2>2 DEF OutagesInv
<1> QED BY <1>3, <1>4, <1>5, <1>6, <1>7, <1>8, <1>9 DEF OutagesNext

(* A verdict or the answer to a single query is for the request its user   *)
(* waits for, whatever backends end and start, whatever is lost with them, *)
(* and however many earlier queries were given up (serverM.c:86, 219).     *)
THEOREM OutagesReplies == OutagesSpec => []ReplyIsForThisRequest
<1>1. OutagesInit => OutagesInv
  <2> SUFFICES ASSUME OutagesInit PROVE OutagesInv
    OBVIOUS
  <2>1. OutagesTypeOK
    BY InitTyped DEF OutagesInit, OutagesTypeOK
  <2>2. NothingOwed /\ open \subseteq {endpoint}
    BY DEF OutagesInit, Init, ServerInit, NothingOwed, StreamsEmpty, Live, Running, Without
  <2> QED BY <2>1, <2>2 DEF OutagesInv, Phase
<1>2. OutagesInv /\ [OutagesNext]_outageVars => OutagesInv'
  BY OutagesKept
<1>3. ASSUME OutagesInv
      PROVE  ReplyIsForThisRequest
  <2> SUFFICES ASSUME NEW c \in Clients, toClient[c] # <<>>, Head(toClient[c]).type \in ForUser
               PROVE  waiting[c] # NoQuery /\ RightAnswer(waiting[c], Head(toClient[c]))
    BY DEF ReplyIsForThisRequest, ForUser
  <2>1. ~NothingOwed
    <3>1. toClient[c] \in Seq(ClientReply)
      BY <1>3 DEF OutagesInv, OutagesTypeOK, SessionsTypeOK, TypeOK
    <3> QED BY <3>1, WithoutRead DEF NothingOwed
  <2>2. Answering
    BY <1>3, <2>1 DEF OutagesInv, Phase, Requested, Forwarded, Returned, RepliesEmpty
  <2>3. c = endpoint
    BY <2>2 DEF Answering
  <2> QED BY <2>2, <2>3 DEF Answering, UserWaits
<1> QED BY <1>1, <1>2, <1>3, PTL DEF OutagesSpec
=============================================================================
