--------------------------- MODULE Sessions_proofs ---------------------------
(***************************************************************************)
(* Proofs about Sessions: type correctness under both disciplines, and the *)
(* hand-off between the main thread and its query threads when one query   *)
(* is in the system at a time.                                             *)
(***************************************************************************)
EXTENDS Sessions, SequenceTheorems, TLAPS

-----------------------------------------------------------------------------
(* Lemmas on what the messages are.                                        *)

(* The reply of a backend has the type of its request, or is an error.     *)
LEMMA BackendAnswerType ==
    ASSUME NEW b \in Backend, NEW req \in BackendRequest(b)
    PROVE  /\ BackendAnswer(b, req) \in BackendReply
           /\ BackendAnswer(b, req).type \in {req.type, "ERROR"}
<1>1. CASE b = CredentialServer
  BY <1>1 DEF BackendAnswer, BackendRequest, CredentialReply, BackendReply, AuthReply,
     AuthRequest, AuthFlags, database_credentials_validate
<1>2. CASE b # CredentialServer
  <2>1. req.type \in {"SINGLE", "DETAIL"} /\ req.code \in Codes
    BY <1>2 DEF BackendRequest, SingleRequest, DetailRequest
  <2>2. BackendAnswer(b, req) = DepartmentReply(b, req)
    BY <1>2 DEF BackendAnswer
  <2> QED
    BY <2>1, <2>2 DEF DepartmentReply, BackendReply, SingleReply, DetailReply, ErrorReply
<1> QED BY <1>1, <1>2

(* Encrypted credentials are still an authentication request.              *)
LEMMA EncryptedLogin ==
    ASSUME NEW req \in AuthRequest
    PROVE  [type |-> "AUTH", user |-> Encrypt[req.user], pass |-> Encrypt[req.pass]]
               \in BackendRequest(CredentialServer)
BY WordsAssumption DEF AuthRequest, BackendRequest

(* Taking messages off the front of a channel leaves a channel.            *)
LEMMA FrontRemoved ==
    ASSUME NEW S, NEW s \in Seq(S), NEW n \in 1 .. Len(s)
    PROVE  SubSeq(s, n + 1, Len(s)) \in Seq(S)
<1>1. \A i \in n + 1 .. Len(s) : s[i] \in S
  BY LenProperties, ElementOfSeq
<1> QED BY <1>1, SubSeqProperties, LenProperties

(* The first element of a queue that holds something is of its type.       *)
LEMMA HeadTyped ==
    ASSUME NEW S, NEW s \in Seq(S), s # <<>>
    PROVE  Head(s) \in S /\ Tail(s) \in Seq(S) /\ Len(s) \in Nat \ {0}
BY HeadTailProperties, LenProperties, EmptySeq

-----------------------------------------------------------------------------
(* Type correctness, one lemma per handler.                                *)

BackendChannels ==
    /\ DOMAIN toBackend = Backend
    /\ \A b \in Backend : toBackend[b] \in Seq(BackendRequest(b))

(* tcp_server_send puts a reply on the stream of the newest connection.    *)
LEMMA SendTyped ==
    ASSUME TypeOK, NEW reply \in ClientReply, tcp_server_send(reply)
    PROVE  toClient' \in [Clients -> Seq(ClientReply)]
<1>1. CASE endpoint \in open
  <2>1. toClient[endpoint] \in Seq(ClientReply)
    BY <1>1 DEF TypeOK
  <2>2. Append(toClient[endpoint], reply) \in Seq(ClientReply)
    BY <2>1, AppendProperties
  <2> QED BY <1>1, <2>2 DEF TypeOK, tcp_server_send
<1>2. CASE endpoint \notin open
  BY <1>2 DEF TypeOK, tcp_server_send
<1> QED BY <1>1, <1>2

(* udp_send puts a request that its backend takes on the socket of it.     *)
LEMMA UdpSendTyped ==
    ASSUME TypeOK, NEW b \in Backend, NEW req \in BackendRequest(b), udp_send(b, req)
    PROVE  BackendChannels'
<1>1. Append(toBackend[b], req) \in Seq(BackendRequest(b))
  BY AppendProperties DEF TypeOK
<1> QED BY <1>1 DEF TypeOK, udp_send, BackendChannels

(* An unknown code is answered or posted: stream and token keep their type.*)
LEMMA ErrorTyped ==
    ASSUME TypeOK, NEW reply \in ErrorReply, on_course_lookup_error_received(reply)
    PROVE  toClient' \in [Clients -> Seq(ClientReply)] /\ sem' \in Nat
<1>1. CASE thread = NoThread
  <2>1. reply \in ClientReply
    BY DEF ClientReply
  <2>2. tcp_server_send(reply) /\ sem' = sem
    BY <1>1 DEF on_course_lookup_error_received
  <2>3. toClient' \in [Clients -> Seq(ClientReply)]
    BY <2>1, <2>2, SendTyped
  <2> QED BY <2>2, <2>3 DEF TypeOK
<1>2. CASE thread # NoThread
  BY <1>2 DEF TypeOK, on_course_lookup_error_received
<1> QED BY <1>1, <1>2

(* A request for a department is sent to it or answered as unknown.        *)
LEMMA ForwardTyped ==
    ASSUME TypeOK, NEW req \in SingleRequest \cup DetailRequest,
           send_request_to_department_server(req)
    PROVE  /\ toClient' \in [Clients -> Seq(ClientReply)]
           /\ sem' \in Nat
           /\ BackendChannels'
<1>0. req.code \in Codes
  BY DEF SingleRequest, DetailRequest
<1>1. CASE DeptOf[req.code] \in Departments
  <2>1. /\ udp_send(DeptOf[req.code], req)
        /\ UNCHANGED <<toClient, sem>>
    BY <1>1, CodesAssumption DEF send_request_to_department_server
  <2>2. DeptOf[req.code] \in Backend /\ req \in BackendRequest(DeptOf[req.code])
    BY <1>1 DEF Backend, BackendRequest, Departments, CredentialServer
  <2>3. BackendChannels'
    BY <2>1, <2>2, UdpSendTyped
  <2> QED BY <2>1, <2>3 DEF TypeOK
<1>2. CASE DeptOf[req.code] \notin Departments
  <2>1. /\ on_course_lookup_error_received([type |-> "ERROR", code |-> req.code])
        /\ UNCHANGED toBackend
    BY <1>2 DEF send_request_to_department_server
  <2>2. [type |-> "ERROR", code |-> req.code] \in ErrorReply
    BY <1>0 DEF ErrorReply
  <2>3. toClient' \in [Clients -> Seq(ClientReply)] /\ sem' \in Nat
    BY <2>1, <2>2, ErrorTyped
  <2> QED BY <2>1, <2>3 DEF TypeOK, BackendChannels
<1> QED BY <1>1, <1>2

(* A new connection has empty streams.                                     *)
LEMMA AcceptTyped ==
    ASSUME TypeOK, NEW c \in Clients, Accept(c)
    PROVE  TypeOK'
BY EmptySeq DEF TypeOK, Accept, MayClobber, wireVars, threadVars, listVars

(* A client that leaves changes the set of open connections only.          *)
LEMMA DisconnectTyped ==
    ASSUME TypeOK, NEW c \in Clients, Disconnect(c)
    PROVE  TypeOK'
BY DEF TypeOK, Disconnect, MayClobber, wireVars, threadVars, listVars

(* The handlers of the three requests of a client keep the types.          *)
LEMMA TcpReceiveTyped ==
    ASSUME TypeOK, NEW c \in Clients, TcpReceive(c)
    PROVE  TypeOK'
<1> DEFINE req == Head(toM[c])
<1>1. PICK n \in 1 .. Len(toM[c]) : toM' = [toM EXCEPT ![c] = SubSeq(@, n + 1, Len(@))]
  BY DEF TcpReceive
<1>2. toM[c] \in Seq(ClientRequest) /\ toM[c] # <<>>
  BY <1>1, LenProperties, EmptySeq DEF TypeOK
<1>3. req \in ClientRequest
  BY <1>2, HeadTyped
<1>4. SubSeq(toM[c], n + 1, Len(toM[c])) \in Seq(ClientRequest)
  BY <1>1, <1>2, FrontRemoved
<1>5. toM' \in [Clients -> Seq(ClientRequest)]
  BY <1>1, <1>4 DEF TypeOK
<1>6. frame' \in ClientRequest \cup {Clobbered}
  BY <1>3 DEF TcpReceive
<1>7. UNCHANGED <<open, endpoint, toUdp, query, asked, list, dangling>>
  BY DEF TcpReceive, listVars
<1>8. /\ username' \in UserField
      /\ thread' \in Threads \cup {NoThread}
      /\ pc' \in [Threads -> PcLabels]
      /\ toClient' \in [Clients -> Seq(ClientReply)]
      /\ BackendChannels'
      /\ sem' \in Nat
  <2>1. CASE on_auth_request_received(req)
    <3>1. req \in AuthRequest
      BY <1>3, <2>1 DEF on_auth_request_received, ClientRequest, AuthRequest, SingleRequest,
         MultiRequest
    <3>2. BackendChannels'
      BY <2>1, <3>1, EncryptedLogin, UdpSendTyped DEF on_auth_request_received, Backend
    <3>3. username' \in UserField
      BY <2>1, <3>1, ServerMAssumption DEF on_auth_request_received, set_username, UserField,
         TypeOK, AuthRequest
    <3> QED BY <2>1, <3>2, <3>3 DEF on_auth_request_received, TypeOK
  <2>2. CASE on_course_lookup_info_request_received(req)
    <3>1. req \in SingleRequest
      BY <1>3, <2>2 DEF on_course_lookup_info_request_received, ClientRequest, AuthRequest,
         SingleRequest, MultiRequest
    <3>2. send_request_to_department_server(req) /\ UNCHANGED <<username, thread, pc>>
      BY <2>2 DEF on_course_lookup_info_request_received
    <3>3. /\ toClient' \in [Clients -> Seq(ClientReply)]
          /\ sem' \in Nat
          /\ BackendChannels'
      BY <3>1, <3>2, ForwardTyped
    <3> QED BY <3>2, <3>3 DEF TypeOK
  <2>3. CASE on_course_lookup_multi_request_received(req)
    BY <2>3 DEF on_course_lookup_multi_request_received, TypeOK, PcLabels, BackendChannels
  <2> QED BY <2>1, <2>2, <2>3 DEF TcpReceive
<1> QED BY <1>5, <1>6, <1>7, <1>8 DEF TypeOK, BackendChannels

(* The handlers of the four replies of a backend keep the types.           *)
LEMMA UdpReceiveTyped ==
    ASSUME TypeOK, UdpReceive
    PROVE  TypeOK'
<1> DEFINE reply == Head(toUdp)
<1>1. reply \in BackendReply /\ Tail(toUdp) \in Seq(BackendReply)
  BY HeadTyped DEF TypeOK, UdpReceive
<1>2. /\ username' \in UserField
      /\ toClient' \in [Clients -> Seq(ClientReply)]
      /\ list' \in Seq(Codes)
      /\ sem' \in Nat
  <2>1. CASE on_auth_response_received(reply)
    <3>1. reply \in ClientReply
      BY <1>1, <2>1 DEF on_auth_response_received, BackendReply, ClientReply, AuthReply,
         SingleReply, DetailReply, ErrorReply
    <3>2. tcp_server_send(reply) /\ UNCHANGED <<list, sem>>
      BY <2>1 DEF on_auth_response_received
    <3>3. toClient' \in [Clients -> Seq(ClientReply)]
      BY <3>1, <3>2, SendTyped
    <3>4. username' \in UserField
      BY <2>1 DEF on_auth_response_received, clear_username, UserField, TypeOK
    <3> QED BY <3>2, <3>3, <3>4 DEF TypeOK
  <2>2. CASE on_single_course_lookup_info_response_received(reply)
    <3>1. reply \in ClientReply
      BY <1>1, <2>2 DEF on_single_course_lookup_info_response_received, BackendReply,
         ClientReply, AuthReply, SingleReply, DetailReply, ErrorReply
    <3>2. tcp_server_send(reply) /\ UNCHANGED <<username, list, sem>>
      BY <2>2 DEF on_single_course_lookup_info_response_received
    <3>3. toClient' \in [Clients -> Seq(ClientReply)]
      BY <3>1, <3>2, SendTyped
    <3> QED BY <3>2, <3>3 DEF TypeOK
  <2>3. CASE on_course_detail_response_received(reply)
    <3>1. reply.code \in Codes
      BY <1>1, <2>3 DEF on_course_detail_response_received, BackendReply, AuthReply,
         SingleReply, DetailReply, ErrorReply
    <3>2. Append(list, reply.code) \in Seq(Codes)
      BY <3>1, AppendProperties DEF TypeOK
    <3> QED BY <2>3, <3>2 DEF on_course_detail_response_received, TypeOK
  <2>4. CASE on_error_response_received(reply)
    <3>1. reply \in ErrorReply
      BY <1>1, <2>4 DEF on_error_response_received, BackendReply, AuthReply, SingleReply,
         DetailReply, ErrorReply
    <3>2. on_course_lookup_error_received(reply) /\ UNCHANGED <<username, list>>
      BY <2>4 DEF on_error_response_received
    <3>3. toClient' \in [Clients -> Seq(ClientReply)] /\ sem' \in Nat
      BY <3>1, <3>2, ErrorTyped
    <3> QED BY <3>2, <3>3 DEF TypeOK
  <2> QED BY <2>1, <2>2, <2>3, <2>4 DEF UdpReceive
<1> QED BY <1>1, <1>2 DEF TypeOK, UdpReceive, MayClobber, threadVars

(* multi_request_thread keeps the types, at every line of it.              *)
LEMMA ThreadStepTyped ==
    ASSUME TypeOK, NEW t \in Threads, ThreadStep(t)
    PROVE  TypeOK'
<1> USE DEF GoTo, mainVars, threadVars, listVars, wireVars
<1>1. pc' \in [Threads -> PcLabels]
  BY DEF TypeOK, ThreadStep, ThreadReset, ThreadDecode, ThreadAsk, ThreadWake, ThreadAsked,
     ThreadRespond, ThreadFree, ThreadClear, ThreadExit, PcLabels
<1>2. CASE ThreadReset(t)
  BY <1>1, <1>2, EmptySeq DEF TypeOK, ThreadReset
<1>3. CASE ThreadDecode(t)
  <2>1. \A codes \in Decoded : codes \in Seq(Codes)
    <3>1. CASE frame = Clobbered
      BY <3>1, ServerMAssumption DEF Decoded
    <3>2. CASE frame # Clobbered /\ frame.type = "MULTI"
      BY <3>2 DEF Decoded, TypeOK, ClientRequest, AuthRequest, SingleRequest, MultiRequest
    <3>3. CASE frame # Clobbered /\ frame.type # "MULTI"
      BY <3>3, EmptySeq DEF Decoded
    <3> QED BY <3>1, <3>2, <3>3
  <2> QED BY <1>1, <1>3, <2>1 DEF TypeOK, ThreadDecode
<1>4. CASE ThreadAsk(t)
  <2>1. query[t][asked[t] + 1] \in Codes
    <3>1. query[t] \in Seq(Codes) /\ asked[t] \in Nat /\ asked[t] < Len(query[t])
      BY <1>4 DEF TypeOK, ThreadAsk
    <3> QED BY <3>1, ElementOfSeq, LenProperties
  <2>2. [type |-> "DETAIL", code |-> query[t][asked[t] + 1]] \in SingleRequest \cup DetailRequest
    BY <2>1 DEF DetailRequest
  <2>3. /\ toClient' \in [Clients -> Seq(ClientReply)]
        /\ sem' \in Nat
        /\ BackendChannels'
    BY <1>4, <2>2, ForwardTyped DEF ThreadAsk
  <2> QED BY <1>1, <1>4, <2>3 DEF TypeOK, ThreadAsk, BackendChannels
<1>5. CASE ThreadWake(t)
  BY <1>1, <1>5 DEF TypeOK, ThreadWake
<1>6. CASE ThreadAsked(t)
  BY <1>1, <1>6 DEF TypeOK, ThreadAsked
<1>7. CASE ThreadRespond(t)
  <2>1. toClient' \in [Clients -> Seq(ClientReply)]
    <3>1. CASE list # <<>>
      <4>1. [type |-> "MULTI", codes |-> list] \in ClientReply
        BY DEF TypeOK, ClientReply, MultiReply
      <4>2. tcp_server_send([type |-> "MULTI", codes |-> list])
        BY <1>7, <3>1 DEF ThreadRespond
      <4> QED BY <4>1, <4>2, SendTyped
    <3>2. CASE list = <<>>
      BY <1>7, <3>2 DEF ThreadRespond, TypeOK
    <3> QED BY <3>1, <3>2
  <2> QED BY <1>1, <1>7, <2>1 DEF TypeOK, ThreadRespond
<1>8. CASE ThreadFree(t)
  BY <1>1, <1>8 DEF TypeOK, ThreadFree
<1>9. CASE ThreadClear(t)
  BY <1>1, <1>9, EmptySeq DEF TypeOK, ThreadClear
<1>10. CASE ThreadExit(t)
  BY <1>1, <1>10, EmptySeq DEF TypeOK, ThreadExit
<1> QED BY <1>2, <1>3, <1>4, <1>5, <1>6, <1>7, <1>8, <1>9, <1>10 DEF ThreadStep

(* A backend answers with a reply serverM knows.                           *)
LEMMA BackendServeTyped ==
    ASSUME TypeOK, NEW b \in Backend, BackendServe(b)
    PROVE  TypeOK'
<1>1. /\ toBackend[b] \in Seq(BackendRequest(b))
      /\ toBackend[b] # <<>>
  BY DEF TypeOK, BackendServe
<1>2. /\ Head(toBackend[b]) \in BackendRequest(b)
      /\ Tail(toBackend[b]) \in Seq(BackendRequest(b))
  BY <1>1, HeadTyped
<1>3. BackendAnswer(b, Head(toBackend[b])) \in BackendReply
  BY <1>2, BackendAnswerType
<1>4. toUdp' \in Seq(BackendReply)
  BY <1>3, AppendProperties DEF TypeOK, BackendServe
<1> QED BY <1>2, <1>4 DEF TypeOK, BackendServe, mainVars, threadVars, listVars

(* A request on the stream of a client is one of the three types.          *)
LEMMA ClientSendTyped ==
    ASSUME TypeOK, NEW c \in Clients, NEW req \in ClientRequest, ClientSend(c, req)
    PROVE  TypeOK'
<1>1. Append(toM[c], req) \in Seq(ClientRequest)
  BY AppendProperties DEF TypeOK
<1> QED BY <1>1 DEF TypeOK, ClientSend, wireVars, threadVars, listVars

(* A client takes the first reply off its stream.                          *)
LEMMA ClientReadTyped ==
    ASSUME TypeOK, NEW c \in Clients, ClientRead(c)
    PROVE  TypeOK'
<1>1. Tail(toClient[c]) \in Seq(ClientReply)
  BY HeadTyped DEF TypeOK, ClientRead
<1> QED BY <1>1 DEF TypeOK, ClientRead, mainVars, wireVars, threadVars, listVars

(* No step of serverM or a backend leaves the types.                       *)
LEMMA ServerStepTyped ==
    ASSUME TypeOK, ServerStep
    PROVE  TypeOK'
BY UdpReceiveTyped, TcpReceiveTyped, ThreadStepTyped, BackendServeTyped DEF ServerStep

(* The steps of a client keep the types, whatever lets them happen.        *)
LEMMA ClientStepTyped ==
    ASSUME SessionsTypeOK, NEW c \in Clients,
           \/ Connect(c)
           \/ Leave(c)
           \/ \E req \in Logins \cup Queries : Ask(c, req)
           \/ GetReply(c)
           \/ GiveUp(c)
    PROVE  SessionsTypeOK'
<1> TypeOK
  BY DEF SessionsTypeOK
<1>1. CASE Connect(c)
  BY <1>1, AcceptTyped DEF SessionsTypeOK, Connect
<1>2. CASE Leave(c)
  BY <1>2, DisconnectTyped DEF SessionsTypeOK, Leave
<1>3. ASSUME NEW req \in Logins \cup Queries, Ask(c, req)
      PROVE  SessionsTypeOK'
  <2>1. req \in ClientRequest
    BY SessionsAssumption DEF ClientRequest
  <2>2. TypeOK'
    BY <1>3, <2>1, ClientSendTyped DEF Ask
  <2> QED BY <1>3, <2>1, <2>2 DEF SessionsTypeOK, Ask
<1>4. CASE GetReply(c)
  <2>1. TypeOK'
    BY <1>4, ClientReadTyped DEF GetReply
  <2>2. LoggedIn(c) => waiting[c].user \in Words
    BY SessionsAssumption DEF LoggedIn, SessionsTypeOK, ClientRequest, AuthRequest,
       SingleRequest, MultiRequest
  <2>3. who' \in [Clients -> Words \cup {NoName}]
    BY <1>4, <2>2 DEF SessionsTypeOK, GetReply
  <2>4. waiting' \in [Clients -> ClientRequest \cup {NoQuery}]
    BY <1>4 DEF SessionsTypeOK, GetReply
  <2> QED BY <2>1, <2>3, <2>4 DEF SessionsTypeOK
<1>5. CASE GiveUp(c)
  BY <1>5 DEF SessionsTypeOK, TypeOK, GiveUp, serverVars, mainVars, wireVars, threadVars, listVars
<1> QED BY <1>1, <1>2, <1>3, <1>4, <1>5

(* serverM starts in a state of the right types.                           *)
LEMMA InitTyped == Init => SessionsTypeOK
<1> SUFFICES ASSUME Init PROVE SessionsTypeOK
  OBVIOUS
<1>0. \A S : <<>> \in Seq(S)
  BY EmptySeq
<1>1. /\ open \subseteq Clients
      /\ endpoint \in Clients \cup {NoClient}
      /\ username \in UserField
      /\ frame \in ClientRequest \cup {Clobbered}
      /\ thread \in Threads \cup {NoThread}
      /\ pc \in [Threads -> PcLabels]
      /\ asked \in [Threads -> Nat]
      /\ dangling \in BOOLEAN
      /\ sem \in Nat
  BY DEF Init, ServerInit, UserField, PcLabels
<1>2. /\ toM \in [Clients -> Seq(ClientRequest)]
      /\ toClient \in [Clients -> Seq(ClientReply)]
      /\ query \in [Threads -> Seq(Codes)]
      /\ toUdp \in Seq(BackendReply)
      /\ list \in Seq(Codes)
  BY <1>0 DEF Init, ServerInit
<1>3. BackendChannels
  BY <1>0 DEF Init, ServerInit, BackendChannels
<1>4. /\ waiting \in [Clients -> ClientRequest \cup {NoQuery}]
      /\ who \in [Clients -> Words \cup {NoName}]
  BY DEF Init
<1> QED BY <1>1, <1>2, <1>3, <1>4 DEF SessionsTypeOK, TypeOK, BackendChannels

(* Nothing but a change of the variables can break the types.              *)
LEMMA StutterTyped ==
    ASSUME SessionsTypeOK, UNCHANGED vars
    PROVE  SessionsTypeOK'
BY DEF SessionsTypeOK, TypeOK, vars, serverVars, userVars, mainVars, wireVars, threadVars, listVars

(* The users who ask one at a time keep the types.                         *)
LEMMA SerialTyped ==
    ASSUME SessionsTypeOK, [SerialNext]_vars
    PROVE  SessionsTypeOK'
<1>1. CASE Serve
  BY <1>1, ServerStepTyped DEF Serve, SessionsTypeOK, userVars
<1>2. CASE SerialNext /\ ~Serve
  BY <1>2, ClientStepTyped DEF SerialNext
<1> QED BY <1>1, <1>2, StutterTyped

(* So do the users who ask at any moment.                                  *)
LEMMA CarefulTyped ==
    ASSUME SessionsTypeOK, [CarefulNext]_vars
    PROVE  SessionsTypeOK'
<1>1. CASE Serve
  BY <1>1, ServerStepTyped DEF Serve, SessionsTypeOK, userVars
<1>2. CASE CarefulNext /\ ~Serve
  BY <1>2, ClientStepTyped DEF CarefulNext
<1> QED BY <1>1, <1>2, StutterTyped

(* serverM never leaves its types, one query at a time.                    *)
THEOREM SerialTypeCorrect == SerialSpec => []SessionsTypeOK
BY InitTyped, SerialTyped, PTL DEF SerialSpec

(* Nor does it with clients that give up and ask at any moment.            *)
THEOREM CarefulTypeCorrect == CarefulSpec => []SessionsTypeOK
BY InitTyped, CarefulTyped, PTL DEF CarefulSpec

-----------------------------------------------------------------------------
(* One piece of work at a time: the inductive invariant of the hand-off.   *)

Inv == SessionsTypeOK /\ OnePieceOfWork

workVars == <<toM, toBackend, toUdp, pc, thread, sem, dangling>>

(* A queue that was empty holds exactly what is put on it.                 *)
LEMMA FirstAppended ==
    ASSUME NEW m
    PROVE  Len(Append(<<>>, m)) = 1 /\ Head(Append(<<>>, m)) = m
OBVIOUS

(* A queue of one element is empty once that is taken.                     *)
LEMMA LastTaken ==
    ASSUME NEW S, NEW s \in Seq(S), Len(s) = 1
    PROVE  Tail(s) = <<>> /\ SubSeq(s, 2, 1) = <<>>
<1>1. s # <<>>
  BY EmptySeq
<1>2. Tail(s) \in Seq(S) /\ Len(Tail(s)) = 0
  BY <1>1, HeadTailProperties
<1>3. Tail(s) = <<>>
  BY <1>2, EmptySeq
<1>4. SubSeq(s, 2, 1) \in Seq(S) /\ Len(SubSeq(s, 2, 1)) = 0
  BY SubSeqProperties
<1>5. SubSeq(s, 2, 1) = <<>>
  BY <1>4, EmptySeq
<1> QED BY <1>3, <1>5

(* Without a change to requests, datagrams or threads the phase stays.     *)
LEMMA WorkUnchanged ==
    ASSUME OnePieceOfWork, UNCHANGED workVars
    PROVE  OnePieceOfWork'
BY DEF workVars, OnePieceOfWork, Resting, RequestArriving, SingleExchange, ThreadExchange,
   ThreadBlocked, ThreadRunning, AskedBackend, ReplyArriving, NoThreadWork, NoLiveThread,
   StreamsEmpty, BackendsEmpty

(* At rest nothing of an earlier query is left, not even a token.          *)
LEMMA RestIsResting ==
    ASSUME OnePieceOfWork, AtRest
    PROVE  Resting
<1>1. ~RequestArriving
  BY DEF RequestArriving, AtRest, NetworkEmpty
<1>2. ~SingleExchange
  BY DEF SingleExchange, AskedBackend, ReplyArriving, AtRest, NetworkEmpty
<1>3. ~ThreadExchange
  BY DEF ThreadExchange, ThreadBlocked, ThreadRunning, AtRest, NoLiveThread
<1> QED BY <1>1, <1>2, <1>3 DEF OnePieceOfWork

(* A connection that comes or goes at rest leaves serverM at rest.         *)
LEMMA ConnectKeepsWork ==
    ASSUME Inv, NEW c \in Clients, AtRest, Connect(c)
    PROVE  OnePieceOfWork'
<1>1. Resting
  BY RestIsResting DEF Inv
<1>2. Resting'
  BY <1>1 DEF Resting, Connect, Accept, StreamsEmpty, BackendsEmpty, NoThreadWork,
     NoLiveThread, wireVars, threadVars, listVars, Inv, SessionsTypeOK, TypeOK
<1> QED BY <1>2 DEF OnePieceOfWork

(* A request to serverM at rest is the one piece of work.                  *)
LEMMA AskKeepsWork ==
    ASSUME Inv, NEW c \in Clients, NEW req \in Logins \cup Queries, AtRest, Ask(c, req)
    PROVE  OnePieceOfWork'
<1>1. Resting
  BY RestIsResting DEF Inv
<1>2. toM' = [toM EXCEPT ![c] = Append(<<>>, req)]
  BY <1>1 DEF Resting, StreamsEmpty, Ask, ClientSend
<1>3. Len(toM'[c]) = 1 /\ \A d \in Clients \ {c} : toM'[d] = <<>>
  BY <1>1, <1>2, FirstAppended DEF Resting, StreamsEmpty, Inv, SessionsTypeOK, TypeOK
<1>4. (BackendsEmpty /\ toUdp = <<>> /\ NoThreadWork)'
  BY <1>1 DEF Resting, Ask, ClientSend, BackendsEmpty, NoThreadWork, NoLiveThread, wireVars,
     threadVars, listVars
<1> QED BY <1>3, <1>4 DEF OnePieceOfWork, RequestArriving

(* A request for a department, sent while nothing is on the wires, is the  *)
(* only thing on the wires; an unknown prefix leaves them empty.           *)
LEMMA ForwardPhase ==
    ASSUME TypeOK, NEW req \in SingleRequest \cup DetailRequest, BackendsEmpty, toUdp = <<>>,
           UNCHANGED toUdp, send_request_to_department_server(req)
    PROVE  \/ AskedBackend({req.type})' /\ sem' = sem
           \/ BackendsEmpty' /\ sem' = IF thread = NoThread THEN sem ELSE sem + 1
<1>0. req.code \in Codes
  BY DEF SingleRequest, DetailRequest
<1>1. CASE DeptOf[req.code] \in Departments
  <2> DEFINE b == DeptOf[req.code]
  <2>1. b \in Backend
    BY <1>1 DEF Backend
  <2>2. sem' = sem /\ toBackend' = [toBackend EXCEPT ![b] = Append(<<>>, req)]
    BY <1>1, <2>1, CodesAssumption DEF send_request_to_department_server, udp_send, BackendsEmpty
  <2>3. /\ toBackend'[b] = Append(<<>>, req)
        /\ \A d \in Backend \ {b} : toBackend'[d] = <<>>
    BY <2>1, <2>2 DEF BackendsEmpty, TypeOK
  <2> QED BY <2>1, <2>2, <2>3, FirstAppended DEF AskedBackend
<1>2. CASE DeptOf[req.code] \notin Departments
  BY <1>2 DEF send_request_to_department_server, on_course_lookup_error_received, BackendsEmpty
<1> QED BY <1>1, <1>2

(* The request read becomes one datagram, one thread or an answer.         *)
LEMMA TcpReceiveKeepsWork ==
    ASSUME Inv, NEW c \in Clients, TcpReceive(c)
    PROVE  OnePieceOfWork'
<1> DEFINE req == Head(toM[c])
<1> TypeOK
  BY DEF Inv, SessionsTypeOK
<1>1. PICK n \in 1 .. Len(toM[c]) : toM' = [toM EXCEPT ![c] = SubSeq(@, n + 1, Len(@))]
  BY DEF TcpReceive
<1>2. toM[c] # <<>> /\ toM[c] \in Seq(ClientRequest)
  BY <1>1, LenProperties, EmptySeq DEF TypeOK
<1>3. RequestArriving
  BY <1>2 DEF Inv, OnePieceOfWork, Resting, SingleExchange, ThreadExchange, StreamsEmpty
<1>4. Len(toM[c]) = 1 /\ \A d \in Clients \ {c} : toM[d] = <<>>
  BY <1>2, <1>3 DEF RequestArriving
<1>5. StreamsEmpty'
  <2>1. n + 1 = 2 /\ Len(toM[c]) = 1
    BY <1>4, <1>1
  <2>2. toM' = [toM EXCEPT ![c] = <<>>]
    BY <1>1, <1>2, <2>1, LastTaken
  <2> QED BY <1>4, <2>2 DEF StreamsEmpty, TypeOK
<1>6. BackendsEmpty /\ toUdp = <<>> /\ NoThreadWork /\ UNCHANGED <<toUdp, dangling>>
  BY <1>3 DEF RequestArriving, TcpReceive, listVars
<1>7. req \in ClientRequest
  BY <1>2, HeadTyped
<1>8. CASE on_auth_request_received(req)
  <2> DEFINE login == [type |-> "AUTH", user |-> Encrypt[req.user], pass |-> Encrypt[req.pass]]
  <2>1. CredentialServer \in Backend
    BY DEF Backend
  <2>2. toBackend' = [toBackend EXCEPT ![CredentialServer] = Append(<<>>, login)]
    BY <1>6, <1>8, <2>1 DEF on_auth_request_received, udp_send, BackendsEmpty
  <2>3. /\ toBackend'[CredentialServer] = Append(<<>>, login)
        /\ \A d \in Backend \ {CredentialServer} : toBackend'[d] = <<>>
    BY <1>6, <2>1, <2>2 DEF BackendsEmpty, TypeOK
  <2>4. AskedBackend({"AUTH", "SINGLE"})'
    <3>1. Len(Append(<<>>, login)) = 1 /\ Head(Append(<<>>, login)) = login
      BY FirstAppended
    <3>2. login.type = "AUTH"
      OBVIOUS
    <3> HIDE DEF login
    <3>3. Len(toBackend'[CredentialServer]) = 1 /\ Head(toBackend'[CredentialServer]).type = "AUTH"
      BY <2>3, <3>1, <3>2
    <3> QED BY <1>6, <2>1, <2>3, <3>3 DEF AskedBackend
  <2>5. NoThreadWork'
    BY <1>6, <1>8 DEF on_auth_request_received, NoThreadWork, NoLiveThread
  <2> QED BY <1>5, <2>4, <2>5 DEF OnePieceOfWork, SingleExchange
<1>9. CASE on_course_lookup_info_request_received(req)
  <2>1. /\ req \in SingleRequest
        /\ req.type = "SINGLE"
        /\ send_request_to_department_server(req)
        /\ UNCHANGED <<thread, pc>>
    BY <1>7, <1>9 DEF on_course_lookup_info_request_received, ClientRequest, AuthRequest,
       SingleRequest, MultiRequest
  <2>2. \/ AskedBackend({"SINGLE"})' /\ sem' = sem
        \/ BackendsEmpty' /\ sem' = sem
    BY <1>6, <2>1, ForwardPhase DEF NoThreadWork
  <2>3. NoThreadWork'
    BY <1>6, <2>1, <2>2 DEF NoThreadWork, NoLiveThread
  <2>4. CASE AskedBackend({"SINGLE"})'
    BY <1>5, <2>3, <2>4 DEF OnePieceOfWork, SingleExchange, AskedBackend
  <2>5. CASE BackendsEmpty'
    BY <1>5, <1>6, <2>3, <2>5 DEF OnePieceOfWork, Resting
  <2> QED BY <2>2, <2>4, <2>5
<1>10. CASE on_course_lookup_multi_request_received(req)
  <2>1. PICK t \in Threads : thread' = t /\ pc' = [pc EXCEPT ![t] = "reset"]
    BY <1>10 DEF on_course_lookup_multi_request_received
  <2>2. UNCHANGED <<toBackend, sem>>
    BY <1>10 DEF on_course_lookup_multi_request_received
  <2>3. pc'[t] = "reset" /\ \A u \in Threads \ {t} : pc'[u] = "none"
    BY <1>6, <2>1 DEF NoThreadWork, NoLiveThread, TypeOK
  <2>4. ThreadRunning(t)'
    BY <1>6, <2>2, <2>3 DEF ThreadRunning, NoThreadWork, BackendsEmpty, PcLabels
  <2> QED BY <1>5, <2>1, <2>3, <2>4 DEF OnePieceOfWork, ThreadExchange
<1> QED BY <1>8, <1>9, <1>10 DEF TcpReceive

(* The reply of a backend ends the work or wakes its thread.               *)
LEMMA UdpReceiveKeepsWork ==
    ASSUME Inv, UdpReceive
    PROVE  OnePieceOfWork'
<1> DEFINE reply == Head(toUdp)
<1> TypeOK
  BY DEF Inv, SessionsTypeOK
<1>1. /\ toUdp # <<>>
      /\ toUdp' = Tail(toUdp)
      /\ UNCHANGED <<toM, toBackend, thread, pc, dangling>>
  BY DEF UdpReceive, threadVars
<1>2. CASE SingleExchange
  <2>1. ReplyArriving({"AUTH", "SINGLE", "ERROR"}) /\ StreamsEmpty /\ NoThreadWork
    BY <1>1, <1>2 DEF SingleExchange, AskedBackend
  <2>2. toUdp' = <<>> /\ reply.type \in {"AUTH", "SINGLE", "ERROR"}
    BY <1>1, <2>1, LastTaken DEF ReplyArriving, TypeOK
  <2>3. sem' = sem
    BY <2>1, <2>2 DEF UdpReceive, on_auth_response_received,
       on_single_course_lookup_info_response_received, on_course_detail_response_received,
       on_error_response_received, on_course_lookup_error_received, NoThreadWork
  <2> QED BY <1>1, <2>1, <2>2, <2>3 DEF OnePieceOfWork, Resting, ReplyArriving, StreamsEmpty,
        BackendsEmpty, NoThreadWork, NoLiveThread
<1>3. CASE ThreadExchange
  <2>1. PICK t \in Threads : /\ thread = t
                             /\ \A u \in Threads \ {t} : pc[u] = "none"
                             /\ ThreadBlocked(t) \/ ThreadRunning(t)
    BY <1>3 DEF ThreadExchange
  <2>2. /\ ReplyArriving({"DETAIL", "ERROR"}) /\ sem = 0
        /\ pc[t] = "wait" /\ ~dangling
    BY <1>1, <2>1 DEF ThreadBlocked, ThreadRunning, AskedBackend
  <2>3. toUdp' = <<>> /\ reply.type \in {"DETAIL", "ERROR"}
    BY <1>1, <2>2, LastTaken DEF ReplyArriving, TypeOK
  <2>4. thread # NoThread
    BY <2>1, ServerMAssumption
  <2>5. sem' = 1
    BY <2>2, <2>3, <2>4 DEF UdpReceive, on_auth_response_received,
       on_single_course_lookup_info_response_received, on_course_detail_response_received,
       on_error_response_received, on_course_lookup_error_received
  <2>6. ThreadBlocked(t)'
    BY <1>1, <2>2, <2>3, <2>5 DEF ThreadBlocked, ReplyArriving, BackendsEmpty
  <2>7. StreamsEmpty'
    BY <1>1, <1>3 DEF ThreadExchange, StreamsEmpty
  <2> QED BY <1>1, <2>1, <2>6, <2>7 DEF OnePieceOfWork, ThreadExchange
<1> QED BY <1>1, <1>2, <1>3 DEF Inv, OnePieceOfWork, Resting, RequestArriving

(* A backend turns the datagram of the work into its answer.               *)
LEMMA BackendServeKeepsWork ==
    ASSUME Inv, NEW b \in Backend, BackendServe(b)
    PROVE  OnePieceOfWork'
<1> DEFINE req == Head(toBackend[b])
           reply == BackendAnswer(b, req)
<1> TypeOK
  BY DEF Inv, SessionsTypeOK
<1>1. /\ toBackend[b] # <<>>
      /\ toUdp' = Append(toUdp, reply)
      /\ toBackend' = [toBackend EXCEPT ![b] = Tail(@)]
      /\ UNCHANGED <<toM, thread, pc, dangling, sem>>
  BY DEF BackendServe, mainVars, threadVars, listVars
<1>2. req \in BackendRequest(b) /\ toBackend[b] \in Seq(BackendRequest(b))
  BY <1>1, HeadTyped DEF TypeOK
<1>3. reply.type \in {req.type, "ERROR"}
  BY <1>2, BackendAnswerType
<1>4. ASSUME NEW types, AskedBackend(types)
      PROVE  ReplyArriving(types \cup {"ERROR"})'
  <2>1. /\ Len(toBackend[b]) = 1
        /\ req.type \in types
        /\ toUdp = <<>>
        /\ \A d \in Backend \ {b} : toBackend[d] = <<>>
    BY <1>1, <1>4 DEF AskedBackend
  <2>2. Tail(toBackend[b]) = <<>>
    BY <1>2, <2>1, LastTaken
  <2>3. BackendsEmpty'
    BY <1>1, <2>1, <2>2 DEF BackendsEmpty, TypeOK
  <2> QED BY <1>1, <1>3, <2>1, <2>3, FirstAppended DEF ReplyArriving
<1>5. CASE SingleExchange
  <2>1. AskedBackend({"AUTH", "SINGLE"}) /\ StreamsEmpty /\ NoThreadWork
    BY <1>1, <1>5 DEF SingleExchange, ReplyArriving, BackendsEmpty
  <2>2. ReplyArriving({"AUTH", "SINGLE", "ERROR"})'
    BY <1>4, <2>1 DEF ReplyArriving
  <2>3. (StreamsEmpty /\ NoThreadWork)'
    BY <1>1, <2>1 DEF StreamsEmpty, NoThreadWork, NoLiveThread
  <2> QED BY <2>2, <2>3 DEF OnePieceOfWork, SingleExchange
<1>6. CASE ThreadExchange
  <2>1. PICK t \in Threads : /\ thread = t
                             /\ \A u \in Threads \ {t} : pc[u] = "none"
                             /\ ThreadBlocked(t) \/ ThreadRunning(t)
    BY <1>6 DEF ThreadExchange
  <2>2. AskedBackend({"DETAIL"}) /\ sem = 0 /\ pc[t] = "wait" /\ ~dangling
    BY <1>1, <2>1 DEF ThreadBlocked, ThreadRunning, ReplyArriving, BackendsEmpty
  <2>3. ReplyArriving({"DETAIL", "ERROR"})'
    BY <1>4, <2>2 DEF ReplyArriving
  <2>4. ThreadBlocked(t)'
    BY <1>1, <2>2, <2>3 DEF ThreadBlocked
  <2>5. StreamsEmpty'
    BY <1>1, <1>6 DEF ThreadExchange, StreamsEmpty
  <2> QED BY <1>1, <2>1, <2>4, <2>5 DEF OnePieceOfWork, ThreadExchange
<1> QED BY <1>1, <1>5, <1>6 DEF Inv, OnePieceOfWork, Resting, RequestArriving, BackendsEmpty

(* A step of a thread in a phase of its own keeps the exchange.            *)
LEMMA ThreadStepKeepsWork ==
    ASSUME Inv, NEW t \in Threads, ThreadStep(t)
    PROVE  OnePieceOfWork'
<1> USE DEF GoTo, mainVars, threadVars, listVars, wireVars
<1> TypeOK
  BY DEF Inv, SessionsTypeOK
<1>1. pc[t] # "none"
  BY DEF ThreadStep, ThreadReset, ThreadDecode, ThreadAsk, ThreadWake, ThreadAsked,
     ThreadRespond, ThreadFree, ThreadClear, ThreadExit
<1>2. ThreadExchange
  BY <1>1 DEF Inv, OnePieceOfWork, Resting, RequestArriving, SingleExchange, NoThreadWork,
     NoLiveThread
<1>3. /\ StreamsEmpty
      /\ thread = t
      /\ \A u \in Threads \ {t} : pc[u] = "none"
      /\ ThreadBlocked(t) \/ ThreadRunning(t)
  BY <1>1, <1>2 DEF ThreadExchange
<1>4. /\ UNCHANGED <<toM, toUdp>>
      /\ \A u \in Threads \ {t} : pc'[u] = "none"
      /\ StreamsEmpty'
  BY <1>3 DEF ThreadStep, ThreadReset, ThreadDecode, ThreadAsk, ThreadWake, ThreadAsked,
     ThreadRespond, ThreadFree, ThreadClear, ThreadExit, TypeOK, StreamsEmpty
<1>5. ASSUME thread' = thread, ThreadBlocked(t)' \/ ThreadRunning(t)'
      PROVE  OnePieceOfWork'
  BY <1>3, <1>4, <1>5 DEF OnePieceOfWork, ThreadExchange
<1>6. ASSUME UNCHANGED <<toBackend, sem, thread>>, ThreadRunning(t),
             pc'[t] \in PcLabels \ {"none", "wait"}, dangling' => pc'[t] = "clear"
      PROVE  OnePieceOfWork'
  BY <1>4, <1>5, <1>6 DEF ThreadRunning, BackendsEmpty
<1>7. pc[t] # "wait" => ThreadRunning(t)
  BY <1>3 DEF ThreadBlocked
<1>8. CASE ThreadReset(t)
  BY <1>6, <1>7, <1>8 DEF ThreadReset, TypeOK, PcLabels
<1>9. CASE ThreadDecode(t)
  BY <1>6, <1>7, <1>9 DEF ThreadDecode, TypeOK, PcLabels, ThreadRunning
<1>10. CASE ThreadAsk(t)
  <2> DEFINE req == [type |-> "DETAIL", code |-> query[t][asked[t] + 1]]
  <2>1. req \in SingleRequest \cup DetailRequest /\ req.type = "DETAIL"
    <3>1. query[t] \in Seq(Codes) /\ asked[t] \in Nat /\ asked[t] < Len(query[t])
      BY <1>10 DEF TypeOK, ThreadAsk
    <3>2. query[t][asked[t] + 1] \in Codes
      BY <3>1, ElementOfSeq, LenProperties
    <3> QED BY <3>2 DEF DetailRequest
  <2>2. /\ BackendsEmpty /\ toUdp = <<>> /\ sem = 0 /\ ~dangling
        /\ send_request_to_department_server(req)
        /\ UNCHANGED <<thread, dangling>>
        /\ pc'[t] = "wait"
    BY <1>7, <1>10 DEF ThreadRunning, ThreadAsk, TypeOK
  <2>3. thread # NoThread
    BY <1>3, ServerMAssumption
  <2> HIDE DEF req
  <2>4. \/ AskedBackend({"DETAIL"})' /\ sem' = 0
        \/ BackendsEmpty' /\ sem' = 1
    BY <1>4, <2>1, <2>2, <2>3, ForwardPhase
  <2>5. ThreadBlocked(t)'
    BY <1>4, <2>2, <2>4 DEF ThreadBlocked
  <2> QED BY <1>5, <2>2, <2>5
<1>11. CASE ThreadWake(t)
  <2>1. /\ pc[t] = "wait" /\ sem > 0 /\ sem' = sem - 1
        /\ UNCHANGED <<toBackend, thread, dangling>>
        /\ pc'[t] = "ask"
    BY <1>11 DEF ThreadWake, TypeOK
  <2>2. BackendsEmpty /\ toUdp = <<>> /\ sem = 1 /\ ~dangling
    BY <1>3, <2>1 DEF ThreadBlocked, ThreadRunning
  <2>3. ThreadRunning(t)'
    BY <1>4, <2>1, <2>2 DEF ThreadRunning, BackendsEmpty, PcLabels
  <2> QED BY <1>5, <2>1, <2>3
<1>12. CASE ThreadAsked(t)
  BY <1>6, <1>7, <1>12 DEF ThreadAsked, TypeOK, PcLabels, ThreadRunning
<1>13. CASE ThreadRespond(t)
  BY <1>6, <1>7, <1>13 DEF ThreadRespond, TypeOK, PcLabels, ThreadRunning
<1>14. CASE ThreadFree(t)
  BY <1>6, <1>7, <1>14 DEF ThreadFree, TypeOK, PcLabels
<1>15. CASE ThreadClear(t)
  BY <1>6, <1>7, <1>15 DEF ThreadClear, TypeOK, PcLabels
<1>16. CASE ThreadExit(t)
  <2>1. /\ thread' = NoThread /\ UNCHANGED <<toBackend, dangling, sem>>
        /\ pc'[t] = "none"
        /\ BackendsEmpty /\ toUdp = <<>> /\ sem = 0 /\ ~dangling
    BY <1>7, <1>16 DEF ThreadExit, TypeOK, ThreadRunning
  <2>2. NoThreadWork'
    BY <1>4, <2>1 DEF NoThreadWork, NoLiveThread
  <2> QED BY <1>4, <2>1, <2>2 DEF OnePieceOfWork, Resting, BackendsEmpty
<1> QED BY <1>8, <1>9, <1>10, <1>11, <1>12, <1>13, <1>14, <1>15, <1>16 DEF ThreadStep

-----------------------------------------------------------------------------
(* The theorems on the hand-off.                                           *)

(* serverM starts at rest.                                                 *)
LEMMA InitResting == Init => OnePieceOfWork
BY DEF Init, ServerInit, OnePieceOfWork, Resting, StreamsEmpty, BackendsEmpty, NoThreadWork,
   NoLiveThread

(* One piece of work never becomes two, whatever step comes next.          *)
LEMMA SerialKeepsWork ==
    ASSUME Inv, [SerialNext]_vars
    PROVE  OnePieceOfWork'
<1>1. CASE Serve
  BY <1>1, TcpReceiveKeepsWork, UdpReceiveKeepsWork, ThreadStepKeepsWork, BackendServeKeepsWork
     DEF Serve, ServerStep
<1>2. ASSUME NEW c \in Clients, AtRest, Connect(c)
      PROVE  OnePieceOfWork'
  BY <1>2, ConnectKeepsWork
<1>3. ASSUME NEW c \in Clients, NEW req \in Logins \cup Queries, AtRest, Ask(c, req)
      PROVE  OnePieceOfWork'
  BY <1>3, AskKeepsWork
<1>4. ASSUME NEW c \in Clients, Leave(c) \/ GetReply(c) \/ GiveUp(c)
      PROVE  OnePieceOfWork'
  BY <1>4, WorkUnchanged DEF Inv, workVars, Leave, Disconnect, GetReply, ClientRead, GiveUp,
     serverVars, mainVars, wireVars, threadVars, listVars
<1>5. CASE UNCHANGED vars
  BY <1>5, WorkUnchanged DEF Inv, workVars, vars, serverVars, mainVars, wireVars, threadVars,
     listVars
<1> QED BY <1>1, <1>2, <1>3, <1>4, <1>5 DEF SerialNext

(* The types and the phases hold together in every state.                  *)
LEMMA SerialInv == SerialSpec => []Inv
<1>1. Init => Inv
  BY InitTyped, InitResting DEF Inv
<1>2. Inv /\ [SerialNext]_vars => Inv'
  BY SerialTyped, SerialKeepsWork DEF Inv
<1> QED BY <1>1, <1>2, PTL DEF SerialSpec

(* Whatever the number of clients, threads and codes, one query at a time  *)
(* is one piece of work in the system at a time.                           *)
THEOREM SerialWork == SerialSpec => []OnePieceOfWork
<1>1. Inv => OnePieceOfWork
  BY DEF Inv
<1> QED BY <1>1, SerialInv, PTL

(* Each phase gives the waiting thread an answer or a token, never both.   *)
LEMMA WorkIsHandedOff ==
    ASSUME Inv
    PROVE  HandOff
<1>1. \A b \in Backend : \A i \in 1 .. Len(toBackend[b]) :
         Len(toBackend[b]) = 1 => toBackend[b][i] = Head(toBackend[b])
  OBVIOUS
<1>2. \A i \in 1 .. Len(toUdp) : Len(toUdp) = 1 => toUdp[i] = Head(toUdp)
  OBVIOUS
<1>3. CASE Resting \/ RequestArriving
  <2>1. NoThreadWork /\ BackendsEmpty /\ toUdp = <<>>
    BY <1>3 DEF Resting, RequestArriving
  <2>2. ~DetailPending
    BY <2>1 DEF DetailPending, BackendsEmpty
  <2> QED BY <2>1, <2>2 DEF HandOff, NoThreadWork, NoLiveThread
<1>4. CASE SingleExchange
  <2>1. NoThreadWork
    BY <1>4 DEF SingleExchange
  <2>2. ~DetailPending
    <3>1. CASE AskedBackend({"AUTH", "SINGLE"})
      BY <1>1, <2>1, <3>1 DEF DetailPending, AskedBackend
    <3>2. CASE ReplyArriving({"AUTH", "SINGLE", "ERROR"})
      BY <1>2, <2>1, <3>2 DEF DetailPending, ReplyArriving, NoThreadWork, BackendsEmpty
    <3> QED BY <1>4, <3>1, <3>2 DEF SingleExchange
  <2> QED BY <2>1, <2>2 DEF HandOff, NoThreadWork, NoLiveThread
<1>5. CASE ThreadExchange
  <2>1. PICK t \in Threads : /\ thread = t
                             /\ \A u \in Threads \ {t} : pc[u] = "none"
                             /\ ThreadBlocked(t) \/ ThreadRunning(t)
    BY <1>5 DEF ThreadExchange
  <2>2. thread # NoThread
    BY <2>1, ServerMAssumption
  <2>3. CASE ThreadRunning(t)
    <3>1. ~DetailPending /\ sem = 0 /\ pc[t] # "wait"
      BY <2>3 DEF DetailPending, ThreadRunning, BackendsEmpty
    <3> QED BY <2>1, <3>1 DEF HandOff
  <2>4. CASE ThreadBlocked(t)
    <3>1. CASE AskedBackend({"DETAIL"}) /\ sem = 0
      <4>1. DetailPending
        BY <3>1 DEF DetailPending, AskedBackend
      <4> QED BY <2>1, <2>4, <3>1, <4>1 DEF HandOff, ThreadBlocked
    <3>2. CASE ReplyArriving({"DETAIL", "ERROR"}) /\ sem = 0
      <4>1. DetailPending
        BY <2>2, <3>2 DEF DetailPending, ReplyArriving
      <4> QED BY <2>1, <2>4, <3>2, <4>1 DEF HandOff, ThreadBlocked
    <3>3. CASE BackendsEmpty /\ toUdp = <<>> /\ sem = 1
      <4>1. ~DetailPending
        BY <3>3 DEF DetailPending, BackendsEmpty
      <4> QED BY <2>1, <2>4, <3>3, <4>1 DEF HandOff, ThreadBlocked
    <3> QED BY <2>4, <3>1, <3>2, <3>3 DEF ThreadBlocked
  <2> QED BY <2>1, <2>3, <2>4
<1> QED BY <1>3, <1>4, <1>5 DEF Inv, OnePieceOfWork

(* The semaphore is posted for the question its thread is blocked on, and  *)
(* for no other.                                                           *)
THEOREM SerialHandOff == SerialSpec => []HandOff
<1>1. Inv => HandOff
  BY WorkIsHandedOff
<1> QED BY <1>1, SerialInv, PTL

(* In each phase the freed list is out of reach.                           *)
LEMMA WorkIsLive ==
    ASSUME Inv, dangling
    PROVE  ListIsLive
<1>1. PICK t \in Threads : /\ \A u \in Threads \ {t} : pc[u] = "none"
                           /\ ThreadRunning(t)
  BY DEF Inv, OnePieceOfWork, Resting, RequestArriving, SingleExchange, ThreadExchange,
     NoThreadWork, ThreadBlocked
<1>2. pc[t] = "clear" /\ toUdp = <<>>
  BY <1>1 DEF ThreadRunning
<1> QED BY <1>1, <1>2 DEF ListIsLive

(* No freed node of the shared list is read, extended or freed again.      *)
THEOREM SerialListIsLive == SerialSpec => []ListIsLive
<1>1. Inv => ListIsLive
  BY WorkIsLive DEF ListIsLive
<1> QED BY <1>1, SerialInv, PTL

=============================================================================
