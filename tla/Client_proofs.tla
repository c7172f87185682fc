---------------------------- MODULE Client_proofs -----------------------------
(***************************************************************************)
(* For any users, passwords and number of requests of a run: the types of  *)
(* the client and what holds of its login however late replies come, and,  *)
(* until the first one is late, that every reply and token meets the wait  *)
(* it was meant for and that the session is the one of the user typed last.*)
(***************************************************************************)
EXTENDS Client, SequenceTheorems, TLAPS

(* The count passes through each value once between success and the limit, *)
(* and the process is gone when it reaches the limit.                      *)
Counting ==
    /\ process = "running" => auth_failure_count < AUTH_MAX_ATTEMPTS
    /\ auth_failure_count <= failures
    /\ granted = {} => auth_failure_count >= 0
    /\ InSession => granted # {}
    /\ NoEarlyShutdown

LEMMA SendTyped ==
    ASSUME TypeOK, NEW req \in Requests, tcp_client_send(req)
    PROVE  /\ process' \in {process, "crashed"}
           /\ sent' \in 0 .. MaxRequests
           /\ toM' \in Seq(Requests)
           /\ link' \in {"up", "closed", "reset", "gone"}
           /\ link' = "up" => link = "up"
<1>1. sent' \in 0 .. MaxRequests
    BY ClientAssumption DEF tcp_client_send, TypeOK, ClientAssumption
<1>2. CASE link = "up"
    BY <1>1, <1>2 DEF tcp_client_send, TypeOK
<1>3. CASE link # "up"
    BY <1>1, <1>3 DEF tcp_client_send, TypeOK
<1> QED BY <1>2, <1>3

(* The request a user may send has the next number.                        *)
LEMMA RequestTyped ==
    ASSUME TypeOK, sent < MaxRequests
    PROVE  /\ sent + 1 \in 1 .. MaxRequests
           /\ \A name \in Users : [type |-> "AUTH", id |-> sent + 1, user |-> name] \in Requests
           /\ \A type \in {"SINGLE", "MULTI"} : [type |-> type, id |-> sent + 1] \in Requests
<1>1. sent + 1 \in 1 .. MaxRequests
    BY ClientAssumption DEF TypeOK, ClientAssumption
<1> QED BY <1>1 DEF Requests

LEMMA AnswerTyped ==
    ASSUME NEW req \in Requests, NEW reply \in AnswersTo(req)
    PROVE  /\ reply \in Replies
           /\ reply.id = req.id
           /\ req.type = "AUTH" => reply.type = "AUTH" /\ reply.user = req.user
           /\ req.type # "AUTH" => reply.type # "AUTH"
<1>1. CASE req.type = "AUTH"
    <2>1. req \in [type : {"AUTH"}, id : 1 .. MaxRequests, user : Users]
        BY <1>1 DEF Requests
    <2>2. reply = [type |-> "AUTH", id |-> req.id, user |-> req.user, success |-> req.user \in Valid]
        BY <1>1 DEF AnswersTo
    <2> QED BY <1>1, <2>1, <2>2 DEF Replies
<1>2. CASE req.type # "AUTH"
    <2>1. req.type \in {"SINGLE", "MULTI"} /\ req.id \in 1 .. MaxRequests
        BY <1>2 DEF Requests
    <2>2. PICK type \in {"SINGLE", "MULTI", "ERROR"} : reply = [type |-> type, id |-> req.id]
        BY <2>1 DEF AnswersTo
    <2> QED BY <1>2, <2>1, <2>2 DEF Replies
<1> QED BY <1>1, <1>2

(* What one recv leaves of the stream.                                     *)
LEMMA RestTyped ==
    ASSUME TypeOK, NEW n \in 1 .. Len(fromM)
    PROVE  /\ fromM # <<>> /\ Head(fromM) \in Replies
           /\ SubSeq(fromM, n + 1, Len(fromM)) \in Seq(Replies)
<1>1. fromM \in Seq(Replies) /\ Len(fromM) \in Nat /\ fromM # <<>>
    BY DEF TypeOK
<1>2. Head(fromM) \in Replies
    BY <1>1
<1>3. \A i \in n + 1 .. Len(fromM) : fromM[i] \in Replies
    BY <1>1
<1>4. SubSeq(fromM, n + 1, Len(fromM)) \in Seq(Replies)
    BY <1>1, <1>3, SubSeqProperties
<1> QED BY <1>1, <1>2, <1>4

\* What the handlers of replies change.
LEMMA HandledTyped ==
    ASSUME TypeOK, Counting, process = "running", NEW reply \in Replies,
           on_auth_result(reply) \/ on_course_result(reply)
    PROVE  /\ process' \in {"running", "exited"}
           /\ semaphore' \in Nat
           /\ auth_failure_count' \in AUTH_SUCCESS .. AUTH_MAX_ATTEMPTS
           /\ granted' \subseteq Users /\ failures' \in Nat
           /\ process' = "running" => auth_failure_count' < AUTH_MAX_ATTEMPTS
           /\ auth_failure_count' <= failures'
           /\ granted' = {} => auth_failure_count' >= 0
           /\ granted # {} => granted' # {}
           /\ process' = "exited" => failures' >= AUTH_MAX_ATTEMPTS
<1> USE DEF AUTH_SUCCESS, AUTH_MAX_ATTEMPTS
<1>1. CASE reply.type = "AUTH" /\ on_authentication_success(reply)
    <2>1. reply.user \in Users
        BY <1>1 DEF Replies
    <2> QED BY <1>1, <2>1 DEF on_authentication_success, TypeOK, Counting
<1>2. CASE on_authentication_failure(reply)
    BY <1>2 DEF on_authentication_failure, TypeOK, Counting
<1>3. CASE on_course_result(reply)
    BY <1>3 DEF on_course_result, TypeOK, Counting, history
<1> QED BY <1>1, <1>2, <1>3 DEF on_auth_result

-----------------------------------------------------------------------------
(* Every step of the client, of serverM and of the connection.             *)
LEMMA TypeStep ==
    ASSUME TypeOK, Counting, [Next]_vars
    PROVE  TypeOK' /\ Counting'
<1> USE DEF history, streams, shared, AUTH_SUCCESS, AUTH_MAX_ATTEMPTS
<1>1. CASE Connect
    BY <1>1 DEF Connect, TypeOK, Counting, InSession, NoEarlyShutdown
<1>2. CASE ConnectFails
    BY <1>2 DEF ConnectFails, TypeOK, Counting, InSession, NoEarlyShutdown
<1>3. CASE Receive
    <2>1. PICK n \in 1 .. Len(fromM) : fromM' = SubSeq(fromM, n + 1, Len(fromM))
        BY <1>3 DEF Receive
    <2>2. Head(fromM) \in Replies /\ fromM' \in Seq(Replies)
        BY <2>1, RestTyped
    <2>3. /\ process = "running"
          /\ on_auth_result(Head(fromM)) \/ on_course_result(Head(fromM))
          /\ UNCHANGED <<user, connected, creds, sent, toM, link, late>>
        BY <1>3 DEF Receive
    <2>4. /\ process' \in {"running", "exited"}
          /\ semaphore' \in Nat
          /\ auth_failure_count' \in AUTH_SUCCESS .. AUTH_MAX_ATTEMPTS
          /\ granted' \subseteq Users /\ failures' \in Nat
          /\ process' = "running" => auth_failure_count' < AUTH_MAX_ATTEMPTS
          /\ auth_failure_count' <= failures'
          /\ granted' = {} => auth_failure_count' >= 0
          /\ granted # {} => granted' # {}
          /\ process' = "exited" => failures' >= AUTH_MAX_ATTEMPTS
        BY <2>2, <2>3, HandledTyped
    <2>5. TypeOK'
        BY <2>2, <2>3, <2>4 DEF TypeOK
    <2>6. Counting'
        BY <2>3, <2>4 DEF Counting, InSession, NoEarlyShutdown
    <2> QED BY <2>5, <2>6
<1>4. CASE Disconnected
    BY <1>4 DEF Disconnected, TypeOK, Counting, InSession, NoEarlyShutdown
<1>5. CASE ReceiveError
    BY <1>5 DEF ReceiveError, TypeOK, Counting, InSession, NoEarlyShutdown
<1>6. CASE SetUp \/ ClearCredentials \/ CredentialsRefused \/ CategoryRefused
    <2> USE DEF UserGoes, TypeOK, Counting, InSession, NoEarlyShutdown
    <2>1. CASE SetUp
        BY <2>1 DEF SetUp
    <2>2. CASE ClearCredentials
        BY <2>2 DEF ClearCredentials
    <2>3. CASE CredentialsRefused
        BY <2>3 DEF CredentialsRefused
    <2>4. CASE CategoryRefused
        BY <2>4 DEF CategoryRefused
    <2> QED BY <1>6, <2>1, <2>2, <2>3, <2>4
<1>7. CASE CheckLogin
    BY <1>7 DEF CheckLogin, UserGoes, TypeOK, Counting, InSession, NoEarlyShutdown
<1>8. ASSUME NEW name \in Users, authenticate_user(name)
      PROVE  TypeOK' /\ Counting'
    <2>1. /\ UserGoes("submit", "authwait") /\ creds' = name
          /\ tcp_client_send([type |-> "AUTH", id |-> sent + 1, user |-> name])
          /\ UNCHANGED <<connected, semaphore, auth_failure_count, fromM, granted, failures, late>>
        BY <1>8 DEF authenticate_user
    <2>2. [type |-> "AUTH", id |-> sent + 1, user |-> name] \in Requests
        BY <2>1, RequestTyped DEF tcp_client_send
    <2>3. /\ process' \in {process, "crashed"} /\ sent' \in 0 .. MaxRequests
          /\ toM' \in Seq(Requests) /\ link' \in {"up", "closed", "reset", "gone"}
          /\ link' = "up" => link = "up"
        BY <2>1, <2>2, SendTyped
    <2> QED BY <2>1, <2>3 DEF UserGoes, TypeOK, Counting, InSession, NoEarlyShutdown
<1>9. ASSUME NEW type \in {"SINGLE", "MULTI"}, send_request(type)
      PROVE  TypeOK' /\ Counting'
    <2>1. /\ UserGoes("prompt", "querywait")
          /\ tcp_client_send([type |-> type, id |-> sent + 1])
          /\ UNCHANGED <<connected, semaphore, auth_failure_count, creds, fromM, granted, failures, late>>
        BY <1>9 DEF send_request
    <2>2. [type |-> type, id |-> sent + 1] \in Requests
        BY <2>1, RequestTyped DEF tcp_client_send
    <2>3. /\ process' \in {process, "crashed"} /\ sent' \in 0 .. MaxRequests
          /\ toM' \in Seq(Requests) /\ link' \in {"up", "closed", "reset", "gone"}
          /\ link' = "up" => link = "up"
        BY <2>1, <2>2, SendTyped
    <2> QED BY <2>1, <2>3 DEF UserGoes, TypeOK, Counting, InSession, NoEarlyShutdown
<1>10. ASSUME NEW from \in {"authwait", "querywait"}, NEW to \in {"check", "prompt"},
              from = "querywait" <=> to = "prompt",
              Woken(from, to) \/ TimesOut(from, to)
       PROVE  TypeOK' /\ Counting'
    <2>1. CASE Woken(from, to)
        BY <1>10, <2>1 DEF Woken, UserGoes, TypeOK, Counting, InSession, NoEarlyShutdown
    <2>2. CASE TimesOut(from, to)
        <3>1. late' \in BOOLEAN
            BY <2>2, Zenon DEF TimesOut
        <3>2. /\ UserGoes(from, to)
              /\ UNCHANGED <<process, connected, semaphore, auth_failure_count, creds, sent,
                             toM, fromM, link, granted, failures>>
            BY <2>2 DEF TimesOut
        <3> QED BY <1>10, <3>1, <3>2 DEF UserGoes, TypeOK, Counting, InSession, NoEarlyShutdown
    <2> QED BY <1>10, <2>1, <2>2
<1>11. CASE ServerAnswers
    <2>1. /\ toM # <<>> /\ toM' = Tail(toM)
          /\ \/ \E reply \in AnswersTo(Head(toM)) : fromM' = Append(fromM, reply)
             \/ UNCHANGED fromM
          /\ UNCHANGED <<process, user, connected, semaphore, auth_failure_count, creds,
                         sent, link, granted, failures, late>>
        BY <1>11 DEF ServerAnswers
    <2>2. Head(toM) \in Requests /\ toM' \in Seq(Requests)
        BY <2>1 DEF TypeOK
    <2>3. fromM' \in Seq(Replies)
        <3>1. fromM \in Seq(Replies)
            BY DEF TypeOK
        <3>2. ASSUME NEW reply \in AnswersTo(Head(toM)), fromM' = Append(fromM, reply)
              PROVE  fromM' \in Seq(Replies)
            <4>1. reply \in Replies
                BY <2>2, <3>2, AnswerTyped
            <4> QED BY <3>1, <3>2, <4>1
        <3> QED BY <2>1, <3>1, <3>2
    <2> QED BY <2>1, <2>2, <2>3 DEF TypeOK, Counting, InSession, NoEarlyShutdown
<1>12. CASE ServerHangsUp
    BY <1>12 DEF ServerHangsUp, TypeOK, Counting, InSession, NoEarlyShutdown
<1>13. CASE Finished \/ UNCHANGED vars
    BY <1>13 DEF Finished, vars, TypeOK, Counting, InSession, NoEarlyShutdown
<1> QED BY <1>1, <1>2, <1>3, <1>4, <1>5, <1>6, <1>7, <1>8, <1>9, <1>10, <1>11, <1>12, <1>13
        DEF Next, NetworkStep, UserStep, Timeout

LEMMA TypeInit ==
    ASSUME Init
    PROVE  TypeOK /\ Counting
<1>1. 0 \in 0 .. MaxRequests
    BY ClientAssumption DEF ClientAssumption
<1>2. toM \in Seq(Requests) /\ fromM \in Seq(Replies)
    BY DEF Init
<1>3. auth_failure_count \in AUTH_SUCCESS .. AUTH_MAX_ATTEMPTS
    BY DEF Init, AUTH_SUCCESS, AUTH_MAX_ATTEMPTS
<1>4. /\ process \in {"running", "exited", "crashed"}
      /\ user \in {"setup", "type", "submit", "authwait", "check", "prompt", "querywait"}
      /\ connected \in BOOLEAN /\ semaphore \in Nat
      /\ creds \in Users \cup {NoUser} /\ sent \in 0 .. MaxRequests
      /\ link \in {"up", "closed", "reset", "gone"}
      /\ granted \subseteq Users /\ failures \in Nat /\ late \in BOOLEAN
    BY <1>1 DEF Init
<1>5. TypeOK
    BY <1>2, <1>3, <1>4 DEF TypeOK
<1>6. Counting
    BY DEF Init, Counting, InSession, NoEarlyShutdown, AUTH_MAX_ATTEMPTS
<1> QED BY <1>5, <1>6

LEMMA CountingHolds == Spec => [](TypeOK /\ Counting)
<1>1. Init => TypeOK /\ Counting
    BY TypeInit
<1>2. TypeOK /\ Counting /\ [Next]_vars => TypeOK' /\ Counting'
    BY TypeStep
<1> QED BY <1>1, <1>2, PTL DEF Spec

(* However late, lost or coalesced the replies: a session that is open was *)
(* opened by a success reply (client.c:113, 281).                          *)
THEOREM SessionNeedsSuccess == Spec => []NoSessionWithoutSuccess
<1>1. Counting => NoSessionWithoutSuccess
    BY DEF Counting, NoSessionWithoutSuccess
<1> QED BY <1>1, CountingHolds, PTL

(* However late, lost or coalesced the replies: only three refusals at     *)
(* least shut the client down while it is connected (client.c:127).        *)
THEOREM ShutdownNeedsThreeFailures == Spec => []NoEarlyShutdown
<1>1. Counting => NoEarlyShutdown
    BY DEF Counting
<1> QED BY <1>1, CountingHolds, PTL
-----------------------------------------------------------------------------
\* A message is about the request the user waits for.
Expected(msg) ==
    /\ msg.id = sent
    /\ user = "authwait" => msg.type = "AUTH" /\ msg.user = creds
    /\ user = "querywait" => msg.type # "AUTH"

Waits == {"authwait", "querywait"}

(* One request or its reply at a time is under way, while the user waits   *)
(* for it without a token; a token is there only to be waited for, except  *)
(* the one of a failed recv, after which nothing is under way any more.    *)
OneAtATime ==
    /\ \/ NothingUnderWay
       \/ /\ user \in Waits /\ semaphore = 0
          /\ \/ \E req \in Requests :
                    toM = <<req>> /\ fromM = <<>> /\ link = "up" /\ Expected(req)
             \/ \E reply \in Replies : toM = <<>> /\ fromM = <<reply>> /\ Expected(reply)
    /\ link = "up" => semaphore \in {0, 1} /\ (semaphore = 1 => user \in {"setup"} \cup Waits)
    /\ ~connected => user = "setup" /\ semaphore = 0

(* Before the first success the count is the number of refusals; after it  *)
(* the user thread is on its way into the session of its credentials.      *)
Login ==
    /\ granted = {} => auth_failure_count = failures
    /\ granted # {} => /\ auth_failure_count = AUTH_SUCCESS
                       /\ creds \in granted
                       /\ user \in {"authwait", "check", "prompt", "querywait"}
                       /\ user = "authwait" => semaphore > 0
    /\ process = "exited" /\ link = "up" => granted = {} /\ failures = AUTH_MAX_ATTEMPTS

PromptInv == TypeOK /\ Counting /\ OneAtATime /\ Login

\* What holds throughout, and until the first reply that is late.
ClientInv == TypeOK /\ Counting /\ (~late => OneAtATime /\ Login)

(* A step of the user that sends: the request is the only message, or lost.*)
LEMMA SendAlone ==
    ASSUME NothingUnderWay, NEW req \in Requests, tcp_client_send(req), UNCHANGED fromM
    PROVE  /\ fromM' = <<>>
           /\ (toM' = <<req>> /\ link = "up") \/ toM' = <<>>
BY DEF NothingUnderWay, tcp_client_send

(* A stream of at most one reply: recv takes it, and nothing is left.      *)
LEMMA OneIsTaken ==
    ASSUME PromptInv, Receive
    PROVE  \E reply \in Replies :
              /\ toM = <<>> /\ fromM = <<reply>> /\ Expected(reply) /\ fromM' = <<>>
              /\ user \in Waits /\ semaphore = 0
              /\ on_auth_result(reply) \/ on_course_result(reply)
<1>1. PICK n \in 1 .. Len(fromM) : fromM' = SubSeq(fromM, n + 1, Len(fromM))
    BY DEF Receive
<1>2. fromM # <<>>
    BY <1>1
<1>3. PICK reply \in Replies : toM = <<>> /\ fromM = <<reply>> /\ Expected(reply)
    BY <1>2 DEF PromptInv, OneAtATime, NothingUnderWay
<1>4. Len(fromM) = 1 /\ Head(fromM) = reply
    BY <1>3
<1>5. fromM' = <<>>
    BY <1>1, <1>4
<1>6. user \in Waits /\ semaphore = 0
    BY <1>2 DEF PromptInv, OneAtATime, NothingUnderWay
<1> QED BY <1>3, <1>4, <1>5, <1>6 DEF Receive

LEMMA PromptStep ==
    ASSUME PromptInv, [Next]_vars, ~late'
    PROVE  OneAtATime' /\ Login'
<1> USE DEF history, streams, shared, AUTH_SUCCESS, AUTH_MAX_ATTEMPTS
<1>1. CASE Connect
    BY <1>1 DEF Connect, PromptInv, TypeOK, OneAtATime, Login, NothingUnderWay, Expected, Waits
<1>2. CASE ConnectFails
    BY <1>2 DEF ConnectFails, PromptInv, TypeOK, OneAtATime, Login, NothingUnderWay, Expected, Waits
<1>3. CASE Receive
    <2>1. PICK reply \in Replies :
              /\ toM = <<>> /\ fromM = <<reply>> /\ Expected(reply) /\ fromM' = <<>>
              /\ user \in Waits /\ semaphore = 0
              /\ on_auth_result(reply) \/ on_course_result(reply)
        BY <1>3, OneIsTaken
    <2>2. process = "running" /\ connected /\ UNCHANGED <<user, connected, creds, sent, toM, link>>
        BY <1>3 DEF Receive
    <2>3. CASE on_course_result(reply)
        <3>1. semaphore' = 1 /\ UNCHANGED <<process, auth_failure_count, granted, failures>>
            BY <2>1, <2>3 DEF on_course_result
        <3>2. OneAtATime'
            BY <2>1, <2>2, <3>1 DEF OneAtATime, NothingUnderWay
        <3> QED BY <2>2, <3>1, <3>2 DEF PromptInv, Login
    <2>4. CASE on_auth_result(reply)
        <3>1. user = "authwait" /\ reply.user = creds
            BY <2>1, <2>4 DEF on_auth_result, Expected, Waits
        <3>2. granted = {} /\ auth_failure_count = failures /\ failures \in Nat
            BY <2>1, <3>1 DEF PromptInv, Login, TypeOK
        <3>3. CASE on_authentication_success(reply)
            <4>1. /\ semaphore' = 1 /\ auth_failure_count' = AUTH_SUCCESS
                  /\ granted' = {creds} /\ UNCHANGED <<process, failures>>
                BY <2>1, <3>1, <3>2, <3>3 DEF on_authentication_success
            <4>2. OneAtATime'
                BY <2>1, <2>2, <4>1 DEF OneAtATime, NothingUnderWay
            <4> QED BY <2>2, <3>1, <4>1, <4>2 DEF Login
        <3>4. CASE on_authentication_failure(reply)
            <4>1. /\ semaphore' \in {0, 1} /\ granted' = {}
                  /\ auth_failure_count' = failures + 1 /\ failures' = failures + 1
                  /\ process' = "exited" => failures' = AUTH_MAX_ATTEMPTS
                BY <2>1, <2>2, <3>2, <3>4 DEF on_authentication_failure
            <4>2. OneAtATime'
                BY <2>1, <2>2, <4>1 DEF OneAtATime, NothingUnderWay
            <4> QED BY <4>1, <4>2 DEF Login
        <3> QED BY <2>4, <3>3, <3>4 DEF on_auth_result
    <2> QED BY <2>1, <2>3, <2>4
<1>4. CASE Disconnected
    BY <1>4 DEF Disconnected, PromptInv, OneAtATime, Login, NothingUnderWay, Expected, Waits
<1>5. CASE ReceiveError
    <2>1. NothingUnderWay
        BY <1>5 DEF ReceiveError, PromptInv, OneAtATime, NothingUnderWay
    <2> QED BY <1>5, <2>1 DEF ReceiveError, PromptInv, TypeOK, OneAtATime, Login, NothingUnderWay
<1>6. ASSUME NEW from \in {"setup", "type", "submit", "check", "prompt"}, NEW to, UserGoes(from, to)
      PROVE  NothingUnderWay
    BY <1>6 DEF UserGoes, PromptInv, OneAtATime, Waits
<1>7. CASE SetUp \/ ClearCredentials \/ CredentialsRefused \/ CategoryRefused \/ CheckLogin
    <2>1. NothingUnderWay /\ NothingUnderWay'
        BY <1>6, <1>7 DEF SetUp, ClearCredentials, CredentialsRefused, CategoryRefused,
                          CheckLogin, NothingUnderWay
    <2> USE DEF UserGoes, PromptInv, TypeOK, Counting, OneAtATime, Login, InSession, Waits
    <2>2. CASE SetUp
        BY <2>1, <2>2 DEF SetUp
    <2>3. CASE ClearCredentials
        BY <2>1, <2>3 DEF ClearCredentials
    <2>4. CASE CredentialsRefused
        BY <2>1, <2>4 DEF CredentialsRefused
    <2>5. CASE CategoryRefused
        BY <2>1, <2>5 DEF CategoryRefused
    <2>6. CASE CheckLogin
        BY <2>1, <2>6 DEF CheckLogin
    <2> QED BY <1>7, <2>2, <2>3, <2>4, <2>5, <2>6
<1>8. ASSUME NEW name \in Users, authenticate_user(name)
      PROVE  OneAtATime' /\ Login'
    <2>1. /\ UserGoes("submit", "authwait") /\ creds' = name
          /\ tcp_client_send([type |-> "AUTH", id |-> sent + 1, user |-> name])
          /\ UNCHANGED <<connected, semaphore, auth_failure_count, fromM, granted, failures, late>>
        BY <1>8 DEF authenticate_user
    <2>2. PICK req \in Requests :
              /\ req.id = sent + 1 /\ req.type = "AUTH" /\ req.user = name
              /\ tcp_client_send(req)
        BY <2>1, RequestTyped DEF tcp_client_send, PromptInv
    <2>3. fromM' = <<>> /\ ((toM' = <<req>> /\ link = "up") \/ toM' = <<>>)
        BY <1>6, <2>1, <2>2, SendAlone
    <2>4. /\ process' \in {process, "crashed"} /\ sent' = sent + 1
          /\ link' = "up" <=> link = "up"
        BY <2>1 DEF tcp_client_send
    <2>5. user = "submit" /\ user' = "authwait" /\ process = "running" /\ connected
        BY <2>1 DEF UserGoes, PromptInv, OneAtATime
    <2>6. link = "up" => semaphore = 0
        BY <2>5 DEF PromptInv, OneAtATime, Waits
    <2>7. CASE toM' = <<>>
        <3>1. OneAtATime'
            BY <2>1, <2>3, <2>4, <2>5, <2>6, <2>7 DEF OneAtATime, NothingUnderWay, Waits
        <3> QED BY <2>1, <2>4, <2>5, <3>1 DEF PromptInv, Login
    <2>8. CASE toM' = <<req>> /\ link = "up"
        <3>1. Expected(req)'
            BY <2>1, <2>2, <2>4, <2>5 DEF Expected
        <3>2. OneAtATime'
            BY <2>1, <2>2, <2>3, <2>4, <2>5, <2>6, <2>8, <3>1 DEF OneAtATime, Waits
        <3> QED BY <2>1, <2>4, <2>5, <3>2 DEF PromptInv, Login
    <2> QED BY <2>3, <2>7, <2>8
<1>9. ASSUME NEW type \in {"SINGLE", "MULTI"}, send_request(type)
      PROVE  OneAtATime' /\ Login'
    <2>1. /\ UserGoes("prompt", "querywait")
          /\ tcp_client_send([type |-> type, id |-> sent + 1])
          /\ UNCHANGED <<connected, semaphore, auth_failure_count, creds, fromM, granted, failures, late>>
        BY <1>9 DEF send_request
    <2>2. PICK req \in Requests :
              req.id = sent + 1 /\ req.type # "AUTH" /\ tcp_client_send(req)
        BY <2>1, RequestTyped DEF tcp_client_send, PromptInv
    <2>3. fromM' = <<>> /\ ((toM' = <<req>> /\ link = "up") \/ toM' = <<>>)
        BY <1>6, <2>1, <2>2, SendAlone
    <2>4. /\ process' \in {process, "crashed"} /\ sent' = sent + 1
          /\ link' = "up" <=> link = "up"
        BY <2>1 DEF tcp_client_send
    <2>5. user = "prompt" /\ user' = "querywait" /\ process = "running" /\ connected
        BY <2>1 DEF UserGoes, PromptInv, OneAtATime
    <2>6. link = "up" => semaphore = 0
        BY <2>5 DEF PromptInv, OneAtATime, Waits
    <2>7. CASE toM' = <<>>
        <3>1. OneAtATime'
            BY <2>1, <2>3, <2>4, <2>5, <2>6, <2>7 DEF OneAtATime, NothingUnderWay, Waits
        <3> QED BY <2>1, <2>4, <2>5, <3>1 DEF PromptInv, Login
    <2>8. CASE toM' = <<req>> /\ link = "up"
        <3>1. Expected(req)'
            BY <2>1, <2>2, <2>4, <2>5 DEF Expected
        <3>2. OneAtATime'
            BY <2>1, <2>2, <2>3, <2>4, <2>5, <2>6, <2>8, <3>1 DEF OneAtATime, Waits
        <3> QED BY <2>1, <2>4, <2>5, <3>2 DEF PromptInv, Login
    <2> QED BY <2>3, <2>7, <2>8
<1>10. ASSUME NEW from \in Waits, NEW to \in {"check", "prompt"},
              from = "querywait" <=> to = "prompt",
              Woken(from, to) \/ TimesOut(from, to)
       PROVE  OneAtATime' /\ Login'
    <2>1. NothingUnderWay /\ NothingUnderWay'
        <3>1. CASE Woken(from, to)
            BY <3>1 DEF Woken, PromptInv, TypeOK, OneAtATime, NothingUnderWay
        <3>2. CASE TimesOut(from, to)
            <4>1. NothingUnderWay
                BY <3>2, Zenon DEF TimesOut
            <4> QED BY <3>2, <4>1 DEF TimesOut, NothingUnderWay
        <3> QED BY <1>10, <3>1, <3>2
    <2> USE DEF UserGoes, PromptInv, TypeOK, OneAtATime, Login, Waits
    <2>2. CASE Woken(from, to)
        BY <1>10, <2>1, <2>2 DEF Woken
    <2>3. CASE TimesOut(from, to)
        BY <1>10, <2>1, <2>3 DEF TimesOut
    <2> QED BY <1>10, <2>2, <2>3
<1>11. CASE ServerAnswers
    <2>1. /\ toM # <<>> /\ toM' = Tail(toM)
          /\ \/ \E reply \in AnswersTo(Head(toM)) : fromM' = Append(fromM, reply)
             \/ UNCHANGED fromM
          /\ UNCHANGED <<process, user, connected, semaphore, auth_failure_count, creds,
                         sent, link, granted, failures, late>>
        BY <1>11 DEF ServerAnswers
    <2>2. PICK req \in Requests :
              toM = <<req>> /\ fromM = <<>> /\ Expected(req) /\ user \in Waits /\ semaphore = 0
        BY <2>1 DEF PromptInv, OneAtATime, NothingUnderWay
    <2>3. toM' = <<>> /\ Head(toM) = req
        BY <2>1, <2>2
    <2>4. CASE UNCHANGED fromM
        BY <2>1, <2>2, <2>3, <2>4 DEF PromptInv, OneAtATime, Login, NothingUnderWay
    <2>5. ASSUME NEW reply \in AnswersTo(req), fromM' = Append(fromM, reply)
          PROVE  OneAtATime' /\ Login'
        <3>1. fromM' = <<reply>>
            BY <2>2, <2>5
        <3>2. reply \in Replies /\ Expected(reply)'
            BY <2>1, <2>2, AnswerTyped DEF Expected
        <3> QED BY <2>1, <2>2, <2>3, <3>1, <3>2 DEF PromptInv, OneAtATime, Login
    <2> QED BY <2>1, <2>3, <2>4, <2>5
<1>12. CASE ServerHangsUp
    <2>1. /\ toM' = <<>> /\ link' # "up"
          /\ UNCHANGED <<process, user, connected, semaphore, auth_failure_count, creds,
                         sent, fromM, granted, failures, late>>
        BY <1>12 DEF ServerHangsUp
    <2>2. OneAtATime'
        BY <2>1 DEF PromptInv, OneAtATime, NothingUnderWay, Expected
    <2> QED BY <2>1, <2>2 DEF PromptInv, Login
<1>13. CASE Finished \/ UNCHANGED vars
    BY <1>13 DEF Finished, vars, PromptInv, OneAtATime, Login, NothingUnderWay, Expected
<1> QED BY <1>1, <1>2, <1>3, <1>4, <1>5, <1>7, <1>8, <1>9, <1>10, <1>11, <1>12, <1>13
        DEF Next, NetworkStep, UserStep, Timeout, Waits

\* A reply that was late stays one.
LEMMA LateStays ==
    ASSUME TypeOK, [Next]_vars, late
    PROVE  late'
<1> USE DEF history
<1>1. CASE Receive
    BY <1>1 DEF Receive
<1>2. CASE NetworkStep /\ ~Receive
    BY <1>2 DEF NetworkStep, Connect, ConnectFails, Disconnected, ReceiveError
<1>3. CASE UserStep
    BY <1>3 DEF UserStep, SetUp, ClearCredentials, CredentialsRefused, CheckLogin, CategoryRefused,
                authenticate_user, send_request, Woken
<1>4. CASE Timeout
    BY <1>4 DEF Timeout, TimesOut
<1>5. CASE ServerAnswers \/ ServerHangsUp \/ Finished \/ UNCHANGED vars
    BY <1>5 DEF ServerAnswers, ServerHangsUp, Finished, vars
<1> QED BY <1>1, <1>2, <1>3, <1>4, <1>5 DEF Next

LEMMA ClientHolds == Spec => []ClientInv
<1>1. Init => ClientInv
    BY TypeInit DEF Init, ClientInv, OneAtATime, Login, NothingUnderWay
<1>2. ClientInv /\ [Next]_vars => ClientInv'
    <2> SUFFICES ASSUME ClientInv, [Next]_vars
                 PROVE  ClientInv'
        OBVIOUS
    <2>1. TypeOK' /\ Counting'
        BY TypeStep DEF ClientInv
    <2>2. ASSUME ~late'
          PROVE  OneAtATime' /\ Login'
        <3>1. PromptInv
            BY <2>2, LateStays DEF ClientInv, PromptInv
        <3> QED BY <2>2, <3>1, PromptStep
    <2> QED BY <2>1, <2>2 DEF ClientInv
<1> QED BY <1>1, <1>2, PTL DEF Spec

(* The types of the client, however late replies come.                     *)
THEOREM ClientTypes == Spec => []TypeOK
<1>1. ClientInv => TypeOK
    BY DEF ClientInv
<1> QED BY <1>1, ClientHolds, PTL

(* Until a reply is late, each reply and each token meets the wait of the  *)
(* request it belongs to, for any number of requests                       *)
(* (client.c:277, 302, 339).                                               *)
THEOREM RepliesMeetTheirWaits == Spec => []ReplyMatchesWait
<1>1. ClientInv => ReplyMatchesWait
    <2> SUFFICES ASSUME ClientInv, ~late, PromptInv, link = "up"
                 PROVE  /\ fromM # <<>> => /\ user \in {"authwait", "querywait"}
                                           /\ semaphore = 0
                                           /\ fromM[1].id = sent
                                           /\ Len(fromM) = 1
                        /\ semaphore > 0 => user \in {"setup", "authwait", "querywait"}
                        /\ semaphore \in {0, 1}
        BY DEF ClientInv, PromptInv, ReplyMatchesWait
    <2>1. ASSUME fromM # <<>>
          PROVE  user \in Waits /\ semaphore = 0 /\ fromM[1].id = sent /\ Len(fromM) = 1
        <3>1. PICK reply \in Replies : fromM = <<reply>> /\ Expected(reply)
            BY <2>1 DEF PromptInv, OneAtATime, NothingUnderWay
        <3> QED BY <2>1, <3>1 DEF PromptInv, OneAtATime, NothingUnderWay, Expected
    <2> QED BY <2>1 DEF PromptInv, OneAtATime, Waits
<1> QED BY <1>1, ClientHolds, PTL

(* Until a reply is late, the session is the one of credentials            *)
(* the server accepted (client.c:113, 281, 284).                           *)
THEOREM SessionIsOfTheUserTyped == Spec => []TimelySessionIsAuthenticated
<1>1. ClientInv => TimelySessionIsAuthenticated
    BY DEF ClientInv, Counting, Login, TimelySessionIsAuthenticated, SessionUserIsAuthenticated
<1> QED BY <1>1, ClientHolds, PTL

(* Until a reply is late, the client shuts down on exactly three           *)
(* refusals and no success (client.c:127).                                 *)
THEOREM ShutdownIsOnThreeFailures == Spec => []ShutdownOnlyOnThreeFailures
<1>1. ClientInv => ShutdownOnlyOnThreeFailures
    BY DEF ClientInv, Login, ShutdownOnlyOnThreeFailures
<1> QED BY <1>1, ClientHolds, PTL
=============================================================================
