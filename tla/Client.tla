------------------------------- MODULE Client -------------------------------
(***************************************************************************)
(* One client process (client.c on top of the client half of               *)
(* networking.c) and its TCP connection to serverM.                        *)
(*                                                                         *)
(* The user thread collects credentials, then queries; after each request  *)
(* it waits on a semaphore, for two seconds at most.  The network thread   *)
(* connects, then handles one segment after the other and posts the        *)
(* semaphore once per segment, whatever the segment holds.  The two share  *)
(* auth_failure_count and creds without a lock, and nothing in a reply     *)
(* says which request it answers.                                          *)
(*                                                                         *)
(* The model numbers the requests of a run: the numbers are not in the     *)
(* messages of the program, they let the properties tell the replies apart.*)
(***************************************************************************)
EXTENDS Integers, Sequences

CONSTANTS
    Users,          \* user names, each typed with one password
    Valid,          \* those whose password is right
    NoUser,
    MaxRequests     \* requests a user sends in one run (bound)

ASSUME ClientAssumption ==
    /\ Valid \subseteq Users
    /\ NoUser \notin Users
    /\ MaxRequests \in Nat

AUTH_SUCCESS == -1
AUTH_MAX_ATTEMPTS == 3

VARIABLES
    process,            \* "running", "exited" or "crashed"
    user,               \* the next step of user_input_task
    connected,          \* network_thread_task is in its receive loop
    semaphore,
    auth_failure_count,
    creds,              \* the user name typed last
    sent,               \* the number of the last request
    toM,                \* requests on the stream to serverM
    fromM,              \* replies on the stream from serverM
    link,               \* "up", or how the connection ended
    granted,            \* the users whose success reply was handled
    failures,           \* the failure replies handled since the start
    late                \* a reply was still to come when its wait ended

vars == <<process, user, connected, semaphore, auth_failure_count, creds, sent,
          toM, fromM, link, granted, failures, late>>

Requests ==
    [type : {"AUTH"}, id : 1 .. MaxRequests, user : Users]
    \cup [type : {"SINGLE", "MULTI"}, id : 1 .. MaxRequests]

Replies ==
    [type : {"AUTH"}, id : 1 .. MaxRequests, user : Users, success : BOOLEAN]
    \cup [type : {"SINGLE", "MULTI", "ERROR"}, id : 1 .. MaxRequests]

TypeOK ==
    /\ process \in {"running", "exited", "crashed"}
    /\ user \in {"setup", "type", "submit", "authwait", "check", "prompt", "querywait"}
    /\ connected \in BOOLEAN
    /\ semaphore \in Nat
    /\ auth_failure_count \in AUTH_SUCCESS .. AUTH_MAX_ATTEMPTS
    /\ creds \in Users \cup {NoUser}
    /\ sent \in 0 .. MaxRequests
    /\ toM \in Seq(Requests)
    /\ fromM \in Seq(Replies)
    /\ link \in {"up", "closed", "reset", "gone"}
    /\ granted \subseteq Users
    /\ failures \in Nat
    /\ late \in BOOLEAN

Init ==
    /\ process = "running"
    /\ user = "setup"
    /\ connected = FALSE
    /\ semaphore = 0
    /\ auth_failure_count = 0
    /\ creds = NoUser
    /\ sent = 0
    /\ toM = <<>>
    /\ fromM = <<>>
    /\ link = "up"
    /\ granted = {}
    /\ failures = 0
    /\ late = FALSE

history == <<granted, failures, late>>
streams == <<toM, fromM, link>>
shared  == <<semaphore, auth_failure_count, creds>>

-----------------------------------------------------------------------------
(* The network thread.                                                     *)

(* tcp_client_connect, then on_setup_complete.                             *)
Connect ==
    /\ process = "running" /\ ~connected
    /\ connected' = TRUE
    /\ semaphore' = semaphore + 1
    /\ UNCHANGED <<process, user, auth_failure_count, creds, sent, streams, history>>

(* serverM is not there: on_setup_complete stores through a null pointer.  *)
ConnectFails ==
    /\ process = "running" /\ ~connected
    /\ process' = "crashed"
    /\ UNCHANGED <<user, connected, shared, sent, streams, history>>

\* Mutant: the count of failures stays where it was.
SuccessNotCounted(reply) ==
    /\ reply.success
    /\ semaphore' = semaphore + 1
    /\ granted' = granted \cup {reply.user}
    /\ UNCHANGED <<process, auth_failure_count, failures>>

on_authentication_success(reply) ==
    /\ reply.success
    /\ auth_failure_count' = AUTH_SUCCESS
    /\ semaphore' = semaphore + 1
    /\ granted' = granted \cup {reply.user}
    /\ UNCHANGED <<process, failures>>

(* Mutant: the limit is off by one.                                        *)
SecondFailureExits(reply) ==
    /\ ~reply.success
    /\ auth_failure_count' = auth_failure_count + 1
    /\ IF auth_failure_count' = AUTH_MAX_ATTEMPTS - 1
       THEN process' = "exited" /\ UNCHANGED semaphore
       ELSE semaphore' = semaphore + 1 /\ UNCHANGED process
    /\ failures' = failures + 1
    /\ UNCHANGED granted

(* The third failure ends the process before the semaphore is posted.      *)
on_authentication_failure(reply) ==
    /\ ~reply.success
    /\ auth_failure_count' = auth_failure_count + 1
    /\ IF auth_failure_count' = AUTH_MAX_ATTEMPTS
       THEN process' = "exited" /\ UNCHANGED semaphore
       ELSE semaphore' = semaphore + 1 /\ UNCHANGED process
    /\ failures' = failures + 1
    /\ UNCHANGED granted

on_auth_result(reply) ==
    /\ reply.type = "AUTH"
    /\ on_authentication_success(reply) \/ on_authentication_failure(reply)

\* on_course_lookup_info, on_course_multi_lookup and on_course_lookup_error
\* print the reply.
on_course_result(reply) ==
    /\ reply.type \in {"SINGLE", "MULTI", "ERROR"}
    /\ semaphore' = semaphore + 1
    /\ UNCHANGED <<process, auth_failure_count, history>>

(* One recv takes the n replies that have arrived; the first is handled.   *)
Receive ==
    /\ process = "running" /\ connected
    /\ \E n \in 1 .. Len(fromM) : fromM' = SubSeq(fromM, n + 1, Len(fromM))
    /\ on_auth_result(Head(fromM)) \/ on_course_result(Head(fromM))
    /\ UNCHANGED <<user, connected, creds, sent, toM, link, late>>

(* recv returns 0: on_tcp_disconnect ends the process.                     *)
Disconnected ==
    /\ process = "running" /\ connected
    /\ link \in {"closed", "gone"} /\ fromM = <<>>
    /\ process' = "exited"
    /\ UNCHANGED <<user, connected, shared, sent, streams, history>>

(* recv returns -1, a huge size_t: on_receive is called with an empty      *)
(* segment, of no known type.                                              *)
ReceiveError ==
    /\ process = "running" /\ connected
    /\ link = "reset" /\ fromM = <<>>
    /\ link' = "gone"
    /\ semaphore' = semaphore + 1
    /\ UNCHANGED <<process, user, connected, auth_failure_count, creds, sent, toM, fromM, history>>

-----------------------------------------------------------------------------
(* The user thread.                                                        *)

UserGoes(from, to) == process = "running" /\ user = from /\ user' = to

SetUp ==
    /\ UserGoes("setup", "type")
    /\ semaphore > 0
    /\ semaphore' = semaphore - 1
    /\ UNCHANGED <<process, connected, auth_failure_count, creds, sent, streams, history>>

(* The credentials of the last attempt are wiped before the user types.    *)
ClearCredentials ==
    /\ UserGoes("type", "submit")
    /\ creds' = NoUser
    /\ UNCHANGED <<process, connected, semaphore, auth_failure_count, sent, streams, history>>

(* tcp_client_send.  Once serverM hung up the first segment is lost, with  *)
(* the error that may be pending, and the next one raises SIGPIPE.         *)
tcp_client_send(req) ==
    /\ sent < MaxRequests
    /\ sent' = sent + 1
    /\ IF link = "up"
       THEN toM' = Append(toM, req) /\ UNCHANGED <<link, process>>
       ELSE /\ link' = "gone"
            /\ process' = IF link = "gone" THEN "crashed" ELSE process
            /\ UNCHANGED toM

authenticate_user(name) ==
    /\ UserGoes("submit", "authwait")
    /\ creds' = name
    /\ tcp_client_send([type |-> "AUTH", id |-> sent + 1, user |-> name])
    /\ UNCHANGED <<connected, semaphore, auth_failure_count, fromM, history>>

(* Mutant: refused credentials post the semaphore, as a refused category   *)
(* does, although no wait follows.                                         *)
RefusalPosts ==
    /\ UserGoes("submit", "check")
    /\ semaphore' = semaphore + 1
    /\ UNCHANGED <<process, connected, auth_failure_count, creds, sent, streams, history>>

(* collect_credentials refuses a name or password of a wrong length: the   *)
(* loop goes round without sending or waiting.  The name stays in creds: a *)
(* user's, when it is the password that is refused, or none (NoUser).      *)
CredentialsRefused ==
    /\ UserGoes("submit", "check")
    /\ \E name \in Users \cup {NoUser} : creds' = name
    /\ UNCHANGED <<process, connected, semaphore, auth_failure_count, sent, streams, history>>

\* Mutant: the wait returns without a token.
WokenWithoutToken(from, to) ==
    /\ UserGoes(from, to)
    /\ semaphore' = semaphore - 1
    /\ UNCHANGED <<process, connected, auth_failure_count, creds, sent, streams, history>>

Woken(from, to) ==
    /\ UserGoes(from, to)
    /\ semaphore > 0
    /\ semaphore' = semaphore - 1
    /\ UNCHANGED <<process, connected, auth_failure_count, creds, sent, streams, history>>

NothingUnderWay == toM = <<>> /\ fromM = <<>>

(* Mutant: a login without an answer in time counts as a refused one.      *)
TimeoutCounts(from, to) ==
    /\ UserGoes(from, to)
    /\ semaphore = 0
    /\ auth_failure_count' = auth_failure_count + (IF from = "authwait" THEN 1 ELSE 0)
    /\ late' = (late \/ ~NothingUnderWay)
    /\ UNCHANGED <<process, connected, semaphore, creds, sent, streams, granted, failures>>

(* No reply within two seconds: there is none, or it comes later.          *)
TimesOut(from, to) ==
    /\ UserGoes(from, to)
    /\ semaphore = 0
    /\ late' = (late \/ ~NothingUnderWay)
    /\ UNCHANGED <<process, connected, shared, sent, streams, granted, failures>>

(* Mutant: the login loop ends unless the last login was refused.          *)
CheckNoFailure ==
    /\ \/ auth_failure_count <= 0 /\ UserGoes("check", "prompt")
       \/ auth_failure_count > 0 /\ UserGoes("check", "type")
    /\ UNCHANGED <<process, connected, shared, sent, streams, history>>

(* Mutant: the credentials are wiped once they have been checked.          *)
CheckThenWipe ==
    /\ \/ auth_failure_count = AUTH_SUCCESS /\ UserGoes("check", "prompt")
       \/ auth_failure_count # AUTH_SUCCESS /\ UserGoes("check", "type")
    /\ creds' = NoUser
    /\ UNCHANGED <<process, connected, semaphore, auth_failure_count, sent, streams, history>>

(* The condition at the end of the login loop.                             *)
CheckLogin ==
    /\ \/ auth_failure_count = AUTH_SUCCESS /\ UserGoes("check", "prompt")
       \/ auth_failure_count # AUTH_SUCCESS /\ UserGoes("check", "type")
    /\ UNCHANGED <<process, connected, shared, sent, streams, history>>

(* A line is one code or several: one without a word counts as one code.   *)
send_request(type) ==
    /\ UserGoes("prompt", "querywait")
    /\ tcp_client_send([type |-> type, id |-> sent + 1])
    /\ UNCHANGED <<connected, shared, fromM, history>>

(* An unknown category, or none at the end of the input, is not sent; the  *)
(* wait that follows ends at once.                                         *)
CategoryRefused ==
    /\ UserGoes("prompt", "querywait")
    /\ semaphore' = semaphore + 1
    /\ UNCHANGED <<process, connected, auth_failure_count, creds, sent, streams, history>>

-----------------------------------------------------------------------------
(* serverM, from what the client sees of it: it answers requests in order, *)
(* at any time; a query for several unknown courses it does not answer.    *)

AnswersTo(req) ==
    CASE req.type = "AUTH" ->
            {[type |-> "AUTH", id |-> req.id, user |-> req.user, success |-> req.user \in Valid]}
      [] req.type = "SINGLE" ->
            {[type |-> type, id |-> req.id] : type \in {"SINGLE", "ERROR"}}
      [] req.type = "MULTI" -> {[type |-> "MULTI", id |-> req.id]}

ServerAnswers ==
    /\ toM # <<>> /\ link = "up"
    /\ toM' = Tail(toM)
    /\ \/ \E reply \in AnswersTo(Head(toM)) : fromM' = Append(fromM, reply)
       \/ Head(toM).type = "MULTI" /\ UNCHANGED fromM
    /\ UNCHANGED <<process, user, connected, shared, sent, link, history>>

(* serverM ends; with requests unread the connection is reset.             *)
ServerHangsUp ==
    /\ connected /\ link = "up"
    /\ link' = IF toM = <<>> THEN "closed" ELSE "reset"
    /\ toM' = <<>>
    /\ UNCHANGED <<process, user, connected, shared, sent, fromM, history>>

-----------------------------------------------------------------------------
NetworkStep == Connect \/ ConnectFails \/ Receive \/ Disconnected \/ ReceiveError

UserStep ==
    \/ SetUp \/ ClearCredentials \/ CredentialsRefused \/ CheckLogin \/ CategoryRefused
    \/ \E name \in Users : authenticate_user(name)
    \/ \E type \in {"SINGLE", "MULTI"} : send_request(type)
    \/ Woken("authwait", "check") \/ Woken("querywait", "prompt")

Timeout == TimesOut("authwait", "check") \/ TimesOut("querywait", "prompt")

Finished == process # "running" /\ UNCHANGED vars

Next ==
    NetworkStep \/ UserStep \/ Timeout \/ ServerAnswers \/ ServerHangsUp \/ Finished

Spec ==
    /\ Init /\ [][Next]_vars
    /\ WF_vars(Receive) /\ WF_vars(Disconnected)
    /\ WF_vars(Woken("authwait", "check")) /\ WF_vars(CheckLogin)
    /\ WF_vars(ServerAnswers)

-----------------------------------------------------------------------------
InSession == user \in {"prompt", "querywait"}

(* The reply the network thread is about to handle, and the token it will  *)
(* post, belong to the request the user thread waits for: no token and no  *)
(* reply of an earlier request is left when the user types the next one    *)
(* (client.c:277, 302 against 339 and 178), as long as serverM is there    *)
(* and every reply has come within the two seconds of its wait.            *)
ReplyMatchesWait ==
    ~late /\ link = "up" =>
        /\ fromM # <<>> =>
              /\ user \in {"authwait", "querywait"}
              /\ semaphore = 0
              /\ fromM[1].id = sent
              /\ Len(fromM) = 1
        /\ semaphore > 0 => user \in {"setup", "authwait", "querywait"}
        /\ semaphore \in {0, 1}

(* A session is only opened by a success reply, however late, lost or      *)
(* coalesced the replies are: the check of auth_failure_count (281) races  *)
(* with the network thread that counts in it (113, 127).                   *)
NoSessionWithoutSuccess == InSession /\ process = "running" => granted # {}

(* However the replies come, a client that shuts down over failed logins   *)
(* has been refused three times at least: a login without an answer in     *)
(* time, or with credentials of a wrong length, is not counted (277, 281). *)
NoEarlyShutdown ==
    process = "exited" /\ link = "up" => failures >= AUTH_MAX_ATTEMPTS

(* The user announced as authenticated (284) is one whose login succeeded. *)
SessionUserIsAuthenticated == InSession => creds \in granted

(* It is, as long as every reply has come in time: the credentials are     *)
(* wiped and typed again (268, 271) only when none is under way.           *)
TimelySessionIsAuthenticated == ~late => SessionUserIsAuthenticated

(* As long as every reply has come in time, the client shuts down over     *)
(* failed logins only when three of them were made and none passed         *)
(* (client.c:127, Instructions.md:89).                                     *)
ShutdownOnlyOnThreeFailures ==
    ~late /\ process = "exited" /\ link = "up" => granted = {} /\ failures = AUTH_MAX_ATTEMPTS

(* A login of a valid user that is being waited for opens the session,     *)
(* unless the connection is lost or a reply is late.                       *)
ValidLoginOpensSession ==
    (user = "authwait" /\ creds \in Valid)
        ~> (user = "prompt" \/ process # "running" \/ link # "up" \/ late)
=============================================================================
