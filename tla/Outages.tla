------------------------------ MODULE Outages ------------------------------
(***************************************************************************)
(* serverM and one user while backends are started, end and are started    *)
(* again.  A datagram for a backend that is not there is lost, without an  *)
(* error that serverM would see (udp_send, networking.c:331), and so are   *)
(* those that lie at its socket when it ends; nobody sends them again.     *)
(* A backend keeps nothing: a new one reads its file and is as good as the *)
(* old one.  The thread of a query that waits for a lost answer has no     *)
(* timeout (serverM.c:182); the client has one, and its user goes on.      *)
(***************************************************************************)
EXTENDS Sessions

CONSTANTS NoArgs, WithFile      \* the command lines of serverC

VARIABLE process    \* process[b]: "none", "running", or "exited" by itself

outageVars == <<vars, process>>

OutagesTypeOK ==
    /\ SessionsTypeOK
    /\ process \in [Backend -> {"none", "running", "exited"}]

OutagesInit == Init /\ process = [b \in Backend |-> "none"]

Running(b) == process[b] = "running"

-----------------------------------------------------------------------------
(* capture_data_file_from_args gives main the file that is named, and no   *)
(* file without arguments: the default of line 102 is overwritten, and     *)
(* main returns without a list of credentials.  The departments take their *)
(* file by name and no arguments.                                          *)
main(b, args) ==
    IF b = CredentialServer /\ args = NoArgs THEN "exited" ELSE "running"

BindOrEnd(b) ==
    /\ toBackend' = [toBackend EXCEPT ![b] = <<>>]
    /\ UNCHANGED <<mainVars, frame, toClient, toUdp, thread, threadVars, listVars, sem, userVars>>

\* Mutant: requests sent while nobody was there are served after all.
StartLate(b, args) ==
    /\ ~Running(b)
    /\ process' = [process EXCEPT ![b] = main(b, args)]
    /\ UNCHANGED vars

Start(b, args) ==
    /\ ~Running(b)
    /\ process' = [process EXCEPT ![b] = main(b, args)]
    /\ BindOrEnd(b)

Stop(b) ==
    /\ Running(b)
    /\ process' = [process EXCEPT ![b] = "none"]
    /\ BindOrEnd(b)

\* No socket is bound to the port of b.
Lost(b) ==
    /\ ~Running(b)
    /\ toBackend[b] # <<>>
    /\ toBackend' = [toBackend EXCEPT ![b] = Tail(@)]
    /\ UNCHANGED <<mainVars, frame, toClient, toUdp, thread, threadVars, listVars, sem, userVars,
                   process>>

BackendServes(b) ==
    /\ Running(b)
    /\ BackendServe(b)
    /\ UNCHANGED <<userVars, process>>

\* Mutant: serverM reads no request while a query thread is at work.
MainJoins ==
    /\ UdpReceive \/ (NoLiveThread /\ \E c \in Clients : TcpReceive(c))
    /\ UNCHANGED <<userVars, process>>

MainStep ==
    /\ UdpReceive \/ \E c \in Clients : TcpReceive(c)
    /\ UNCHANGED <<userVars, process>>

QueryThreadStep(t) == ThreadStep(t) /\ UNCHANGED <<userVars, process>>

-----------------------------------------------------------------------------
(* The user asks, and gives up, when no answer can come any more.          *)

Stalled ==
    /\ \A c \in Clients : toM[c] = <<>> /\ toClient[c] = <<>>
    /\ \A b \in Backend : Running(b) => toBackend[b] = <<>>
    /\ toUdp = <<>>
    /\ \A t \in Threads : pc[t] = "none" \/ (pc[t] = "wait" /\ sem = 0)

\* The bounds of a run: threads for one more query, room at a backend.
RoomFor(req) ==
    /\ req.type = "MULTI" => \E t \in Threads : pc[t] = "none"
    /\ \A b \in Backend : Len(toBackend[b]) < MaxBacklog

UserStep(c) ==
    /\ \/ Stalled /\ open = {} /\ Connect(c)
       \/ \E req \in Logins \cup Queries : Stalled /\ RoomFor(req) /\ Ask(c, req)
       \/ GetReply(c)
       \/ Stalled /\ GiveUp(c)
    /\ UNCHANGED process

OutagesNext ==
    \/ MainStep
    \/ \E t \in Threads : QueryThreadStep(t)
    \/ \E b \in Backend :
          \/ BackendServes(b) \/ Stop(b) \/ Lost(b)
          \/ \E args \in {NoArgs, WithFile} : Start(b, args)
    \/ \E c \in Clients : UserStep(c)

OutagesSpec ==
    /\ OutagesInit /\ [][OutagesNext]_outageVars
    /\ WF_outageVars(MainStep)
    /\ \A t \in Threads : WF_outageVars(QueryThreadStep(t))
    /\ \A b \in Backend : WF_outageVars(BackendServes(b))

-----------------------------------------------------------------------------
(* A verdict or the answer to a single query is for the request the user   *)
(* waits for, whatever was lost, given up and asked again in between       *)
(* (serverM.c:86, 219).                                                    *)
ReplyIsForThisRequest ==
    \A c \in Clients :
        (toClient[c] # <<>> /\ Head(toClient[c]).type \in {"AUTH", "SINGLE"}) =>
            /\ waiting[c] # NoQuery
            /\ RightAnswer(waiting[c], Head(toClient[c]))

\* What the main thread does without a query thread.
ServedBy(req) == IF req.type = "AUTH" THEN CredentialServer ELSE DeptOf[req.code]

ForMainThread(req) == req.type = "AUTH" \/ (req.type = "SINGLE" /\ Known(req.code))

\* A request on the stream to serverM.
Sent(c, req) == toM[c] # <<>> /\ Head(toM[c]) = req

(* The main thread never waits for a query thread: logins and queries for  *)
(* one known course are answered while threads wait for ever, unless their *)
(* own backend is not there.                                               *)
MainThreadAnswers ==
    \A c \in Clients : \A req \in {r \in Logins \cup Queries : ForMainThread(r)} :
        (Sent(c, req) /\ Running(ServedBy(req))) ~> (toClient[c] # <<>> \/ ~Running(ServedBy(req)))

(* When all backends are there, every request that has an answer gets one  *)
(* (src/README.md:346, "If a client sends a query, it will be served").    *)
ServedOnceAllRun ==
    \A c \in Clients : \A req \in {r \in Logins \cup Queries : HasAnswer(r)} :
        (Sent(c, req) /\ \A b \in Backend : Running(b))
            ~> (toClient[c] # <<>> \/ \E b \in Backend : ~Running(b))
=============================================================================
