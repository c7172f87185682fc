---------------------------- MODULE QueryService ----------------------------
(***************************************************************************)
(* What the program promises its users, without servers, datagrams or      *)
(* threads (src/README.md:346): a user who is connected asks one thing at  *)
(* a time, credentials first; each request that has an answer gets one,    *)
(* the right one, and only then the user asks again.  A query none of      *)
(* whose courses exists stays without an answer until the user gives up.   *)
(***************************************************************************)
EXTENDS Messages

CONSTANTS
    Clients, NoName,
    Logins,     \* the AUTH requests users make
    Queries,    \* the SINGLE and MULTI requests users make
    NoQuery     \* a client that waits for nothing

VARIABLES
    connected,
    asked,      \* asked[c]: the request the user of c waits for, or NoQuery
    inbox,      \* inbox[c]: the answer that lies there for c, if any
    name        \* name[c]: the name the user of c logged in with, or NoName

vars == <<connected, asked, inbox, name>>

Init ==
    /\ connected = {}
    /\ asked = [c \in Clients |-> NoQuery]
    /\ inbox = [c \in Clients |-> <<>>]
    /\ name = [c \in Clients |-> NoName]

Connect(c) ==
    /\ c \notin connected
    /\ connected' = connected \cup {c}
    /\ asked' = [asked EXCEPT ![c] = NoQuery]
    /\ inbox' = [inbox EXCEPT ![c] = <<>>]
    /\ name' = [name EXCEPT ![c] = NoName]

Leave(c) ==
    /\ c \in connected
    /\ connected' = connected \ {c}
    /\ asked' = [asked EXCEPT ![c] = NoQuery]
    /\ name' = [name EXCEPT ![c] = NoName]
    /\ UNCHANGED inbox

\* One request at a time in the whole service.
Ask(c, req) ==
    /\ c \in connected
    /\ \A d \in Clients : asked[d] # NoQuery /\ inbox[d] = <<>> => ~HasAnswer(asked[d])
    /\ asked[c] = NoQuery
    /\ req \in IF name[c] = NoName THEN Logins ELSE Queries
    /\ asked' = [asked EXCEPT ![c] = req]
    /\ UNCHANGED <<connected, inbox, name>>

Answer(c) ==
    /\ asked[c] # NoQuery
    /\ HasAnswer(asked[c])
    /\ inbox[c] = <<>>
    /\ \E reply \in RightAnswers(asked[c]) : inbox' = [inbox EXCEPT ![c] = <<reply>>]
    /\ UNCHANGED <<connected, asked, name>>

\* The name of a user is known from the answer to the login.
Receive(c) ==
    /\ inbox[c] # <<>>
    /\ name' = IF Head(inbox[c]) = [type |-> "AUTH", flag |-> "SUCCESS"]
               THEN [name EXCEPT ![c] = asked[c].user]
               ELSE name
    /\ inbox' = [inbox EXCEPT ![c] = <<>>]
    /\ asked' = [asked EXCEPT ![c] = NoQuery]
    /\ UNCHANGED connected

GiveUp(c) ==
    /\ asked[c] # NoQuery
    /\ ~HasAnswer(asked[c])
    /\ asked' = [asked EXCEPT ![c] = NoQuery]
    /\ UNCHANGED <<connected, inbox, name>>

Next ==
    \E c \in Clients :
        \/ Connect(c) \/ Leave(c)
        \/ \E req \in Logins \cup Queries : Ask(c, req)
        \/ Answer(c) \/ Receive(c) \/ GiveUp(c)

Safety == Init /\ [][Next]_vars

Spec == Safety /\ \A c \in Clients : WF_vars(Answer(c))
=============================================================================
