------------------------------ MODULE Messages ------------------------------
(***************************************************************************)
(* What the processes say to each other, and what the answer to a request  *)
(* of a client should be.  A course code, a user name or a password is a   *)
(* member of a small set; the category of a single lookup is left out,     *)
(* because the client only sends valid ones and the answer to every valid  *)
(* one is the same message.  (Module DataPath has the bytes of all this.)  *)
(***************************************************************************)
EXTENDS Naturals, Sequences

CONSTANTS
    Codes,      \* course codes a user may type, known or not
    Catalog,    \* the codes listed in the file of their department
    DeptOf,     \* the department whose prefix a code carries, or NoDept
    NoDept,
    Words,      \* user names and passwords, in the clear and encrypted
    Encrypt,    \* the letterwise shift of database_credentials_encrypt
    Account     \* user name |-> password, in the clear, of cred.txt

CredentialServer == "C"
Departments == {"CS", "EE"}
Backend == Departments \cup {CredentialServer}

\* encrypt_buffer shifts each letter within its alphabet: two words never
\* have the same cipher text.
ASSUME CodesAssumption ==
    /\ Catalog \subseteq Codes
    /\ DeptOf \in [Codes -> Departments \cup {NoDept}]
    /\ NoDept \notin Departments
    /\ \A code \in Catalog : DeptOf[code] \in Departments

ASSUME WordsAssumption ==
    /\ Encrypt \in [Words -> Words]
    /\ \A v, w \in Words : Encrypt[v] = Encrypt[w] => v = w
    /\ DOMAIN Account \subseteq Words
    /\ \A user \in DOMAIN Account : Account[user] \in Words

-----------------------------------------------------------------------------
(* Requests and replies, one record set per message type of protocol.h.    *)

AuthRequest   == [type : {"AUTH"}, user : Words, pass : Words]
SingleRequest == [type : {"SINGLE"}, code : Codes]
MultiRequest  == [type : {"MULTI"}, codes : Seq(Codes)]
DetailRequest == [type : {"DETAIL"}, code : Codes]

ClientRequest  == AuthRequest \cup SingleRequest \cup MultiRequest

\* serverC is sent credentials only, a department course codes only.
BackendRequest(b) ==
    IF b = CredentialServer THEN AuthRequest ELSE SingleRequest \cup DetailRequest

AuthFlags == {"SUCCESS", "USER_NOT_FOUND", "PASSWORD_MISMATCH"}

AuthReply   == [type : {"AUTH"}, flag : AuthFlags]
SingleReply == [type : {"SINGLE"}, code : Codes]
DetailReply == [type : {"DETAIL"}, code : Codes]
ErrorReply  == [type : {"ERROR"}, code : Codes]
MultiReply  == [type : {"MULTI"}, codes : Seq(Codes)]

BackendReply == AuthReply \cup SingleReply \cup DetailReply \cup ErrorReply
ClientReply  == AuthReply \cup SingleReply \cup ErrorReply \cup MultiReply

-----------------------------------------------------------------------------
(* What a request deserves, from the accounts in the clear and the         *)
(* catalogue, without any of the servers.                                  *)

Known(code) == code \in Catalog

RightFlag(user, pass) ==
    IF user \notin DOMAIN Account THEN "USER_NOT_FOUND"
    ELSE IF Account[user] = pass THEN "SUCCESS"
    ELSE "PASSWORD_MISMATCH"

(* found is what is left of codes without the unknown ones: `at` maps the  *)
(* places of found to the places of known codes, in order.                 *)
PlacesOfKnown(codes) == {i \in 1 .. Len(codes) : Known(codes[i])}

SelectsBy(at, found, codes) ==
    /\ \A i, j \in 1 .. Len(found) : i < j => at[i] < at[j]
    /\ \A i \in 1 .. Len(found) : at[i] \in PlacesOfKnown(codes) /\ found[i] = codes[at[i]]
    /\ \A k \in PlacesOfKnown(codes) : \E i \in 1 .. Len(found) : at[i] = k

Selects(found, codes) ==
    \E at \in [1 .. Len(found) -> 1 .. Len(codes)] : SelectsBy(at, found, codes)

(* A query for several courses none of which is known has no answer.       *)
HasAnswer(req) ==
    req.type = "MULTI" => PlacesOfKnown(req.codes) # {}

RightAnswer(req, reply) ==
    \/ /\ req.type = "AUTH"
       /\ reply = [type |-> "AUTH", flag |-> RightFlag(req.user, req.pass)]
    \/ /\ req.type = "SINGLE"
       /\ reply = [type |-> IF Known(req.code) THEN "SINGLE" ELSE "ERROR", code |-> req.code]
    \/ /\ req.type = "MULTI" /\ reply.type = "MULTI"
       /\ Selects(reply.codes, req.codes)

(* No answer names more courses than its query.                            *)
ListsOfCodes(n) == UNION {[1 .. m -> Codes] : m \in 0 .. n}

RightAnswers(req) ==
    {reply \in AuthReply \cup SingleReply \cup ErrorReply
               \cup [type : {"MULTI"},
                     codes : IF req.type = "MULTI" THEN ListsOfCodes(Len(req.codes)) ELSE {<<>>}] :
        RightAnswer(req, reply)}
=============================================================================
