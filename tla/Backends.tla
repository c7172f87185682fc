------------------------------ MODULE Backends ------------------------------
(***************************************************************************)
(* What the three backend servers answer, as functions of the datagram     *)
(* they receive: serverC checks encrypted credentials, serverCS and        *)
(* serverEE look courses up.  They keep no state between two datagrams.    *)
(***************************************************************************)
EXTENDS Messages

(* serverC: the list read from the file holds cipher text, and the request *)
(* of serverM is compared with it byte for byte.                           *)

credentials_db == {[user |-> Encrypt[u], pass |-> Encrypt[Account[u]]] : u \in DOMAIN Account}

\* Mutant: the password is not looked at.
AnyPassword(user, pass) ==
    IF \E entry \in credentials_db : entry.user = user THEN "SUCCESS" ELSE "USER_NOT_FOUND"

database_credentials_validate(user, pass) ==
    IF [user |-> user, pass |-> pass] \in credentials_db THEN "SUCCESS"
    ELSE IF \E entry \in credentials_db : entry.user = user THEN "PASSWORD_MISMATCH"
    ELSE "USER_NOT_FOUND"

CredentialReply(req) ==
    [type |-> "AUTH", flag |-> database_credentials_validate(req.user, req.pass)]

(* serverCS and serverEE: a found code is answered with a message of the   *)
(* type of the request, an unknown one with an error carrying the code.    *)

DepartmentDb(dept) == {code \in Catalog : DeptOf[code] = dept}

DepartmentReply(dept, req) ==
    [type |-> IF req.code \in DepartmentDb(dept) THEN req.type ELSE "ERROR",
     code |-> req.code]

BackendAnswer(b, req) ==
    IF b = CredentialServer THEN CredentialReply(req) ELSE DepartmentReply(b, req)
=============================================================================
