------------------------------ MODULE Terminal ------------------------------
(***************************************************************************)
(* The prompts of the client and the lines typed at them (client.c 41-109, *)
(* 258-309).  A prompt reads with fgets into a buffer of fixed size: of a  *)
(* line that does not fit with its newline the rest stays in stdin, and    *)
(* the next prompt reads it without waiting for its user.  Of a line only  *)
(* the length matters here; its words are modelled in module DataPath and  *)
(* the replies of the server in module Client.                             *)
(***************************************************************************)
EXTENDS Naturals

CONSTANTS
    Lengths,    \* the lengths of the lines a user may type
    NoLine      \* stdin is empty

ASSUME TerminalAssumption ==
    /\ Lengths \subseteq Nat
    /\ NoLine \notin [for : STRING, length : Nat, left : Nat]

Prompts == {"username", "password", "codes", "category"}

\* Mutant: no room for the terminating zero byte of a name or password.
BufferWithoutZero ==
    [prompt \in Prompts |->
        CASE prompt = "codes" -> 128
          [] prompt = "category" -> 24
          [] OTHER -> 50]

\* The sizes of the buffers, fgets stores one character less.
BufferSize ==
    [prompt \in Prompts |->
        CASE prompt = "codes" -> 128
          [] prompt = "category" -> 24
          [] OTHER -> 51]

CREDENTIALS_MIN_LEN == 5
CREDENTIALS_MAX_LEN == 50

VARIABLES
    at,         \* the prompt that is shown, or what the client waits for
    stdin,      \* the line typed last: where, its length, what is left of it
    read        \* what the last prompt read

vars == <<at, stdin, read>>

Line == [for : Prompts, length : Nat, left : Nat]
Piece == [at : Prompts, length : Nat, line : Line]

TypeOK ==
    /\ at \in Prompts \cup {"login", "reply", "exited"}
    /\ stdin \in Line \cup {NoLine}
    /\ read \in Piece \cup {NoLine}

Init == at = "username" /\ stdin = NoLine /\ read = NoLine

-----------------------------------------------------------------------------
\* The user types a line of n characters and a newline, when the client waits.
Type(n) ==
    /\ at \in Prompts
    /\ stdin = NoLine
    /\ stdin' = [for |-> at, length |-> n, left |-> n + 1]
    /\ UNCHANGED <<at, read>>

\* Mutant: the buffer is filled whatever was typed.
BlockRead(prompt) ==
    /\ at = prompt
    /\ stdin # NoLine
    /\ read' = [at |-> prompt, length |-> BufferSize[prompt] - 1, line |-> stdin]
    /\ stdin' = [stdin EXCEPT !.left = @ - (BufferSize[prompt] - 1)]

\* fgets, and the newline cut off if it was read.
Read(prompt) ==
    /\ at = prompt
    /\ stdin # NoLine
    /\ IF stdin.left < BufferSize[prompt]
       THEN /\ read' = [at |-> prompt, length |-> stdin.left - 1, line |-> stdin]
            /\ stdin' = NoLine
       ELSE /\ read' = [at |-> prompt, length |-> BufferSize[prompt] - 1, line |-> stdin]
            /\ stdin' = [stdin EXCEPT !.left = @ - (BufferSize[prompt] - 1)]

AllowedLength(n) == n \in CREDENTIALS_MIN_LEN .. CREDENTIALS_MAX_LEN

\* A refused name or password starts the prompts again.
ReadUsername ==
    /\ Read("username")
    /\ at' = IF AllowedLength(read'.length) THEN "password" ELSE "username"

ReadPassword ==
    /\ Read("password")
    /\ at' = IF AllowedLength(read'.length) THEN "login" ELSE "username"

\* Accepted, refused or timed out, refused for the third time.
LoginEnds ==
    /\ at = "login"
    /\ at' \in {"codes", "username", "exited"}
    /\ UNCHANGED <<stdin, read>>

\* One word, or none, asks for a category; two need three characters.
ReadCodes ==
    /\ Read("codes")
    /\ \/ at' = "category"
       \/ read'.length >= 3 /\ at' = "reply"

ReadCategory == Read("category") /\ at' = "reply"

ReplyOrTimeout ==
    /\ at = "reply"
    /\ at' = "codes"
    /\ UNCHANGED <<stdin, read>>

Finished == at = "exited" /\ UNCHANGED vars

ClientStep ==
    ReadUsername \/ ReadPassword \/ LoginEnds \/ ReadCodes \/ ReadCategory \/ ReplyOrTimeout

Next == (\E n \in Lengths : Type(n)) \/ ClientStep \/ Finished

Spec == Init /\ [][Next]_vars

-----------------------------------------------------------------------------
(* The longest line a user has reason to type at a prompt: a name or       *)
(* password (Instructions.md:67-68 allow a 50th character, see             *)
(* OnlyBadLengthsAreRefused); nine codes of nine characters, as many as    *)
(* the buffers of ten bytes hold with a zero (serverM.c:141,               *)
(* department_server.c:16 and 51), with a space between them; the longest  *)
(* category (database.c:68).                                               *)
LineLimit ==
    [prompt \in Prompts |->
        CASE prompt = "codes" -> 9 * 9 + 8
          [] prompt = "category" -> 11
          [] OTHER -> 49]

(* Whatever was typed before, however long: a line within its limit is     *)
(* read by the prompt it was typed at, and all of it; nothing of it is     *)
(* left for the prompts after it, and nothing of an earlier line is before *)
(* it (the buffers of client.c:44, 287, 288; fgets at 56, 75, 92, 106).    *)
PromptReadsItsLine ==
    (read # NoLine /\ read.line.length <= LineLimit[read.line.for]) =>
        /\ read.at = read.line.for
        /\ read.length = read.line.length

(* A name or password is refused only for its length: the user is at the   *)
(* name prompt again after typing a name and a password only if one of     *)
(* them is too short or too long (Instructions.md:67 "The username will be *)
(* of lower case characters (5~50 chars).", 68 for the password).          *)
OnlyBadLengthsAreRefused ==
    (read # NoLine /\ read.at \in {"username", "password"} /\ at = "username"
        /\ ~AllowedLength(read.length)) =>
            ~AllowedLength(read.line.length)
=============================================================================
