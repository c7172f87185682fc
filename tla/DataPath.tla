------------------------------ MODULE DataPath ------------------------------
(***************************************************************************)
(* One login or query on its way from the keyboard through client, serverM *)
(* and backend and back to the screen, with the bytes each of them reads   *)
(* and writes: the lines as they are typed, the messages of module Wire,   *)
(* the files of module DataFiles.  The processes take turns here; their    *)
(* interleavings are the subject of the modules ServerM, Client, Sessions. *)
(***************************************************************************)
EXTENDS Wire, DataFiles

CONSTANTS
    CredFile, CsFile, EeFile,   \* the lines of cred.txt, cs.txt and ee.txt
    Logins,                     \* what users type as their name and password
    Lines, Categories,          \* the lines typed at the prompts of a query
    Stale,                      \* bytes that memory may hold that nobody wrote
    Accounts, Courses, Meaning  \* what the files and the categories stand for

VARIABLES
    at,         \* whose turn it is
    typed,      \* the login or query that is under way
    flight,     \* the message under way
    todo,       \* the codes the query thread has not asked for yet
    list,       \* multi_course_response
    shown       \* what the client prints in the end

vars == <<at, typed, flight, todo, list, shown>>

credentials_db == fileio_credential_server_db_create(CredFile)

\* What fgets reads of a name or password, which is no more than its buffer
\* holds, is the word that is meant and the end of its line.
TypedAs(line, word) ==
    /\ line \in Seq(Byte) /\ Len(line) <= CREDENTIALS_MAX_LEN
    /\ utils_string_rtrim_newlines(line) = Chars(word)

ASSUME LoginsAssumption ==
    \A login \in Logins :
        TypedAs(login.username, login.means[1]) /\ TypedAs(login.password, login.means[2])

Names == DOMAIN Accounts \cup {login.means[1] : login \in Logins}
Passwords == {Accounts[user] : user \in DOMAIN Accounts} \cup {login.means[2] : login \in Logins}

OneToOne(S) == \A v, w \in S : Chars(v) = Chars(w) => v = w

Ciphered(user) ==
    [username |-> encrypt_buffer(Chars(user)), password |-> encrypt_buffer(Chars(Accounts[user]))]

\* What serverC reads from cred.txt are the accounts in cipher text: each has
\* an entry that comes before any other of its name, and nobody else has one.
ASSUME AccountsAssumption ==
    /\ credentials_db \in Seq([username : Seq(Byte), password : Seq(Byte)])
    /\ OneToOne(Names) /\ OneToOne(Passwords)
    /\ \A user \in DOMAIN Accounts :
          /\ Chars(user) \in Seq(Byte) \ {<<>>} /\ Chars(Accounts[user]) \in Seq(Byte)
          /\ \E i \in DOMAIN credentials_db :
                /\ credentials_db[i] = Ciphered(user)
                /\ \A k \in 1 .. i - 1 : credentials_db[k].username # Ciphered(user).username
    /\ \A i \in DOMAIN credentials_db :
          \E user \in DOMAIN Accounts : credentials_db[i].username = Ciphered(user).username

CsDb == fileio_department_server_db_create(CsFile)
EeDb == fileio_department_server_db_create(EeFile)

db(department) == IF department = "CS" THEN CsDb ELSE EeDb

\* error.h and protocol.h
ERR_COURSES_NOT_FOUND == 66
AUTH_FLAGS_SUCCESS == 16
AUTH_FLAGS_FAILURE == 32
AUTH_FLAGS_USER_NOT_FOUND == 1
AUTH_FLAGS_PASSWORD_MISMATCH == 2

Nowhere == "nowhere"

\* The two first characters say whose course it is.  A code with fewer has no
\* department: a length byte or a zero follows it in its buffer.  Behind the
\* last code of a list nobody wrote, and a letter there would send the code to
\* a backend, which is sent the one letter, knows no such course and says so:
\* the thread goes on without a row all the same.
get_department_server_endpoint(code) ==
    LET Starts(prefix) == Len(code) >= 2 /\ SameIgnoringCase(SubSeq(code, 1, 2), Chars(prefix))
    IN CASE Starts("EE") -> "EE" [] Starts("CS") -> "CS" [] OTHER -> Nowhere

Silence == [kind |-> "timeout"]

Init ==
    /\ at = "prompt" /\ typed = Silence /\ flight = NoMessage
    /\ todo = <<>> /\ list = <<>> /\ shown = Silence

\* A message goes to the next process; one without bytes ends in a timeout.
Hand(message, to) ==
    /\ flight' = message
    /\ at' = IF message = NoMessage THEN "shown" ELSE to
    /\ shown' = Silence

Screen(result) ==
    /\ shown' = result
    /\ at' = "shown"
    /\ UNCHANGED <<typed, flight, todo, list>>

-----------------------------------------------------------------------------
(* Login.                                                                  *)

Refused == [kind |-> "refused"]

collect_credentials(login) ==
    [username |-> utils_string_rtrim_newlines(login.username),
     password |-> utils_string_rtrim_newlines(login.password)]

\* Mutant: only what is too long is refused.
ShortOnesPass(credential) == Len(credential) <= CREDENTIALS_MAX_LEN

\* A name or a password of a wrong length is refused, and nothing is sent.
Accepted(credential) == Len(credential) \in CREDENTIALS_MIN_LEN .. CREDENTIALS_MAX_LEN

authenticate_user(login) ==
    LET creds == collect_credentials(login)
    IN /\ at = "prompt"
       /\ typed' = [kind |-> "login", login |-> login]
       /\ IF Accepted(creds.username) /\ Accepted(creds.password)
          THEN Hand(protocol_authentication_request_encode(creds), "serverM")
          ELSE shown' = Refused /\ at' = "shown" /\ UNCHANGED flight
       /\ UNCHANGED <<todo, list>>

on_auth_request_received ==
    /\ at = "serverM" /\ flight.type = "AUTH_REQUEST"
    /\ Hand(protocol_authentication_request_encode(
                database_credentials_encrypt(protocol_authentication_request_decode(flight))),
            "serverC")
    /\ UNCHANGED <<typed, todo, list>>

FlagsOf(status) ==
    CASE status = "OK" -> AUTH_FLAGS_SUCCESS
      [] status = "USER_NOT_FOUND" -> AUTH_FLAGS_FAILURE + AUTH_FLAGS_USER_NOT_FOUND
      [] status = "PASSWORD_MISMATCH" -> AUTH_FLAGS_FAILURE + AUTH_FLAGS_PASSWORD_MISMATCH

handle_auth_request_validate ==
    /\ at = "serverC"
    /\ Hand(protocol_authentication_response_encode(FlagsOf(
                database_credentials_validate(
                    credentials_db, protocol_authentication_request_decode(flight)))),
            "client")
    /\ UNCHANGED <<typed, todo, list>>

Bit(flags, b) == (flags \div b) % 2 = 1

on_auth_result ==
    /\ at = "client" /\ flight.type = "AUTH_REPLY"
    /\ LET flags == protocol_authentication_response_decode(flight)
       IN Screen([kind |-> CASE Bit(flags, AUTH_FLAGS_SUCCESS) -> "welcome"
                            [] Bit(flags, AUTH_FLAGS_USER_NOT_FOUND) -> "no such user"
                            [] OTHER -> "wrong password"])

-----------------------------------------------------------------------------
(* Query.                                                                  *)

InvalidCategory == [kind |-> "invalid category"]

send_request(line, category) ==
    LET count == utils_get_word_count(line)
        code  == TrimmedInPlace(line)
        named == database_courses_lookup_category_from_string(utils_string_trim(category))
    IN /\ at = "prompt"
       /\ typed' = [kind |-> "query", line |-> line, category |-> category]
       /\ \/ /\ count = 1 /\ named = COURSES_LOOKUP_CATEGORY_INVALID
             /\ shown' = InvalidCategory /\ at' = "shown" /\ UNCHANGED flight
          \/ /\ count = 1 /\ named # COURSES_LOOKUP_CATEGORY_INVALID
             /\ Hand(protocol_courses_lookup_single_request_encode(code, named), "serverM")
          \/ /\ count > 1
             /\ Hand(protocol_courses_lookup_multiple_request_encode(count, code), "serverM")
       /\ UNCHANGED <<todo, list>>

on_course_lookup_info_request_received ==
    LET request == protocol_courses_lookup_single_request_decode(flight)
        server  == get_department_server_endpoint(request.code)
    IN /\ at = "serverM" /\ flight.type = "SINGLE_REQUEST"
       /\ IF server # Nowhere
          THEN Hand(protocol_courses_lookup_single_request_encode(
                        request.code, request.category), server)
          ELSE Hand(protocol_courses_error_encode(ERR_COURSES_NOT_FOUND, request.code), "client")
       /\ UNCHANGED <<typed, todo, list>>

handle_course_info_lookup_request(server) ==
    LET request == protocol_courses_lookup_single_request_decode(flight)
        course  == database_courses_lookup(db(server), request.code)
    IN /\ at = server /\ flight.type = "SINGLE_REQUEST"
       /\ Hand(IF course = NoCourse
               THEN protocol_courses_error_encode(ERR_COURSES_NOT_FOUND, request.code)
               ELSE protocol_courses_lookup_single_response_encode(
                        request.code, request.category,
                        database_courses_lookup_info(course, request.category)),
               "client")
       /\ UNCHANGED <<typed, todo, list>>

\* multi_request_thread decodes the codes and asks for one after the other.
multi_request_thread ==
    /\ at = "serverM" /\ flight.type = "MULTI_REQUEST"
    /\ \E stale \in Stale :
        todo' = protocol_courses_lookup_multiple_request_decode(flight, stale)
    /\ list' = <<>>
    /\ at' = "thread"
    /\ UNCHANGED <<typed, flight, shown>>

\* Mutant: the offset does not move on to the next code.
CodeAskedAgain ==
    LET server == get_department_server_endpoint(Head(todo))
    IN /\ at = "thread" /\ todo # <<>>
       /\ IF server # Nowhere
          THEN /\ flight' = protocol_courses_lookup_detail_request_encode(Head(todo))
               /\ at' = server
          ELSE UNCHANGED <<flight, at>>
       /\ UNCHANGED <<typed, todo, list, shown>>

\* A code of no department is answered at once, and the next one is taken.
single_course_code_handler ==
    LET server == get_department_server_endpoint(Head(todo))
    IN /\ at = "thread" /\ todo # <<>>
       /\ todo' = Tail(todo)
       /\ IF server # Nowhere
          THEN /\ flight' = protocol_courses_lookup_detail_request_encode(Head(todo))
               /\ at' = server
          ELSE UNCHANGED <<flight, at>>
       /\ UNCHANGED <<typed, list, shown>>

handle_course_detail_lookup_request(server) ==
    LET code   == protocol_courses_lookup_detail_request_decode(flight)
        course == database_courses_lookup(db(server), code)
    IN /\ at = server /\ flight.type = "DETAIL_REQUEST"
       /\ flight' = IF course = NoCourse
                    THEN protocol_courses_error_encode(ERR_COURSES_NOT_FOUND, code)
                    ELSE protocol_courses_lookup_detail_response_encode(course)
       /\ at' = "collect"
       /\ UNCHANGED <<typed, todo, list, shown>>

\* on_udp_server_rx while the thread waits.
insert_to_end_of_linked_list ==
    /\ at = "collect"
    /\ IF flight.type = "ERROR" THEN UNCHANGED list
       ELSE \E stale \in Stale :
                list' = Append(list,
                    protocol_courses_lookup_detail_response_decode(flight, stale))
    /\ at' = "thread"
    /\ UNCHANGED <<typed, flight, todo, shown>>

ThreadResponds ==
    /\ at = "thread" /\ todo = <<>>
    /\ Hand(protocol_courses_lookup_multiple_response_encode(list), "client")
    /\ UNCHANGED <<typed, todo, list>>

-----------------------------------------------------------------------------
(* The screen.                                                             *)

on_course_lookup_info ==
    /\ at = "client" /\ flight.type = "SINGLE_REPLY"
    /\ \E stale \in Stale :
        LET reply == protocol_courses_lookup_single_response_decode(flight, stale)
        IN Screen([kind |-> "value", category |-> reply.category, code |-> reply.code,
                  info |-> reply.info])

on_course_lookup_error ==
    /\ at = "client" /\ flight.type = "ERROR"
    /\ LET reply == protocol_courses_error_decode(flight)
       IN Screen(IF reply.error = ERR_COURSES_NOT_FOUND
                THEN [kind |-> "not found", code |-> reply.data]
                ELSE [kind |-> "unknown error"])

on_course_multi_lookup ==
    /\ at = "client" /\ flight.type = "MULTI_REPLY"
    /\ Screen([kind |-> "table",
              courses |-> protocol_courses_lookup_multiple_response_decode(flight)])

NextPrompt ==
    /\ at = "shown"
    /\ at' = "prompt" /\ typed' = Silence /\ flight' = NoMessage
    /\ todo' = <<>> /\ list' = <<>> /\ shown' = Silence

Next ==
    \/ \E login \in Logins : authenticate_user(login)
    \/ on_auth_request_received \/ handle_auth_request_validate \/ on_auth_result
    \/ \E line \in Lines, category \in Categories : send_request(line, category)
    \/ on_course_lookup_info_request_received
    \/ \E server \in {"CS", "EE"} :
        \/ handle_course_info_lookup_request(server)
        \/ handle_course_detail_lookup_request(server)
    \/ multi_request_thread \/ single_course_code_handler
    \/ insert_to_end_of_linked_list \/ ThreadResponds
    \/ on_course_lookup_info \/ on_course_lookup_error \/ on_course_multi_lookup
    \/ NextPrompt

Spec == Init /\ [][Next]_vars

-----------------------------------------------------------------------------
(* Types: a message has a payload that fits, and nothing but bytes; the    *)
(* codes of a query fit the buffer they are decoded from.                  *)
TypeOK ==
    /\ at \in {"prompt", "serverM", "serverC", "CS", "EE", "thread", "collect", "client", "shown"}
    /\ flight.flags \in Byte
    /\ Len(flight.payload) <= PayloadMax
    /\ \A i \in DOMAIN flight.payload : flight.payload[i] \in Byte
    /\ Len(todo) + Len(list) < DecodeBuffer

TooShort(word) == Len(Chars(word)) < CREDENTIALS_MIN_LEN

(* The verdict on a login is the one the accounts in the clear give: the   *)
(* client is let in with the password of its user and with no other, over  *)
(* two encodings, the cipher and the file in cipher text, and a login that *)
(* is too short is refused before it is sent (client.c 41-86 and 151-163,  *)
(* serverM.c 51-76, database.c 97-157, fileio.c 29-80).                    *)
VerdictIsRight ==
    at = "shown" /\ typed.kind = "login" =>
        LET user == typed.login.means[1]
            password == typed.login.means[2]
        IN shown.kind =
            IF TooShort(user) \/ TooShort(password) THEN "refused"
            ELSE IF user \notin DOMAIN Accounts THEN "no such user"
            ELSE IF Accounts[user] = password THEN "welcome"
            ELSE "wrong password"

(* What a line asks for, by its words alone.                               *)
WordsTyped(line) == Tokens(line, Spaces)

Listed(code) == {c \in Courses : SameIgnoringCase(c.code, code)}

NamedIn(line) == UNION {Listed(WordsTyped(line)[n]) : n \in DOMAIN WordsTyped(line)}

TheCourse(code) == CHOOSE c \in Listed(code) : TRUE

ValueOf(course, category) ==
    CASE category = "code" -> course.code [] category = "name" -> course.name
      [] category = "professor" -> course.professor [] category = "days" -> course.days
      [] category = "credits" -> Decimal[course.credits]

NumberOf(category) ==
    CASE category = "code" -> COURSES_LOOKUP_CATEGORY_COURSE_CODE
      [] category = "name" -> COURSES_LOOKUP_CATEGORY_COURSE_NAME
      [] category = "professor" -> COURSES_LOOKUP_CATEGORY_PROFESSOR
      [] category = "days" -> COURSES_LOOKUP_CATEGORY_DAYS
      [] category = "credits" -> COURSES_LOOKUP_CATEGORY_CREDITS
      [] category = "none" -> COURSES_LOOKUP_CATEGORY_INVALID

Columns == {"code", "name", "professor", "days", "credits"}

\* A category stands for a column or for none.
ASSUME CategoriesAssumption ==
    \A category \in Categories :
        /\ Meaning[category] \in Columns \cup {"none"}
        /\ database_courses_lookup_category_from_string(utils_string_trim(category))
              = NumberOf(Meaning[category])

\* The codes that send_request cuts out of a line, an empty one between two
\* blanks, and how many of the first n are not empty.
CodesCut(line) ==
    [n \in 1 .. utils_get_word_count(line) |-> Word(TrimmedInPlace(line), n)]

Filled(codes, n) == Cardinality({k \in 1 .. n : codes[k] # <<>>})

\* A line without a second word is counted as one word.  It begins with its
\* code, which fits the buffers, or has no code that a course may have.  A
\* line of several words is cut into the same words and no others; its codes
\* and the rows of its courses fit the buffers.  A code fits its buffer with
\* the zero behind it.
ASSUME LinesAssumption ==
    \A line \in Lines :
        LET words == WordsTyped(line)
            code  == TrimmedInPlace(line)
            codes == CodesCut(line)
        IN /\ line \in Seq(Byte)
           /\ Len(words) <= 1 <=> utils_get_word_count(line) = 1
           /\ Len(words) <= 1 =>
                 /\ code # <<>> /\ Len(code) < CodeBuffer
                 /\ IF words = <<>> THEN Listed(code) = {} ELSE code = words[1]
           /\ Len(words) > 1 =>
                 /\ Len(FlattenSeq([n \in DOMAIN codes |-> Part(codes[n])])) < DecodeBuffer
                 /\ Len(words) = Filled(codes, Len(codes))
                 /\ \A n \in DOMAIN codes :
                       /\ Len(codes[n]) < CodeBuffer
                       /\ codes[n] # <<>> => codes[n] = words[Filled(codes, n)]
                 /\ \A course \in NamedIn(line) :
                       Len(words) * Len(course_details_encode(course)) <= ListBuffer

\* The courses are the first entries of their codes in the files, each in the
\* file of its department; every text read from a file fits its field with
\* the zero behind it; no value of a column is empty or too long, and all texts
\* of a course fit its message.
ASSUME CoursesAssumption ==
    /\ Courses \subseteq [code : Seq(Byte), credits : Byte, professor : Seq(Byte),
                          days : Seq(Byte), name : Seq(Byte)]
    /\ \A server \in {"CS", "EE"} :
          /\ db(server) \in Seq(Range(db(server)))
          /\ \A entry \in Range(db(server)) :
                /\ entry.code \in Seq(Byte) /\ Listed(entry.code) # {}
                /\ \A field \in DOMAIN FieldSize : Len(entry[field]) < FieldSize[field]
    /\ \A course \in Courses :
          /\ \E server \in {"CS", "EE"} :
                /\ get_department_server_endpoint(course.code) = server
                /\ \E i \in DOMAIN db(server) :
                      /\ db(server)[i] = course
                      /\ \A k \in 1 .. i - 1 : ~SameIgnoringCase(db(server)[k].code, course.code)
          /\ course.code \in Seq(Byte) \ {<<>>}
          /\ \A category \in Columns :
                /\ ValueOf(course, category) \in Seq(Byte) \ {<<>>}
                /\ CodeBuffer + Len(ValueOf(course, category)) <= DecodeBuffer - 2
          /\ Len(Texts(course)) <= DecodeBuffer - 2

RightValue(words, category) ==
    CASE category = "none" -> shown = InvalidCategory
      [] category # "none" /\ words = <<>> -> shown.kind = "not found"
      [] category # "none" /\ words # <<>> /\ Listed(words[1]) = {} ->
            shown = [kind |-> "not found", code |-> words[1]]
      [] OTHER ->
            /\ shown.kind = "value"
            /\ shown.code = words[1]
            /\ shown.info = ValueOf(TheCourse(words[1]), category)

RightTable(words) ==
    LET known  == {n \in DOMAIN words : Listed(words[n]) # {}}
        row(n) == Cardinality({k \in known : k <= n})
    IN IF known = {} THEN shown = Silence
       ELSE /\ shown.kind = "table"
            /\ Len(shown.courses) = Cardinality(known)
            /\ \A n \in known : shown.courses[row(n)] = TheCourse(words[n])

(* For one code the screen shows what the files say of it in the category  *)
(* that was typed, or that there is no such course or category, whatever   *)
(* memory held in the buffers (client.c 88-109, 171-196; protocol.c        *)
(* 118-196; serverM.c 78-99; database.c 13-73).                            *)
ShowsTheValue ==
    at = "shown" /\ typed.kind = "query" =>
        LET words == WordsTyped(typed.line)
        IN Len(words) <= 1 => RightValue(words, Meaning[typed.category])

(* For several codes the screen shows the rows of the known courses in the *)
(* order of the line, whatever memory held in the buffers (client.c        *)
(* 198-228; utils.c; protocol.c 225-495; fileio.c 93-146).                 *)
ShowsTheTable ==
    at = "shown" /\ typed.kind = "query" =>
        LET words == WordsTyped(typed.line)
        IN Len(words) > 1 => RightTable(words)
=============================================================================
