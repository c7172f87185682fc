----------------------------- MODULE DataFiles ------------------------------
(***************************************************************************)
(* The text files of the backends, how they are loaded (fileio.c) and what *)
(* is looked up in them (database.c), and the cipher of the credentials.   *)
(* A file is the sequence of its lines, each shorter than the 1024 bytes   *)
(* that are read at once.                                                  *)
(***************************************************************************)
EXTENDS Text

CREDENTIALS_MIN_LEN == 5
CREDENTIALS_MAX_LEN == 50
CREDENTIALS_ENC_CHAR_SHIFT_COUNT == 4

-----------------------------------------------------------------------------
(* The cipher: letters and digits move on within their alphabet.           *)

shift_char(c) ==
    CASE c \in 65 .. 90  -> ((c - 65 + CREDENTIALS_ENC_CHAR_SHIFT_COUNT) % 26) + 65
      [] c \in 97 .. 122 -> ((c - 97 + CREDENTIALS_ENC_CHAR_SHIFT_COUNT) % 26) + 97
      [] c \in 48 .. 57  -> ((c - 48 + CREDENTIALS_ENC_CHAR_SHIFT_COUNT) % 10) + 48
      [] OTHER -> c

encrypt_buffer(s) == [i \in DOMAIN s |-> shift_char(s[i])]

\* Mutant: the digits do not wrap around.
DigitsRunOver(c) ==
    [username |-> encrypt_buffer(c.username),
     password |-> [i \in DOMAIN c.password |->
                      IF c.password[i] \in Digits THEN c.password[i] + 4
                      ELSE shift_char(c.password[i])]]

database_credentials_encrypt(c) ==
    [username |-> encrypt_buffer(c.username), password |-> encrypt_buffer(c.password)]

-----------------------------------------------------------------------------
(* Credentials.                                                            *)

Separators == {Comma, Return, Newline}

\* A length is kept in a byte, and as many characters are copied.
Credential(s) == SubSeq(s, 1, Len(s) % 256)

Loads(tokens) ==
    /\ Len(tokens) >= 2
    /\ \A i \in 1 .. 2 : Len(Credential(tokens[i])) <= CREDENTIALS_MAX_LEN

\* Each line is put in front of the list.
fileio_credential_server_db_create(file) ==
    FoldLeft(LAMBDA db, line :
                LET tokens == Tokens(line, Separators)
                IN IF Loads(tokens)
                   THEN << [username |-> Credential(tokens[1]),
                            password |-> Credential(tokens[2])] >> \o db
                   ELSE db,
             <<>>, file)

\* The first entry that is Wanted, or Nothing.
First(db, Wanted(_), Nothing) ==
    IF \E i \in DOMAIN db : Wanted(db[i])
    THEN db[CHOOSE i \in DOMAIN db : Wanted(db[i]) /\ \A k \in 1 .. i - 1 : ~Wanted(db[k])]
    ELSE Nothing

NoUser == [username |-> <<>>, password |-> <<>>]

database_credentials_validate(db, c) ==
    LET entry == First(db, LAMBDA e : e.username = c.username, NoUser)
    IN CASE entry = NoUser -> "USER_NOT_FOUND"
         [] entry # NoUser /\ entry.password = c.password -> "OK"
         [] OTHER -> "PASSWORD_MISMATCH"

-----------------------------------------------------------------------------
(* Courses.  A line with fewer than five texts is left out.                *)

\* Bytes that course_t has for each text.
FieldSize == [code |-> 32, professor |-> 64, days |-> 32, name |-> 128]

\* strncpy cuts a text to its field; one that fills the field is left without
\* its terminating zero, and what is read of it then has no defined end.
Field(text, size) == SubSeq(text, 1, IF Len(text) <= size THEN Len(text) ELSE size)

Course(tokens) ==
    [code      |-> Field(tokens[1], FieldSize.code),
     credits   |-> Number(tokens[2]),
     professor |-> Field(tokens[3], FieldSize.professor),
     days      |-> Field(tokens[4], FieldSize.days),
     name      |-> Field(tokens[5], FieldSize.name)]

fileio_department_server_db_create(file) ==
    LET rows == [i \in DOMAIN file |-> Tokens(file[i], Separators)]
        complete == SelectSeq(rows, LAMBDA tokens : Len(tokens) >= 5)
    IN [i \in DOMAIN complete |-> Course(complete[i])]

NoCourse == [code |-> <<>>, credits |-> 0, professor |-> <<>>, days |-> <<>>, name |-> <<>>]

\* Mutant: a code is compared as it was typed.
CaseCounts(db, course_code) ==
    First(db, LAMBDA entry : entry.code = course_code, NoCourse)

database_courses_lookup(db, course_code) ==
    First(db, LAMBDA entry : SameIgnoringCase(entry.code, course_code), NoCourse)

COURSES_LOOKUP_CATEGORY_COURSE_CODE == 80
COURSES_LOOKUP_CATEGORY_CREDITS     == 81
COURSES_LOOKUP_CATEGORY_PROFESSOR   == 82
COURSES_LOOKUP_CATEGORY_DAYS        == 83
COURSES_LOOKUP_CATEGORY_COURSE_NAME == 84
COURSES_LOOKUP_CATEGORY_INVALID     == 85

Spellings ==
    {<<"CourseCode", 80>>, <<"Course Code", 80>>, <<"Credits", 81>>, <<"Credit", 81>>,
     <<"Professor", 82>>, <<"Days", 83>>, <<"CourseName", 84>>, <<"Course Name", 84>>}

database_courses_lookup_category_from_string(text) ==
    LET named == {s[2] : s \in {t \in Spellings : SameIgnoringCase(Chars(t[1]), text)}}
    IN IF named = {} THEN COURSES_LOOKUP_CATEGORY_INVALID ELSE CHOOSE c \in named : TRUE

database_courses_lookup_info(course, category) ==
    CASE category = COURSES_LOOKUP_CATEGORY_COURSE_CODE -> course.code
      [] category = COURSES_LOOKUP_CATEGORY_CREDITS     -> Decimal[course.credits]
      [] category = COURSES_LOOKUP_CATEGORY_PROFESSOR   -> course.professor
      [] category = COURSES_LOOKUP_CATEGORY_DAYS        -> course.days
      [] category = COURSES_LOOKUP_CATEGORY_COURSE_NAME -> course.name
=============================================================================
