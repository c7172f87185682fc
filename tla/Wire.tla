-------------------------------- MODULE Wire --------------------------------
(***************************************************************************)
(* The bytes of the messages (protocol.c).  A message has a type, a byte   *)
(* of flags and a payload; the header that carries the three in four bytes *)
(* is left out, its two bytes of length hold every payload.  A message     *)
(* that could not be encoded has no bytes, and sending it sends nothing.   *)
(*                                                                         *)
(* A decoder copies what fits of the payload to a buffer on its stack and  *)
(* picks the parts at the offsets that the length bytes give.  What it     *)
(* picks behind the copied bytes was never written: it is taken to be the  *)
(* byte `stale`, whatever its value.                                       *)
(***************************************************************************)
EXTENDS Text

Byte == 0 .. 255

\* Sizes of the program's buffers.
PayloadMax       == 1020    \* of a message, behind its header
CodeBuffer       == 10      \* course_code of the servers' handlers
DecodeBuffer     == 128     \* of the decoders of requests and replies
ListBuffer       == 1016    \* of the encoder of lists
ErrorBuffer      == 20      \* of the client's handler of errors
CredentialBuffer == 116     \* of the decoder of credentials

NoMessage == [type |-> "NONE", flags |-> 0, payload |-> <<>>]

protocol_encode(type, flags, payload) ==
    IF Len(payload) <= PayloadMax
    THEN [type |-> type, flags |-> flags, payload |-> payload]
    ELSE NoMessage

\* What protocol_decode copies of a message to a buffer of some size.
protocol_decode(m, size) ==
    SubSeq(m.payload, 1, IF Len(m.payload) <= size THEN Len(m.payload) ELSE size)

ByteAt(copied, stale, i) == IF i \in DOMAIN copied THEN copied[i] ELSE stale

\* A part is its length and its bytes, and the next part follows.
Part(text) == <<Len(text)>> \o text

PartAt(copied, stale, i) ==
    [k \in 1 .. ByteAt(copied, stale, i) |-> ByteAt(copied, stale, i + k)]

NextPart(copied, stale, i) == i + 1 + ByteAt(copied, stale, i)

-----------------------------------------------------------------------------
(* Credentials: both lengths, then both texts.                             *)

protocol_authentication_request_encode(c) ==
    protocol_encode("AUTH_REQUEST", 0,
        <<Len(c.username), Len(c.password)>> \o c.username \o c.password)

protocol_authentication_request_decode(m) ==
    LET copied == protocol_decode(m, CredentialBuffer)
    IN [username |-> [k \in 1 .. copied[1] |-> copied[2 + k]],
        password |-> [k \in 1 .. copied[2] |-> copied[2 + copied[1] + k]]]

protocol_authentication_response_encode(flag) == protocol_encode("AUTH_REPLY", flag, <<>>)

protocol_authentication_response_decode(m) == m.flags

-----------------------------------------------------------------------------
(* One course and one category.                                            *)

protocol_courses_lookup_single_request_encode(code, category) ==
    IF code = <<>> THEN NoMessage
    ELSE protocol_encode("SINGLE_REQUEST", category, code)

\* The code has no terminating zero when it fills its buffer: the lines
\* modelled have shorter codes.
protocol_courses_lookup_single_request_decode(m) ==
    [code |-> protocol_decode(m, CodeBuffer), category |-> m.flags]

protocol_courses_lookup_single_response_encode(code, category, info) ==
    IF code = <<>> \/ info = <<>> THEN NoMessage
    ELSE protocol_encode("SINGLE_REPLY", category, Part(code) \o Part(info))

protocol_courses_lookup_single_response_decode(m, stale) ==
    LET copied == protocol_decode(m, DecodeBuffer)
    IN [code     |-> PartAt(copied, stale, 1),
        category |-> m.flags,
        info     |-> PartAt(copied, stale, NextPart(copied, stale, 1))]

-----------------------------------------------------------------------------
(* All of one course.                                                      *)

protocol_courses_lookup_detail_request_encode(code) ==
    protocol_encode("DETAIL_REQUEST", 0, code)

\* The zero behind the code needs a byte of the buffer: behind a code that
\* fills it, it is written out of bounds, and the program has no outcome.
protocol_courses_lookup_detail_request_decode(m) ==
    LET code == protocol_decode(m, CodeBuffer)
    IN CASE Len(code) < CodeBuffer -> code

Texts(c) == Part(c.code) \o Part(c.name) \o Part(c.professor) \o Part(c.days)

CreditsByte(c) == c.credits % 256

\* The four texts, then the credits behind a length byte of their own.
protocol_courses_lookup_detail_response_encode(c) ==
    protocol_encode("DETAIL_REPLY", 0, Texts(c) \o <<1, CreditsByte(c)>>)

\* The parts from the i-th byte on, and the credits `skip` bytes behind them.
CourseAt(copied, stale, i, skip) ==
    LET name == NextPart(copied, stale, i)
        professor == NextPart(copied, stale, name)
        days == NextPart(copied, stale, professor)
    IN [code      |-> PartAt(copied, stale, i),
        name      |-> PartAt(copied, stale, name),
        professor |-> PartAt(copied, stale, professor),
        days      |-> PartAt(copied, stale, days),
        credits   |-> ByteAt(copied, stale, NextPart(copied, stale, days) + skip)]

\* Mutant: the length byte of the credits is taken for the credits.
CreditsNotSkipped(m, stale) ==
    CourseAt(protocol_decode(m, DecodeBuffer), stale, 1, 0)

protocol_courses_lookup_detail_response_decode(m, stale) ==
    CourseAt(protocol_decode(m, DecodeBuffer), stale, 1, 1)

-----------------------------------------------------------------------------
(* Lists: a byte with the number of codes and a part for each of them; a   *)
(* part for each course, whose length byte counts itself.                  *)

protocol_courses_lookup_multiple_request_encode(count, line) ==
    protocol_encode("MULTI_REQUEST", 0,
        <<count>> \o FlattenSeq([n \in 1 .. count |-> Part(Word(line, n))]))

\* Where the codes of a list begin, each behind the one before it.
CodePlaces(copied, stale, count) ==
    LET at[n \in 1 .. count] ==
            IF n = 1 THEN 2 ELSE NextPart(copied, stale, at[n - 1]) IN at

protocol_courses_lookup_multiple_request_decode(m, stale) ==
    LET copied == protocol_decode(m, DecodeBuffer)
        count == ByteAt(copied, stale, 1)
        at == CodePlaces(copied, stale, count)
    IN [n \in 1 .. count |-> PartAt(copied, stale, at[n])]

course_details_encode(c) ==
    LET details == Texts(c) \o <<CreditsByte(c)>>
    IN <<(Len(details) + 1) % 256>> \o details

\* A list longer than its buffer has no defined outcome in the program; it
\* is taken to be the one of a message that is too long.
protocol_courses_lookup_multiple_response_encode(courses) ==
    LET list == FlattenSeq([n \in DOMAIN courses |-> course_details_encode(courses[n])])
    IN IF courses = <<>> \/ Len(list) > ListBuffer THEN NoMessage
       ELSE protocol_encode("MULTI_REPLY", Len(courses), list)

\* Where the rows begin: the first byte of a row is its length.
RowPlaces(copied, count) ==
    LET at[n \in 1 .. count] == IF n = 1 THEN 1 ELSE at[n - 1] + ByteAt(copied, 0, at[n - 1]) IN at

\* The buffer of this decoder is as large as a payload and zero.
protocol_courses_lookup_multiple_response_decode(m) ==
    LET copied == protocol_decode(m, PayloadMax)
        at == RowPlaces(copied, m.flags)
    IN [n \in 1 .. m.flags |-> CourseAt(copied, 0, at[n] + 1, 0)]

-----------------------------------------------------------------------------
(* A course that is not found: the code as it was asked for.               *)

protocol_courses_error_encode(error, data) == protocol_encode("ERROR", error, data)

protocol_courses_error_decode(m) ==
    [error |-> m.flags, data |-> protocol_decode(m, ErrorBuffer)]
=============================================================================
