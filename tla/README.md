# A verification of the EE450 course registration system

The program is a course information system of six C processes. This directory
holds TLA+ modules that model it, TLC configurations that check them on small
instances, and TLAPS proofs of the properties that matter most for instances of
any size. Line numbers refer to `src/src/`.

## 1. Inventory

| component | source | state | operations |
|---|---|---|---|
| main server | `serverM.c` | `tcp` (descriptors, `endpoints`, `username`), `thread`, `semaphore`, `multi_course_response` | `on_tcp_server_rx` (3 requests), `on_udp_server_rx` (4 replies), `multi_request_thread`, `tick` |
| TCP server | `networking.c` 14-182 | `server_fd_set`, `max_sd`, `endpoints` | accept, receive, close, send, `get_endpoint` |
| client | `client.c`, `networking.c` 186-265 | `semaphore`, `auth_failure_count`, `creds` | `user_input_task`, `network_thread_task`, `on_receive`, `on_tcp_disconnect` |
| credential server | `serverC.c`, `database.c` 142-157 | `credentials_db`, read once | start, validate |
| department servers | `department_server.c`, `database.c` 13-54 | `db`, read once | start, single and detail lookup |
| wire protocol | `protocol.c` | none | encode and decode of seven messages |
| cipher | `database.c` 97-138 | none | `shift_char` on each character |
| data files | `fileio.c` | none | two loaders of comma separated files |
| string helpers | `utils.c` | none | trim, count words, length of a word |
| logging | `log.c`, `messages.h` | none | formatting |

How they interact. A client has one TCP connection to serverM. serverM turns each
request into datagrams to the backends, from its main thread for a login or a
single course, and from a thread of its own for several courses. The backends
answer by datagram, and the main thread forwards the answer or stores it for the
thread. Between the threads of serverM, and between the two threads of a client,
nothing is locked; a semaphore on each side carries "an answer came" and no more.
No message says which request it answers, or whose.

What is hard, and what must hold nevertheless (`PROJECT.json` lists the lines):

* main server: the query thread outlives its answer; list, `thread` and semaphore
  are shared with the main thread; the thread is given a pointer into a dead stack
  frame; the semaphore has no notion of which answer it counts; one `username` for
  all connections. *Every answer belongs to the question asked, the list holds the
  courses of one query in its order, every token is for the thread that waits, and
  every thread ends.*
* TCP server: `max_sd` moves by one; records are never removed while descriptors
  are used again; the loop works on a snapshot while handlers change the table;
  a dead client may be read or written. *Every open socket is watched and read,
  and its record found.*
* client: answers race the two-second timeout; the failure count is also the flag
  of success. *A session belongs to the user who was accepted, and only three
  refusals end the client.*
* client at its terminal: what `fgets` leaves of a long line is the next input.
  *A prompt reads the line typed at it.*
* backends, protocol, cipher, files: sequential; widths of lengths, sizes of
  buffers, duplicate lines and word counts are what a test would miss. *The screen
  shows what the files say of what was typed.*
* all processes: a backend may stop and be started again, and the datagrams sent
  meanwhile are lost. *An answer still belongs to the request that waits for it,
  and the main thread serves whom it can.*

## 2. Modules

| module | models |
|---|---|
| `Messages` | the messages as records, and what the right answer to a request is |
| `Backends` | the answers of serverC, serverCS and serverEE as functions |
| `ServerM` | serverM: the handlers, the query threads, the channels to clients and backends |
| `Sessions` | `ServerM` with the users in front of it: the three specifications, the properties |
| `QueryService` | the abstract service: a request is pending, then answered once, rightly |
| `Outages` | `Sessions` with backends that start and stop, and datagrams lost meanwhile |
| `Client` | one client process with both threads, its connection and a serverM that answers |
| `Terminal` | the prompts of a client, their buffers, and the lines in stdin |
| `TcpServer` | descriptors, endpoint records and the select loop of serverM |
| `Text` | trims, words and tokens of lines (`utils.c` and the C library) |
| `Wire` | the bytes of the messages: all encoders and decoders of `protocol.c` |
| `DataFiles` | the two loaders, the lookups, the cipher (`fileio.c`, `database.c`) |
| `DataPath` | one login or query from the keyboard to the screen, in bytes |
| `MC...` | constants of the runs |
| `Sessions_proofs`, `Service_proofs`, `Careful_proofs` | theorems about `Sessions`, each module on top of the one before |
| `Outages_proofs`, `Client_proofs`, `TcpServer_proofs`, `Terminal_proofs` | theorems about the module they are named after |
| `DataPath_proofs` | theorems about `Wire`, the cipher of `DataFiles`, and `DataPath` |

The system is modelled twice. `ServerM`, `Sessions`, `Outages`, `Client` and
`TcpServer` have the interleavings and take a message for a record. `Text`, `Wire`,
`DataFiles` and `DataPath` have the bytes and let the processes take turns.

### Messages, Backends, ServerM, Sessions

`ServerM` has one action per handler of the select loop and one per step of
`multi_request_thread`: `reset` (190), `decode` (192), `ask` and `wait`
(177-183), `respond` (198-200), `free` (203-204), `clear` (205), `exit` (206).
They interleave freely with the main thread, which handles one message per step.

* The TCP streams `toM` and `toClient` are sequences of messages. `TcpReceive`
  takes any number of requests that have arrived and handles the first: one
  `read` makes one segment, and a handler decodes one message of it.
* `endpoint` is the head of `tcp->endpoints`, the newest connection, open or not.
* `username` is the name written last and the number of bytes in use: `strncpy`
  leaves the tail of a longer name in place (42).
* `frame` is the stack slot of the segment the thread was given a pointer to
  (214). Whatever the main thread handles next may overwrite it, or not
  (`MayClobber`); from an overwritten slot the thread may decode any of
  `GarbageReads`. A later request in the same slot is read as that request. A
  `select` that only returns leaves the slot alone: in serverM as the Makefile builds
  it (without optimisation) the bytes of a segment begin 2 KB below the frame of
  `tick`, and `select` uses the 200 bytes below that frame at most.
* `Disconnect` is the end of an idle connection; one that ends with requests or
  replies unread is the subject of `TcpServer`.
* `dangling` says that the nodes of `list` have been freed and the pointer kept.
* The category of a single lookup is left out: the client sends valid ones only,
  and the answer to each is one message. A code, name or password is a member of
  a small set; two codes that differ in case only are one code.
* serverM asks a backend about one thing at a time per query. Each backend answers
  in order; the backends among each other do not. Datagrams are lost in `Outages`
  only.

`Sessions` adds the users: `Connect`, `Leave`, `Ask` (credentials until a login
succeeds, queries from then on), `GetReply`, and `GiveUp`, the end of a
`sem_timedwait`. What is true of serverM depends on what its clients may do, so
there are three specifications over the same server:

* `SerialSpec`: one query in the system at a time, through the newest connection.
  This is the use the program documents as supported (`src/README.md:344-346`),
  with "served" read as "serverM is at rest again".
* `CarefulSpec`: any client asks, gives up, leaves or comes back at any moment;
  but a query for several courses is not sent before the thread of the last one
  has ended, and single queries name catalogued courses.
* `PatientSpec`: a client asks as soon as it is answered.

`AnswersTheQuery` compares the answers with `RightAnswer` (`Messages`), which is
stated from the accounts in the clear and the catalogue, without any server.

### QueryService

What a user sees: who is connected, what each waits for, what lies in the inbox,
and under which name. `Answer` puts one of `RightAnswers` there; it is fair. A query
none of whose courses exists has no answer, and its user may give up.
`Sessions!ImplementsService` maps `connected` to `open`, `asked` to `waiting`,
`inbox` to `toClient` and `name` to `who`; serverM, threads, datagrams and the
semaphore are hidden.

### Outages

`process[b]` is whether a backend runs. `Start` and `Stop` empty its socket; `main`
with the arguments of serverC says whether it gets as far as its loop. A datagram to
a backend that does not run is lost (`Lost`): `sendto` reports nothing of it. A
backend keeps nothing between two datagrams, so that a new one is as good as the
old one. The user goes on when no answer can come (`Stalled`), as the two-second
timeout lets it.

### Client

`user` is the program counter of `user_input_task`, the network thread is
`Connect`, `Receive`, `ReceiveError` and `Disconnected`. Requests are numbered in
the model, for the properties only. A wait may end at any
time without a token: an answer may take longer than two seconds. `late` says that
one did, that a wait ended while a request or reply was under way; what holds with
answers in time is stated as long as `late` is false. `link` is the connection as the
kernel shows it after serverM ends: closed in order, reset when requests
were unread, or `gone` once an error or a write has been spent on it.

### Terminal

Of a line only its length matters. `Read` is `fgets` with the size of the prompt's
buffer: it takes a line with its newline, or as much as fits and leaves the rest.
`stdin` remembers at which prompt the line was typed, for the properties. A line has
any of `Lengths`, and what it leaves in stdin is read by the prompts after it.
`LineLimit` is the longest line a prompt is made for: a name or password of 49
characters, nine codes of nine, the longest category. `PromptReadsItsLine` is about
those lines, whatever came before them.

### TcpServer

The loop is a cursor over the descriptors up to `max_sd`, as `max_sd` is at that
moment. A connection is `open`, `served` (with a reply unread), `closed`,
`reset` (ended with a reply unread) or `gone` (written to after its end). Data
that came before the end is read first; then a closed connection reads as end of
file and a reset one as an error, unless a write has consumed the error; a write
to a `gone` connection raises SIGPIPE. This is how Linux sockets behave. A client
that ends before it is accepted is left out.

### Text, Wire, DataFiles, DataPath

A text is a sequence of byte values without the terminating zero. The operators of
`Text`, `Wire` and `DataFiles` carry the names of the functions they model.

* `Wire`: a decoder copies what fits of a payload to its buffer and picks parts at
  the offsets the length bytes give. What it picks behind the copied bytes is the
  byte `stale`, any of `Stale`: memory nobody wrote (one value for all such bytes
  of a message). The buffers of the servers are 10 bytes for codes, 128 for the
  decoders, 1016 for the encoder of lists.
* The encoder of lists may write behind its buffer, which C does not define. It is
  modelled as the outcome of the code that follows: `protocol_encode` refuses the
  length and nothing is sent.
* A code of ten bytes leaves a buffer of ten without its zero (`protocol.c` 218,
  `database.c` 16): the decoder is defined for shorter codes only.
* `DataFiles`: a file is the sequence of its lines, of less than 1024 bytes each.
  Lines with too few texts are skipped, and `strtok` merges empty ones. Accounts are
  put in front of the list, courses at its end. `Field` is `strncpy` to a field of
  `course_t`: what does not fit is cut off (a text as long as its field is left
  without a zero, and `CoursesAssumption` asks for shorter ones).
* A typed line keeps its leading blanks when it is sent: `utils_string_trim` returns
  a pointer that the client does not keep. A code with fewer than two characters has
  no department.
* `DataPath` follows one request through client, serverM, backend and back, one
  action per handler. A name or password of fewer than five characters is refused by
  the client and goes no further. `VerdictIsRight`, `ShowsTheValue` (one code) and `ShowsTheTable`
  (several) compare the screen with the accounts and courses the files stand for,
  which are constants of their own. Named assumptions tie the two together
  (`LoginsAssumption`, `AccountsAssumption`, `CategoriesAssumption`,
  `LinesAssumption`, `CoursesAssumption`): what the loaders make of the files, and
  what the trims and scans of `utils.c` make of the lines. TLC evaluates them on the
  constants of the run with the loaders and helpers as they are modelled.

## 3. Runs

| run | specification | instance | shows |
|---|---|---|---|
| `Serial` | `SerialSpec` | 2 connections, 2 threads, 3 logins, 7 queries | all safety and liveness properties of supported use, and the refinement |
| `Careful` | `CarefulSpec` | 1 connection, 2 threads, 3 queries, 2 requests per stream, every reply and datagram channel empty when a user asks | the query thread works while answers are late and requests coalesce |
| `Patient` | `PatientSpec` | 1 connection, 2 threads | violation of `AnswersTheQuery` |
| `Outages` | `OutagesSpec` | 1 connection, 2 threads, 3 queries, 2 datagrams per backend | what lost datagrams and restarts leave true |
| `Swallowed` | `OutagesSpec` | the same | violation of `ServedOnceAllRun` |
| `Client` | `Spec` | 2 users, 6 requests | what late answers leave true of the session and the end of a client, and what holds until the first one is late |
| `ClientWrongUser` | `Spec` | 4 requests | violation of `SessionUserIsAuthenticated` |
| `Terminal` | `Spec` | 21 lengths around every bound | prompts read their lines, after lines of any length |
| `FiftyChars` | `Spec` | the same lengths | violation of `OnlyBadLengthsAreRefused` |
| `TcpServer` | `Spec` | 2 connections, 2 descriptors, 2 requests under way | the table is right, and every request is read |
| `TcpReset` | `Spec` | 2 connections | violation of `KeepsRunning` |
| `DataPath` | `Spec` | 10 logins, 21 lines, 7 categories, 3 stale bytes | the screen shows what the files say |

Bounds. Two threads are what an overlap needs, and `SerialSpec` never uses more
than one at once. The queries cover a known and an unknown course of a
department, a code of no department, an order across departments, an unknown
course first, in the middle, and a query with none known. Six requests of a
client are logins that fail, time out and succeed, and queries of the session after them. Two
connections on two descriptors let a child close below `max_sd`, a number be
used again, and `max_sd` stay above all children; the invariants of the table are
proved for any number of them. In `Outages` one thread may wait
for ever while the next query starts its own; a third such query is not asked, for
want of a thread. Names have one length in the passing runs of serverM, which is
the precondition of `LogNamesTheUser`. The lines of `DataPath`
have at most 126 characters, codes at most 9, no leading blanks and no tabs, and
the texts of a course at most 122, each shorter than its field. These limits are
reached: a line of 126 characters fills the buffer of the codes (128 bytes with their
lengths and their number), eight rows of CS571 fill the 1016 bytes of a list, and the
answer of a department for EE658 fills the 128 bytes of its decoder. Names and
passwords are right, wrong, unknown, and too short by one. The files
hold lines that are skipped, a line with an empty field, one with a field too many,
and two lines for one course. `MaxStream`, `MaxBacklog`, `MaxRequests`, `MaxOwed`
and `MaxSd` bound counters in guards and nothing else. Deadlock is checked in every
run.

Fairness. `ServerFairness` is weak fairness of each handler, each thread and each
backend: the main thread and the backends loop for ever on `select` and
`recvfrom`, and the operating system runs every thread that can run. No fairness
is asked of users. In `OutagesSpec` the main thread, each query thread and each
backend that runs are fair; nobody has to start or stop a backend, and the liveness
properties speak of requests whose backends keep running. In `Client` serverM
answers, replies are received, and a user thread that has its token goes on; the
user is not asked to type. In `TcpServer` the loop goes on (`WF(Tick)`), and clients
do as they like. `Terminal` and `DataPath` state safety only.

Findings. Five runs end in a violation, each quoted against a line of the
documentation or a comment in `PROJECT.json`:

* `Patient`: a thread that has answered still resets the shared list and `thread`,
  under the feet of the next query, whose answer then lacks courses.
* `Swallowed`: a thread waits for a lost datagram, and `thread` stays set. The error
  for a later query of one unknown course is taken for its answer: it posts the
  semaphore and is not sent to the client, although all servers run.
* `ClientWrongUser`: a late success opens the session under the name typed since.
* `FiftyChars`: a name or password of 50 characters leaves its newline to the next
  prompt, which refuses an empty line.
* `TcpReset`: a client that ends with a reply unread takes serverM down.

Limits of the program that the properties leave out, by a precondition or by the
instance:

* A query for several courses, none of which exists, gets no answer (`HasAnswer`;
  `ThreadResponds` in `DataPath`).
* A short name is logged with the tail of a longer one (`set_username`): the names of
  the runs have one length.
* serverC without arguments, as the instructions start it, ends at once (`main` in
  `Outages`).
* Late refusals are counted in an open session too, and the fourth ends the client
  (`on_authentication_failure`): `ShutdownOnlyOnThreeFailures` ends with the first late
  reply.
* What the main thread handles before a query thread has decoded its request, a late
  answer or the login of an older client, may lie where the request lay; the thread
  then asks for other courses, or none (`frame`). `Careful` reaches this, and its
  properties hold whatever the thread decodes.
* Words are counted at tabs and cut at blanks (`utils_get_word_count`, `Word`).
* A course whose texts have more than 122 bytes together is decoded from memory that
  was never written, and a list of more than 1016 bytes is not sent (`DecodeBuffer`
  and `ListBuffer` in `Wire`).
* A line above `LineLimit` may be the input of several prompts.
* A text as long as its field in `course_t`, or longer, is not what the file says
  (`Field`).

## 4. Proofs

TLAPS proves the following for every value of the constants, under the named
assumptions.

serverM (`Sessions_proofs`, `Service_proofs`). Assumptions: `CodesAssumption`,
`WordsAssumption` (the cipher maps words one to one to words), `ServerMAssumption`,
`SessionsAssumption`.

* `SerialTypeCorrect`, `CarefulTypeCorrect`: `[]SessionsTypeOK` under both
  disciplines. One lemma per handler, each from the types of the messages it takes.
* `SerialWork`, `SerialHandOff`, `SerialListIsLive`: `HandOff` and `ListIsLive`
  are not inductive, because they do not say that nothing else is under way.
  `OnePieceOfWork` does: serverM is at rest, or one request is on a stream, or one
  login or single query is between serverM and a backend, or one thread is alive
  and everything under way belongs to it. One lemma per action shows which phase
  follows which; the two properties follow from the phases.
* `SerialListFollows`: `Collecting` adds to the phases what the list holds: the
  known codes among those asked so far (`Selects`), in order, and which code the
  datagram under way is for. One more answer adds a known code at the end
  (`KnownSelected`) or nothing (`UnknownSelected`).
* `SerialAnswers`: `Serving` adds that whatever is under way is what the user who
  waits is owed (`Duty`), and that everyone but the newest connection has been
  served (`Connections`). The cipher being one to one makes the verdict of serverC
  the verdict of the accounts in the clear.
* `SerialIsService`: the refinement. `Init` maps to `Init`, and every step that
  `Serving` allows maps to a step of `QueryService` or to a stutter. Its liveness
  part is `ImplementsService`, which TLC checks.
* `SerialLogStarts`, `SerialLogNames`: `Naming` adds to `Serving` that the newest
  connection logs in before it asks, that `username` has held its name since, and
  that the buffer is never in use for fewer bytes than its name has. Hence the
  logged name always begins with the right one (`LogStartsWithTheUser`). With the
  hypothesis that all names have one length, it is the right one
  (`LogNamesTheUser`); without it the code leaves the tail of a longer name, see
  the limits above.

serverM with clients that do not wait (`Careful_proofs`). `CarefulHandOff`,
`CarefulListIsLive` and `CarefulListFollows` state the same three properties under
`CarefulSpec`. There are no phases here: logins, single queries and their late
answers lie anywhere on the wires, in any number. What is exclusive is the exchange
of the query thread. `CarefulInv` says that nobody works and no question or answer
of a thread is under way (`Idle`), or that one thread does (`OneThreadOfWork`), no
other query for several courses is unread, and the thread either waits (its question
is alone of its kind, or its answer is, or its token is there) or works with none of
these under way. An error is an answer to a thread or to a single query, and no
field tells which: the discipline of `CarefulSpec`, single queries for catalogued
courses, enters as `SinglesKnown` and `SinglesAtHome`, which follow each of them to
the department that has its course. A late answer, a disconnection or a coalesced
request leaves all of it alone; there is one lemma for each.

Outages (`Outages_proofs`).

* `OutagesTypes`: the types of `Sessions` and of `process`, through every start,
  stop and loss.
* `OutagesReplies`: `OutagesInv` gives the request of the user a phase: on the
  stream, at a running backend, back at serverM, with the client, or owed nothing
  any more. It speaks of the datagrams at running backends only (`Live`): a socket
  is emptied when its backend stops and when it starts, so that no old request is
  served by a new process. While a phase holds all query threads are stuck without
  a token, and when nothing is owed no verdict or single answer is under way; so
  none can reach a later request. The number of threads that wait for ever is
  not bounded.

TcpServer (`TcpServer_proofs`). Assumption: `TcpServerAssumption`, the UDP socket
is opened before the listening one (`serverM.c` 327, 335) and above the standard
streams.

* `TypeCorrect`, `WatchesOpenSockets`, `FindsThePeer`: `OpenSocketsAreWatched` and
  `EndpointIsPeer` are inductive given the types. Only `Accept` and the end of file
  touch the table. Closing the highest child lowers `max_sd` by one, and no other
  child can be above that; a new record comes first, so that it hides those of
  earlier connections on its number.
* `VisitsWhatSelectSaw`: the handlers before the cursor can close their own
  descriptor or put a new connection on a free one, and `Fresh` says that what is
  still to be visited is neither.

Client (`Client_proofs`).

* `ClientTypes`, `SessionNeedsSuccess`, `ShutdownNeedsThreeFailures`, with any delay of
  replies: the failure count is at most the number of refusals, and -1 only after a
  success (`Counting`).
* `RepliesMeetTheirWaits`, `SessionIsOfTheUserTyped`, `ShutdownIsOnThreeFailures`,
  until the first late reply (`ClientInv`): at most one request or reply is
  under way, the user waits for it and has no token (`OneAtATime`); before a success
  the count is the number of refusals, after it the user thread is on its way into
  the session of its credentials (`Login`).

Terminal (`Terminal_proofs`).

* `TerminalTypes`, for lines of any length: every `fgets` reads at least one character,
  and the newline is the last it leaves.
* `PromptsReadTheirLines`, for lines of any length: a line is typed when nothing of an
  earlier one is left, so that a line in stdin that its own prompt has not read is
  whole; the buffer of that prompt has room for one within its limit, its newline and
  the zero, so that nothing of such a line is left in stdin for another prompt.

The path of the bytes (`DataPath_proofs`).

* `CredentialsArrive`, `SingleReplyArrives`, `DetailArrives`: decode after encode
  is the identity for texts of any bytes, whatever memory held, as long as the texts
  have 50 bytes each, 126 together and 122 together: the sizes at which the messages
  fill the buffers of their decoders.
* `CodesArrive`, `RowsArrive`: the same of a list of codes and of a list of rows, of
  any length that fits the buffers. The encoders are folds over sequences and the
  decoders walk from one length byte to the next. `Joins` says what a fold has put
  together after `n` parts, `CodesFoundAt` and `Begins` where a walk stands; that both agree for
  every `n` is shown by the least number for which it would fail (`LeastMember`,
  from the well-foundedness of `<`), since the induction theorems of the library
  take an operator and are out of the provers' reach.
* `CipherOneToOne`: `shift_char` permutes digits, small and capital letters, and
  leaves the rest alone, so that different texts have different cipher texts. This
  is what `WordsAssumption` assumes of the cipher in `Backends`.
* `VerdictsAreRight`, under `LoginsAssumption` (a name or password is what one `fgets`
  reads, 50 characters with the newline) and `AccountsAssumption`; what is too short
  is refused where it is typed:
  `LoginUnderWay` says what the message is at each process on the way; the cipher
  being one to one, the first entry of cred.txt that serverC finds for a cipher text
  is that of the account.
* `ValuesAreRight`, under `CategoriesAssumption`, `LinesAssumption` and
  `CoursesAssumption`: `SingleUnderWay` says the same of a query for one code. The code
  is copied through a buffer of ten bytes on its way and compared without regard to case,
  and the value comes back whole for any content of memory. `LinesAssumption` has codes
  of up to nine characters, which those buffers take with their zero, and
  `CoursesAssumption` has every entry of the files shorter than the fields of
  `course_t`, so that `strncpy` cuts none.

* `TablesAreRight`, under the same three assumptions: `TableUnderWay` has the stages of a
  query for several codes. The codes are on their way to serverM (`CodesSent`), or `k`
  of them have been answered and the thread holds the rows of those that are courses
  (`Between`), or code `k + 1` is with a department (`Asked`) or back from it
  (`Answered`), or the list is on its way to the client (`Told`). The number of rows after
  `k` codes is the number of known codes among them, empty codes left out; at the end
  that is the table the files give for the words of the line.
* `DataPathTypes`, under the named assumptions: every message on the way is one that
  `protocol_encode` lets pass and has only bytes, and the codes and rows of the
  thread stay below the size of the buffer the codes came in. `TypeOK` is not inductive: the number of
  rows is bounded by the codes that have been asked, and what a process sends
  depends on what the one before it sent (`UnderWay`).

Every invariant that a passing run checks is stated by a theorem. Model-checked only:
the liveness properties, with the fairness part of `ImplementsService`, since
fairness is out of the prover's reach. What the loaders make of a file, and what the
scans of `utils.c` make of a line, depends on the constants alone and enters the
theorems of `DataPath` as the five named assumptions, which TLC evaluates with the
loaders and scans as they are modelled.

## 5. Not modelled

* Branches that handle messages no process of the system sends or that do not decode
  (`serverM.c` 260-264, 282-284, `serverC.c` 61-66, the `REQ_INVALID` replies of the
  department servers, the null-pointer and wrong-type returns of `protocol.c`).
* What a write beyond a buffer does to the process (`protocol.c` 300 with a line of
  127 characters, 385 with a long list, codes of more than nine characters, texts
  longer than the fields of `course_t`).
* Failures of `malloc`, `socket` and `bind` at startup; a file that cannot be opened.
* Lost datagrams between processes that run: on one host there are none, and the
  instructions exclude them (`src/Instructions.md:24`).
* `tcp_server_tick` and `tcp_server_stop`, which nothing calls; the freeing of the
  databases, which is not reached.
* Threads that are never joined (`serverM.c` 214): a bound of the C library.
* Logging (`log.c`, `messages.h`), except for the name in `LogNamesTheUser`; the build
  and the test scripts.

## 6. What could follow

1. `Client` and `ServerM` composed, so that the replies a client receives late are
   those serverM sends; the state space is the product of both, and the properties of
   each are checked here against the most general behaviour of the other.
2. `SessionsTypeOK` and the phases under `OutagesSpec` with several connections: today
   one user at a time is enough for the hazards of a restart.
3. Two queries for several courses at once, as the extension the code's locks would
   need: today the list, `thread` and the semaphore are single.
