---------------------------- MODULE Careful_proofs ----------------------------
(***************************************************************************)
(* The hand-off when clients ask and give up at any moment, several at a   *)
(* time, but one query for several courses at a time and single queries    *)
(* for catalogued courses only (CarefulSpec).  Then logins, single queries *)
(* and their answers may lie anywhere on the wires, and still the one      *)
(* exchange a thread is blocked on is the only one that can post the       *)
(* semaphore or touch the list.                                            *)
(***************************************************************************)
EXTENDS Service_proofs

-----------------------------------------------------------------------------
(* The inductive invariant.                                                *)

\* No message of one of the types is in the queue.
Without(s, types) == \A i \in 1 .. Len(s) : s[i].type \notin types

\* One message of those types is in the queue, and it is m.
Only(s, types, m) ==
    \E i \in 1 .. Len(s) :
        /\ s[i] = m
        /\ \A j \in 1 .. Len(s) : s[j].type \in types => j = i

Questions == {"DETAIL"}
Answers == {"DETAIL", "ERROR"}

\* Users ask single queries for catalogued courses only,
SinglesKnown ==
    \A c \in Clients : \A i \in 1 .. Len(toM[c]) :
        toM[c][i].type = "SINGLE" => Known(toM[c][i].code)

\* and the request of such a query lies at the department that has it.
SinglesAtHome ==
    \A b \in Backend : \A i \in 1 .. Len(toBackend[b]) :
        toBackend[b][i].type = "SINGLE" =>
            Known(toBackend[b][i].code) /\ b = DeptOf[toBackend[b][i].code]

MultiAt(c, i) == i \in 1 .. Len(toM[c]) /\ toM[c][i].type = "MULTI"

\* One query for several courses is unread at most.
OneMulti ==
    \A c, d \in Clients : \A i, j \in Nat :
        MultiAt(c, i) /\ MultiAt(d, j) => c = d /\ i = j

\* No thread has an exchange under way, and no answer can be taken for one.
NoQuestion == \A b \in Backend : Without(toBackend[b], Questions)
NoExchange == NoQuestion /\ Without(toUdp, Answers)

Detail(code) == [type |-> "DETAIL", code |-> code]

\* The question for a code lies at its department, alone of its kind.
QuestionSent(code) ==
    /\ Without(toUdp, Answers)
    /\ DeptOf[code] \in Departments
    /\ Only(toBackend[DeptOf[code]], Questions, Detail(code))
    /\ \A b \in Backend \ {DeptOf[code]} : Without(toBackend[b], Questions)

\* The answer to it lies at serverM, alone of its kind.
AnswerSent(code) ==
    /\ NoQuestion
    /\ Only(toUdp, Answers, DetailAnswer(code))

Idle == NoThreadWork /\ NoExchange

Awaiting(t) ==
    /\ pc[t] = "wait" /\ ~dangling
    /\ asked[t] + 1 \in 1 .. Len(query[t])
    /\ \/ /\ QuestionSent(query[t][asked[t] + 1]) \/ AnswerSent(query[t][asked[t] + 1])
          /\ sem = 0
          /\ Found(list, query[t], asked[t])
       \/ /\ NoExchange
          /\ sem = 1
          /\ Found(list, query[t], asked[t] + 1)

AtWork(t) ==
    /\ pc[t] \in PcLabels \ {"none", "wait"}
    /\ dangling => pc[t] = "clear"
    /\ NoExchange /\ sem = 0
    /\ pc[t] = "decode" => list = <<>>
    /\ pc[t] = "ask" => Found(list, query[t], asked[t])
    /\ pc[t] \in {"respond", "free"} =>
          asked[t] = Len(query[t]) /\ Found(list, query[t], asked[t])

Alone(t) == thread = t /\ \A u \in Threads \ {t} : pc[u] = "none"

OneThreadOfWork ==
    ~MultiInStream /\ \E t \in Threads : Alone(t) /\ (Awaiting(t) \/ AtWork(t))

\* A thread works on nothing, or one of them does and no other query for it waits.
Work == Idle \/ OneThreadOfWork

CarefulInv == SessionsTypeOK /\ SinglesKnown /\ SinglesAtHome /\ OneMulti /\ Work

-----------------------------------------------------------------------------
(* Queues in which messages of some types are told apart from the others.  *)

(* Taking the first message off leaves the others in place.                *)
LEMMA TailPlaces ==
    ASSUME NEW S, NEW s \in Seq(S), s # <<>>
    PROVE  /\ Len(s) \in Nat \ {0} /\ Len(Tail(s)) = Len(s) - 1
           /\ \A i \in 1 .. Len(Tail(s)) : Tail(s)[i] = s[i + 1]
           /\ Head(s) = s[1]
<1>1. Len(s) \in Nat \ {0}
  BY HeadTyped
<1>2. Len(Tail(s)) = Len(s) - 1 /\ \A i \in 1 .. Len(Tail(s)) : Tail(s)[i] = s[i + 1]
  BY HeadTailProperties
<1> QED BY <1>1, <1>2

(* Putting one message more on keeps the others in place.                  *)
LEMMA AppendPlaces ==
    ASSUME NEW S, NEW s \in Seq(S), NEW m \in S
    PROVE  /\ Len(s) \in Nat /\ Len(Append(s, m)) = Len(s) + 1
           /\ \A i \in 1 .. Len(s) : Append(s, m)[i] = s[i]
           /\ Append(s, m)[Len(s) + 1] = m
<1>1. Len(s) \in Nat
  BY LenProperties
<1>2. /\ Len(Append(s, m)) = Len(s) + 1
      /\ \A i \in 1 .. Len(s) : Append(s, m)[i] = s[i]
      /\ Append(s, m)[Len(s) + 1] = m
  BY AppendProperties
<1> QED BY <1>1, <1>2

(* A queue without messages of some types does not get one by being read,  *)
LEMMA WithoutRead ==
    ASSUME NEW S, NEW s \in Seq(S), s # <<>>, NEW types, Without(s, types)
    PROVE  Without(Tail(s), types) /\ Head(s).type \notin types
<1>1. \A i \in 1 .. Len(Tail(s)) : i + 1 \in 1 .. Len(s) /\ Tail(s)[i] = s[i + 1]
  BY TailPlaces
<1>2. 1 \in 1 .. Len(s) /\ Head(s) = s[1]
  BY TailPlaces
<1> QED BY <1>1, <1>2 DEF Without

(* nor by a message of another type.                                       *)
LEMMA WithoutWritten ==
    ASSUME NEW S, NEW s \in Seq(S), NEW m \in S, NEW types, Without(s, types),
           m.type \notin types
    PROVE  Without(Append(s, m), types)
<1>1. /\ Len(s) \in Nat /\ Len(Append(s, m)) = Len(s) + 1
      /\ \A i \in 1 .. Len(s) : Append(s, m)[i] = s[i]
      /\ Append(s, m)[Len(s) + 1] = m
  BY AppendPlaces
<1>2. ASSUME NEW i \in 1 .. Len(Append(s, m))
      PROVE  Append(s, m)[i].type \notin types
  <2>1. CASE i = Len(s) + 1
    BY <1>1, <2>1
  <2>2. CASE i # Len(s) + 1
    <3>1. i \in 1 .. Len(s)
      BY <1>1, <2>2
    <3> QED BY <1>1, <3>1 DEF Without
  <2> QED BY <2>1, <2>2
<1> QED BY <1>2 DEF Without

(* The only message of its type stays so while others are read,            *)
LEMMA OnlyRead ==
    ASSUME NEW S, NEW s \in Seq(S), s # <<>>, NEW types, NEW m, Only(s, types, m),
           Head(s).type \notin types, m.type \in types
    PROVE  Only(Tail(s), types, m)
<1>1. /\ Len(s) \in Nat \ {0} /\ Len(Tail(s)) = Len(s) - 1
      /\ \A i \in 1 .. Len(Tail(s)) : Tail(s)[i] = s[i + 1]
      /\ Head(s) = s[1]
  BY TailPlaces
<1>2. PICK i \in 1 .. Len(s) :
          s[i] = m /\ \A j \in 1 .. Len(s) : s[j].type \in types => j = i
  BY DEF Only
<1>3. i # 1 /\ i - 1 \in 1 .. Len(Tail(s)) /\ (i - 1) + 1 = i
  BY <1>1, <1>2
<1>4. Tail(s)[i - 1] = m
  BY <1>1, <1>2, <1>3
<1>5. ASSUME NEW j \in 1 .. Len(Tail(s)), Tail(s)[j].type \in types
      PROVE  j = i - 1
  <2>1. j + 1 \in 1 .. Len(s) /\ s[j + 1].type \in types
    BY <1>1, <1>5
  <2>2. j + 1 = i
    BY <1>2, <2>1
  <2> QED BY <1>1, <2>2
<1> QED BY <1>3, <1>4, <1>5 DEF Only

(* and while others are written;                                           *)
LEMMA OnlyWritten ==
    ASSUME NEW S, NEW s \in Seq(S), NEW x \in S, NEW types, NEW m, Only(s, types, m),
           x.type \notin types
    PROVE  Only(Append(s, x), types, m)
<1>1. /\ Len(s) \in Nat /\ Len(Append(s, x)) = Len(s) + 1
      /\ \A i \in 1 .. Len(s) : Append(s, x)[i] = s[i]
      /\ Append(s, x)[Len(s) + 1] = x
  BY AppendPlaces
<1>2. PICK i \in 1 .. Len(s) :
          s[i] = m /\ \A j \in 1 .. Len(s) : s[j].type \in types => j = i
  BY DEF Only
<1>3. i \in 1 .. Len(Append(s, x)) /\ Append(s, x)[i] = m
  BY <1>1, <1>2
<1>4. ASSUME NEW j \in 1 .. Len(Append(s, x)), Append(s, x)[j].type \in types
      PROVE  j = i
  <2>1. j # Len(s) + 1
    BY <1>1, <1>4
  <2>2. j \in 1 .. Len(s) /\ s[j].type \in types
    BY <1>1, <1>4, <2>1
  <2> QED BY <1>2, <2>2
<1> QED BY <1>3, <1>4 DEF Only

(* once it is read there is none,                                          *)
LEMMA OnlyTaken ==
    ASSUME NEW S, NEW s \in Seq(S), s # <<>>, NEW types, NEW m, Only(s, types, m),
           Head(s).type \in types
    PROVE  Head(s) = m /\ Without(Tail(s), types)
<1>1. /\ Len(s) \in Nat \ {0} /\ Len(Tail(s)) = Len(s) - 1
      /\ \A i \in 1 .. Len(Tail(s)) : Tail(s)[i] = s[i + 1]
      /\ Head(s) = s[1]
  BY TailPlaces
<1>2. PICK i \in 1 .. Len(s) :
          s[i] = m /\ \A j \in 1 .. Len(s) : s[j].type \in types => j = i
  BY DEF Only
<1>3. 1 \in 1 .. Len(s) /\ i = 1
  BY <1>1, <1>2
<1>4. ASSUME NEW j \in 1 .. Len(Tail(s)), Tail(s)[j].type \in types
      PROVE  FALSE
  <2>1. j + 1 \in 1 .. Len(s) /\ s[j + 1].type \in types
    BY <1>1, <1>4
  <2>2. j + 1 = i
    BY <1>2, <2>1
  <2> QED BY <1>1, <1>3, <2>2
<1> QED BY <1>1, <1>2, <1>3, <1>4 DEF Without

(* and the first one that is written is the only one.                      *)
LEMMA FirstOfItsType ==
    ASSUME NEW S, NEW s \in Seq(S), NEW m \in S, NEW types, Without(s, types)
    PROVE  Only(Append(s, m), types, m)
<1>1. /\ Len(s) \in Nat /\ Len(Append(s, m)) = Len(s) + 1
      /\ \A i \in 1 .. Len(s) : Append(s, m)[i] = s[i]
      /\ Append(s, m)[Len(s) + 1] = m
  BY AppendPlaces
<1>2. ASSUME NEW j \in 1 .. Len(Append(s, m)), Append(s, m)[j].type \in types
      PROVE  j = Len(s) + 1
  <2>1. CASE j \in 1 .. Len(s)
    BY <1>1, <1>2, <2>1 DEF Without
  <2>2. CASE j \notin 1 .. Len(s)
    BY <1>1, <2>2
  <2> QED BY <2>1, <2>2
<1>3. Len(s) + 1 \in 1 .. Len(Append(s, m)) /\ Append(s, m)[Len(s) + 1] = m
  BY <1>1
<1> QED BY <1>2, <1>3 DEF Only

-----------------------------------------------------------------------------
(* The streams.                                                            *)

(* Whatever number of requests one read takes off a stream, the rest are   *)
(* requests that lay there before, and a query that was first is gone.     *)
LEMMA StreamsRead ==
    ASSUME TypeOK, SinglesKnown, OneMulti, NEW c \in Clients, NEW n \in 1 .. Len(toM[c]),
           toM' = [toM EXCEPT ![c] = SubSeq(@, n + 1, Len(@))]
    PROVE  /\ SinglesKnown' /\ OneMulti'
           /\ ~MultiInStream => ~MultiInStream'
           /\ MultiAt(c, 1) => ~MultiInStream'
<1> DEFINE place(d, i) == IF d = c THEN i + n ELSE i
<1>1. toM[c] \in Seq(ClientRequest) /\ Len(toM[c]) \in Nat /\ n \in Nat
  BY LenProperties DEF TypeOK
<1>2. ASSUME NEW d \in Clients, NEW i \in 1 .. Len(toM'[d])
      PROVE  place(d, i) \in 1 .. Len(toM[d]) /\ toM'[d][i] = toM[d][place(d, i)] /\ i \in Nat
  <2>1. CASE d = c
    <3>1. \A j \in n + 1 .. Len(toM[c]) : toM[c][j] \in ClientRequest
      BY <1>1, ElementOfSeq
    <3>2. /\ Len(SubSeq(toM[c], n + 1, Len(toM[c]))) = IF n + 1 <= Len(toM[c])
                                                        THEN Len(toM[c]) - (n + 1) + 1 ELSE 0
          /\ \A j \in 1 .. Len(toM[c]) - (n + 1) + 1 :
                 SubSeq(toM[c], n + 1, Len(toM[c]))[j] = toM[c][n + 1 + j - 1]
      BY <1>1, <3>1, SubSeqProperties
    <3>3. toM'[c] = SubSeq(toM[c], n + 1, Len(toM[c]))
      BY DEF TypeOK
    <3>4. /\ i \in 1 .. Len(toM[c]) - n
          /\ toM'[c][i] = toM[c][n + 1 + i - 1]
      BY <1>1, <2>1, <3>2, <3>3
    <3>5. n + 1 + i - 1 = i + n /\ i + n \in 1 .. Len(toM[c])
      BY <1>1, <3>4
    <3> QED BY <2>1, <3>4, <3>5
  <2>2. CASE d # c
    <3>1. toM'[d] = toM[d] /\ Len(toM[d]) \in Nat
      BY <2>2, LenProperties DEF TypeOK
    <3> QED BY <2>2, <3>1
  <2> QED BY <2>1, <2>2
<1>3. SinglesKnown'
  BY <1>2 DEF SinglesKnown
<1>4. ASSUME NEW d \in Clients, NEW i, MultiAt(d, i)'
      PROVE  /\ MultiAt(d, place(d, i)) /\ i \in Nat /\ place(d, i) \in Nat
             /\ i \in 1 .. Len(toM'[d])
  <2>1. i \in 1 .. Len(toM'[d]) /\ toM'[d][i].type = "MULTI"
    BY <1>4 DEF MultiAt
  <2>2. place(d, i) \in 1 .. Len(toM[d]) /\ toM'[d][i] = toM[d][place(d, i)] /\ i \in Nat
    BY <1>2, <2>1
  <2>3. place(d, i) \in Nat
    BY <1>1, <2>2
  <2> HIDE DEF place
  <2> QED BY <2>1, <2>2, <2>3 DEF MultiAt
<1>5. OneMulti'
  <2> SUFFICES ASSUME NEW d \in Clients, NEW e \in Clients, NEW i \in Nat, NEW j \in Nat,
                      MultiAt(d, i)', MultiAt(e, j)'
               PROVE  d = e /\ i = j
    BY DEF OneMulti
  <2>1. d = e /\ place(d, i) = place(e, j)
    BY <1>4 DEF OneMulti
  <2> QED BY <1>1, <2>1
<1>6. ~MultiInStream => ~MultiInStream'
  BY <1>2 DEF MultiInStream
<1>7. ASSUME MultiAt(c, 1), MultiInStream'
      PROVE  FALSE
  <2>1. PICK d \in Clients : \E i \in 1 .. Len(toM'[d]) : toM'[d][i].type = "MULTI"
    BY <1>7 DEF MultiInStream
  <2>2. PICK i \in 1 .. Len(toM'[d]) : MultiAt(d, i)'
    BY <2>1 DEF MultiAt
  <2>3. MultiAt(d, place(d, i)) /\ place(d, i) \in Nat /\ i \in Nat
    BY <1>4, <2>2
  <2>4. d = c /\ place(d, i) = 1
    BY <1>7, <2>3 DEF OneMulti
  <2> QED BY <1>1, <2>2, <2>3, <2>4
<1> QED BY <1>3, <1>5, <1>6, <1>7

(* A new connection has a stream of its own, with nothing on it.           *)
LEMMA StreamsCleared ==
    ASSUME TypeOK, SinglesKnown, OneMulti, NEW c \in Clients, toM' = [toM EXCEPT ![c] = <<>>]
    PROVE  /\ SinglesKnown' /\ OneMulti'
           /\ ~MultiInStream => ~MultiInStream'
<1>1. ASSUME NEW d \in Clients, NEW i \in 1 .. Len(toM'[d])
      PROVE  toM'[d] = toM[d]
  BY <1>1 DEF TypeOK
<1>2. SinglesKnown'
  BY <1>1 DEF SinglesKnown
<1>3. \A d \in Clients : \A i : MultiAt(d, i)' => MultiAt(d, i)
  BY <1>1 DEF MultiAt
<1>4. OneMulti'
  BY <1>3 DEF OneMulti
<1>5. ~MultiInStream => ~MultiInStream'
  BY <1>1 DEF MultiInStream
<1> QED BY <1>2, <1>4, <1>5

(* A careful user adds a query for several courses only when none is there.*)
LEMMA StreamsAsked ==
    ASSUME TypeOK, SinglesKnown, OneMulti, NEW c \in Clients, NEW req \in ClientRequest,
           req.type = "SINGLE" => Known(req.code),
           req.type = "MULTI" => ~MultiInStream,
           toM' = [toM EXCEPT ![c] = Append(@, req)]
    PROVE  /\ SinglesKnown' /\ OneMulti'
           /\ req.type # "MULTI" /\ ~MultiInStream => ~MultiInStream'
<1> DEFINE last == Len(toM[c]) + 1
<1>1. /\ Len(toM[c]) \in Nat /\ Len(toM'[c]) = last
      /\ \A i \in 1 .. Len(toM[c]) : toM'[c][i] = toM[c][i]
      /\ toM'[c][last] = req
      /\ \A d \in Clients \ {c} : toM'[d] = toM[d]
  BY AppendPlaces DEF TypeOK
<1>2. ASSUME NEW d \in Clients, NEW i \in 1 .. Len(toM'[d])
      PROVE  \/ i \in 1 .. Len(toM[d]) /\ toM'[d][i] = toM[d][i]
             \/ d = c /\ i = last /\ toM'[d][i] = req
  BY <1>1
<1>3. SinglesKnown'
  BY <1>2 DEF SinglesKnown
<1>4. req.type # "MULTI" /\ ~MultiInStream => ~MultiInStream'
  BY <1>2 DEF MultiInStream
<1>5. ASSUME NEW d \in Clients, NEW i, MultiAt(d, i)'
      PROVE  MultiAt(d, i) \/ (d = c /\ i = last /\ req.type = "MULTI")
  BY <1>2, <1>5 DEF MultiAt
<1>6. CASE req.type # "MULTI"
  BY <1>3, <1>4, <1>5, <1>6 DEF OneMulti
<1>7. CASE req.type = "MULTI"
  <2>1. \A d \in Clients : \A i : ~MultiAt(d, i)
    BY <1>7 DEF MultiInStream, MultiAt
  <2> QED BY <1>3, <1>5, <1>7, <2>1 DEF OneMulti
<1> QED BY <1>6, <1>7

-----------------------------------------------------------------------------
(* The wires and the exchange of a thread.                                 *)

(* What the work of the threads does not see leaves it as it is.           *)
LEMMA WorkKept ==
    ASSUME TypeOK, Work, UNCHANGED <<pc, query, asked, list, dangling, sem, thread>>,
           MultiInStream' => MultiInStream \/ NoLiveThread,
           NoExchange => NoExchange',
           \A code \in Codes : QuestionSent(code) => QuestionSent(code)',
           \A code \in Codes : AnswerSent(code) => AnswerSent(code)'
    PROVE  Work'
<1>1. CASE Idle
  BY <1>1 DEF Idle, NoThreadWork, NoLiveThread, Work
<1>2. CASE OneThreadOfWork
  <2>1. PICK t \in Threads : Alone(t) /\ (Awaiting(t) \/ AtWork(t))
    BY <1>2 DEF OneThreadOfWork
  <2>2. pc[t] # "none" /\ ~MultiInStream'
    BY <1>2, <2>1 DEF Awaiting, AtWork, OneThreadOfWork, NoLiveThread
  <2>3. Alone(t)'
    BY <2>1 DEF Alone
  <2>4. CASE Awaiting(t)
    <3>1. PICK code \in Codes : code = query[t][asked[t] + 1]
      BY <2>4, ElementOfSeq DEF Awaiting, TypeOK
    <3>2. Awaiting(t)'
      BY <2>4, <3>1 DEF Awaiting
    <3> QED BY <2>2, <2>3, <3>2 DEF OneThreadOfWork, Work
  <2>5. CASE AtWork(t)
    <3>1. AtWork(t)'
      BY <2>5 DEF AtWork
    <3> QED BY <2>2, <2>3, <3>1 DEF OneThreadOfWork, Work
  <2> QED BY <2>1, <2>4, <2>5
<1> QED BY <1>1, <1>2 DEF Work

exchangeVars == <<pc, query, asked, list, dangling, sem, thread, toBackend, toUdp>>

(* The steps of the clients change neither wires nor threads.              *)
LEMMA ExchangeUnchanged ==
    ASSUME TypeOK, Work, SinglesAtHome, UNCHANGED exchangeVars,
           MultiInStream' => MultiInStream \/ NoLiveThread
    PROVE  Work' /\ SinglesAtHome'
<1>1. NoExchange => NoExchange'
  BY DEF exchangeVars, NoExchange, NoQuestion
<1>2. \A code \in Codes : QuestionSent(code) => QuestionSent(code)'
  BY DEF exchangeVars, QuestionSent
<1>3. \A code \in Codes : AnswerSent(code) => AnswerSent(code)'
  BY DEF exchangeVars, AnswerSent, NoQuestion
<1>4. SinglesAtHome'
  BY DEF exchangeVars, SinglesAtHome
<1>5. UNCHANGED <<pc, query, asked, list, dangling, sem, thread>>
  BY DEF exchangeVars
<1> QED BY <1>1, <1>2, <1>3, <1>4, <1>5, WorkKept

(* A login or a single query on a wire disturbs no exchange.               *)
LEMMA OtherRequestSent ==
    ASSUME TypeOK, SinglesAtHome, NEW b \in Backend, NEW m \in BackendRequest(b),
           m.type # "DETAIL", m.type = "SINGLE" => Known(m.code) /\ b = DeptOf[m.code],
           udp_send(b, m), UNCHANGED toUdp
    PROVE  /\ SinglesAtHome'
           /\ NoExchange => NoExchange'
           /\ \A code \in Codes : QuestionSent(code) => QuestionSent(code)'
           /\ \A code \in Codes : AnswerSent(code) => AnswerSent(code)'
<1>1. /\ toBackend[b] \in Seq(BackendRequest(b))
      /\ toBackend'[b] = Append(toBackend[b], m)
      /\ \A d \in Backend \ {b} : toBackend'[d] = toBackend[d]
  BY DEF TypeOK, udp_send
<1>2. \A d \in Backend : Without(toBackend[d], Questions) => Without(toBackend'[d], Questions)
  <2>1. Without(toBackend[b], Questions) => Without(toBackend'[b], Questions)
    BY <1>1, WithoutWritten DEF Questions
  <2> QED BY <1>1, <2>1
<1>3. \A d \in Backend : \A x : Only(toBackend[d], Questions, x) => Only(toBackend'[d], Questions, x)
  <2>1. \A x : Only(toBackend[b], Questions, x) => Only(toBackend'[b], Questions, x)
    BY <1>1, OnlyWritten DEF Questions
  <2> QED BY <1>1, <2>1
<1>4. SinglesAtHome'
  <2> SUFFICES ASSUME NEW d \in Backend, NEW i \in 1 .. Len(toBackend'[d]),
                      toBackend'[d][i].type = "SINGLE"
               PROVE  Known(toBackend'[d][i].code) /\ d = DeptOf[toBackend'[d][i].code]
    BY DEF SinglesAtHome
  <2>1. CASE d = b /\ i = Len(toBackend[b]) + 1
    BY <1>1, <2>1, AppendPlaces
  <2>2. CASE ~(d = b /\ i = Len(toBackend[b]) + 1)
    <3>1. i \in 1 .. Len(toBackend[d]) /\ toBackend'[d][i] = toBackend[d][i]
      <4>1. CASE d = b
        <5>1. /\ Len(toBackend[b]) \in Nat /\ Len(toBackend'[b]) = Len(toBackend[b]) + 1
              /\ \A j \in 1 .. Len(toBackend[b]) : toBackend'[b][j] = toBackend[b][j]
          BY <1>1, AppendPlaces
        <5> QED BY <2>2, <4>1, <5>1
      <4>2. CASE d # b
        BY <1>1, <4>2
      <4> QED BY <4>1, <4>2
    <3> QED BY <3>1 DEF SinglesAtHome
  <2> QED BY <2>1, <2>2
<1>5. NoQuestion => NoQuestion'
  BY <1>2 DEF NoQuestion
<1>6. \A code \in Codes : QuestionSent(code) => QuestionSent(code)'
  BY <1>2, <1>3 DEF QuestionSent, Backend
<1>7. \A code \in Codes : AnswerSent(code) => AnswerSent(code)'
  BY <1>5 DEF AnswerSent
<1> QED BY <1>4, <1>5, <1>6, <1>7 DEF NoExchange

-----------------------------------------------------------------------------
(* The steps.                                                              *)

Kept == SinglesKnown /\ SinglesAtHome /\ OneMulti /\ Work

(* Clients come, go, ask, read and give up while a thread is at work.      *)
LEMMA ClientKeepsWork ==
    ASSUME CarefulInv, CarefulNext, ~Serve
    PROVE  Kept'
<1> TypeOK /\ SinglesKnown /\ SinglesAtHome /\ OneMulti /\ Work
  BY DEF CarefulInv, SessionsTypeOK
<1>1. ASSUME NEW c \in Clients, Connect(c)
      PROVE  Kept'
  <2>1. toM' = [toM EXCEPT ![c] = <<>>] /\ UNCHANGED exchangeVars
    BY <1>1 DEF Connect, Accept, exchangeVars, wireVars, threadVars, listVars
  <2>2. SinglesKnown' /\ OneMulti' /\ (~MultiInStream => ~MultiInStream')
    BY <2>1, StreamsCleared
  <2> QED BY <2>1, <2>2, ExchangeUnchanged DEF Kept
<1>2. ASSUME NEW c \in Clients, NEW req \in Logins \cup Queries,
             req.type = "SINGLE" => req.code \in Catalog,
             req.type = "MULTI" => NoLiveThread /\ ~MultiInStream,
             Ask(c, req)
      PROVE  Kept'
  <2>1. req \in ClientRequest
    BY SessionsAssumption DEF ClientRequest
  <2>2. toM' = [toM EXCEPT ![c] = Append(@, req)] /\ UNCHANGED exchangeVars
    BY <1>2 DEF Ask, ClientSend, exchangeVars, wireVars, threadVars, listVars
  <2>3. SinglesKnown' /\ OneMulti' /\ (req.type # "MULTI" /\ ~MultiInStream => ~MultiInStream')
    BY <1>2, <2>1, <2>2, StreamsAsked DEF Known
  <2> QED BY <1>2, <2>2, <2>3, ExchangeUnchanged DEF Kept
<1>3. ASSUME NEW c \in Clients, Leave(c) \/ GetReply(c) \/ GiveUp(c)
      PROVE  Kept'
  <2>1. UNCHANGED toM /\ UNCHANGED exchangeVars
    BY <1>3 DEF Leave, Disconnect, GetReply, ClientRead, GiveUp, exchangeVars, serverVars,
       mainVars, wireVars, threadVars, listVars
  <2>2. SinglesKnown' /\ OneMulti' /\ (MultiInStream' => MultiInStream)
    BY <2>1 DEF SinglesKnown, OneMulti, MultiAt, MultiInStream
  <2> QED BY <2>1, <2>2, ExchangeUnchanged DEF Kept
<1> QED BY <1>1, <1>2, <1>3 DEF CarefulNext

(* serverM reads a request: a datagram or a thread comes of it.            *)
LEMMA TcpReceiveCareful ==
    ASSUME CarefulInv, NEW c \in Clients, TcpReceive(c)
    PROVE  Kept'
<1> DEFINE req == Head(toM[c])
<1> TypeOK /\ SinglesKnown /\ SinglesAtHome /\ OneMulti /\ Work
  BY DEF CarefulInv, SessionsTypeOK
<1>1. PICK n \in 1 .. Len(toM[c]) : toM' = [toM EXCEPT ![c] = SubSeq(@, n + 1, Len(@))]
  BY DEF TcpReceive
<1>2. toM[c] # <<>> /\ toM[c] \in Seq(ClientRequest)
  BY <1>1, LenProperties, EmptySeq DEF TypeOK
<1>3. req \in ClientRequest /\ req = toM[c][1] /\ 1 \in 1 .. Len(toM[c])
  BY <1>2, HeadTyped, TailPlaces
<1>4. /\ SinglesKnown' /\ OneMulti'
      /\ ~MultiInStream => ~MultiInStream'
      /\ MultiAt(c, 1) => ~MultiInStream'
  BY <1>1, StreamsRead
<1>5. UNCHANGED <<toUdp, query, asked, list, dangling>>
  BY DEF TcpReceive, listVars
<1>6. CASE on_auth_request_received(req)
  <2>1. PICK login \in BackendRequest(CredentialServer) :
            login.type = "AUTH" /\ udp_send(CredentialServer, login)
    <3>1. req \in AuthRequest
      BY <1>3, <1>6 DEF on_auth_request_received, ClientRequest, AuthRequest, SingleRequest,
         MultiRequest
    <3>2. [type |-> "AUTH", user |-> Encrypt[req.user], pass |-> Encrypt[req.pass]]
              \in BackendRequest(CredentialServer)
      BY <3>1, EncryptedLogin
    <3> QED BY <1>6, <3>2 DEF on_auth_request_received
  <2>2. UNCHANGED <<thread, pc, sem>>
    BY <1>6 DEF on_auth_request_received
  <2>3. /\ SinglesAtHome'
        /\ NoExchange => NoExchange'
        /\ \A code \in Codes : QuestionSent(code) => QuestionSent(code)'
        /\ \A code \in Codes : AnswerSent(code) => AnswerSent(code)'
    BY <1>5, <2>1, OtherRequestSent DEF Backend
  <2>4. Work'
    BY <1>4, <1>5, <2>2, <2>3, WorkKept
  <2> QED BY <1>4, <2>3, <2>4 DEF Kept
<1>7. CASE on_course_lookup_info_request_received(req)
  <2>1. req \in SingleRequest /\ req.type = "SINGLE" /\ req.code \in Codes
    BY <1>3, <1>7 DEF on_course_lookup_info_request_received, ClientRequest, AuthRequest,
       SingleRequest, MultiRequest
  <2>2. Known(req.code)
    BY <1>3, <2>1 DEF SinglesKnown
  <2>3. PICK dept \in Departments : dept = DeptOf[req.code]
    BY <2>2, CodesAssumption DEF Known
  <2>4. udp_send(dept, req) /\ UNCHANGED <<thread, pc, sem>>
    BY <1>7, <2>3, CodesAssumption DEF on_course_lookup_info_request_received,
       send_request_to_department_server
  <2>5. dept \in Backend /\ req \in BackendRequest(dept)
    BY <2>1 DEF Backend, BackendRequest, Departments, CredentialServer
  <2>6. /\ SinglesAtHome'
        /\ NoExchange => NoExchange'
        /\ \A code \in Codes : QuestionSent(code) => QuestionSent(code)'
        /\ \A code \in Codes : AnswerSent(code) => AnswerSent(code)'
    BY <1>5, <2>1, <2>2, <2>3, <2>4, <2>5, OtherRequestSent
  <2>7. Work'
    BY <1>4, <1>5, <2>4, <2>6, WorkKept
  <2> QED BY <1>4, <2>6, <2>7 DEF Kept
<1>8. CASE on_course_lookup_multi_request_received(req)
  <2>1. req.type = "MULTI" /\ UNCHANGED <<toBackend, sem>>
    BY <1>8 DEF on_course_lookup_multi_request_received
  <2>2. PICK t \in Threads : thread' = t /\ pc' = [pc EXCEPT ![t] = "reset"]
    BY <1>8 DEF on_course_lookup_multi_request_received
  <2>3. MultiAt(c, 1) /\ MultiInStream
    BY <1>3, <2>1 DEF MultiAt, MultiInStream
  <2>4. NoThreadWork /\ NoExchange
    BY <2>3 DEF Work, OneThreadOfWork, Idle
  <2>5. pc'[t] = "reset" /\ \A u \in Threads \ {t} : pc'[u] = "none"
    BY <2>2, <2>4 DEF NoThreadWork, NoLiveThread, TypeOK
  <2>6. NoExchange' /\ SinglesAtHome'
    BY <1>5, <2>1, <2>4 DEF NoExchange, NoQuestion, SinglesAtHome
  <2>7. AtWork(t)'
    BY <1>5, <2>1, <2>4, <2>5, <2>6 DEF AtWork, NoThreadWork, PcLabels
  <2>8. Work'
    BY <1>4, <2>2, <2>3, <2>5, <2>7 DEF Work, OneThreadOfWork, Alone
  <2> QED BY <1>4, <2>6, <2>8 DEF Kept
<1> QED BY <1>6, <1>7, <1>8 DEF TcpReceive

(* The reply of a backend goes to a client, or to the thread that asked.   *)
LEMMA UdpReceiveCareful ==
    ASSUME CarefulInv, UdpReceive
    PROVE  Kept'
<1> DEFINE reply == Head(toUdp)
<1> TypeOK /\ SinglesKnown /\ SinglesAtHome /\ OneMulti /\ Work
  BY DEF CarefulInv, SessionsTypeOK
<1>1. /\ toUdp # <<>> /\ toUdp \in Seq(BackendReply) /\ toUdp' = Tail(toUdp)
      /\ UNCHANGED <<toM, toBackend, thread, pc, query, asked, dangling>>
  BY DEF UdpReceive, threadVars, TypeOK
<1>2. SinglesKnown' /\ SinglesAtHome' /\ OneMulti' /\ (MultiInStream' <=> MultiInStream)
  BY <1>1 DEF SinglesKnown, SinglesAtHome, OneMulti, MultiAt, MultiInStream
<1>3. NoQuestion' <=> NoQuestion
  BY <1>1 DEF NoQuestion
<1>4. CASE reply.type \notin Answers
  <2>1. UNCHANGED <<list, sem>>
    BY <1>4 DEF UdpReceive, on_auth_response_received,
       on_single_course_lookup_info_response_received, on_course_detail_response_received,
       on_error_response_received, Answers
  <2>2. Without(toUdp, Answers) => Without(toUdp', Answers)
    BY <1>1, WithoutRead
  <2>3. NoExchange => NoExchange'
    BY <1>3, <2>2 DEF NoExchange
  <2>4. \A code \in Codes : QuestionSent(code) => QuestionSent(code)'
    BY <1>1, <2>2 DEF QuestionSent
  <2>5. \A code \in Codes : AnswerSent(code) => AnswerSent(code)'
    <3> SUFFICES ASSUME NEW code \in Codes, AnswerSent(code)
                 PROVE  AnswerSent(code)'
      OBVIOUS
    <3>1. DetailAnswer(code).type \in Answers
      BY DEF DetailAnswer, Answers
    <3>2. Only(toUdp', Answers, DetailAnswer(code))
      BY <1>1, <1>4, <3>1, OnlyRead DEF AnswerSent
    <3> QED BY <1>3, <3>2 DEF AnswerSent
  <2>6. Work'
    BY <1>1, <1>2, <2>1, <2>3, <2>4, <2>5, WorkKept
  <2> QED BY <1>2, <2>6 DEF Kept
<1>5. CASE reply.type \in Answers
  <2>1. ~Without(toUdp, Answers)
    BY <1>1, <1>5, WithoutRead
  <2>2. PICK t \in Threads : Alone(t) /\ Awaiting(t)
    BY <2>1 DEF Work, Idle, OneThreadOfWork, AtWork, NoExchange
  <2>3. PICK q \in Seq(Codes), k \in Nat : q = query[t] /\ k = asked[t]
    BY DEF TypeOK
  <2>4. PICK code \in Codes : code = q[k + 1]
    BY <2>2, <2>3, ElementOfSeq DEF Awaiting
  <2>5. /\ AnswerSent(code) /\ sem = 0 /\ Found(list, q, k)
        /\ k + 1 \in 1 .. Len(q) /\ pc[t] = "wait" /\ ~dangling /\ ~MultiInStream
    BY <2>1, <2>2, <2>3, <2>4 DEF Awaiting, QuestionSent, NoExchange, Work, OneThreadOfWork,
       Idle
  <2>6. reply = DetailAnswer(code) /\ Without(toUdp', Answers)
    BY <1>1, <1>5, <2>5, OnlyTaken DEF AnswerSent
  <2>7. NoExchange'
    BY <1>3, <2>5, <2>6 DEF NoExchange, AnswerSent
  <2>8. thread # NoThread
    BY <2>2, ServerMAssumption DEF Alone
  <2>9. Found(list', q, k + 1) /\ sem' = 1
    <3>1. list \in Seq(Codes)
      BY DEF TypeOK
    <3>2. CASE Known(code)
      <4>1. reply.type = "DETAIL" /\ reply.code = code
        BY <2>6, <3>2 DEF DetailAnswer
      <4>2. list' = Append(list, code) /\ sem' = 1
        BY <2>5, <4>1 DEF UdpReceive, on_auth_response_received,
           on_single_course_lookup_info_response_received, on_course_detail_response_received,
           on_error_response_received
      <4> QED BY <2>4, <2>5, <3>1, <3>2, <4>2, FoundMore
    <3>3. CASE ~Known(code)
      <4>1. reply.type = "ERROR"
        BY <2>6, <3>3 DEF DetailAnswer
      <4>2. list' = list /\ sem' = 1
        BY <2>5, <2>8, <4>1 DEF UdpReceive, on_auth_response_received,
           on_single_course_lookup_info_response_received, on_course_detail_response_received,
           on_error_response_received, on_course_lookup_error_received
      <4> QED BY <2>4, <2>5, <3>1, <3>3, <4>2, FoundMore
    <3> QED BY <3>2, <3>3
  <2>10. Awaiting(t)'
    BY <1>1, <2>3, <2>5, <2>7, <2>9 DEF Awaiting
  <2>11. Work'
    BY <1>1, <1>2, <2>2, <2>5, <2>10 DEF Work, OneThreadOfWork, Alone
  <2> QED BY <1>2, <2>11 DEF Kept
<1> QED BY <1>4, <1>5

(* A backend answers a question with its answer and the rest with the rest.*)
LEMMA BackendServeCareful ==
    ASSUME CarefulInv, NEW b \in Backend, BackendServe(b)
    PROVE  Kept'
<1> DEFINE req == Head(toBackend[b])
           reply == BackendAnswer(b, req)
<1> TypeOK /\ SinglesKnown /\ SinglesAtHome /\ OneMulti /\ Work
  BY DEF CarefulInv, SessionsTypeOK
<1>1. /\ toBackend[b] # <<>> /\ toBackend[b] \in Seq(BackendRequest(b))
      /\ toUdp \in Seq(BackendReply)
      /\ toUdp' = Append(toUdp, reply)
      /\ toBackend'[b] = Tail(toBackend[b])
      /\ \A d \in Backend \ {b} : toBackend'[d] = toBackend[d]
      /\ UNCHANGED <<toM, thread, pc, query, asked, list, dangling, sem>>
  BY DEF BackendServe, mainVars, threadVars, listVars, TypeOK
<1>2. /\ req \in BackendRequest(b) /\ req = toBackend[b][1] /\ 1 \in 1 .. Len(toBackend[b])
      /\ Len(toBackend'[b]) = Len(toBackend[b]) - 1 /\ Len(toBackend[b]) \in Nat
      /\ \A i \in 1 .. Len(toBackend'[b]) : toBackend'[b][i] = toBackend[b][i + 1]
  BY <1>1, HeadTyped, TailPlaces
<1>3. reply \in BackendReply
  BY <1>2, BackendAnswerType
<1>4. SinglesKnown' /\ OneMulti' /\ (MultiInStream' <=> MultiInStream)
  BY <1>1 DEF SinglesKnown, OneMulti, MultiAt, MultiInStream
<1>5. SinglesAtHome'
  <2>1. \A i \in 1 .. Len(toBackend'[b]) : i + 1 \in 1 .. Len(toBackend[b])
    BY <1>2
  <2>2. ASSUME NEW d \in Backend, NEW i \in 1 .. Len(toBackend'[d])
        PROVE  \E j \in 1 .. Len(toBackend[d]) : toBackend'[d][i] = toBackend[d][j]
    <3>1. CASE d = b
      BY <1>2, <2>1, <3>1
    <3>2. CASE d # b
      BY <1>1, <3>2
    <3> QED BY <3>1, <3>2
  <2> QED BY <2>2 DEF SinglesAtHome
<1>6. \A d \in Backend : Without(toBackend[d], Questions) => Without(toBackend'[d], Questions)
  <2>1. Without(toBackend[b], Questions) => Without(toBackend'[b], Questions)
    BY <1>1, WithoutRead
  <2> QED BY <1>1, <2>1
<1>7. CASE req.type # "DETAIL"
  <2>1. reply.type \notin Answers
    <3>1. CASE b = CredentialServer
      BY <3>1 DEF BackendAnswer, CredentialReply, Answers
    <3>2. CASE b # CredentialServer
      <4>1. req.type = "SINGLE"
        BY <1>2, <1>7, <3>2 DEF BackendRequest, SingleRequest, DetailRequest
      <4>2. Known(req.code) /\ b = DeptOf[req.code]
        BY <1>2, <4>1 DEF SinglesAtHome
      <4>3. req.code \in DepartmentDb(b)
        BY <4>2 DEF Known, DepartmentDb
      <4>4. reply.type = "SINGLE"
        BY <3>2, <4>1, <4>3 DEF BackendAnswer, DepartmentReply
      <4> QED BY <4>4 DEF Answers
    <3> QED BY <3>1, <3>2
  <2> HIDE DEF reply
  <2>2. Without(toUdp, Answers) => Without(toUdp', Answers)
    BY <1>1, <1>3, <2>1, WithoutWritten
  <2>3. NoQuestion => NoQuestion'
    BY <1>6 DEF NoQuestion
  <2>4. \A x : Only(toBackend[b], Questions, x) /\ x.type = "DETAIL"
                  => Only(toBackend'[b], Questions, x)
    BY <1>1, <1>7, OnlyRead DEF Questions
  <2>5. \A code \in Codes : QuestionSent(code) => QuestionSent(code)'
    BY <1>1, <1>6, <2>2, <2>4 DEF QuestionSent, Detail, Backend
  <2>6. \A code \in Codes : AnswerSent(code) => AnswerSent(code)'
    BY <1>1, <1>3, <2>1, <2>3, OnlyWritten DEF AnswerSent
  <2>7. Work'
    BY <1>1, <1>4, <2>2, <2>3, <2>5, <2>6, WorkKept DEF NoExchange
  <2> QED BY <1>4, <1>5, <2>7 DEF Kept
<1>8. CASE req.type = "DETAIL"
  <2>1. ~Without(toBackend[b], Questions)
    BY <1>1, <1>8, WithoutRead DEF Questions
  <2>2. PICK t \in Threads : Alone(t) /\ Awaiting(t)
    BY <2>1 DEF Work, Idle, OneThreadOfWork, AtWork, NoExchange, NoQuestion
  <2>3. PICK code \in Codes : code = query[t][asked[t] + 1]
    BY <2>2, ElementOfSeq DEF Awaiting, TypeOK
  <2>4. /\ QuestionSent(code) /\ sem = 0 /\ Found(list, query[t], asked[t])
        /\ ~MultiInStream
    BY <2>1, <2>2, <2>3 DEF Awaiting, AnswerSent, NoExchange, NoQuestion, Work, OneThreadOfWork,
       Idle
  <2>5. b = DeptOf[code] /\ b \in Departments
    BY <2>1, <2>4 DEF QuestionSent
  <2>6. req = Detail(code) /\ Without(toBackend'[b], Questions)
    BY <1>1, <1>8, <2>4, <2>5, OnlyTaken DEF QuestionSent, Questions
  <2>7. NoQuestion'
    BY <1>1, <2>4, <2>5, <2>6 DEF NoQuestion, QuestionSent
  <2>8. reply = DetailAnswer(code)
    BY <2>5, <2>6, DepartmentIsRight DEF Detail
  <2>9. AnswerSent(code)'
    <3> HIDE DEF reply
    <3>1. Only(toUdp', Answers, reply)
      BY <1>1, <1>3, <2>4, FirstOfItsType DEF QuestionSent
    <3> QED BY <2>7, <2>8, <3>1 DEF AnswerSent
  <2>10. Awaiting(t)'
    BY <1>1, <2>2, <2>3, <2>4, <2>9 DEF Awaiting
  <2>11. Work'
    BY <1>1, <1>4, <2>2, <2>4, <2>10 DEF Work, OneThreadOfWork, Alone
  <2> QED BY <1>4, <1>5, <2>11 DEF Kept
<1> QED BY <1>7, <1>8

(* A thread asks, is woken, answers and forgets, undisturbed by the rest.  *)
LEMMA ThreadStepCareful ==
    ASSUME CarefulInv, NEW t \in Threads, ThreadStep(t)
    PROVE  Kept'
<1> USE DEF GoTo, mainVars, threadVars, listVars, wireVars
<1> TypeOK /\ SinglesKnown /\ SinglesAtHome /\ OneMulti /\ Work
  BY DEF CarefulInv, SessionsTypeOK
<1>1. /\ pc[t] # "none"
      /\ \A u \in Threads \ {t} : pc'[u] = pc[u]
      /\ UNCHANGED <<toM, toUdp>>
  BY DEF ThreadStep, ThreadReset, ThreadDecode, ThreadAsk, ThreadWake, ThreadAsked,
     ThreadRespond, ThreadFree, ThreadClear, ThreadExit, TypeOK
<1>2. SinglesKnown' /\ OneMulti' /\ (MultiInStream' <=> MultiInStream)
  BY <1>1 DEF SinglesKnown, OneMulti, MultiAt, MultiInStream
<1>3. /\ Alone(t) /\ t # NoThread /\ ~MultiInStream
      /\ Awaiting(t) \/ AtWork(t)
  BY <1>1, ServerMAssumption DEF Work, Idle, NoThreadWork, NoLiveThread, OneThreadOfWork, Alone
<1>4. pc[t] # "wait" => AtWork(t)
  BY <1>3 DEF Awaiting
<1>5. ASSUME thread' = thread, Awaiting(t)' \/ AtWork(t)'
      PROVE  Work'
  BY <1>1, <1>2, <1>3, <1>5 DEF Work, OneThreadOfWork, Alone
<1>6. PICK q \in Seq(Codes), k \in Nat : q = query[t] /\ k = asked[t]
  BY DEF TypeOK
<1>7. list \in Seq(Codes) /\ sem \in Nat /\ Len(q) \in Nat
  BY LenProperties DEF TypeOK
<1>8. ASSUME UNCHANGED toBackend
      PROVE  SinglesAtHome' /\ (NoExchange' <=> NoExchange)
  BY <1>1, <1>8 DEF SinglesAtHome, NoExchange, NoQuestion
<1>9. CASE ThreadReset(t)
  <2>1. /\ pc'[t] = "decode" /\ list' = <<>> /\ dangling' = FALSE
        /\ UNCHANGED <<toBackend, thread, sem>> /\ AtWork(t)
    BY <1>4, <1>9 DEF ThreadReset, TypeOK
  <2>2. AtWork(t)'
    BY <1>8, <2>1 DEF AtWork, PcLabels
  <2> QED BY <1>2, <1>5, <1>8, <2>1, <2>2 DEF Kept
<1>10. CASE ThreadDecode(t)
  <2>1. /\ pc[t] = "decode" /\ pc'[t] = "ask" /\ asked'[t] = 0
        /\ UNCHANGED <<toBackend, thread, sem, list, dangling>> /\ AtWork(t)
    BY <1>4, <1>10 DEF ThreadDecode, TypeOK
  <2>2. query'[t] \in Seq(Codes)
    <3>1. TypeOK'
      BY ThreadStepTyped
    <3> QED BY <3>1 DEF TypeOK
  <2>3. Found(<<>>, query'[t], 0)
    <3>1. Len(query'[t]) \in Nat /\ 0 \in 0 .. Len(query'[t]) /\ Len(<<>>) <= 0
      BY <2>2, LenProperties
    <3> QED BY <2>2, <3>1, NothingSelected DEF Found
  <2>4. list' = <<>> /\ ~dangling'
    BY <2>1 DEF AtWork
  <2>5. AtWork(t)'
    BY <1>8, <2>1, <2>3, <2>4 DEF AtWork, PcLabels
  <2> QED BY <1>2, <1>5, <1>8, <2>1, <2>5 DEF Kept
<1>11. CASE ThreadAsk(t)
  <2> DEFINE code == q[k + 1]
  <2>1. /\ pc[t] = "ask" /\ pc'[t] = "wait" /\ k < Len(q)
        /\ query'[t] = q /\ asked'[t] = k /\ UNCHANGED <<list, dangling, thread>>
        /\ send_request_to_department_server(Detail(code))
    BY <1>6, <1>11 DEF ThreadAsk, Detail, TypeOK
  <2>2. k + 1 \in 1 .. Len(q) /\ code \in Codes
    <3>1. k + 1 \in 1 .. Len(q)
      BY <1>7, <2>1
    <3> QED BY <3>1, ElementOfSeq
  <2>3. NoExchange /\ sem = 0 /\ ~dangling /\ Found(list, q, k)
    BY <1>4, <1>6, <2>1 DEF AtWork
  <2> HIDE DEF code
  <2>4. CASE DeptOf[code] \in Departments
    <3>1. PICK dept \in Departments : dept = DeptOf[code]
      BY <2>4
    <3>2. sem' = sem /\ toBackend' = [toBackend EXCEPT ![dept] = Append(@, Detail(code))]
      BY <2>1, <3>1, CodesAssumption DEF send_request_to_department_server, udp_send, Detail
    <3>3. dept \in Backend /\ Detail(code) \in BackendRequest(dept)
      BY <2>2 DEF Backend, Detail, BackendRequest, DetailRequest, Departments, CredentialServer
    <3>4. /\ toBackend'[dept] = Append(toBackend[dept], Detail(code))
          /\ \A d \in Backend \ {dept} : toBackend'[d] = toBackend[d]
          /\ toBackend[dept] \in Seq(BackendRequest(dept))
      BY <3>2, <3>3 DEF TypeOK
    <3>5. Only(toBackend'[dept], Questions, Detail(code))
      BY <2>3, <3>3, <3>4, FirstOfItsType DEF NoExchange, NoQuestion
    <3>6. QuestionSent(code)'
      BY <1>1, <2>3, <3>1, <3>4, <3>5 DEF QuestionSent, NoExchange, NoQuestion
    <3>7. SinglesAtHome'
      <4>1. /\ Len(toBackend[dept]) \in Nat
            /\ Len(toBackend'[dept]) = Len(toBackend[dept]) + 1
            /\ \A i \in 1 .. Len(toBackend[dept]) : toBackend'[dept][i] = toBackend[dept][i]
            /\ toBackend'[dept][Len(toBackend[dept]) + 1] = Detail(code)
        BY <3>3, <3>4, AppendPlaces
      <4>2. ASSUME NEW i \in 1 .. Len(toBackend'[dept]), toBackend'[dept][i].type = "SINGLE"
            PROVE  i \in 1 .. Len(toBackend[dept])
        <5>1. i # Len(toBackend[dept]) + 1
          BY <4>1, <4>2 DEF Detail
        <5> QED BY <4>1, <5>1
      <4>3. ASSUME NEW d \in Backend, NEW i \in 1 .. Len(toBackend'[d]),
                   toBackend'[d][i].type = "SINGLE"
            PROVE  i \in 1 .. Len(toBackend[d]) /\ toBackend'[d][i] = toBackend[d][i]
        <5>1. CASE d = dept
          BY <4>1, <4>2, <4>3, <5>1
        <5>2. CASE d # dept
          BY <3>4, <4>3, <5>2
        <5> QED BY <5>1, <5>2
      <4> QED BY <4>3 DEF SinglesAtHome
    <3>8. Awaiting(t)'
      BY <2>1, <2>2, <2>3, <3>2, <3>6 DEF Awaiting, code
    <3> QED BY <1>2, <1>5, <2>1, <3>7, <3>8 DEF Kept
  <2>5. CASE DeptOf[code] \notin Departments
    <3>1. ~Known(code)
      BY <2>2, <2>5, NoDeptUnknown
    <3>2. sem' = 1 /\ toBackend' = toBackend
      BY <1>3, <2>1, <2>3, <2>5 DEF send_request_to_department_server,
         on_course_lookup_error_received, Alone, Detail
    <3>3. Found(list, q, k + 1)
      BY <1>7, <2>2, <2>3, <3>1, FoundMore DEF code
    <3>4. Awaiting(t)'
      BY <1>8, <2>1, <2>2, <2>3, <3>2, <3>3 DEF Awaiting
    <3> QED BY <1>2, <1>5, <1>8, <2>1, <3>2, <3>4 DEF Kept
  <2> QED BY <2>4, <2>5
<1>12. CASE ThreadWake(t)
  <2>1. /\ pc[t] = "wait" /\ sem > 0 /\ sem' = sem - 1 /\ pc'[t] = "ask"
        /\ query'[t] = q /\ asked'[t] = k + 1
        /\ UNCHANGED <<toBackend, thread, list, dangling>>
    BY <1>6, <1>12 DEF ThreadWake, TypeOK
  <2>2. NoExchange /\ sem = 1 /\ ~dangling /\ Found(list, q, k + 1)
    BY <1>3, <1>6, <2>1 DEF Awaiting, AtWork
  <2>3. AtWork(t)'
    BY <1>8, <2>1, <2>2 DEF AtWork, PcLabels
  <2> QED BY <1>2, <1>5, <1>8, <2>1, <2>3 DEF Kept
<1>13. CASE ThreadAsked(t)
  <2>1. /\ pc[t] = "ask" /\ pc'[t] = "respond" /\ k = Len(q)
        /\ UNCHANGED <<toBackend, thread, query, asked, list, dangling, sem>>
    BY <1>6, <1>13 DEF ThreadAsked, TypeOK
  <2>2. AtWork(t)'
    BY <1>4, <1>6, <1>8, <2>1 DEF AtWork, PcLabels
  <2> QED BY <1>2, <1>5, <1>8, <2>1, <2>2 DEF Kept
<1>14. CASE ThreadRespond(t)
  <2>1. /\ pc[t] = "respond" /\ pc'[t] = "free"
        /\ UNCHANGED <<toBackend, thread, query, asked, list, dangling, sem>>
    BY <1>14 DEF ThreadRespond, TypeOK
  <2>2. AtWork(t)'
    BY <1>4, <1>8, <2>1 DEF AtWork, PcLabels
  <2> QED BY <1>2, <1>5, <1>8, <2>1, <2>2 DEF Kept
<1>15. CASE ThreadFree(t)
  <2>1. /\ pc[t] = "free" /\ pc'[t] = "clear"
        /\ UNCHANGED <<toBackend, thread, sem>>
    BY <1>15 DEF ThreadFree, TypeOK
  <2>2. AtWork(t)'
    BY <1>4, <1>8, <2>1 DEF AtWork, PcLabels
  <2> QED BY <1>2, <1>5, <1>8, <2>1, <2>2 DEF Kept
<1>16. CASE ThreadClear(t)
  <2>1. /\ pc[t] = "clear" /\ pc'[t] = "exit" /\ dangling' = FALSE
        /\ UNCHANGED <<toBackend, thread, sem>>
    BY <1>16 DEF ThreadClear, TypeOK
  <2>2. AtWork(t)'
    BY <1>4, <1>8, <2>1 DEF AtWork, PcLabels
  <2> QED BY <1>2, <1>5, <1>8, <2>1, <2>2 DEF Kept
<1>17. CASE ThreadExit(t)
  <2>1. /\ pc[t] = "exit" /\ pc'[t] = "none" /\ thread' = NoThread
        /\ UNCHANGED <<toBackend, sem, dangling>>
    BY <1>17 DEF ThreadExit, TypeOK
  <2>2. AtWork(t)
    BY <1>4, <2>1
  <2>3. NoThreadWork'
    BY <1>1, <1>3, <2>1, <2>2 DEF NoThreadWork, NoLiveThread, Alone, AtWork
  <2>4. Work'
    BY <1>8, <2>1, <2>2, <2>3 DEF Work, Idle, AtWork
  <2> QED BY <1>2, <1>8, <2>1, <2>4 DEF Kept
<1> QED BY <1>9, <1>10, <1>11, <1>12, <1>13, <1>14, <1>15, <1>16, <1>17 DEF ThreadStep

-----------------------------------------------------------------------------
(* The theorems.                                                           *)

(* No step of serverM, its threads, its backends or its clients, in any    *)
(* order, makes two exchanges of one.                                      *)
LEMMA CarefulKept ==
    ASSUME CarefulInv, [CarefulNext]_vars
    PROVE  CarefulInv'
<1>1. SessionsTypeOK'
  BY CarefulTyped DEF CarefulInv
<1>2. CASE Serve
  BY <1>1, <1>2, TcpReceiveCareful, UdpReceiveCareful, BackendServeCareful, ThreadStepCareful
     DEF Serve, ServerStep, Kept, CarefulInv
<1>3. CASE CarefulNext /\ ~Serve
  BY <1>1, <1>3, ClientKeepsWork DEF Kept, CarefulInv
<1>4. CASE UNCHANGED vars
  <2>1. UNCHANGED toM /\ UNCHANGED exchangeVars
    BY <1>4 DEF exchangeVars, vars, serverVars, mainVars, wireVars, threadVars, listVars
  <2>2. SinglesKnown' /\ OneMulti' /\ (MultiInStream' => MultiInStream)
    BY <2>1 DEF CarefulInv, SinglesKnown, OneMulti, MultiAt, MultiInStream
  <2>3. TypeOK /\ Work /\ SinglesAtHome
    BY DEF CarefulInv, SessionsTypeOK
  <2>4. Work' /\ SinglesAtHome'
    BY <2>1, <2>2, <2>3, ExchangeUnchanged
  <2> QED BY <1>1, <2>2, <2>4 DEF CarefulInv
<1> QED BY <1>2, <1>3, <1>4

LEMMA CarefulHolds == CarefulSpec => []CarefulInv
<1>1. Init => CarefulInv
  <2> SUFFICES ASSUME Init PROVE CarefulInv
    OBVIOUS
  <2>1. SinglesKnown /\ OneMulti
    BY DEF Init, ServerInit, SinglesKnown, OneMulti, MultiAt
  <2>2. SinglesAtHome /\ NoExchange
    BY DEF Init, ServerInit, SinglesAtHome, NoExchange, NoQuestion, Without
  <2>3. NoThreadWork
    BY DEF Init, ServerInit, NoThreadWork, NoLiveThread
  <2> QED BY InitTyped, <2>1, <2>2, <2>3 DEF CarefulInv, Work, Idle
<1>2. CarefulInv /\ [CarefulNext]_vars => CarefulInv'
  BY CarefulKept
<1> QED BY <1>1, <1>2, PTL DEF CarefulSpec

(* A post belongs to a pending exchange exactly if one is under way.       *)
LEMMA ExchangeIsPending ==
    ASSUME thread # NoThread
    PROVE  DetailPending <=> ~NoExchange
<1>1. (\E b \in Backend : \E i \in 1 .. Len(toBackend[b]) : toBackend[b][i].type = "DETAIL")
          <=> ~NoQuestion
  BY DEF NoQuestion, Without, Questions
<1>2. (\E i \in 1 .. Len(toUdp) :
          toUdp[i].type = "DETAIL" \/ (toUdp[i].type = "ERROR" /\ thread # NoThread))
          <=> ~Without(toUdp, Answers)
  BY DEF Without, Answers
<1> QED BY <1>1, <1>2 DEF DetailPending, NoExchange

(* The semaphore is posted for the question its thread is blocked on, and  *)
(* for no other, while any number of clients log in, look single courses   *)
(* up, give up and ask again (serverM.c:182 against 233 and 257).          *)
THEOREM CarefulHandOff == CarefulSpec => []HandOff
<1>1. ASSUME CarefulInv
      PROVE  HandOff
  <2>1. CASE Idle
    <3>1. ~DetailPending
      BY <2>1 DEF Idle, NoExchange, NoQuestion, Without, Questions, Answers, DetailPending
    <3> QED BY <2>1, <3>1 DEF Idle, NoThreadWork, NoLiveThread, HandOff
  <2>2. CASE OneThreadOfWork
    <3>1. PICK t \in Threads : Alone(t) /\ (Awaiting(t) \/ AtWork(t))
      BY <2>2 DEF OneThreadOfWork
    <3>2. DetailPending <=> ~NoExchange
      BY <3>1, ExchangeIsPending, ServerMAssumption DEF Alone
    <3>3. CASE AtWork(t)
      BY <3>1, <3>2, <3>3 DEF AtWork, Alone, HandOff
    <3>4. CASE Awaiting(t) /\ sem = 1
      BY <3>1, <3>2, <3>4 DEF Awaiting, Alone, HandOff
    <3>5. CASE Awaiting(t) /\ sem = 0
      <4>1. PICK code : QuestionSent(code) \/ AnswerSent(code)
        BY <3>5 DEF Awaiting
      <4>2. QuestionSent(code) => ~NoExchange
        BY DEF QuestionSent, NoExchange, NoQuestion, Only, Without, Detail, Questions, Backend
      <4>3. AnswerSent(code) => ~NoExchange
        BY DEF AnswerSent, NoExchange, Only, Without, DetailAnswer, Answers
      <4> QED BY <3>1, <3>2, <3>5, <4>1, <4>2, <4>3 DEF Awaiting, Alone, HandOff
    <3> QED BY <3>1, <3>3, <3>4, <3>5 DEF Awaiting
  <2> QED BY <1>1, <2>1, <2>2 DEF CarefulInv, Work
<1> QED BY <1>1, CarefulHolds, PTL

(* No freed node of the shared list is read, extended or freed again,      *)
(* whatever the clients do meanwhile (serverM.c:203-205).                  *)
THEOREM CarefulListIsLive == CarefulSpec => []ListIsLive
<1>1. ASSUME CarefulInv, dangling
      PROVE  ListIsLive
  <2>1. PICK t \in Threads : Alone(t) /\ AtWork(t)
    BY <1>1 DEF CarefulInv, Work, Idle, NoThreadWork, OneThreadOfWork, Awaiting
  <2>2. pc[t] = "clear" /\ \A i \in 1 .. Len(toUdp) : toUdp[i].type # "DETAIL"
    BY <1>1, <2>1 DEF AtWork, NoExchange, Without, Answers
  <2> QED BY <2>1, <2>2 DEF Alone, ListIsLive
<1>2. CarefulInv => ListIsLive
  BY <1>1 DEF ListIsLive
<1> QED BY <1>2, CarefulHolds, PTL

(* The shared list holds the courses found among the codes asked for so    *)
(* far, in the order of the query: answers to other users never end in it. *)
THEOREM CarefulListFollows == CarefulSpec => []ListFollowsQuery
<1>1. ASSUME CarefulInv, NEW t \in Threads, pc[t] \in {"ask", "wait", "respond", "free"}
      PROVE  Selects(list, SubSeq(query[t], 1, Answered(t)))
  <2>1. Awaiting(t) \/ AtWork(t)
    BY <1>1 DEF CarefulInv, Work, Idle, NoThreadWork, NoLiveThread, OneThreadOfWork, Alone
  <2>2. Found(list, query[t], Answered(t))
    BY <1>1, <2>1 DEF Awaiting, AtWork, Answered
  <2> QED BY <2>2 DEF Found
<1>2. CarefulInv => ListFollowsQuery
  BY <1>1 DEF ListFollowsQuery
<1> QED BY <1>2, CarefulHolds, PTL
=============================================================================
