---------------------------- MODULE Service_proofs ----------------------------
(***************************************************************************)
(* That serverM, its threads and its backends keep the promise of          *)
(* QueryService when one query is asked at a time: the list of a query is  *)
(* the right one, every reply is the right answer of the user who waits    *)
(* for it, and every step is a step of the service or not seen by users.   *)
(* Sessions_proofs has the phases of the work this builds on.              *)
(***************************************************************************)
EXTENDS Sessions_proofs

-----------------------------------------------------------------------------
(* What is left of a query without its unknown codes.                      *)

(* The first k codes of a query, and what one code more adds to them.      *)
LEMMA Prefix ==
    ASSUME NEW q \in Seq(Codes), NEW k \in 0 .. Len(q)
    PROVE  /\ SubSeq(q, 1, k) \in Seq(Codes)
           /\ Len(SubSeq(q, 1, k)) = k
           /\ \A i \in 1 .. k : SubSeq(q, 1, k)[i] = q[i]
<1>1. \A i \in 1 .. k : q[i] \in Codes
  BY LenProperties, ElementOfSeq
<1>2. k \in Nat /\ k - 1 + 1 = k /\ Len(q) \in Nat
  BY LenProperties
<1>3. SubSeq(q, 1, k) \in Seq(Codes)
  BY <1>1, <1>2, SubSeqProperties
<1>4. Len(SubSeq(q, 1, k)) = k
  BY <1>2, SubSeqProperties
<1>5. \A i \in 1 .. k : SubSeq(q, 1, k)[i] = q[i]
  BY <1>2, SubSeqProperties
<1> QED BY <1>3, <1>4, <1>5

(* Places of known codes among the first k.                                *)
LEMMA KnownPlaces ==
    ASSUME NEW q \in Seq(Codes), NEW k \in 0 .. Len(q)
    PROVE  PlacesOfKnown(SubSeq(q, 1, k)) = {i \in 1 .. k : Known(q[i])}
BY Prefix DEF PlacesOfKnown

LEMMA NothingSelected ==
    ASSUME NEW q \in Seq(Codes)
    PROVE  Selects(<<>>, SubSeq(q, 1, 0))
<1>1. 0 \in 0 .. Len(q)
  BY LenProperties
<1>2. Len(SubSeq(q, 1, 0)) = 0 /\ PlacesOfKnown(SubSeq(q, 1, 0)) = {}
  BY <1>1, Prefix, KnownPlaces
<1>3. [i \in 1 .. 0 |-> i] \in [1 .. Len(<<>>) -> 1 .. Len(SubSeq(q, 1, 0))]
  BY <1>2
<1>4. SelectsBy([i \in 1 .. 0 |-> i], <<>>, SubSeq(q, 1, 0))
  BY <1>2 DEF SelectsBy
<1> QED BY <1>3, <1>4 DEF Selects

(* An unknown code adds nothing.                                           *)
LEMMA UnknownSelected ==
    ASSUME NEW q \in Seq(Codes), NEW k \in 0 .. Len(q) - 1, NEW found \in Seq(Codes),
           Selects(found, SubSeq(q, 1, k)), ~Known(q[k + 1])
    PROVE  Selects(found, SubSeq(q, 1, k + 1))
<1> DEFINE old == SubSeq(q, 1, k)
           new == SubSeq(q, 1, k + 1)
<1>1. Len(q) \in Nat /\ k \in 0 .. Len(q) /\ k + 1 \in 0 .. Len(q)
  BY LenProperties
<1>2. /\ Len(old) = k /\ Len(new) = k + 1
      /\ PlacesOfKnown(old) = {i \in 1 .. k : Known(q[i])}
      /\ PlacesOfKnown(new) = {i \in 1 .. k + 1 : Known(q[i])}
      /\ \A i \in 1 .. k : old[i] = q[i]
      /\ \A i \in 1 .. k + 1 : new[i] = q[i]
  BY <1>1, Prefix, KnownPlaces
<1> HIDE DEF old, new
<1>3. PlacesOfKnown(old) = PlacesOfKnown(new)
  BY <1>1, <1>2
<1>4. PICK at \in [1 .. Len(found) -> 1 .. Len(old)] : SelectsBy(at, found, old)
  BY DEF Selects, old
<1>5. at \in [1 .. Len(found) -> 1 .. Len(new)]
  BY <1>1, <1>2, <1>4
<1>6. SelectsBy(at, found, new)
  BY <1>1, <1>2, <1>3, <1>4 DEF SelectsBy
<1> QED BY <1>5, <1>6 DEF Selects, new

(* A known code is what comes last.                                        *)
LEMMA KnownSelected ==
    ASSUME NEW q \in Seq(Codes), NEW k \in 0 .. Len(q) - 1, NEW found \in Seq(Codes),
           Selects(found, SubSeq(q, 1, k)), Known(q[k + 1])
    PROVE  Selects(Append(found, q[k + 1]), SubSeq(q, 1, k + 1))
<1> DEFINE old  == SubSeq(q, 1, k)
           new  == SubSeq(q, 1, k + 1)
           more == Append(found, q[k + 1])
<1>1. Len(q) \in Nat /\ k \in 0 .. Len(q) /\ k + 1 \in 0 .. Len(q) /\ k + 1 \in 1 .. Len(q)
  BY LenProperties
<1>2. /\ Len(old) = k /\ Len(new) = k + 1
      /\ PlacesOfKnown(old) = {i \in 1 .. k : Known(q[i])}
      /\ PlacesOfKnown(new) = {i \in 1 .. k + 1 : Known(q[i])}
      /\ \A i \in 1 .. k : old[i] = q[i]
      /\ \A i \in 1 .. k + 1 : new[i] = q[i]
  BY <1>1, Prefix, KnownPlaces
<1>3. PICK n \in Nat : n = Len(found)
  BY LenProperties
<1>4. q[k + 1] \in Codes
  BY <1>1, ElementOfSeq
<1>5. /\ Len(more) = n + 1
      /\ \A i \in 1 .. n : more[i] = found[i]
      /\ more[n + 1] = q[k + 1]
  BY <1>3, <1>4, AppendProperties
<1>6. PICK at \in [1 .. n -> 1 .. Len(old)] : SelectsBy(at, found, old)
  BY <1>3 DEF Selects
<1> HIDE DEF old, new, more
<1> DEFINE at1 == [i \in 1 .. n + 1 |-> IF i = n + 1 THEN k + 1 ELSE at[i]]
<1>7. at1 \in [1 .. Len(more) -> 1 .. Len(new)]
  <2>1. \A i \in 1 .. n + 1 : i # n + 1 => i \in 1 .. n
    OBVIOUS
  <2>2. \A i \in 1 .. n : at[i] \in 1 .. k
    BY <1>2, <1>6
  <2>3. k + 1 \in 1 .. k + 1 /\ \A x \in 1 .. k : x \in 1 .. k + 1
    BY <1>1
  <2>4. at1 \in [1 .. n + 1 -> 1 .. k + 1]
    BY <2>1, <2>2, <2>3
  <2> QED BY <2>4, <1>2, <1>5
<1>8. /\ \A i, j \in 1 .. n : i < j => at[i] < at[j]
      /\ \A i \in 1 .. n : at[i] \in PlacesOfKnown(old) /\ found[i] = old[at[i]]
      /\ \A x \in PlacesOfKnown(old) : \E i \in 1 .. n : at[i] = x
  BY <1>3, <1>6 DEF SelectsBy
<1>9. at1[n + 1] = k + 1 /\ \A i \in 1 .. n : at1[i] = at[i] /\ at[i] \in 1 .. k
  BY <1>2, <1>6
<1> HIDE DEF at1
<1>10. ASSUME NEW i \in 1 .. n + 1, NEW j \in 1 .. n + 1, i < j
       PROVE  at1[i] < at1[j]
  <2>1. i \in 1 .. n /\ at1[i] = at[i] /\ at[i] \in 1 .. k
    BY <1>9, <1>10
  <2>2. CASE j = n + 1
    BY <1>1, <1>9, <2>1, <2>2
  <2>3. CASE j # n + 1
    BY <1>8, <1>9, <1>10, <2>1, <2>3
  <2> QED BY <2>2, <2>3
<1>11. ASSUME NEW i \in 1 .. n + 1
       PROVE  at1[i] \in PlacesOfKnown(new) /\ more[i] = new[at1[i]]
  <2>1. CASE i = n + 1
    BY <1>1, <1>2, <1>5, <1>9, <2>1
  <2>2. CASE i # n + 1
    <3>1. i \in 1 .. n
      BY <2>2
    <3>2. at[i] \in 1 .. k /\ at1[i] = at[i] /\ Known(q[at[i]]) /\ found[i] = q[at[i]]
      BY <3>1, <1>2, <1>8, <1>9
    <3>3. at[i] \in 1 .. k + 1
      BY <3>2, <1>1
    <3> QED BY <3>1, <3>2, <3>3, <1>2, <1>5
  <2> QED BY <2>1, <2>2
<1>12. ASSUME NEW x \in PlacesOfKnown(new)
       PROVE  \E i \in 1 .. n + 1 : at1[i] = x
  <2>1. CASE x = k + 1
    BY <1>9, <2>1
  <2>2. CASE x # k + 1
    <3>1. x \in PlacesOfKnown(old)
      BY <1>1, <1>2, <2>2
    <3>2. PICK i \in 1 .. n : at[i] = x
      BY <3>1, <1>8
    <3>3. i \in 1 .. n + 1 /\ at1[i] = x
      BY <3>2, <1>9
    <3> QED BY <3>3
  <2> QED BY <2>1, <2>2
<1>13. SelectsBy(at1, more, new)
  BY <1>5, <1>10, <1>11, <1>12 DEF SelectsBy
<1> QED BY <1>7, <1>13 DEF Selects, new, more

(* A query has an answer exactly if something of it is left.               *)
LEMMA SelectedAnswers ==
    ASSUME NEW q \in Seq(Codes), NEW found \in Seq(Codes), Selects(found, q)
    PROVE  found = <<>> <=> PlacesOfKnown(q) = {}
<1>1. PICK at \in [1 .. Len(found) -> 1 .. Len(q)] : SelectsBy(at, found, q)
  BY DEF Selects
<1>2. CASE found = <<>>
  <2>1. Len(found) = 0
    BY <1>2
  <2> QED BY <1>1, <1>2, <2>1 DEF SelectsBy
<1>3. CASE found # <<>>
  <2>1. 1 \in 1 .. Len(found)
    BY <1>3, LenProperties, EmptySeq
  <2> QED BY <1>1, <1>3, <2>1 DEF SelectsBy
<1> QED BY <1>2, <1>3

-----------------------------------------------------------------------------
(* The list and the codes of the thread, at every step of the thread.      *)

Found(found, codes, k) ==
    k \in 0 .. Len(codes) /\ Len(found) <= k /\ Selects(found, SubSeq(codes, 1, k))

\* What the department of a code says of it.
DetailAnswer(code) == [type |-> IF Known(code) THEN "DETAIL" ELSE "ERROR", code |-> code]

Asking(t) ==
    /\ pc[t] = "decode" => list = <<>>
    /\ pc[t] = "ask" => Found(list, query[t], asked[t])
    /\ pc[t] = "wait" =>
          /\ asked[t] + 1 \in 1 .. Len(query[t])
          /\ Found(list, query[t], IF sem = 0 THEN asked[t] ELSE asked[t] + 1)
          /\ \A b \in Backend : toBackend[b] # <<>> =>
                /\ Head(toBackend[b]) = [type |-> "DETAIL", code |-> query[t][asked[t] + 1]]
                /\ b = DeptOf[query[t][asked[t] + 1]]
          /\ toUdp # <<>> => Head(toUdp) = DetailAnswer(query[t][asked[t] + 1])
    /\ pc[t] \in {"respond", "free"} =>
          asked[t] = Len(query[t]) /\ Found(list, query[t], asked[t])

Collecting == Inv /\ \A t \in Threads : Asking(t)

(* A thread that has no list yet, or forgot it, says nothing of it.        *)
LEMMA NotAsking ==
    ASSUME NEW t \in Threads, pc[t] \in {"none", "reset", "clear", "exit"}
    PROVE  Asking(t)
BY DEF Asking

(* The same a step later.                                                  *)
LEMMA NotAskingNext ==
    ASSUME NEW t \in Threads, pc'[t] \in {"none", "reset", "clear", "exit"}
    PROVE  Asking(t)'
BY DEF Asking

(* The answer to the next code moves the list on.                          *)
LEMMA FoundMore ==
    ASSUME NEW q \in Seq(Codes), NEW k \in Nat, k + 1 \in 1 .. Len(q),
           NEW found \in Seq(Codes), Found(found, q, k)
    PROVE  /\ ~Known(q[k + 1]) => Found(found, q, k + 1)
           /\ Known(q[k + 1]) => Found(Append(found, q[k + 1]), q, k + 1)
<1>1. Len(q) \in Nat /\ Len(found) \in Nat /\ k \in 0 .. Len(q) - 1 /\ k + 1 \in 0 .. Len(q)
  BY LenProperties
<1>2. q[k + 1] \in Codes
  BY <1>1, ElementOfSeq
<1>3. Len(Append(found, q[k + 1])) = Len(found) + 1
  BY <1>2, AppendProperties
<1>4. Selects(found, SubSeq(q, 1, k)) /\ Len(found) <= k
  BY DEF Found
<1>5. ASSUME ~Known(q[k + 1]) PROVE Found(found, q, k + 1)
  BY <1>1, <1>4, <1>5, UnknownSelected DEF Found
<1>6. ASSUME Known(q[k + 1]) PROVE Found(Append(found, q[k + 1]), q, k + 1)
  BY <1>1, <1>3, <1>4, <1>6, KnownSelected DEF Found
<1> QED BY <1>5, <1>6

(* A department of the code knows it exactly if it is in the catalogue.    *)
LEMMA DepartmentIsRight ==
    ASSUME NEW code \in Codes, DeptOf[code] \in Departments
    PROVE  BackendAnswer(DeptOf[code], [type |-> "DETAIL", code |-> code]) = DetailAnswer(code)
<1>1. DeptOf[code] # CredentialServer
  BY DEF Departments, CredentialServer
<1>2. code \in DepartmentDb(DeptOf[code]) <=> Known(code)
  BY CodesAssumption DEF DepartmentDb, Known
<1> QED BY <1>1, <1>2 DEF BackendAnswer, DepartmentReply, DetailAnswer

(* No code without a department is in the catalogue.                       *)
LEMMA NoDeptUnknown ==
    ASSUME NEW code \in Codes, DeptOf[code] \notin Departments
    PROVE  ~Known(code) /\ DeptOf[code] = NoDept
BY CodesAssumption DEF Known

collectVars == <<pc, query, asked, list, sem, toBackend, toUdp>>

LEMMA AskingUnchanged ==
    ASSUME NEW t \in Threads, Asking(t), UNCHANGED collectVars
    PROVE  Asking(t)'
BY DEF Asking, collectVars

(* The thread that is alive is the only one with a list.                   *)
LEMMA OneThread ==
    ASSUME Inv, NEW t \in Threads, pc[t] # "none"
    PROVE  /\ thread = t /\ t # NoThread
           /\ \A u \in Threads \ {t} : pc[u] = "none"
           /\ ThreadBlocked(t) \/ ThreadRunning(t)
<1>1. ThreadExchange
  BY DEF Inv, OnePieceOfWork, Resting, RequestArriving, SingleExchange, NoThreadWork,
     NoLiveThread
<1> QED BY <1>1, ServerMAssumption DEF ThreadExchange

(* Only a request that has just arrived is read, and no thread is alive.   *)
LEMMA ReadAtRest ==
    ASSUME Inv, NEW c \in Clients, TcpReceive(c)
    PROVE  /\ Len(toM[c]) = 1 /\ toM[c] \in Seq(ClientRequest) /\ toM[c] # <<>>
           /\ Head(toM[c]) \in ClientRequest
           /\ \A d \in Clients \ {c} : toM[d] = <<>>
           /\ BackendsEmpty /\ toUdp = <<>> /\ NoThreadWork
<1> TypeOK
  BY DEF Inv, SessionsTypeOK
<1>1. PICK n \in 1 .. Len(toM[c]) : toM' = [toM EXCEPT ![c] = SubSeq(@, n + 1, Len(@))]
  BY DEF TcpReceive
<1>2. toM[c] # <<>> /\ toM[c] \in Seq(ClientRequest)
  BY <1>1, LenProperties, EmptySeq DEF TypeOK
<1>3. RequestArriving
  BY <1>2 DEF Inv, OnePieceOfWork, Resting, SingleExchange, ThreadExchange, StreamsEmpty
<1>4. Len(toM[c]) = 1 /\ \A d \in Clients \ {c} : toM[d] = <<>>
  BY <1>2, <1>3 DEF RequestArriving
<1>5. Head(toM[c]) \in ClientRequest
  BY <1>2, HeadTyped
<1> QED BY <1>2, <1>3, <1>4, <1>5 DEF RequestArriving

(* Handing a request out starts a thread at most, with no list yet.        *)
LEMMA TcpReceiveCollects ==
    ASSUME Collecting, NEW c \in Clients, TcpReceive(c), NEW t \in Threads
    PROVE  Asking(t)'
<1>1. pc[t] = "none" /\ TypeOK
  BY ReadAtRest DEF Collecting, NoThreadWork, NoLiveThread, Inv, SessionsTypeOK
<1>2. pc'[t] \in {"none", "reset"}
  BY <1>1 DEF TcpReceive, on_auth_request_received, on_course_lookup_info_request_received,
     on_course_lookup_multi_request_received, TypeOK
<1> QED BY <1>2, NotAskingNext

(* The main thread stores a course and posts, or posts only.               *)
LEMMA UdpReceiveCollects ==
    ASSUME Collecting, UdpReceive, NEW t \in Threads
    PROVE  Asking(t)'
<1> DEFINE reply == Head(toUdp)
<1> Inv /\ TypeOK /\ Asking(t)
  BY DEF Collecting, Inv, SessionsTypeOK
<1>1. toUdp # <<>> /\ toUdp' = Tail(toUdp) /\ UNCHANGED <<toBackend, thread, pc, query, asked>>
  BY DEF UdpReceive, threadVars
<1>2. CASE pc[t] = "none"
  BY <1>1, <1>2, NotAskingNext
<1>3. CASE pc[t] # "none"
  <2>1. thread = t /\ t # NoThread /\ (ThreadBlocked(t) \/ ThreadRunning(t))
    BY <1>3, OneThread
  <2>2. pc[t] = "wait" /\ BackendsEmpty /\ Len(toUdp) = 1 /\ sem = 0
    BY <1>1, <2>1 DEF ThreadBlocked, ThreadRunning, AskedBackend, ReplyArriving
  <2>3. toUdp' = <<>>
    BY <1>1, <2>2, LastTaken DEF TypeOK
  <2>4. PICK q \in Seq(Codes), k \in Nat : q = query[t] /\ k = asked[t]
    BY DEF TypeOK
  <2>5. /\ k + 1 \in 1 .. Len(q) /\ Found(list, q, k)
        /\ reply = DetailAnswer(q[k + 1])
    BY <1>1, <2>2, <2>4 DEF Asking
  <2>6. list \in Seq(Codes)
    BY DEF TypeOK
  <2>7. Found(list', q, k + 1) /\ sem' = 1
    <3>1. CASE Known(q[k + 1])
      <4>1. reply = [type |-> "DETAIL", code |-> q[k + 1]]
        BY <2>5, <3>1 DEF DetailAnswer
      <4>2. reply.type = "DETAIL" /\ reply.code = q[k + 1]
        BY <4>1
      <4>3. list' = Append(list, q[k + 1]) /\ sem' = 1
        BY <2>2, <4>2 DEF UdpReceive, on_auth_response_received,
           on_single_course_lookup_info_response_received, on_course_detail_response_received,
           on_error_response_received
      <4> QED BY <2>5, <2>6, <3>1, <4>3, FoundMore
    <3>2. CASE ~Known(q[k + 1])
      <4>1. reply = [type |-> "ERROR", code |-> q[k + 1]]
        BY <2>5, <3>2 DEF DetailAnswer
      <4>2. reply.type = "ERROR"
        BY <4>1
      <4>3. list' = list /\ sem' = 1
        BY <2>1, <2>2, <4>2 DEF UdpReceive, on_auth_response_received,
           on_single_course_lookup_info_response_received, on_course_detail_response_received,
           on_error_response_received, on_course_lookup_error_received
      <4> QED BY <2>5, <2>6, <3>2, <4>3, FoundMore
    <3> QED BY <3>1, <3>2
  <2>8. /\ pc'[t] = "wait" /\ query'[t] = q /\ asked'[t] = k /\ toUdp' = <<>>
        /\ \A b \in Backend : toBackend'[b] = <<>>
    BY <1>1, <2>2, <2>3, <2>4 DEF BackendsEmpty
  <2> QED BY <2>5, <2>7, <2>8 DEF Asking
<1> QED BY <1>2, <1>3

(* A department answers the code it was asked for.                         *)
LEMMA BackendServeCollects ==
    ASSUME Collecting, NEW b \in Backend, BackendServe(b), NEW t \in Threads
    PROVE  Asking(t)'
<1> Inv /\ TypeOK /\ Asking(t)
  BY DEF Collecting, Inv, SessionsTypeOK
<1>1. /\ toBackend[b] # <<>>
      /\ toUdp' = Append(toUdp, BackendAnswer(b, Head(toBackend[b])))
      /\ toBackend' = [toBackend EXCEPT ![b] = Tail(@)]
      /\ UNCHANGED <<thread, pc, query, asked, list, sem>>
  BY DEF BackendServe, threadVars, listVars
<1>2. CASE pc[t] = "none"
  BY <1>1, <1>2, NotAskingNext
<1>3. CASE pc[t] # "none"
  <2>1. ThreadBlocked(t) \/ ThreadRunning(t)
    BY <1>3, OneThread
  <2>2. pc[t] = "wait" /\ toUdp = <<>> /\ AskedBackend({"DETAIL"})
    BY <1>1, <2>1 DEF ThreadBlocked, ThreadRunning, ReplyArriving, AskedBackend, BackendsEmpty
  <2>3. Len(toBackend[b]) = 1 /\ \A d \in Backend \ {b} : toBackend[d] = <<>>
    BY <1>1, <2>2 DEF AskedBackend
  <2>4. \A d \in Backend : toBackend'[d] = <<>>
    <3>1. toBackend[b] \in Seq(BackendRequest(b))
      BY DEF TypeOK
    <3>2. Tail(toBackend[b]) = <<>>
      BY <2>3, <3>1, LastTaken
    <3> QED BY <1>1, <2>3, <3>2 DEF TypeOK
  <2>5. PICK code \in Codes : code = query[t][asked[t] + 1]
    BY <2>2, ElementOfSeq DEF Asking, TypeOK
  <2>6. b = DeptOf[code] /\ Head(toBackend[b]) = [type |-> "DETAIL", code |-> code]
    BY <1>1, <2>2, <2>5 DEF Asking
  <2>7. b \in Departments
    <3>1. Head(toBackend[b]) \in BackendRequest(b)
      BY <1>1, HeadTyped DEF TypeOK
    <3>2. b # CredentialServer
      BY <2>6, <3>1 DEF BackendRequest, AuthRequest
    <3> QED BY <3>2 DEF Backend
  <2>8. Head(toUdp') = DetailAnswer(code)
    BY <1>1, <2>2, <2>6, <2>7, DepartmentIsRight, FirstAppended
  <2>9. pc'[t] = "wait" /\ query'[t][asked'[t] + 1] = code
    BY <1>1, <2>2, <2>5
  <2> QED BY <1>1, <2>2, <2>4, <2>8, <2>9 DEF Asking
<1> QED BY <1>2, <1>3

(* The steps of the thread itself.                                         *)
LEMMA ThreadStepCollects ==
    ASSUME Collecting, NEW u \in Threads, ThreadStep(u), NEW t \in Threads
    PROVE  Asking(t)'
<1> USE DEF GoTo
<1> Inv /\ TypeOK /\ Asking(t)
  BY DEF Collecting, Inv, SessionsTypeOK
<1>1. pc[u] # "none" /\ \A v \in Threads \ {u} : pc'[v] = pc[v]
  BY DEF ThreadStep, ThreadReset, ThreadDecode, ThreadAsk, ThreadWake, ThreadAsked,
     ThreadRespond, ThreadFree, ThreadClear, ThreadExit, TypeOK
<1>2. /\ thread = u /\ u # NoThread
      /\ \A v \in Threads \ {u} : pc[v] = "none"
      /\ ThreadBlocked(u) \/ ThreadRunning(u)
  BY <1>1, OneThread
<1>3. CASE t # u
  BY <1>1, <1>2, <1>3, NotAskingNext
<1>4. CASE t = u
  <2>1. PICK q \in Seq(Codes), k \in Nat : q = query[t] /\ k = asked[t]
    BY DEF TypeOK
  <2>2. list \in Seq(Codes) /\ sem \in Nat /\ Len(q) \in Nat
    BY LenProperties DEF TypeOK
  <2>3. CASE ThreadReset(t)
    <3>1. pc'[t] = "decode" /\ list' = <<>>
      BY <2>3 DEF ThreadReset, TypeOK
    <3> QED BY <3>1 DEF Asking
  <2>4. CASE ThreadDecode(t)
    <3>1. pc[t] = "decode" /\ pc'[t] = "ask" /\ asked'[t] = 0 /\ list' = <<>>
      BY <2>4 DEF ThreadDecode, listVars, Asking, TypeOK
    <3>2. PICK codes \in Decoded : query' = [query EXCEPT ![t] = codes]
      BY <2>4 DEF ThreadDecode
    <3>3. query'[t] = codes /\ query'[t] \in Seq(Codes)
      <4>1. TypeOK'
        BY <2>4, ThreadStepTyped DEF ThreadStep
      <4> QED BY <3>2, <4>1 DEF TypeOK
    <3>4. Found(<<>>, codes, 0)
      <4>1. Len(codes) \in Nat /\ 0 \in 0 .. Len(codes) /\ Len(<<>>) <= 0
        BY <3>3, LenProperties
      <4> QED BY <3>3, <4>1, NothingSelected DEF Found
    <3> QED BY <3>1, <3>3, <3>4 DEF Asking
  <2>5. CASE ThreadAsk(t)
    <3> DEFINE req == [type |-> "DETAIL", code |-> q[k + 1]]
    <3>1. /\ pc[t] = "ask" /\ pc'[t] = "wait" /\ k < Len(q)
          /\ query'[t] = q /\ asked'[t] = k /\ list' = list /\ toUdp' = toUdp
          /\ send_request_to_department_server(req)
      BY <2>1, <2>5 DEF ThreadAsk, listVars, TypeOK
    <3>2. BackendsEmpty /\ toUdp = <<>> /\ sem = 0
      BY <1>2, <1>4, <3>1 DEF ThreadBlocked, ThreadRunning
    <3>3. k + 1 \in 1 .. Len(q) /\ Found(list, q, k)
      BY <2>1, <2>2, <3>1 DEF Asking
    <3>4. PICK code \in Codes : code = q[k + 1]
      BY <3>3, ElementOfSeq
    <3>5. CASE DeptOf[code] \in Departments
      <4>1. PICK dept \in Departments : dept = DeptOf[code]
        BY <3>5
      <4>2. sem' = sem /\ toBackend' = [toBackend EXCEPT ![dept] = Append(@, req)]
        BY <3>1, <3>4, <4>1, CodesAssumption DEF send_request_to_department_server, udp_send
      <4>3. dept \in Backend /\ toBackend[dept] = <<>>
        BY <3>2 DEF Backend, BackendsEmpty
      <4>4. /\ toBackend'[dept] = Append(<<>>, req)
            /\ \A d \in Backend \ {dept} : toBackend'[d] = <<>>
        BY <3>2, <4>2, <4>3 DEF BackendsEmpty, TypeOK
      <4>5. Head(toBackend'[dept]) = req
        BY <4>4, FirstAppended
      <4> QED BY <3>1, <3>2, <3>3, <3>4, <4>1, <4>2, <4>4, <4>5 DEF Asking
    <3>6. CASE DeptOf[code] \notin Departments
      <4>1. ~Known(code)
        BY <3>6, NoDeptUnknown
      <4>2. sem' = 1 /\ toBackend' = toBackend
        BY <1>2, <1>4, <3>1, <3>2, <3>4, <3>6
           DEF send_request_to_department_server, on_course_lookup_error_received
      <4>3. Found(list, q, k + 1)
        BY <2>2, <3>3, <3>4, <4>1, FoundMore
      <4> QED BY <3>1, <3>2, <3>3, <4>2, <4>3 DEF Asking, BackendsEmpty
    <3> QED BY <3>5, <3>6
  <2>6. CASE ThreadWake(t)
    <3>1. /\ pc[t] = "wait" /\ sem # 0 /\ pc'[t] = "ask"
          /\ query'[t] = q /\ asked'[t] = k + 1 /\ list' = list
      BY <2>1, <2>6 DEF ThreadWake, listVars, TypeOK
    <3>2. Found(list, q, k + 1)
      BY <2>1, <3>1 DEF Asking
    <3> QED BY <3>1, <3>2 DEF Asking
  <2>7. CASE ThreadAsked(t)
    <3>1. /\ pc[t] = "ask" /\ pc'[t] = "respond" /\ k = Len(q)
          /\ query'[t] = q /\ asked'[t] = k /\ list' = list
      BY <2>1, <2>7 DEF ThreadAsked, listVars, TypeOK
    <3> QED BY <2>1, <3>1 DEF Asking
  <2>8. CASE ThreadRespond(t)
    <3>1. /\ pc[t] = "respond" /\ pc'[t] = "free"
          /\ query'[t] = q /\ asked'[t] = k /\ list' = list
      BY <2>1, <2>8 DEF ThreadRespond, listVars, TypeOK
    <3> QED BY <2>1, <3>1 DEF Asking
  <2>9. CASE ThreadFree(t) \/ ThreadClear(t) \/ ThreadExit(t)
    <3>1. pc'[t] \in {"clear", "exit", "none"}
      BY <2>9 DEF ThreadFree, ThreadClear, ThreadExit, TypeOK
    <3> QED BY <3>1, NotAskingNext
  <2> QED BY <1>4, <2>3, <2>4, <2>5, <2>6, <2>7, <2>8, <2>9 DEF ThreadStep
<1> QED BY <1>3, <1>4

(* The list follows the query whatever step comes next.                    *)
LEMMA CollectingKept ==
    ASSUME Collecting, [SerialNext]_vars
    PROVE  Collecting'
<1>1. Inv'
  BY SerialTyped, SerialKeepsWork DEF Collecting, Inv
<1> SUFFICES ASSUME NEW t \in Threads PROVE Asking(t)'
  BY <1>1 DEF Collecting
<1>2. CASE Serve
  BY <1>2, TcpReceiveCollects, UdpReceiveCollects, ThreadStepCollects, BackendServeCollects
     DEF Serve, ServerStep
<1>3. ASSUME NEW c \in Clients,
             \/ Connect(c) \/ Leave(c) \/ GetReply(c) \/ GiveUp(c)
             \/ \E req \in Logins \cup Queries : Ask(c, req)
      PROVE  UNCHANGED collectVars
  BY <1>3 DEF collectVars, Connect, Accept, Leave, Disconnect, GetReply, ClientRead, GiveUp, Ask,
     ClientSend, serverVars, mainVars, wireVars, threadVars, listVars
<1>4. CASE UNCHANGED vars
  BY <1>4, AskingUnchanged DEF Collecting, collectVars, vars, serverVars, wireVars, threadVars,
     listVars
<1> QED BY <1>2, <1>3, <1>4, AskingUnchanged DEF SerialNext, Collecting

LEMMA SerialCollecting == SerialSpec => []Collecting
<1>1. Init => Collecting
  BY InitTyped, InitResting, NotAsking DEF Init, ServerInit, Collecting, Inv
<1>2. Collecting /\ [SerialNext]_vars => Collecting'
  BY CollectingKept
<1> QED BY <1>1, <1>2, PTL DEF SerialSpec

(* The shared list holds the courses found among the codes asked for so    *)
(* far, in the order of the query, for every query and every catalogue.    *)
THEOREM SerialListFollows == SerialSpec => []ListFollowsQuery
<1>1. ASSUME Collecting, NEW t \in Threads, pc[t] \in {"ask", "wait", "respond", "free"}
      PROVE  Selects(list, SubSeq(query[t], 1, Answered(t)))
  <2>1. Asking(t) /\ sem \in Nat
    BY <1>1 DEF Collecting, Inv, SessionsTypeOK, TypeOK
  <2>2. sem > 0 <=> sem # 0
    BY <2>1
  <2> QED BY <1>1, <2>1, <2>2 DEF Asking, Found, Answered
<1>2. Collecting => ListFollowsQuery
  BY <1>1 DEF ListFollowsQuery
<1> QED BY <1>2, SerialCollecting, PTL

-----------------------------------------------------------------------------
(* Who is owed an answer, and by what.                                     *)

Closed == \A c \in Clients : c \notin open => waiting[c] = NoQuery /\ toClient[c] = <<>>

Served(c) == waiting[c] # NoQuery /\ toClient[c] = <<>> => ~HasAnswer(waiting[c])

OthersServed == \A c \in Clients \ {endpoint} : Served(c)

\* The newest connection waits, unless it was closed meanwhile.
NewestWaits == endpoint \in Clients /\ toClient[endpoint] = <<>>

AnswerOwed(reply) ==
    /\ NewestWaits
    /\ endpoint \in open =>
          /\ waiting[endpoint] \in ClientRequest
          /\ HasAnswer(waiting[endpoint])
          /\ reply \in RightAnswers(waiting[endpoint])

ListOwed == NewestWaits /\ (endpoint \in open => waiting[endpoint] \in MultiRequest)

\* No request, datagram or reply is on its way, and the thread has answered.
WorkDone ==
    /\ StreamsEmpty /\ BackendsEmpty /\ toUdp = <<>>
    /\ \A t \in Threads : pc[t] \in {"none", "free", "clear", "exit"}

Duty ==
    /\ \A c \in Clients : toM[c] # <<>> =>
          c = endpoint /\ c \in open /\ Head(toM[c]) = waiting[c] /\ toClient[c] = <<>>
    /\ thread = NoThread =>
          \A b \in Backend : toBackend[b] # <<>> =>
              AnswerOwed(BackendAnswer(b, Head(toBackend[b])))
    /\ thread = NoThread /\ toUdp # <<>> => AnswerOwed(Head(toUdp))
    /\ \A t \in Threads : pc[t] \in {"reset", "decode"} =>
          ListOwed /\ (endpoint \in open => frame = waiting[endpoint])
    /\ \A t \in Threads : pc[t] \in {"ask", "wait", "respond"} =>
          ListOwed /\ (endpoint \in open => query[t] = waiting[endpoint].codes)
    /\ WorkDone /\ endpoint \in Clients => Served(endpoint)

Connections == Closed /\ AnswersTheQuery /\ OthersServed

Serving == Collecting /\ Connections /\ Duty

(* What a step of serverM shows the users: nothing, or the answer owed.    *)
Shows ==
    \/ UNCHANGED toClient
    \/ /\ endpoint \in open
       /\ \E reply : AnswerOwed(reply) /\ toClient' = [toClient EXCEPT ![endpoint] = <<reply>>]

-----------------------------------------------------------------------------
(* Right answers.                                                          *)

(* serverC compares cipher text, and so says what the accounts say.        *)
LEMMA LoginIsRight ==
    ASSUME NEW req \in AuthRequest
    PROVE  /\ HasAnswer(req)
           /\ BackendAnswer(CredentialServer,
                            [type |-> "AUTH", user |-> Encrypt[req.user], pass |-> Encrypt[req.pass]])
                  \in RightAnswers(req)
<1> DEFINE user == req.user
           pass == req.pass
<1>1. user \in Words /\ pass \in Words /\ req.type = "AUTH"
  BY DEF AuthRequest
<1>2. /\ \A v, w \in Words : Encrypt[v] = Encrypt[w] => v = w
      /\ DOMAIN Account \subseteq Words
      /\ \A u \in DOMAIN Account : Account[u] \in Words
  BY WordsAssumption
<1> HIDE DEF user, pass
<1>3. (\E entry \in credentials_db : entry.user = Encrypt[user]) <=> user \in DOMAIN Account
  <2>1. ASSUME NEW entry \in credentials_db, entry.user = Encrypt[user]
        PROVE  user \in DOMAIN Account
    <3>1. PICK u \in DOMAIN Account : entry = [user |-> Encrypt[u], pass |-> Encrypt[Account[u]]]
      BY DEF credentials_db
    <3>2. Encrypt[u] = Encrypt[user]
      BY <2>1, <3>1
    <3> QED BY <1>1, <1>2, <3>2
  <2>2. ASSUME user \in DOMAIN Account
        PROVE  \E entry \in credentials_db : entry.user = Encrypt[user]
    <3>1. [user |-> Encrypt[user], pass |-> Encrypt[Account[user]]] \in credentials_db
      BY <2>2 DEF credentials_db
    <3> QED BY <3>1
  <2> QED BY <2>1, <2>2
<1>4. [user |-> Encrypt[user], pass |-> Encrypt[pass]] \in credentials_db
          <=> user \in DOMAIN Account /\ Account[user] = pass
  <2>1. ASSUME [user |-> Encrypt[user], pass |-> Encrypt[pass]] \in credentials_db
        PROVE  user \in DOMAIN Account /\ Account[user] = pass
    <3>1. PICK u \in DOMAIN Account : [user |-> Encrypt[user], pass |-> Encrypt[pass]]
                                          = [user |-> Encrypt[u], pass |-> Encrypt[Account[u]]]
      BY <2>1 DEF credentials_db
    <3>2. Encrypt[u] = Encrypt[user] /\ Encrypt[Account[u]] = Encrypt[pass]
      BY <3>1
    <3>3. u = user
      BY <1>1, <1>2, <3>2
    <3>4. Account[u] = pass
      BY <1>1, <1>2, <3>2
    <3> QED BY <3>3, <3>4
  <2>2. ASSUME user \in DOMAIN Account, Account[user] = pass
        PROVE  [user |-> Encrypt[user], pass |-> Encrypt[pass]] \in credentials_db
    BY <2>2 DEF credentials_db
  <2> QED BY <2>1, <2>2
<1>5. database_credentials_validate(Encrypt[user], Encrypt[pass]) = RightFlag(user, pass)
  BY <1>3, <1>4 DEF database_credentials_validate, RightFlag
<1>6. RightFlag(user, pass) \in AuthFlags
  BY DEF RightFlag, AuthFlags
<1>7. BackendAnswer(CredentialServer,
                    [type |-> "AUTH", user |-> Encrypt[user], pass |-> Encrypt[pass]])
        = [type |-> "AUTH", flag |-> RightFlag(user, pass)]
  BY <1>5 DEF BackendAnswer, CredentialReply
<1>8. [type |-> "AUTH", flag |-> RightFlag(user, pass)] \in RightAnswers(req)
  BY <1>1, <1>6 DEF RightAnswers, RightAnswer, AuthReply, user, pass
<1> QED BY <1>1, <1>7, <1>8 DEF HasAnswer, user, pass

(* The department of a code, or serverM for a code of none, says whether   *)
(* the code is in the catalogue.                                           *)
LEMMA CourseIsRight ==
    ASSUME NEW req \in SingleRequest
    PROVE  /\ HasAnswer(req)
           /\ DeptOf[req.code] \in Departments =>
                  BackendAnswer(DeptOf[req.code], req) \in RightAnswers(req)
           /\ DeptOf[req.code] \notin Departments =>
                  [type |-> "ERROR", code |-> req.code] \in RightAnswers(req)
<1>1. req.type = "SINGLE" /\ req.code \in Codes
  BY DEF SingleRequest
<1> DEFINE answer == [type |-> IF Known(req.code) THEN "SINGLE" ELSE "ERROR", code |-> req.code]
<1>2. answer \in SingleReply \cup ErrorReply
  BY <1>1 DEF SingleReply, ErrorReply
<1>3. answer \in RightAnswers(req)
  BY <1>1, <1>2 DEF RightAnswers, RightAnswer
<1>4. ASSUME DeptOf[req.code] \in Departments
      PROVE  BackendAnswer(DeptOf[req.code], req) = answer
  <2>1. DeptOf[req.code] # CredentialServer
    BY <1>4 DEF Departments, CredentialServer
  <2>2. req.code \in DepartmentDb(DeptOf[req.code]) <=> Known(req.code)
    BY CodesAssumption DEF DepartmentDb, Known
  <2> QED BY <1>1, <2>1, <2>2 DEF BackendAnswer, DepartmentReply
<1>5. ASSUME DeptOf[req.code] \notin Departments
      PROVE  [type |-> "ERROR", code |-> req.code] = answer
  BY <1>1, <1>5, NoDeptUnknown
<1> HIDE DEF answer
<1> QED BY <1>1, <1>3, <1>4, <1>5 DEF HasAnswer

(* The list of a finished thread is the answer to its query, and it is     *)
(* empty exactly when there is none.                                       *)
LEMMA ListIsRight ==
    ASSUME NEW req \in MultiRequest, NEW found \in Seq(Codes),
           Found(found, req.codes, Len(req.codes))
    PROVE  /\ found = <<>> <=> ~HasAnswer(req)
           /\ [type |-> "MULTI", codes |-> found] \in RightAnswers(req)
<1>1. req.codes \in Seq(Codes) /\ req.type = "MULTI"
  BY DEF MultiRequest
<1>2. Selects(found, req.codes) /\ Len(found) <= Len(req.codes)
  BY <1>1, SubSeqFull DEF Found
<1>3. found = <<>> <=> PlacesOfKnown(req.codes) = {}
  BY <1>1, <1>2, SelectedAnswers
<1>4. found \in ListsOfCodes(Len(req.codes))
  <2>1. PICK m \in Nat : m = Len(found)
    BY LenProperties
  <2>2. Len(req.codes) \in Nat
    BY <1>1, LenProperties
  <2>3. m \in 0 .. Len(req.codes)
    BY <1>2, <2>1, <2>2
  <2>4. found \in [1 .. m -> Codes]
    BY <2>1, LenProperties, ElementOfSeq
  <2> QED BY <2>3, <2>4 DEF ListsOfCodes
<1> DEFINE answer == [type |-> "MULTI", codes |-> found]
<1>5. answer.type = "MULTI" /\ answer.codes = found
  OBVIOUS
<1>6. RightAnswer(req, answer)
  BY <1>1, <1>2, <1>5 DEF RightAnswer
<1>7. answer \in [type : {"MULTI"}, codes : ListsOfCodes(Len(req.codes))]
  BY <1>4
<1>8. answer \in RightAnswers(req)
  BY <1>1, <1>6, <1>7 DEF RightAnswers
<1> QED BY <1>1, <1>3, <1>8 DEF HasAnswer

-----------------------------------------------------------------------------
(* The steps of serverM keep the duties.                                   *)

(* A step no user sees leaves the connections as they are.                 *)
LEMMA Unseen ==
    ASSUME Connections, UNCHANGED <<open, endpoint, waiting, toClient>>
    PROVE  Connections' /\ Shows
BY DEF Connections, Closed, AnswersTheQuery, OthersServed, Served, Shows

(* The answer owed to the newest connection reaches it, or is dropped with *)
(* the connection.                                                         *)
LEMMA Delivered ==
    ASSUME SessionsTypeOK, Connections, NEW reply, AnswerOwed(reply), tcp_server_send(reply),
           UNCHANGED <<open, endpoint, waiting>>
    PROVE  Connections' /\ Shows /\ Served(endpoint)'
<1>1. endpoint \in Clients /\ toClient[endpoint] = <<>> /\ toClient \in [Clients -> Seq(ClientReply)]
  BY DEF AnswerOwed, NewestWaits, SessionsTypeOK, TypeOK
<1>2. CASE endpoint \notin open
  <2>1. UNCHANGED toClient
    BY <1>2 DEF tcp_server_send
  <2>2. waiting[endpoint] = NoQuery
    BY <1>1, <1>2 DEF Connections, Closed
  <2> QED BY <2>1, <2>2, Unseen DEF Served
<1>3. CASE endpoint \in open
  <2>1. toClient' = [toClient EXCEPT ![endpoint] = Append(<<>>, reply)]
    BY <1>1, <1>3 DEF tcp_server_send
  <2>2. Append(<<>>, reply) = <<reply>> /\ Len(<<reply>>) = 1 /\ Head(<<reply>>) = reply
    OBVIOUS
  <2>3. /\ toClient'[endpoint] # <<>>
        /\ Len(toClient'[endpoint]) = 1 /\ Head(toClient'[endpoint]) = reply
        /\ \A c \in Clients \ {endpoint} : toClient'[c] = toClient[c]
    BY <1>1, <2>1, <2>2
  <2>4. Shows
    BY <1>3, <2>1, <2>2 DEF Shows
  <2>5. /\ waiting[endpoint] # NoQuery
        /\ HasAnswer(waiting[endpoint])
        /\ RightAnswer(waiting[endpoint], reply)
    BY <1>3, SessionsAssumption DEF AnswerOwed, RightAnswers
  <2>6. AnswersTheQuery'
    <3> SUFFICES ASSUME NEW c \in Clients, toClient'[c] # <<>>
                 PROVE  /\ waiting[c] # NoQuery
                        /\ HasAnswer(waiting[c])
                        /\ Len(toClient'[c]) = 1
                        /\ RightAnswer(waiting[c], Head(toClient'[c]))
      BY DEF AnswersTheQuery
    <3>1. CASE c = endpoint
      BY <2>3, <2>5, <3>1
    <3>2. CASE c # endpoint
      BY <2>3, <3>2 DEF Connections, AnswersTheQuery
    <3> QED BY <3>1, <3>2
  <2>7. Closed' /\ OthersServed'
    BY <1>3, <2>3 DEF Connections, Closed, OthersServed, Served
  <2>8. Served(endpoint)'
    <3>1. toClient'[endpoint'] # <<>>
      BY <2>3
    <3> QED BY <3>1 DEF Served
  <2> QED BY <2>4, <2>6, <2>7, <2>8 DEF Connections
<1> QED BY <1>2, <1>3

(* A request is handed to its backend, to a thread, or answered at once.   *)
LEMMA TcpReceiveServes ==
    ASSUME Serving, NEW c \in Clients, TcpReceive(c), UNCHANGED userVars
    PROVE  Connections' /\ Duty' /\ Shows
<1> SessionsTypeOK /\ TypeOK /\ Inv /\ Connections
  BY DEF Serving, Collecting, Inv, SessionsTypeOK
<1>0. PICK req \in ClientRequest : req = Head(toM[c])
  BY ReadAtRest
<1>1. /\ Len(toM[c]) = 1 /\ toM[c] # <<>>
      /\ toM[c] \in Seq(ClientRequest)
      /\ \A d \in Clients \ {c} : toM[d] = <<>>
      /\ BackendsEmpty /\ toUdp = <<>> /\ NoThreadWork
  BY ReadAtRest
<1>2. c = endpoint /\ c \in open /\ waiting[c] = req /\ toClient[c] = <<>>
  BY <1>0, <1>1 DEF Serving, Duty
<1>3. \A d \in Clients : toM'[d] = <<>>
  <2>1. PICK n \in 1 .. Len(toM[c]) : toM' = [toM EXCEPT ![c] = SubSeq(@, n + 1, Len(@))]
    BY DEF TcpReceive
  <2>2. n + 1 = 2 /\ Len(toM[c]) = 1
    BY <1>1, <2>1
  <2>3. toM' = [toM EXCEPT ![c] = <<>>]
    BY <1>1, <2>1, <2>2, LastTaken
  <2> QED BY <1>1, <2>3 DEF TypeOK
<1>4. UNCHANGED <<open, endpoint, waiting>> /\ toUdp' = <<>> /\ frame' = req
  BY <1>0, <1>1 DEF TcpReceive, userVars
<1>5. \A t \in Threads : pc[t] = "none"
  BY <1>1 DEF NoThreadWork, NoLiveThread
<1>6. CASE on_auth_request_received(req)
  <2> DEFINE login == [type |-> "AUTH", user |-> Encrypt[req.user], pass |-> Encrypt[req.pass]]
  <2>1. req \in AuthRequest
    BY <1>1, <1>6 DEF on_auth_request_received, ClientRequest, SingleRequest, MultiRequest
  <2>2. UNCHANGED <<toClient, pc>> /\ udp_send(CredentialServer, login)
    BY <1>6 DEF on_auth_request_received
  <2>3. PICK answer : answer = BackendAnswer(CredentialServer, login)
    OBVIOUS
  <2>4. AnswerOwed(answer)
    BY <1>1, <1>2, <2>1, <2>3, LoginIsRight DEF AnswerOwed, NewestWaits
  <2> HIDE DEF login
  <2>5. CredentialServer \in Backend
    BY DEF Backend
  <2>6. toBackend' = [toBackend EXCEPT ![CredentialServer] = Append(<<>>, login)]
    BY <1>1, <2>2, <2>5 DEF udp_send, BackendsEmpty
  <2>7. /\ toBackend'[CredentialServer] = Append(<<>>, login)
        /\ \A b \in Backend \ {CredentialServer} : toBackend'[b] = <<>>
    BY <1>1, <2>5, <2>6 DEF BackendsEmpty, TypeOK
  <2>8. /\ toBackend'[CredentialServer] # <<>>
        /\ BackendAnswer(CredentialServer, Head(toBackend'[CredentialServer])) = answer
    BY <2>3, <2>7, FirstAppended
  <2>9. ~WorkDone'
    BY <2>5, <2>8 DEF WorkDone, BackendsEmpty
  <2>10. AnswerOwed(answer)'
    BY <1>4, <2>2, <2>4 DEF AnswerOwed, NewestWaits
  <2>11. Duty'
    BY <1>3, <1>4, <1>5, <2>2, <2>7, <2>8, <2>9, <2>10 DEF Duty
  <2> QED BY <1>4, <2>2, <2>11, Unseen
<1>7. CASE on_course_lookup_info_request_received(req)
  <2>1. req \in SingleRequest /\ req.code \in Codes
    BY <1>1, <1>7 DEF on_course_lookup_info_request_received, ClientRequest, AuthRequest,
       SingleRequest, MultiRequest
  <2>2. UNCHANGED <<thread, pc>> /\ send_request_to_department_server(req)
    BY <1>7 DEF on_course_lookup_info_request_received
  <2>3. CASE DeptOf[req.code] \in Departments
    <3>1. PICK dept \in Departments : dept = DeptOf[req.code]
      BY <2>3
    <3>2. UNCHANGED toClient /\ toBackend' = [toBackend EXCEPT ![dept] = Append(@, req)]
      BY <2>1, <2>2, <3>1, CodesAssumption DEF send_request_to_department_server, udp_send
    <3>3. dept \in Backend /\ toBackend[dept] = <<>>
      BY <1>1 DEF Backend, BackendsEmpty
    <3>4. /\ toBackend'[dept] = Append(<<>>, req)
          /\ \A b \in Backend \ {dept} : toBackend'[b] = <<>>
      BY <1>1, <3>2, <3>3 DEF BackendsEmpty, TypeOK
    <3>5. PICK answer : answer = BackendAnswer(dept, req)
      OBVIOUS
    <3>6. toBackend'[dept] # <<>> /\ BackendAnswer(dept, Head(toBackend'[dept])) = answer
      BY <3>4, <3>5, FirstAppended
    <3>7. ~WorkDone'
      BY <3>3, <3>6 DEF WorkDone, BackendsEmpty
    <3>8. AnswerOwed(answer)
      BY <1>1, <1>2, <2>1, <3>1, <3>5, CourseIsRight DEF AnswerOwed, NewestWaits
    <3>9. AnswerOwed(answer)'
      BY <1>4, <3>2, <3>8 DEF AnswerOwed, NewestWaits
    <3>10. Duty'
      BY <1>3, <1>4, <1>5, <2>2, <3>4, <3>6, <3>7, <3>9 DEF Duty
    <3> QED BY <1>4, <3>2, <3>10, Unseen
  <2>4. CASE DeptOf[req.code] \notin Departments
    <3> DEFINE reply == [type |-> "ERROR", code |-> req.code]
    <3>1. tcp_server_send(reply) /\ UNCHANGED toBackend
      BY <1>1, <2>2, <2>4 DEF send_request_to_department_server, on_course_lookup_error_received,
         NoThreadWork
    <3>2. AnswerOwed(reply)
      BY <1>1, <1>2, <2>1, <2>4, CourseIsRight DEF AnswerOwed, NewestWaits
    <3> HIDE DEF reply
    <3>3. Connections' /\ Shows /\ Served(endpoint)'
      BY <1>4, <3>1, <3>2, Delivered
    <3>4. \A b \in Backend : toBackend'[b] = <<>>
      BY <1>1, <3>1 DEF BackendsEmpty
    <3>5. Duty'
      BY <1>3, <1>4, <1>5, <2>2, <3>3, <3>4 DEF Duty
    <3> QED BY <3>3, <3>5
  <2> QED BY <2>3, <2>4
<1>8. CASE on_course_lookup_multi_request_received(req)
  <2>1. req \in MultiRequest
    BY <1>1, <1>8 DEF on_course_lookup_multi_request_received, ClientRequest, AuthRequest,
       SingleRequest
  <2>2. PICK t \in Threads : thread' = t /\ pc' = [pc EXCEPT ![t] = "reset"]
    BY <1>8 DEF on_course_lookup_multi_request_received
  <2>3. UNCHANGED <<toClient, toBackend>>
    BY <1>8 DEF on_course_lookup_multi_request_received
  <2>4. pc'[t] = "reset" /\ \A u \in Threads \ {t} : pc'[u] = "none"
    BY <1>5, <2>2 DEF TypeOK
  <2>5. thread' # NoThread /\ ~WorkDone'
    BY <2>2, <2>4, ServerMAssumption DEF WorkDone
  <2>6. ListOwed' /\ frame' = waiting'[endpoint']
    BY <1>2, <1>4, <2>1, <2>3 DEF ListOwed, NewestWaits
  <2>7. Duty'
    BY <1>3, <1>4, <2>4, <2>5, <2>6 DEF Duty
  <2> QED BY <1>4, <2>3, <2>7, Unseen
<1> QED BY <1>0, <1>6, <1>7, <1>8 DEF TcpReceive

(* A reply of a backend is the answer owed, or belongs to the thread.      *)
LEMMA UdpReceiveServes ==
    ASSUME Serving, UdpReceive, UNCHANGED userVars
    PROVE  Connections' /\ Duty' /\ Shows
<1> DEFINE reply == Head(toUdp)
<1> SessionsTypeOK /\ TypeOK /\ Inv /\ Connections
  BY DEF Serving, Collecting, Inv, SessionsTypeOK
<1>1. /\ toUdp # <<>> /\ toUdp' = Tail(toUdp)
      /\ UNCHANGED <<toM, toBackend, thread, pc, query, open, endpoint, waiting>>
  BY DEF UdpReceive, threadVars, userVars
<1>2. \/ SingleExchange /\ ReplyArriving({"AUTH", "SINGLE", "ERROR"})
      \/ ThreadExchange
  BY <1>1 DEF Inv, OnePieceOfWork, Resting, RequestArriving, SingleExchange, AskedBackend
<1>3. StreamsEmpty /\ \A d \in Clients : toM'[d] = <<>>
  BY <1>1, <1>2 DEF SingleExchange, ThreadExchange, StreamsEmpty
<1>4. CASE SingleExchange /\ ReplyArriving({"AUTH", "SINGLE", "ERROR"})
  <2>1. /\ thread = NoThread /\ BackendsEmpty /\ Len(toUdp) = 1
        /\ reply.type \in {"AUTH", "SINGLE", "ERROR"}
        /\ \A t \in Threads : pc[t] = "none"
    BY <1>4 DEF SingleExchange, ReplyArriving, NoThreadWork, NoLiveThread
  <2>2. toUdp' = <<>>
    BY <1>1, <2>1, LastTaken DEF TypeOK
  <2>3. tcp_server_send(reply)
    BY <2>1 DEF UdpReceive, on_auth_response_received,
       on_single_course_lookup_info_response_received, on_course_detail_response_received,
       on_error_response_received, on_course_lookup_error_received
  <2>4. AnswerOwed(reply)
    BY <1>1, <2>1 DEF Serving, Duty
  <2> HIDE DEF reply
  <2>5. Connections' /\ Shows /\ Served(endpoint)'
    BY <1>1, <2>3, <2>4, Delivered
  <2>6. Duty'
    BY <1>1, <1>3, <2>1, <2>2, <2>5 DEF Duty, BackendsEmpty
  <2> QED BY <2>5, <2>6
<1>5. CASE ThreadExchange
  <2>1. PICK t \in Threads : /\ thread = t
                             /\ \A u \in Threads \ {t} : pc[u] = "none"
                             /\ ThreadBlocked(t) \/ ThreadRunning(t)
    BY <1>5 DEF ThreadExchange
  <2>2. /\ pc[t] = "wait" /\ thread # NoThread
        /\ ReplyArriving({"DETAIL", "ERROR"})
    BY <1>1, <2>1, ServerMAssumption DEF ThreadBlocked, ThreadRunning, AskedBackend
  <2>3. UNCHANGED toClient
    BY <2>2 DEF ReplyArriving, UdpReceive, on_auth_response_received,
       on_single_course_lookup_info_response_received, on_course_detail_response_received,
       on_error_response_received, on_course_lookup_error_received
  <2>4. ListOwed' /\ (endpoint \in open => query[t] = waiting[endpoint].codes)
    BY <1>1, <2>2, <2>3 DEF Serving, Duty, ListOwed, NewestWaits
  <2>5. ~WorkDone'
    BY <1>1, <2>2 DEF WorkDone
  <2>6. Duty'
    BY <1>1, <1>3, <2>1, <2>2, <2>4, <2>5 DEF Duty
  <2> QED BY <1>1, <2>3, <2>6, Unseen
<1> QED BY <1>2, <1>4, <1>5

(* The answer of a backend is owed as its question was.                    *)
LEMMA BackendServeServes ==
    ASSUME Serving, NEW b \in Backend, BackendServe(b), UNCHANGED userVars
    PROVE  Connections' /\ Duty' /\ Shows
<1>0. PICK answer : answer = BackendAnswer(b, Head(toBackend[b]))
  OBVIOUS
<1> SessionsTypeOK /\ TypeOK /\ Inv /\ Connections
  BY DEF Serving, Collecting, Inv, SessionsTypeOK
<1>1. /\ toBackend[b] # <<>> /\ toUdp' = Append(toUdp, answer)
      /\ toBackend' = [toBackend EXCEPT ![b] = Tail(@)]
      /\ UNCHANGED <<toM, toClient, thread, pc, query, frame, open, endpoint, waiting>>
  BY <1>0 DEF BackendServe, threadVars, mainVars, userVars
<1>2. \A t \in Threads : pc[t] \in {"none", "wait"}
  BY <1>1 DEF Inv, OnePieceOfWork, Resting, RequestArriving, BackendsEmpty, SingleExchange,
     ThreadExchange, NoThreadWork, NoLiveThread, ThreadBlocked, ThreadRunning
<1>3. toUdp = <<>> /\ Len(toBackend[b]) = 1 /\ \A d \in Backend \ {b} : toBackend[d] = <<>>
  BY <1>1 DEF Inv, OnePieceOfWork, Resting, RequestArriving, BackendsEmpty, SingleExchange,
     ThreadExchange, AskedBackend, ReplyArriving, ThreadBlocked, ThreadRunning
<1>4. StreamsEmpty
  BY <1>1 DEF Inv, OnePieceOfWork, Resting, RequestArriving, BackendsEmpty, SingleExchange,
     ThreadExchange
<1>5. \A d \in Backend : toBackend'[d] = <<>>
  <2>1. toBackend[b] \in Seq(BackendRequest(b))
    BY DEF TypeOK
  <2>2. Tail(toBackend[b]) = <<>>
    BY <1>3, <2>1, LastTaken
  <2> QED BY <1>1, <1>3, <2>2 DEF TypeOK
<1>6. thread = NoThread => AnswerOwed(answer)
  BY <1>0, <1>1 DEF Serving, Duty
<1>7. Head(toUdp') = answer /\ toUdp' # <<>>
  BY <1>1, <1>3, FirstAppended
<1>8. thread = NoThread => AnswerOwed(answer)'
  BY <1>1, <1>6 DEF AnswerOwed, NewestWaits
<1>9. \A t \in Threads : pc[t] = "wait" =>
         ListOwed' /\ (endpoint \in open => query[t] = waiting[endpoint].codes)
  BY <1>1 DEF Serving, Duty, ListOwed, NewestWaits
<1>10. Duty'
  BY <1>1, <1>2, <1>4, <1>5, <1>7, <1>8, <1>9 DEF Duty, WorkDone, StreamsEmpty
<1> QED BY <1>1, <1>10, Unseen

(* A thread answers its query once, with the list, or not at all when      *)
(* nothing was found.                                                      *)
LEMMA ThreadStepServes ==
    ASSUME Serving, NEW t \in Threads, ThreadStep(t), UNCHANGED userVars
    PROVE  Connections' /\ Duty' /\ Shows
<1> USE DEF GoTo
<1> SessionsTypeOK /\ TypeOK /\ Inv /\ Connections /\ Asking(t)
  BY DEF Serving, Collecting, Inv, SessionsTypeOK
<1>1. pc[t] # "none" /\ \A u \in Threads \ {t} : pc'[u] = pc[u]
  BY DEF ThreadStep, ThreadReset, ThreadDecode, ThreadAsk, ThreadWake, ThreadAsked,
     ThreadRespond, ThreadFree, ThreadClear, ThreadExit, TypeOK
<1>2. /\ thread = t /\ t # NoThread
      /\ \A u \in Threads \ {t} : pc'[u] = "none"
      /\ ThreadBlocked(t) \/ ThreadRunning(t)
  BY <1>1, OneThread
<1>3. UNCHANGED <<open, endpoint, waiting, toM, frame, toUdp>>
  BY DEF ThreadStep, ThreadReset, ThreadDecode, ThreadAsk, ThreadWake, ThreadAsked,
     ThreadRespond, ThreadFree, ThreadClear, ThreadExit, mainVars, wireVars, userVars
<1>4. StreamsEmpty /\ \A c \in Clients : toM'[c] = <<>>
  BY <1>1, <1>3 DEF Inv, OnePieceOfWork, Resting, RequestArriving, SingleExchange, NoThreadWork,
     NoLiveThread, ThreadExchange, StreamsEmpty
<1>5. pc[t] # "wait" => BackendsEmpty /\ toUdp = <<>>
  BY <1>2 DEF ThreadBlocked, ThreadRunning
<1>6. CASE ThreadReset(t)
  <2>1. /\ pc[t] = "reset" /\ pc'[t] = "decode" /\ UNCHANGED <<toClient, thread>>
    BY <1>6 DEF ThreadReset, TypeOK
  <2>2. ListOwed' /\ (endpoint \in open => frame = waiting[endpoint])
    BY <1>3, <2>1 DEF Serving, Duty, ListOwed, NewestWaits
  <2>3. thread' # NoThread /\ ~WorkDone'
    BY <1>2, <2>1 DEF WorkDone
  <2>4. Duty'
    BY <1>2, <1>3, <1>4, <2>1, <2>2, <2>3 DEF Duty
  <2> QED BY <1>3, <2>1, <2>4, Unseen
<1>7. CASE ThreadDecode(t)
  <2>1. /\ pc[t] = "decode" /\ pc'[t] = "ask" /\ UNCHANGED <<toClient, thread>>
    BY <1>7 DEF ThreadDecode, TypeOK
  <2>2. ListOwed /\ (endpoint \in open => frame = waiting[endpoint])
    BY <2>1 DEF Serving, Duty
  <2>3. ASSUME endpoint \in open
        PROVE  query'[t] = waiting[endpoint].codes
    <3>1. frame \in MultiRequest /\ frame = waiting[endpoint]
      BY <2>2, <2>3 DEF ListOwed
    <3>2. frame # Clobbered /\ frame.type = "MULTI"
      BY <3>1, ServerMAssumption DEF MultiRequest, ClientRequest
    <3> QED BY <1>7, <3>1, <3>2 DEF ThreadDecode, Decoded, TypeOK
  <2>4. ListOwed'
    BY <1>3, <2>1, <2>2 DEF ListOwed, NewestWaits
  <2>5. thread' # NoThread /\ ~WorkDone'
    BY <1>2, <2>1 DEF WorkDone
  <2>6. Duty'
    BY <1>2, <1>3, <1>4, <2>1, <2>3, <2>4, <2>5 DEF Duty
  <2> QED BY <1>3, <2>1, <2>6, Unseen
<1>8. CASE ThreadAsk(t) \/ ThreadWake(t) \/ ThreadAsked(t)
  <2>1. /\ pc[t] \in {"ask", "wait"} /\ pc'[t] \in {"ask", "wait", "respond"}
        /\ UNCHANGED <<thread, query>>
    BY <1>8 DEF ThreadAsk, ThreadWake, ThreadAsked, TypeOK
  <2>2. UNCHANGED toClient
    BY <1>2, <1>8 DEF ThreadAsk, ThreadWake, ThreadAsked, send_request_to_department_server,
       on_course_lookup_error_received
  <2>3. ListOwed' /\ (endpoint \in open => query[t] = waiting[endpoint].codes)
    BY <1>3, <2>1, <2>2 DEF Serving, Duty, ListOwed, NewestWaits
  <2>4. thread' # NoThread /\ ~WorkDone'
    BY <1>2, <2>1 DEF WorkDone
  <2>5. Duty'
    BY <1>2, <1>3, <1>4, <2>1, <2>3, <2>4 DEF Duty
  <2> QED BY <1>3, <2>2, <2>5, Unseen
<1>9. CASE ThreadRespond(t)
  <2>1. /\ pc[t] = "respond" /\ pc'[t] = "free" /\ UNCHANGED <<thread, toBackend>>
    BY <1>9 DEF ThreadRespond, TypeOK, wireVars
  <2>2. ListOwed /\ (endpoint \in open => query[t] = waiting[endpoint].codes)
    BY <2>1 DEF Serving, Duty
  <2>3. Found(list, query[t], Len(query[t])) /\ list \in Seq(Codes)
    BY <2>1 DEF Asking, TypeOK
  <2>4. PICK reply : reply = [type |-> "MULTI", codes |-> list]
    OBVIOUS
  <2>5. ASSUME endpoint \in open
        PROVE  /\ list = <<>> <=> ~HasAnswer(waiting[endpoint])
               /\ reply \in RightAnswers(waiting[endpoint])
               /\ waiting[endpoint] \in ClientRequest
    <3>1. PICK req \in MultiRequest : req = waiting[endpoint]
      BY <2>2, <2>5 DEF ListOwed
    <3>2. Found(list, req.codes, Len(req.codes))
      BY <2>2, <2>3, <2>5, <3>1
    <3> QED BY <2>3, <2>4, <3>1, <3>2, ListIsRight DEF ClientRequest
  <2>6. Connections' /\ Shows /\ (endpoint \in Clients => Served(endpoint)')
    <3>1. CASE list # <<>>
      <4>1. tcp_server_send(reply)
        BY <1>9, <2>4, <3>1 DEF ThreadRespond
      <4>2. AnswerOwed(reply)
        BY <2>2, <2>5, <3>1 DEF AnswerOwed, ListOwed
      <4> QED BY <1>3, <4>1, <4>2, Delivered
    <3>2. CASE list = <<>>
      <4>1. UNCHANGED toClient
        BY <1>9, <3>2 DEF ThreadRespond
      <4>2. endpoint \in Clients => Served(endpoint)'
        BY <1>3, <2>5, <3>2, <4>1 DEF Served, Connections, Closed
      <4> QED BY <1>3, <4>1, <4>2, Unseen
    <3> QED BY <3>1, <3>2
  <2>7. thread' # NoThread
    BY <1>2, <2>1
  <2>8. endpoint' \in Clients => Served(endpoint)'
    BY <1>3, <2>6
  <2>9. Duty'
    BY <1>2, <1>4, <2>1, <2>7, <2>8 DEF Duty
  <2> QED BY <2>6, <2>9
<1>10. CASE ThreadFree(t) \/ ThreadClear(t) \/ ThreadExit(t)
  <2>1. /\ pc[t] \in {"free", "clear", "exit"} /\ pc'[t] \in {"clear", "exit", "none"}
        /\ UNCHANGED <<toClient, toBackend>>
    BY <1>10 DEF ThreadFree, ThreadClear, ThreadExit, wireVars, TypeOK
  <2>2. WorkDone
    BY <1>1, <1>2, <1>4, <1>5, <2>1 DEF WorkDone
  <2>3. endpoint' \in Clients => Served(endpoint)'
    BY <1>3, <2>1, <2>2 DEF Serving, Duty, Served
  <2>4. toUdp' = <<>> /\ \A b \in Backend : toBackend'[b] = <<>>
    BY <1>3, <1>5, <2>1 DEF BackendsEmpty
  <2>5. Duty'
    BY <1>2, <1>4, <2>1, <2>3, <2>4 DEF Duty
  <2> QED BY <1>3, <2>1, <2>5, Unseen
<1> QED BY <1>6, <1>7, <1>8, <1>9, <1>10 DEF ThreadStep

LEMMA ServeServes ==
    ASSUME Serving, Serve
    PROVE  Connections' /\ Duty' /\ Shows
BY TcpReceiveServes, UdpReceiveServes, ThreadStepServes, BackendServeServes DEF Serve, ServerStep

-----------------------------------------------------------------------------
(* The steps of the users keep the duties.                                 *)

(* At rest nobody who waits for an answer that exists is without it.       *)
LEMMA RestServed ==
    ASSUME Serving, AtRest
    PROVE  /\ WorkDone /\ Resting
           /\ \A c \in Clients : Served(c)
<1>1. Resting
  BY RestIsResting DEF Serving, Collecting, Inv
<1>2. WorkDone
  BY <1>1 DEF Resting, WorkDone, NoThreadWork, NoLiveThread
<1> QED BY <1>1, <1>2 DEF Serving, Connections, OthersServed, Duty

(* A new connection is owed nothing.                                       *)
LEMMA ConnectServes ==
    ASSUME Serving, NEW c \in Clients, AtRest, Connect(c)
    PROVE  Connections' /\ Duty'
<1> SessionsTypeOK /\ TypeOK /\ Connections
  BY DEF Serving, Collecting, Inv, SessionsTypeOK
<1>1. WorkDone /\ Resting /\ \A d \in Clients : Served(d)
  BY RestServed
<1>2. /\ c \notin open /\ open' = open \cup {c} /\ endpoint' = c
      /\ toM' = [toM EXCEPT ![c] = <<>>]
      /\ toClient' = [toClient EXCEPT ![c] = <<>>]
      /\ waiting' = [waiting EXCEPT ![c] = NoQuery]
      /\ UNCHANGED <<toBackend, toUdp, thread, pc, query>>
  BY DEF Connect, Accept, wireVars, threadVars
<1>3. /\ waiting'[c] = NoQuery /\ toClient'[c] = <<>>
      /\ \A d \in Clients \ {c} : waiting'[d] = waiting[d] /\ toClient'[d] = toClient[d]
  BY <1>2 DEF SessionsTypeOK, TypeOK
<1>4. \A d \in Clients : Served(d)'
  BY <1>1, <1>3 DEF Served
<1>5. Closed'
  BY <1>2, <1>3 DEF Connections, Closed
<1>6. AnswersTheQuery'
  BY <1>3 DEF Connections, AnswersTheQuery
<1>7. \A d \in Clients : toM'[d] = <<>>
  BY <1>1, <1>2 DEF Resting, StreamsEmpty, TypeOK
<1>8. Duty'
  BY <1>1, <1>2, <1>4, <1>7 DEF Duty, Resting, BackendsEmpty, NoThreadWork, NoLiveThread
<1> QED BY <1>4, <1>5, <1>6, <1>8 DEF Connections, OthersServed

(* A connection that is closed is owed nothing any more.                   *)
LEMMA LeaveServes ==
    ASSUME Serving, NEW c \in Clients, AtRest \/ c = endpoint, Leave(c)
    PROVE  Connections' /\ Duty'
<1> SessionsTypeOK /\ TypeOK /\ Connections
  BY DEF Serving, Collecting, Inv, SessionsTypeOK
<1>1. /\ c \in open /\ open' = open \ {c} /\ toM[c] = <<>> /\ toClient[c] = <<>>
      /\ waiting' = [waiting EXCEPT ![c] = NoQuery]
      /\ UNCHANGED <<endpoint, toM, toClient, toBackend, toUdp, thread, pc, query>>
  BY DEF Leave, Disconnect, wireVars, threadVars
<1>2. waiting'[c] = NoQuery /\ \A d \in Clients \ {c} : waiting'[d] = waiting[d]
  BY <1>1 DEF SessionsTypeOK
<1>3. \A d \in Clients : Served(d) => Served(d)'
  BY <1>1, <1>2 DEF Served
<1>4. Closed' /\ AnswersTheQuery' /\ OthersServed'
  BY <1>1, <1>2, <1>3 DEF Connections, Closed, AnswersTheQuery, OthersServed
<1>5. CASE AtRest
  <2>1. WorkDone /\ Resting /\ \A d \in Clients : Served(d)
    BY <1>5, RestServed
  <2>2. Duty'
    BY <1>1, <1>3, <2>1 DEF Duty, Resting, StreamsEmpty, BackendsEmpty, NoThreadWork,
       NoLiveThread
  <2> QED BY <1>4, <2>2 DEF Connections
<1>6. CASE c = endpoint
  <2>1. endpoint' \notin open'
    BY <1>1, <1>6
  <2>2. NewestWaits'
    BY <1>1, <1>6 DEF NewestWaits
  <2>3. Served(endpoint)'
    BY <1>1, <1>2, <1>6 DEF Served
  <2>4. \A d \in Clients : toM[d] = <<>>
    BY <1>1, <1>6 DEF Serving, Duty
  <2>5. Duty'
    BY <1>1, <2>1, <2>2, <2>3, <2>4 DEF Duty, AnswerOwed, ListOwed
  <2> QED BY <1>4, <2>5 DEF Connections
<1> QED BY <1>5, <1>6

(* The request on the stream of the newest connection is the one its user  *)
(* waits for.                                                              *)
LEMMA AskServes ==
    ASSUME Serving, NEW c \in Clients, NEW req \in Logins \cup Queries,
           AtRest, c = endpoint, toClient[c] = <<>>, Ask(c, req)
    PROVE  Connections' /\ Duty'
<1> SessionsTypeOK /\ TypeOK /\ Connections
  BY DEF Serving, Collecting, Inv, SessionsTypeOK
<1>1. WorkDone /\ Resting /\ \A d \in Clients : Served(d)
  BY RestServed
<1>2. /\ c \in open
      /\ toM' = [toM EXCEPT ![c] = Append(<<>>, req)]
      /\ waiting' = [waiting EXCEPT ![c] = req]
      /\ UNCHANGED <<open, endpoint, toClient, toBackend, toUdp, thread, pc, query>>
  BY <1>1 DEF Ask, ClientSend, wireVars, threadVars, Resting, StreamsEmpty
<1>3. /\ waiting'[c] = req /\ \A d \in Clients \ {c} : waiting'[d] = waiting[d]
      /\ toM'[c] = Append(<<>>, req) /\ \A d \in Clients \ {c} : toM'[d] = <<>>
  BY <1>1, <1>2 DEF SessionsTypeOK, TypeOK, Resting, StreamsEmpty
<1>4. toM'[c] # <<>> /\ Head(toM'[c]) = req
  BY <1>3, FirstAppended
<1>5. Closed' /\ AnswersTheQuery' /\ OthersServed'
  BY <1>2, <1>3 DEF Connections, Closed, AnswersTheQuery, OthersServed, Served
<1>6. ~WorkDone'
  BY <1>4 DEF WorkDone, StreamsEmpty
<1>7. Duty'
  BY <1>1, <1>2, <1>3, <1>4, <1>6 DEF Duty, Resting, BackendsEmpty, NoThreadWork, NoLiveThread
<1> QED BY <1>5, <1>7 DEF Connections

(* A user who read the answer waits for nothing.                           *)
LEMMA GetReplyServes ==
    ASSUME Serving, NEW c \in Clients, GetReply(c)
    PROVE  Connections' /\ Duty' /\ toClient' = [toClient EXCEPT ![c] = <<>>]
<1> SessionsTypeOK /\ TypeOK /\ Connections
  BY DEF Serving, Collecting, Inv, SessionsTypeOK
<1>1. /\ toClient[c] # <<>> /\ toClient' = [toClient EXCEPT ![c] = Tail(@)]
      /\ waiting' = [waiting EXCEPT ![c] = NoQuery]
      /\ UNCHANGED <<open, endpoint, frame, toM, toBackend, toUdp, thread, pc, query>>
  BY DEF GetReply, ClientRead, mainVars, wireVars, threadVars
<1>2. Len(toClient[c]) = 1 /\ toClient[c] \in Seq(ClientReply)
  BY <1>1 DEF Connections, AnswersTheQuery, TypeOK
<1>3. toClient' = [toClient EXCEPT ![c] = <<>>]
  BY <1>1, <1>2, LastTaken
<1>4. /\ waiting'[c] = NoQuery /\ toClient'[c] = <<>>
      /\ \A d \in Clients \ {c} : waiting'[d] = waiting[d] /\ toClient'[d] = toClient[d]
  BY <1>1, <1>3 DEF SessionsTypeOK, TypeOK
<1>5. \A d \in Clients : Served(d) => Served(d)'
  BY <1>4 DEF Served
<1>6. Closed' /\ AnswersTheQuery' /\ OthersServed'
  BY <1>1, <1>4, <1>5 DEF Connections, Closed, AnswersTheQuery, OthersServed
<1>7. c = endpoint => ~NewestWaits /\ Served(endpoint)'
  BY <1>1, <1>4 DEF NewestWaits, Served
<1>8. NewestWaits => NewestWaits'
  BY <1>1, <1>4, <1>7 DEF NewestWaits
<1>9. \A reply : AnswerOwed(reply) => AnswerOwed(reply)'
  BY <1>1, <1>4, <1>7, <1>8 DEF AnswerOwed, NewestWaits
<1>10. ListOwed => ListOwed' /\ waiting'[endpoint] = waiting[endpoint]
  BY <1>1, <1>4, <1>7, <1>8 DEF ListOwed, NewestWaits
<1>11. \A d \in Clients : toM[d] # <<>> => d # c
  BY <1>1 DEF Serving, Duty
<1>12. thread = NoThread => \A b \in Backend : toBackend[b] # <<>> =>
              AnswerOwed(BackendAnswer(b, Head(toBackend[b])))'
  <2> SUFFICES ASSUME NEW b \in Backend, thread = NoThread, toBackend[b] # <<>>
               PROVE  AnswerOwed(BackendAnswer(b, Head(toBackend[b])))'
    OBVIOUS
  <2>1. PICK answer : answer = BackendAnswer(b, Head(toBackend[b]))
    OBVIOUS
  <2>2. answer = BackendAnswer(b, Head(toBackend'[b]))
    BY <1>1, <2>1
  <2>3. AnswerOwed(answer)'
    BY <1>9, <2>1 DEF Serving, Duty
  <2> QED BY <2>2, <2>3
<1>13. thread = NoThread /\ toUdp # <<>> => AnswerOwed(Head(toUdp))'
  <2>1. PICK answer : answer = Head(toUdp)
    OBVIOUS
  <2>2. thread = NoThread /\ toUdp # <<>> => AnswerOwed(answer)'
    BY <1>9, <2>1 DEF Serving, Duty
  <2> QED BY <1>1, <2>1, <2>2
<1>14. WorkDone' /\ endpoint' \in Clients => Served(endpoint)'
  BY <1>1, <1>5 DEF WorkDone, StreamsEmpty, BackendsEmpty, Serving, Duty, Served
<1>15. Duty'
  BY <1>1, <1>4, <1>10, <1>11, <1>12, <1>13, <1>14 DEF Serving, Duty
<1> QED BY <1>3, <1>6, <1>15 DEF Connections

(* Only a user whose query has no answer gives up.                         *)
LEMMA GiveUpServes ==
    ASSUME Serving, NEW c \in Clients, AtRest, toClient[c] = <<>>, GiveUp(c)
    PROVE  Connections' /\ Duty'
<1> SessionsTypeOK /\ TypeOK /\ Connections
  BY DEF Serving, Collecting, Inv, SessionsTypeOK
<1>1. WorkDone /\ Resting /\ \A d \in Clients : Served(d)
  BY RestServed
<1>2. /\ waiting' = [waiting EXCEPT ![c] = NoQuery]
      /\ UNCHANGED <<open, endpoint, toM, toClient, toBackend, toUdp, thread, pc, query>>
  BY DEF GiveUp, serverVars, mainVars, wireVars, threadVars
<1>3. waiting'[c] = NoQuery /\ \A d \in Clients \ {c} : waiting'[d] = waiting[d]
  BY <1>2 DEF SessionsTypeOK
<1>4. \A d \in Clients : Served(d)'
  BY <1>1, <1>2, <1>3 DEF Served
<1>5. Closed' /\ AnswersTheQuery'
  BY <1>2, <1>3 DEF Connections, Closed, AnswersTheQuery
<1>6. Duty'
  BY <1>1, <1>2, <1>4 DEF Duty, Resting, StreamsEmpty, BackendsEmpty, NoThreadWork, NoLiveThread
<1> QED BY <1>4, <1>5, <1>6 DEF Connections, OthersServed

(* Nothing else keeps or breaks a duty.                                    *)
LEMMA StutterServes ==
    ASSUME Serving, UNCHANGED vars
    PROVE  Connections' /\ Duty'
<1>1. UNCHANGED <<open, endpoint, frame, toM, toClient, toBackend, toUdp, thread, pc, query, waiting>>
  BY DEF vars, serverVars, userVars, mainVars, wireVars, threadVars
<1> QED BY <1>1 DEF Serving, Connections, Closed, AnswersTheQuery, OthersServed, Served, Duty,
     WorkDone, StreamsEmpty, BackendsEmpty, AnswerOwed, ListOwed, NewestWaits

-----------------------------------------------------------------------------
(* The theorems.                                                           *)

LEMMA InitServing == Init => Serving
<1> SUFFICES ASSUME Init PROVE Serving
  OBVIOUS
<1>1. Collecting
  BY InitTyped, InitResting, NotAsking DEF Init, ServerInit, Collecting, Inv
<1>2. Connections
  BY DEF Init, ServerInit, Connections, Closed, AnswersTheQuery, OthersServed, Served
<1>3. Duty
  BY ServerMAssumption DEF Init, ServerInit, Duty
<1> QED BY <1>1, <1>2, <1>3 DEF Serving

LEMMA ServingKept ==
    ASSUME Serving, [SerialNext]_vars
    PROVE  Serving'
<1>1. Collecting'
  BY CollectingKept DEF Serving
<1>2. Connections' /\ Duty'
  BY ServeServes, ConnectServes, LeaveServes, AskServes, GetReplyServes, GiveUpServes,
     StutterServes DEF SerialNext
<1> QED BY <1>1, <1>2 DEF Serving

LEMMA SerialServing == SerialSpec => []Serving
BY InitServing, ServingKept, PTL DEF SerialSpec

(* Every reply on a connection is the right answer of the user who waits   *)
(* there, however many clients, accounts, courses and queries there are.   *)
THEOREM SerialAnswers == SerialSpec => []AnswersTheQuery
<1>1. Serving => AnswersTheQuery
  BY DEF Serving, Connections
<1> QED BY <1>1, SerialServing, PTL

-----------------------------------------------------------------------------
(* serverM implements the service.                                         *)

LEMMA SameAnswers ==
    ASSUME NEW req
    PROVE  /\ Service!RightAnswers(req) = RightAnswers(req)
           /\ Service!HasAnswer(req) <=> HasAnswer(req)
BY DEF Service!RightAnswers, RightAnswers, Service!HasAnswer, HasAnswer, Service!RightAnswer,
   RightAnswer, Service!RightFlag, RightFlag, Service!Known, Known, Service!Selects, Selects,
   Service!SelectsBy, SelectsBy, Service!PlacesOfKnown, PlacesOfKnown, Service!ListsOfCodes,
   ListsOfCodes, Service!AuthReply, AuthReply, Service!SingleReply, SingleReply,
   Service!ErrorReply, ErrorReply, Service!AuthFlags, AuthFlags

(* What serverM shows is an answer of the service.                         *)
LEMMA ServeIsService ==
    ASSUME Serving, Serve
    PROVE  Service!Next \/ UNCHANGED Service!vars
<1>1. Shows /\ UNCHANGED <<waiting, who>>
  BY ServeServes DEF Serve, userVars
<1>2. UNCHANGED open
  BY DEF Serve, ServerStep, UdpReceive, TcpReceive, BackendServe, ThreadStep, ThreadReset,
     ThreadDecode, ThreadAsk, ThreadWake, ThreadAsked, ThreadRespond, ThreadFree, ThreadClear,
     ThreadExit, mainVars
<1>3. CASE UNCHANGED toClient
  BY <1>1, <1>2, <1>3 DEF Service!vars
<1>4. CASE toClient' # toClient
  <2>1. /\ endpoint \in open
        /\ \E reply : AnswerOwed(reply) /\ toClient' = [toClient EXCEPT ![endpoint] = <<reply>>]
    BY <1>1, <1>4 DEF Shows
  <2>2. PICK reply : AnswerOwed(reply) /\ toClient' = [toClient EXCEPT ![endpoint] = <<reply>>]
    BY <2>1
  <2>3. /\ endpoint \in Clients /\ toClient[endpoint] = <<>>
        /\ waiting[endpoint] # NoQuery /\ HasAnswer(waiting[endpoint])
        /\ reply \in RightAnswers(waiting[endpoint])
    BY <2>1, <2>2, SessionsAssumption DEF AnswerOwed, NewestWaits
  <2>4. Service!Answer(endpoint)
    BY <1>1, <1>2, <2>2, <2>3, SameAnswers DEF Service!Answer
  <2> QED BY <2>3, <2>4 DEF Service!Next
<1> QED BY <1>3, <1>4

(* The users of serverM do what users of the service do.                   *)
LEMMA UserIsService ==
    ASSUME Serving, SerialNext, ~Serve
    PROVE  Service!Next
<1>1. ASSUME NEW c \in Clients, AtRest, Connect(c)
      PROVE  Service!Next
  <2>1. Service!Connect(c)
    BY <1>1 DEF Connect, Accept, Service!Connect
  <2> QED BY <2>1 DEF Service!Next
<1>2. ASSUME NEW c \in Clients, Leave(c)
      PROVE  Service!Next
  <2>1. Service!Leave(c)
    BY <1>2 DEF Leave, Disconnect, Service!Leave
  <2> QED BY <2>1 DEF Service!Next
<1>3. ASSUME NEW c \in Clients, NEW req \in Logins \cup Queries,
             AtRest, c = endpoint, toClient[c] = <<>>, Ask(c, req)
      PROVE  Service!Next
  <2>1. \A d \in Clients : waiting[d] # NoQuery /\ toClient[d] = <<>> => ~HasAnswer(waiting[d])
    BY <1>3, RestServed DEF Served
  <2>2. Service!Ask(c, req)
    BY <1>3, <2>1, SameAnswers DEF Ask, ClientSend, Service!Ask
  <2> QED BY <2>2 DEF Service!Next
<1>4. ASSUME NEW c \in Clients, GetReply(c)
      PROVE  Service!Next
  <2>1. toClient' = [toClient EXCEPT ![c] = <<>>]
    BY <1>4, GetReplyServes
  <2>2. toClient[c] # <<>> /\ UNCHANGED open /\ waiting' = [waiting EXCEPT ![c] = NoQuery]
    BY <1>4 DEF GetReply, ClientRead, mainVars
  <2>3. who' = IF Head(toClient[c]) = [type |-> "AUTH", flag |-> "SUCCESS"]
               THEN [who EXCEPT ![c] = waiting[c].user]
               ELSE who
    <3>1. PICK reply : reply = Head(toClient[c])
      OBVIOUS
    <3>2. waiting[c] # NoQuery /\ RightAnswer(waiting[c], reply)
      BY <2>2, <3>1 DEF Serving, Connections, AnswersTheQuery
    <3>3. LoggedIn(c) <=> reply = [type |-> "AUTH", flag |-> "SUCCESS"]
      BY <3>1, <3>2 DEF LoggedIn, RightAnswer
    <3> QED BY <1>4, <3>1, <3>3 DEF GetReply
  <2>4. Service!Receive(c)
    BY <2>1, <2>2, <2>3 DEF Service!Receive
  <2> QED BY <2>4 DEF Service!Next
<1>5. ASSUME NEW c \in Clients, AtRest, toClient[c] = <<>>, GiveUp(c)
      PROVE  Service!Next
  <2>1. ~HasAnswer(waiting[c])
    BY <1>5, RestServed DEF Served, GiveUp
  <2>2. Service!GiveUp(c)
    BY <1>5, <2>1, SameAnswers DEF GiveUp, Service!GiveUp, serverVars, mainVars
  <2> QED BY <2>2 DEF Service!Next
<1> QED BY <1>1, <1>2, <1>3, <1>4, <1>5 DEF SerialNext

(* Whatever the instance, every step of serverM, its threads, its backends *)
(* and its users is a step of the service or hidden from the users: each   *)
(* answer that is due comes once, is right, and comes to the one who asked.*)
THEOREM SerialIsService == SerialSpec => Service!Safety
<1>1. Init => Service!Init
  BY DEF Init, ServerInit, Service!Init
<1>2. Serving /\ [SerialNext]_vars => [Service!Next]_Service!vars
  <2>1. UNCHANGED vars => UNCHANGED Service!vars
    BY DEF vars, serverVars, userVars, mainVars, Service!vars
  <2> QED BY <2>1, ServeIsService, UserIsService
<1> QED BY <1>1, <1>2, SerialServing, PTL DEF SerialSpec, Service!Safety

-----------------------------------------------------------------------------
(* The name serverM logs.  One buffer holds the name of the last login of  *)
(* any connection; it is the right one because only the newest connection  *)
(* asks, and a login on it is either answered or was answered already.     *)

\* Credentials are asked for until a login succeeds, courses from then on.
LoginFirst ==
    \A c \in Clients : waiting[c] # NoQuery => (waiting[c].type = "AUTH" <=> who[c] = NoName)

\* The user of the newest connection who has logged in is the one named.
NewestNamed ==
    endpoint \in open /\ who[endpoint] # NoName => username.name = who[endpoint]

\* The credentials of the newest connection have been read off its stream.
LoginForwarded ==
    /\ endpoint \in open
    /\ waiting[endpoint] # NoQuery /\ waiting[endpoint].type = "AUTH"
    /\ toM[endpoint] = <<>>

Refused(c) == toClient[c] # <<>> /\ Head(toClient[c]).flag # "SUCCESS"

LoginNamed ==
    LoginForwarded => username.name = waiting[endpoint].user \/ Refused(endpoint)

\* The buffer holds as many bytes as the name in it needs.
NameFits == username.name # NoName => username.len >= NameLen[username.name]

Naming == Serving /\ LoginFirst /\ NewestNamed /\ LoginNamed /\ NameFits

(* A step that leaves the name and the requests alone shows its answer to  *)
(* a user who has none yet.                                                *)
LEMMA NamesUnchanged ==
    ASSUME Naming, Shows, UNCHANGED <<open, endpoint, toM, username, waiting, who>>
    PROVE  (LoginFirst /\ NewestNamed /\ LoginNamed /\ NameFits)'
<1>1. (LoginFirst /\ NewestNamed /\ NameFits)'
  BY DEF Naming, LoginFirst, NewestNamed, NameFits
<1>2. Refused(endpoint) => Refused(endpoint)'
  BY DEF Shows, AnswerOwed, NewestWaits, Refused
<1>3. LoginNamed'
  BY <1>2 DEF Naming, LoginNamed, LoginForwarded
<1> QED BY <1>1, <1>3

(* Credentials name the user whose login they are, before anyone else can  *)
(* ask; courses are only asked for by a user who has a name.               *)
LEMMA TcpReceiveNames ==
    ASSUME Naming, NEW c \in Clients, TcpReceive(c), Shows, UNCHANGED userVars
    PROVE  (LoginFirst /\ NewestNamed /\ LoginNamed /\ NameFits)'
<1> Serving /\ Inv /\ SessionsTypeOK /\ TypeOK
  BY DEF Naming, Serving, Collecting, Inv, SessionsTypeOK
<1>1. PICK req \in ClientRequest : req = Head(toM[c])
  BY ReadAtRest
<1>2. c = endpoint /\ c \in open /\ waiting[c] = req /\ req # NoQuery
  BY <1>1, ReadAtRest, SessionsAssumption DEF Serving, Duty
<1>3. UNCHANGED <<open, endpoint, waiting, who>>
  BY DEF TcpReceive, userVars
<1>4. LoginFirst'
  BY <1>3 DEF Naming, LoginFirst
<1>5. CASE on_auth_request_received(req)
  <2>1. req.type = "AUTH" /\ set_username(req.user)
    BY <1>5 DEF on_auth_request_received
  <2>2. req.user \in Words
    BY <2>1 DEF ClientRequest, AuthRequest, SingleRequest, MultiRequest
  <2>3. NameLen[req.user] \in Nat /\ username.len \in Nat
    BY <2>2, ServerMAssumption DEF TypeOK, UserField
  <2>4. username'.name = req.user /\ username'.len >= NameLen[req.user]
    BY <2>1, <2>3 DEF set_username
  <2>5. who[endpoint] = NoName
    BY <1>2, <2>1 DEF Naming, LoginFirst
  <2>6. NewestNamed' /\ LoginNamed' /\ NameFits'
    BY <1>2, <1>3, <2>4, <2>5 DEF NewestNamed, LoginNamed, NameFits
  <2> QED BY <1>4, <2>6
<1>6. CASE \/ on_course_lookup_info_request_received(req)
           \/ on_course_lookup_multi_request_received(req)
  <2>1. req.type # "AUTH" /\ UNCHANGED username
    BY <1>6 DEF on_course_lookup_info_request_received, on_course_lookup_multi_request_received
  <2>2. NewestNamed' /\ NameFits'
    BY <1>3, <2>1 DEF Naming, NewestNamed, NameFits
  <2>3. LoginNamed'
    BY <1>2, <1>3, <2>1 DEF LoginNamed, LoginForwarded
  <2> QED BY <1>4, <2>2, <2>3
<1> QED BY <1>1, <1>5, <1>6 DEF TcpReceive

(* A refusal clears the name while the user it belongs to waits to be told.*)
LEMMA UdpReceiveNames ==
    ASSUME Naming, UdpReceive, Shows, UNCHANGED userVars
    PROVE  (LoginFirst /\ NewestNamed /\ LoginNamed /\ NameFits)'
<1> Serving /\ Inv /\ SessionsTypeOK /\ TypeOK
  BY DEF Naming, Serving, Collecting, Inv, SessionsTypeOK
<1>1. UNCHANGED <<open, endpoint, toM, waiting, who>> /\ toUdp # <<>>
  BY DEF UdpReceive, userVars
<1>2. PICK reply : reply = Head(toUdp)
  OBVIOUS
<1>3. CASE reply.type = "AUTH" /\ reply.flag # "SUCCESS"
  <2>1. clear_username /\ tcp_server_send(reply)
    BY <1>2, <1>3 DEF UdpReceive, on_auth_response_received,
       on_single_course_lookup_info_response_received, on_course_detail_response_received,
       on_error_response_received
  <2>2. thread = NoThread
    BY <1>1, <1>2, <1>3, ServerMAssumption DEF Inv, OnePieceOfWork, Resting, RequestArriving,
       SingleExchange, ThreadExchange, ThreadBlocked, ThreadRunning, AskedBackend,
       ReplyArriving, NoThreadWork
  <2>3. AnswerOwed(reply)
    BY <1>1, <1>2, <2>2 DEF Serving, Duty
  <2>4. endpoint \in open => /\ waiting[endpoint] \in ClientRequest
                             /\ waiting[endpoint].type = "AUTH"
    <3> SUFFICES ASSUME endpoint \in open
                 PROVE  /\ waiting[endpoint] \in ClientRequest
                        /\ waiting[endpoint].type = "AUTH"
      OBVIOUS
    <3>1. waiting[endpoint] \in ClientRequest /\ reply \in RightAnswers(waiting[endpoint])
      BY <2>3 DEF AnswerOwed
    <3>2. RightAnswer(waiting[endpoint], reply)
      BY <3>1 DEF RightAnswers
    <3> QED BY <1>3, <3>1, <3>2 DEF RightAnswer
  <2>5. endpoint \in open => who[endpoint] = NoName
    BY <2>4, SessionsAssumption DEF Naming, LoginFirst, TypeOK
  <2>6. endpoint \in open => toClient'[endpoint] = Append(<<>>, reply)
    BY <2>1, <2>3 DEF tcp_server_send, AnswerOwed, NewestWaits, TypeOK
  <2>7. endpoint \in open => Refused(endpoint)'
    BY <1>1, <1>3, <2>6, FirstAppended DEF Refused
  <2>8. username'.name = NoName
    BY <2>1 DEF clear_username
  <2> QED BY <1>1, <2>5, <2>7, <2>8 DEF Naming, LoginFirst, NewestNamed, LoginNamed,
             LoginForwarded, NameFits
<1>4. CASE ~(reply.type = "AUTH" /\ reply.flag # "SUCCESS")
  <2>1. UNCHANGED username
    BY <1>2, <1>4 DEF UdpReceive, on_auth_response_received,
       on_single_course_lookup_info_response_received, on_course_detail_response_received,
       on_error_response_received
  <2> QED BY <1>1, <2>1, NamesUnchanged
<1> QED BY <1>3, <1>4

(* Nothing else serverM does touches the name.                             *)
LEMMA ServeNames ==
    ASSUME Naming, Serve
    PROVE  (LoginFirst /\ NewestNamed /\ LoginNamed /\ NameFits)'
<1>1. Shows /\ UNCHANGED userVars
  BY ServeServes DEF Serve, Naming
<1>2. ASSUME NEW t \in Threads, ThreadStep(t)
      PROVE  UNCHANGED <<open, endpoint, toM, username>>
  BY <1>2 DEF ThreadStep, ThreadReset, ThreadDecode, ThreadAsk, ThreadWake, ThreadAsked,
     ThreadRespond, ThreadFree, ThreadClear, ThreadExit, mainVars
<1>3. ASSUME NEW b \in Backend, BackendServe(b)
      PROVE  UNCHANGED <<open, endpoint, toM, username>>
  BY <1>3 DEF BackendServe, mainVars
<1>4. ASSUME UNCHANGED <<open, endpoint, toM, username>>
      PROVE  (LoginFirst /\ NewestNamed /\ LoginNamed /\ NameFits)'
  BY <1>1, <1>4, NamesUnchanged DEF userVars
<1> QED BY <1>1, <1>2, <1>3, <1>4, TcpReceiveNames, UdpReceiveNames DEF Serve, ServerStep

(* A new connection has no user yet, and one that is closed asks nothing.  *)
LEMMA ConnectionNames ==
    ASSUME Naming, NEW c \in Clients, Connect(c) \/ Leave(c)
    PROVE  (LoginFirst /\ NewestNamed /\ LoginNamed /\ NameFits)'
<1> SessionsTypeOK /\ TypeOK
  BY DEF Naming, Serving, Collecting, Inv, SessionsTypeOK
<1>1. /\ waiting' = [waiting EXCEPT ![c] = NoQuery]
      /\ who' = [who EXCEPT ![c] = NoName]
      /\ UNCHANGED username
  BY DEF Connect, Leave, Accept, Disconnect
<1>2. /\ waiting'[c] = NoQuery /\ who'[c] = NoName
      /\ \A d \in Clients \ {c} : waiting'[d] = waiting[d] /\ who'[d] = who[d]
  BY <1>1 DEF SessionsTypeOK
<1>3. LoginFirst' /\ NameFits'
  BY <1>1, <1>2 DEF Naming, LoginFirst, NameFits
<1>4. CASE Connect(c)
  <2>1. endpoint' = c
    BY <1>4 DEF Connect, Accept
  <2>2. NewestNamed' /\ LoginNamed'
    BY <1>2, <2>1 DEF NewestNamed, LoginNamed, LoginForwarded
  <2> QED BY <1>3, <2>2
<1>5. CASE Leave(c)
  <2>1. open' = open \ {c} /\ UNCHANGED <<endpoint, toM, toClient>>
    BY <1>5 DEF Leave, Disconnect
  <2>2. CASE endpoint = c
    BY <1>3, <2>1, <2>2 DEF NewestNamed, LoginNamed, LoginForwarded
  <2>3. CASE endpoint \in Clients \ {c}
    <3>1. waiting'[endpoint] = waiting[endpoint] /\ who'[endpoint] = who[endpoint]
      BY <1>2, <2>3
    <3>2. NewestNamed' /\ LoginNamed'
      BY <1>1, <2>1, <3>1 DEF Naming, NewestNamed, LoginNamed, LoginForwarded, Refused
    <3> QED BY <1>3, <3>2
  <2>4. CASE endpoint \notin Clients
    <3>1. endpoint' \notin open'
      BY <2>1, <2>4 DEF TypeOK
    <3> QED BY <1>3, <3>1 DEF NewestNamed, LoginNamed, LoginForwarded
  <2> QED BY <2>2, <2>3, <2>4
<1> QED BY <1>4, <1>5

(* The request of a user is on the stream when it is asked.                *)
LEMMA AskNames ==
    ASSUME Naming, NEW c \in Clients, NEW req \in Logins \cup Queries, c = endpoint, Ask(c, req)
    PROVE  (LoginFirst /\ NewestNamed /\ LoginNamed /\ NameFits)'
<1> SessionsTypeOK /\ TypeOK
  BY DEF Naming, Serving, Collecting, Inv, SessionsTypeOK
<1>1. /\ waiting' = [waiting EXCEPT ![c] = req]
      /\ toM' = [toM EXCEPT ![c] = Append(@, req)]
      /\ UNCHANGED <<open, endpoint, username, who>>
  BY DEF Ask, ClientSend
<1>2. req.type = "AUTH" <=> who[c] = NoName
  <2>1. ASSUME req \in Logins PROVE req.type = "AUTH"
    BY <2>1, SessionsAssumption DEF AuthRequest
  <2>2. ASSUME req \in Queries PROVE req.type # "AUTH"
    BY <2>2, SessionsAssumption DEF SingleRequest, MultiRequest
  <2> QED BY <2>1, <2>2 DEF Ask
<1>3. LoginFirst'
  BY <1>1, <1>2 DEF Naming, LoginFirst, SessionsTypeOK
<1>4. NewestNamed' /\ NameFits'
  BY <1>1 DEF Naming, NewestNamed, NameFits
<1>5. toM'[endpoint'] # <<>>
  <2>1. PICK stream \in Seq(ClientRequest) : stream = toM[c]
    BY DEF TypeOK
  <2>2. toM'[c] = Append(stream, req)
    BY <1>1, <2>1 DEF TypeOK
  <2>3. req \in ClientRequest
    BY SessionsAssumption DEF ClientRequest
  <2>4. Append(stream, req) # <<>>
    BY <2>1, <2>3, AppendProperties
  <2> QED BY <1>1, <2>2, <2>4
<1>6. LoginNamed'
  BY <1>5 DEF LoginNamed, LoginForwarded
<1> QED BY <1>3, <1>4, <1>6

(* A user who is told that the login succeeded is the one whose name is in *)
(* the buffer.                                                             *)
LEMMA GetReplyNames ==
    ASSUME Naming, NEW c \in Clients, GetReply(c)
    PROVE  (LoginFirst /\ NewestNamed /\ LoginNamed /\ NameFits)'
<1> SessionsTypeOK /\ TypeOK
  BY DEF Naming, Serving, Collecting, Inv, SessionsTypeOK
<1>1. /\ toClient[c] # <<>> /\ toClient' = [toClient EXCEPT ![c] = Tail(@)]
      /\ waiting' = [waiting EXCEPT ![c] = NoQuery]
      /\ UNCHANGED <<open, endpoint, toM, username>>
  BY DEF GetReply, ClientRead, mainVars
<1>2. /\ waiting'[c] = NoQuery
      /\ \A d \in Clients \ {c} :
            waiting'[d] = waiting[d] /\ who'[d] = who[d] /\ toClient'[d] = toClient[d]
  BY <1>1 DEF GetReply, SessionsTypeOK, TypeOK
<1>3. LoginFirst' /\ NameFits'
  BY <1>1, <1>2 DEF Naming, LoginFirst, NameFits
<1>4. CASE endpoint # c
  <2>1. CASE endpoint \in Clients
    <3>1. /\ waiting'[endpoint] = waiting[endpoint] /\ who'[endpoint] = who[endpoint]
          /\ toClient'[endpoint] = toClient[endpoint]
      BY <1>2, <1>4, <2>1
    <3>2. NewestNamed' /\ LoginNamed'
      BY <1>1, <3>1 DEF Naming, NewestNamed, LoginNamed, LoginForwarded, Refused
    <3> QED BY <1>3, <3>2
  <2>2. CASE endpoint \notin Clients
    <3>1. endpoint' \notin open'
      BY <1>1, <2>2 DEF TypeOK
    <3> QED BY <1>3, <3>1 DEF NewestNamed, LoginNamed, LoginForwarded
  <2> QED BY <2>1, <2>2
<1>5. CASE endpoint = c
  <2>1. LoginNamed'
    BY <1>1, <1>2, <1>5 DEF LoginNamed, LoginForwarded
  <2>2. toM[c] = <<>>
    BY <1>1 DEF Naming, Serving, Duty
  <2>3. CASE LoggedIn(c)
    <3>1. /\ waiting[c] # NoQuery /\ waiting[c].type = "AUTH"
          /\ ~Refused(c)
      BY <2>3 DEF LoggedIn, Refused
    <3>2. endpoint \in open => username.name = waiting[c].user
      BY <1>5, <2>2, <3>1 DEF Naming, LoginNamed, LoginForwarded
    <3>3. who'[c] = waiting[c].user
      BY <2>3 DEF GetReply, SessionsTypeOK
    <3> QED BY <1>1, <1>3, <1>5, <2>1, <3>2, <3>3 DEF NewestNamed
  <2>4. CASE ~LoggedIn(c)
    <3>1. who' = who
      BY <2>4 DEF GetReply
    <3> QED BY <1>1, <1>3, <2>1, <3>1 DEF Naming, NewestNamed
  <2> QED BY <2>3, <2>4
<1> QED BY <1>4, <1>5

(* A user who gave up waits for no login.                                  *)
LEMMA GiveUpNames ==
    ASSUME Naming, NEW c \in Clients, GiveUp(c)
    PROVE  (LoginFirst /\ NewestNamed /\ LoginNamed /\ NameFits)'
<1> SessionsTypeOK /\ TypeOK
  BY DEF Naming, Serving, Collecting, Inv, SessionsTypeOK
<1>1. /\ waiting' = [waiting EXCEPT ![c] = NoQuery]
      /\ UNCHANGED <<open, endpoint, toM, toClient, username, who>>
  BY DEF GiveUp, serverVars, mainVars
<1>2. waiting'[c] = NoQuery /\ \A d \in Clients \ {c} : waiting'[d] = waiting[d]
  BY <1>1 DEF SessionsTypeOK
<1>3. (LoginFirst /\ NewestNamed /\ NameFits)'
  BY <1>1, <1>2 DEF Naming, LoginFirst, NewestNamed, NameFits
<1>4. LoginForwarded' => LoginForwarded /\ waiting'[endpoint] = waiting[endpoint]
  BY <1>1, <1>2 DEF LoginForwarded, TypeOK
<1>5. LoginNamed'
  BY <1>1, <1>4 DEF Naming, LoginNamed, Refused
<1> QED BY <1>3, <1>5

LEMMA InitNaming == Init => Naming
BY InitServing DEF Init, ServerInit, Naming, LoginFirst, NewestNamed, LoginNamed,
   LoginForwarded, NameFits

LEMMA NamingKept ==
    ASSUME Naming, [SerialNext]_vars
    PROVE  Naming'
<1>1. Serving'
  BY ServingKept DEF Naming
<1>2. ASSUME UNCHANGED vars
      PROVE  (LoginFirst /\ NewestNamed /\ LoginNamed /\ NameFits)'
  BY <1>2 DEF vars, serverVars, mainVars, userVars, Naming, LoginFirst, NewestNamed,
     LoginNamed, LoginForwarded, Refused, NameFits
<1>3. (LoginFirst /\ NewestNamed /\ LoginNamed /\ NameFits)'
  BY <1>2, ServeNames, ConnectionNames, AskNames, GetReplyNames, GiveUpNames DEF SerialNext
<1> QED BY <1>1, <1>3 DEF Naming

LEMMA SerialNaming == SerialSpec => []Naming
BY InitNaming, NamingKept, PTL DEF SerialSpec

(* The user a query is logged under, when serverM comes to read it.        *)
LEMMA ReaderIsNamed ==
    ASSUME Naming, NEW c \in Clients, toM[c] # <<>>, Head(toM[c]).type = "SINGLE"
    PROVE  /\ username.name = who[c] /\ who[c] \in Words
           /\ username.len >= NameLen[who[c]]
<1> SessionsTypeOK /\ TypeOK
  BY DEF Naming, Serving, Collecting, Inv, SessionsTypeOK
<1>1. c = endpoint /\ c \in open /\ waiting[c] = Head(toM[c])
  BY DEF Naming, Serving, Duty
<1>2. waiting[c] \in ClientRequest /\ waiting[c] # NoQuery
  BY <1>1, HeadTyped, SessionsAssumption DEF TypeOK
<1>3. who[c] # NoName
  BY <1>1, <1>2 DEF Naming, LoginFirst
<1>4. who[c] \in Words
  BY <1>3 DEF SessionsTypeOK
<1>5. username.name = who[c]
  BY <1>1, <1>3 DEF Naming, NewestNamed
<1> QED BY <1>3, <1>4, <1>5 DEF Naming, NameFits

(* The name serverM logs with a query begins with the name its user logged *)
(* in with (serverM.c:147), whatever the lengths of the names: what may    *)
(* follow it is the tail of a longer name that was in the buffer before.   *)
LogStartsWithTheUser ==
    \A c \in Clients : toM[c] # <<>> =>
        (Head(toM[c]).type = "SINGLE" =>
            /\ username.name = who[c]
            /\ username.len >= NameLen[who[c]])

THEOREM SerialLogStarts == SerialSpec => []LogStartsWithTheUser
<1>1. Naming => LogStartsWithTheUser
  BY ReaderIsNamed DEF LogStartsWithTheUser
<1> QED BY <1>1, SerialNaming, PTL

-----------------------------------------------------------------------------
(* Names of one length leave nothing of each other in the buffer.          *)

Exact(n) ==
    /\ username.len \in {0, n}
    /\ username.name # NoName => username.len = n

LEMMA ExactKept ==
    ASSUME NEW n \in Nat, \A w \in Words : NameLen[w] = n,
           Exact(n), Naming, [SerialNext]_vars
    PROVE  Exact(n)'
<1> Serving /\ Inv /\ SessionsTypeOK /\ TypeOK
  BY DEF Naming, Serving, Collecting, Inv, SessionsTypeOK
<1>1. ASSUME NEW c \in Clients, TcpReceive(c)
      PROVE  Exact(n)'
  <2>1. PICK req \in ClientRequest : req = Head(toM[c])
    BY <1>1, ReadAtRest
  <2>2. CASE on_auth_request_received(req)
    <3>1. set_username(req.user) /\ req.user \in Words
      BY <2>2 DEF on_auth_request_received, ClientRequest, AuthRequest, SingleRequest,
         MultiRequest
    <3>2. username' = [name |-> req.user, len |-> n]
      BY <3>1 DEF set_username, Exact
    <3> QED BY <3>2 DEF Exact
  <2>3. CASE \/ on_course_lookup_info_request_received(req)
             \/ on_course_lookup_multi_request_received(req)
    <3>1. UNCHANGED username
      BY <2>3 DEF on_course_lookup_info_request_received,
         on_course_lookup_multi_request_received
    <3> QED BY <3>1 DEF Exact
  <2> QED BY <1>1, <2>1, <2>2, <2>3 DEF TcpReceive
<1>2. ASSUME UdpReceive
      PROVE  Exact(n)'
  <2>1. clear_username \/ UNCHANGED username
    BY <1>2 DEF UdpReceive, on_auth_response_received,
       on_single_course_lookup_info_response_received, on_course_detail_response_received,
       on_error_response_received
  <2> QED BY <2>1 DEF clear_username, Exact
<1>3. ASSUME UNCHANGED username
      PROVE  Exact(n)'
  BY <1>3 DEF Exact
<1>4. ASSUME NEW t \in Threads, ThreadStep(t)
      PROVE  UNCHANGED username
  BY <1>4 DEF ThreadStep, ThreadReset, ThreadDecode, ThreadAsk, ThreadWake, ThreadAsked,
     ThreadRespond, ThreadFree, ThreadClear, ThreadExit, mainVars
<1>5. ASSUME NEW b \in Backend, BackendServe(b)
      PROVE  UNCHANGED username
  BY <1>5 DEF BackendServe, mainVars
<1>6. ASSUME NEW c \in Clients,
             \/ Connect(c) \/ Leave(c) \/ GetReply(c) \/ GiveUp(c)
             \/ \E req \in Logins \cup Queries : Ask(c, req)
      PROVE  UNCHANGED username
  BY <1>6 DEF Connect, Accept, Leave, Disconnect, GetReply, ClientRead, GiveUp, Ask, ClientSend,
     serverVars, mainVars
<1>7. ASSUME UNCHANGED vars
      PROVE  UNCHANGED username
  BY <1>7 DEF vars, serverVars, mainVars
<1> QED BY <1>1, <1>2, <1>3, <1>4, <1>5, <1>6, <1>7 DEF SerialNext, Serve, ServerStep

(* When all names are equally long, the name logged with a query is that   *)
(* of the user who asked, with no letter of another, although every login  *)
(* of every connection is written into one buffer.                         *)
THEOREM SerialLogNames ==
    ASSUME NEW n \in Nat, \A w \in Words : NameLen[w] = n
    PROVE  SerialSpec => []LogNamesTheUser
<1>1. Init => Exact(n)
  BY DEF Init, ServerInit, Exact
<1>2. Exact(n) /\ Naming /\ [SerialNext]_vars => Exact(n)'
  BY ExactKept
<1>3. Exact(n) /\ Naming => LogNamesTheUser
  <2> SUFFICES ASSUME Exact(n), Naming, NEW c \in Clients, toM[c] # <<>>,
                      Head(toM[c]).type = "SINGLE"
               PROVE  username.name = who[c] /\ username.len = NameLen[who[c]]
    BY DEF LogNamesTheUser
  <2>1. username.name = who[c] /\ who[c] \in Words
    BY ReaderIsNamed
  <2> QED BY <2>1, ServerMAssumption DEF Exact
<1> QED BY <1>1, <1>2, <1>3, SerialNaming, PTL DEF SerialSpec
=============================================================================
