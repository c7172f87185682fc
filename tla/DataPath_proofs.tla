-------------------------- MODULE DataPath_proofs ---------------------------
(***************************************************************************)
(* What a decoder gives back of what its encoder was given, for texts of   *)
(* any bytes and lists of any length, as long as the message fits the      *)
(* buffer of its decoder: then nothing depends on what memory held before  *)
(* (`stale`).  Then, from the keyboard to the screen: the verdict on a     *)
(* login is that of the accounts, a query shows what the files say of the  *)
(* course or the courses it names, and every message on the way is typed.  *)
(*                                                                         *)
(* What is said of lists of any length is proved by the least number for   *)
(* which it fails: there is one because < is well founded (LeastMember).   *)
(***************************************************************************)
EXTENDS DataPath, SequenceTheorems, FiniteSetTheorems, WellFoundedInduction, TLAPS

Bytes == Seq(Byte)

(* The part of a text begins at the i-th byte.                             *)
Holds(s, i, t) ==
    /\ i \in 1 .. Len(s) /\ i + Len(t) <= Len(s)
    /\ s[i] = Len(t)
    /\ \A k \in 1 .. Len(t) : s[i + k] = t[k]

LEMMA Concat ==
    ASSUME NEW s \in Bytes, NEW z \in Bytes
    PROVE  /\ s \o z \in Bytes
           /\ Len(s \o z) = Len(s) + Len(z)
           /\ \A j \in 1 .. Len(s) + Len(z) :
                 (s \o z)[j] = IF j <= Len(s) THEN s[j] ELSE z[j - Len(s)]
BY ConcatProperties DEF Bytes

LEMMA BytesType ==
    ASSUME NEW s \in Bytes
    PROVE  /\ Len(s) \in Nat /\ DOMAIN s = 1 .. Len(s)
           /\ s \in [1 .. Len(s) -> Byte]
           /\ SubSeq(s, 1, Len(s)) = s
BY SubSeqFull DEF Bytes

LEMMA SmallIsByte == ASSUME NEW n \in Nat, n <= 255 PROVE n \in Byte
BY DEF Byte

LEMMA OneByte ==
    ASSUME NEW x \in Byte
    PROVE  <<x>> \in Bytes /\ Len(<<x>>) = 1 /\ <<x>>[1] = x
BY DEF Bytes

LEMMA TwoBytes ==
    ASSUME NEW x \in Byte, NEW y \in Byte
    PROVE  <<x, y>> \in Bytes /\ Len(<<x, y>>) = 2 /\ <<x, y>>[1] = x /\ <<x, y>>[2] = y
BY DEF Bytes

LEMMA PartType ==
    ASSUME NEW t \in Bytes, Len(t) <= 255
    PROVE  /\ Part(t) \in Bytes
           /\ Len(Part(t)) = 1 + Len(t)
           /\ Part(t)[1] = Len(t)
           /\ \A k \in 1 .. Len(t) : Part(t)[1 + k] = t[k]
<1>0. Len(t) \in Nat
  BY BytesType
<1>1. Len(t) \in Nat /\ Len(t) \in Byte
  BY <1>0, SmallIsByte
<1>2. <<Len(t)>> \in Bytes /\ Len(<<Len(t)>>) = 1 /\ <<Len(t)>>[1] = Len(t)
  BY <1>1, OneByte
<1>. DEFINE one == <<Len(t)>>
<1>. HIDE DEF one
<1>3. one \in Bytes /\ Len(one) = 1 /\ one[1] = Len(t) /\ Part(t) = one \o t
  BY <1>2 DEF one, Part
<1>7. /\ one \o t \in Bytes
      /\ Len(one \o t) = Len(one) + Len(t)
      /\ \A i \in 1 .. Len(one) + Len(t) :
            (one \o t)[i] = IF i <= Len(one) THEN one[i] ELSE t[i - Len(one)]
  BY <1>3, Concat
<1>4. /\ one \o t \in Bytes
      /\ Len(one \o t) = 1 + Len(t)
      /\ \A i \in 1 .. 1 + Len(t) : (one \o t)[i] = IF i <= 1 THEN one[i] ELSE t[i - 1]
  BY <1>7, <1>3
<1>5. ASSUME NEW k \in 1 .. Len(t)
      PROVE  Part(t)[1 + k] = t[k]
  <2>1. 1 + k \in 1 .. 1 + Len(t) /\ ~(1 + k <= 1) /\ (1 + k) - 1 = k
    BY <1>1
  <2>. QED
    BY <2>1, <1>3, <1>4
<1>6. Part(t)[1] = Len(t)
  <2>1. 1 \in 1 .. 1 + Len(t)
    BY <1>1
  <2>. QED
    BY <2>1, <1>3, <1>4
<1>. QED
  BY <1>3, <1>4, <1>5, <1>6

LEMMA HoldsFirst ==
    ASSUME NEW t \in Bytes, Len(t) <= 255
    PROVE  Holds(Part(t), 1, t)
<1>1. Len(t) \in Nat
  BY BytesType
<1>2. 1 \in 1 .. Len(Part(t)) /\ 1 + Len(t) <= Len(Part(t))
  BY <1>1, PartType
<1>. QED
  BY <1>2, PartType DEF Holds

LEMMA HoldsLast ==
    ASSUME NEW s \in Bytes, NEW t \in Bytes, Len(t) <= 255
    PROVE  /\ s \o Part(t) \in Bytes
           /\ Len(s \o Part(t)) = Len(s) + 1 + Len(t)
           /\ Holds(s \o Part(t), Len(s) + 1, t)
<1>1. Len(t) \in Nat /\ Len(s) \in Nat
  BY BytesType
<1>. DEFINE p == Part(t)
<1>2. /\ p \in Bytes /\ Len(p) = 1 + Len(t) /\ p[1] = Len(t)
      /\ \A k \in 1 .. Len(t) : p[1 + k] = t[k]
  BY PartType
<1>. HIDE DEF p
<1>3. /\ s \o p \in Bytes
      /\ Len(s \o p) = Len(s) + Len(p)
      /\ \A i \in 1 .. Len(s) + Len(p) : (s \o p)[i] = IF i <= Len(s) THEN s[i] ELSE p[i - Len(s)]
  BY <1>2, Concat
<1>4. (s \o p)[Len(s) + 1] = Len(t)
  <2>1. Len(s) + 1 \in 1 .. Len(s) + Len(p) /\ ~(Len(s) + 1 <= Len(s)) /\ (Len(s) + 1) - Len(s) = 1
    BY <1>1, <1>2
  <2>. QED
    BY <2>1, <1>2, <1>3
<1>5. ASSUME NEW k \in 1 .. Len(t)
      PROVE  (s \o p)[Len(s) + 1 + k] = t[k]
  <2>1. /\ Len(s) + 1 + k \in 1 .. Len(s) + Len(p)
        /\ ~(Len(s) + 1 + k <= Len(s))
        /\ (Len(s) + 1 + k) - Len(s) = 1 + k
    BY <1>1, <1>2
  <2>2. (s \o p)[Len(s) + 1 + k] = p[1 + k]
    BY <2>1, <1>3
  <2>. QED
    BY <2>2, <1>2
<1>6. Holds(s \o p, Len(s) + 1, t)
  <2>1. /\ Len(s) + 1 \in 1 .. Len(s \o p)
        /\ Len(s) + 1 + Len(t) <= Len(s \o p)
    BY <1>1, <1>2, <1>3
  <2>. QED
    BY <2>1, <1>4, <1>5 DEF Holds
<1>. QED
  BY <1>1, <1>2, <1>3, <1>6 DEF p

LEMMA HoldsStill ==
    ASSUME NEW s \in Bytes, NEW z \in Bytes, NEW t \in Bytes, NEW i, Holds(s, i, t)
    PROVE  /\ Holds(s \o z, i, t)
           /\ s \o z \in Bytes
           /\ Len(s \o z) = Len(s) + Len(z)
<1>1. Len(t) \in Nat /\ Len(s) \in Nat /\ Len(z) \in Nat
  BY BytesType
<1>2. /\ s \o z \in Bytes
      /\ Len(s \o z) = Len(s) + Len(z)
      /\ \A j \in 1 .. Len(s) + Len(z) : (s \o z)[j] = IF j <= Len(s) THEN s[j] ELSE z[j - Len(s)]
  BY Concat
<1>3. i \in 1 .. Len(s) /\ i + Len(t) <= Len(s)
  BY DEF Holds
<1>4. (s \o z)[i] = s[i]
  BY <1>1, <1>2, <1>3
<1>5. \A k \in 1 .. Len(t) : (s \o z)[i + k] = s[i + k]
  BY <1>1, <1>2, <1>3
<1>. QED
  BY <1>1, <1>2, <1>3, <1>4, <1>5 DEF Holds

(* The decoder reads a part that was copied, and goes on behind it.        *)
LEMMA PartIsRead ==
    ASSUME NEW s \in Bytes, NEW t \in Bytes, NEW i, NEW stale, Holds(s, i, t)
    PROVE  /\ PartAt(s, stale, i) = t
           /\ NextPart(s, stale, i) = i + 1 + Len(t)
<1>1. Len(t) \in Nat /\ Len(s) \in Nat /\ DOMAIN s = 1 .. Len(s)
      /\ t \in [1 .. Len(t) -> Byte]
  BY BytesType
<1>2. i \in DOMAIN s /\ \A k \in 1 .. Len(t) : i + k \in DOMAIN s
  BY <1>1 DEF Holds
<1>3. ByteAt(s, stale, i) = Len(t)
  BY <1>2 DEF ByteAt, Holds
<1>4. \A k \in 1 .. Len(t) : ByteAt(s, stale, i + k) = t[k]
  BY <1>2 DEF ByteAt, Holds
<1>5. PartAt(s, stale, i) = [k \in 1 .. Len(t) |-> t[k]]
  BY <1>3, <1>4 DEF PartAt
<1>. QED
  BY <1>1, <1>3, <1>5 DEF NextPart

(* A message that fits its decoder's buffer is copied whole.               *)
LEMMA CopiedWhole ==
    ASSUME NEW type, NEW flags, NEW payload \in Bytes, NEW size \in Nat,
           Len(payload) <= PayloadMax, Len(payload) <= size
    PROVE  /\ protocol_decode(protocol_encode(type, flags, payload), size) = payload
           /\ protocol_encode(type, flags, payload).flags = flags
<1>1. SubSeq(payload, 1, Len(payload)) = payload
  BY BytesType
<1>. QED
  BY <1>1 DEF protocol_decode, protocol_encode

-----------------------------------------------------------------------------
(* The name and the password that serverM and serverC take out of the      *)
(* bytes of a login are the ones the client put in, whatever they are:     *)
(* both lengths stand before both texts (protocol.c 48-91, with the limits *)
(* of 50 characters of client.c 62-83).                                    *)
THEOREM CredentialsArrive ==
    ASSUME NEW u \in Bytes, NEW p \in Bytes, Len(u) <= 50, Len(p) <= 50
    PROVE  protocol_authentication_request_decode(
                protocol_authentication_request_encode([username |-> u, password |-> p]))
              = [username |-> u, password |-> p]
<1>1. Len(u) \in Nat /\ Len(p) \in Nat
  BY BytesType
<1>2. Len(u) \in Byte /\ Len(p) \in Byte
  BY <1>1, SmallIsByte
<1>. DEFINE head == <<Len(u), Len(p)>>
            front == head \o u
            payload == front \o p
<1>3. head \in Bytes /\ Len(head) = 2 /\ head[1] = Len(u) /\ head[2] = Len(p)
  BY <1>2, TwoBytes
<1>. HIDE DEF head
<1>4. /\ front \in Bytes /\ Len(front) = Len(head) + Len(u)
      /\ \A j \in 1 .. Len(head) + Len(u) :
            front[j] = IF j <= Len(head) THEN head[j] ELSE u[j - Len(head)]
  BY <1>3, Concat
<1>. HIDE DEF front
<1>5. /\ payload \in Bytes /\ Len(payload) = Len(front) + Len(p)
      /\ \A j \in 1 .. Len(front) + Len(p) :
            payload[j] = IF j <= Len(front) THEN front[j] ELSE p[j - Len(front)]
  BY <1>4, Concat
<1>. HIDE DEF payload
<1>6. Len(front) = 2 + Len(u) /\ Len(payload) = 2 + Len(u) + Len(p)
  BY <1>1, <1>3, <1>4, <1>5
<1>7. payload[1] = Len(u) /\ payload[2] = Len(p)
  <2>1. 1 \in 1 .. Len(front) + Len(p) /\ 2 \in 1 .. Len(front) + Len(p)
        /\ 1 <= Len(front) /\ 2 <= Len(front)
    BY <1>1, <1>6
  <2>2. payload[1] = front[1] /\ payload[2] = front[2]
    BY <2>1, <1>5
  <2>3. 1 \in 1 .. Len(head) + Len(u) /\ 2 \in 1 .. Len(head) + Len(u)
        /\ 1 <= Len(head) /\ 2 <= Len(head)
    BY <1>1, <1>3
  <2>4. front[1] = head[1] /\ front[2] = head[2]
    BY <2>3, <1>4
  <2>. QED
    BY <2>2, <2>4, <1>3
<1>8. ASSUME NEW k \in 1 .. Len(u)
      PROVE  payload[2 + k] = u[k]
  <2>1. /\ 2 + k \in 1 .. Len(front) + Len(p) /\ 2 + k <= Len(front)
        /\ 2 + k \in 1 .. Len(head) + Len(u) /\ ~(2 + k <= Len(head))
        /\ (2 + k) - Len(head) = k
    BY <1>1, <1>3, <1>6
  <2>2. payload[2 + k] = front[2 + k]
    BY <2>1, <1>5
  <2>. QED
    BY <2>1, <2>2, <1>4
<1>9. ASSUME NEW k \in 1 .. Len(p)
      PROVE  payload[2 + Len(u) + k] = p[k]
  <2>1. /\ 2 + Len(u) + k \in 1 .. Len(front) + Len(p)
        /\ ~(2 + Len(u) + k <= Len(front))
        /\ (2 + Len(u) + k) - Len(front) = k
    BY <1>1, <1>6
  <2>. QED
    BY <2>1, <1>5
<1>10. protocol_decode(protocol_encode("AUTH_REQUEST", 0, payload), CredentialBuffer) = payload
  <2>1. Len(payload) <= PayloadMax /\ Len(payload) <= CredentialBuffer /\ CredentialBuffer \in Nat
    BY <1>1, <1>6 DEF PayloadMax, CredentialBuffer
  <2>. QED
    BY <2>1, <1>5, CopiedWhole
<1>11. [k \in 1 .. Len(u) |-> payload[2 + k]] = u
  BY <1>8, BytesType
<1>12. [k \in 1 .. Len(p) |-> payload[2 + Len(u) + k]] = p
  BY <1>9, BytesType
<1>13. protocol_authentication_request_encode([username |-> u, password |-> p])
            = protocol_encode("AUTH_REQUEST", 0, payload)
  BY DEF protocol_authentication_request_encode, payload, front, head
<1>. QED
  BY <1>7, <1>10, <1>11, <1>12, <1>13 DEF protocol_authentication_request_decode

-----------------------------------------------------------------------------
(* The code, the category and the value of a single lookup come out as     *)
(* they were put in when the two texts have at most 126 bytes together     *)
(* (protocol.c 149-196, the buffer of 128 bytes at 183).                   *)
THEOREM SingleReplyArrives ==
    ASSUME NEW code \in Bytes, NEW info \in Bytes, NEW category, NEW stale,
           code # <<>>, info # <<>>, Len(code) + Len(info) <= 126
    PROVE  protocol_courses_lookup_single_response_decode(
                protocol_courses_lookup_single_response_encode(code, category, info), stale)
              = [code |-> code, category |-> category, info |-> info]
<1>1. Len(code) \in Nat /\ Len(info) \in Nat
  BY BytesType
<1>2. Len(code) <= 255 /\ Len(info) <= 255
  BY <1>1
<1>. DEFINE front == Part(code)
            payload == front \o Part(info)
<1>3. front \in Bytes /\ Len(front) = 1 + Len(code) /\ Holds(front, 1, code)
  BY <1>2, PartType, HoldsFirst
<1>4. Part(info) \in Bytes
  BY <1>2, PartType
<1>. HIDE DEF front
<1>5. /\ payload \in Bytes /\ Len(payload) = Len(front) + 1 + Len(info)
      /\ Holds(payload, Len(front) + 1, info)
  BY <1>2, <1>3, HoldsLast
<1>6. Holds(payload, 1, code)
  BY <1>3, <1>4, HoldsStill
<1>. HIDE DEF payload
<1>7. Len(front) + 1 = 1 + 1 + Len(code) /\ Len(payload) <= PayloadMax
      /\ Len(payload) <= DecodeBuffer /\ DecodeBuffer \in Nat
  BY <1>1, <1>3, <1>5 DEF PayloadMax, DecodeBuffer
<1>8. /\ protocol_decode(protocol_encode("SINGLE_REPLY", category, payload), DecodeBuffer) = payload
      /\ protocol_encode("SINGLE_REPLY", category, payload).flags = category
  BY <1>5, <1>7, CopiedWhole
<1>9. /\ PartAt(payload, stale, 1) = code
      /\ NextPart(payload, stale, 1) = Len(front) + 1
  BY <1>5, <1>6, <1>7, PartIsRead
<1>10. PartAt(payload, stale, Len(front) + 1) = info
  BY <1>5, PartIsRead
<1>11. protocol_courses_lookup_single_response_encode(code, category, info)
            = protocol_encode("SINGLE_REPLY", category, payload)
  BY DEF protocol_courses_lookup_single_response_encode, payload, front
<1>. QED
  BY <1>8, <1>9, <1>10, <1>11 DEF protocol_courses_lookup_single_response_decode

-----------------------------------------------------------------------------
(* The lemmas above with a number for every length.                        *)
LEMMA HoldsNext ==
    ASSUME NEW s \in Bytes, NEW t \in Bytes, NEW n \in Nat, NEW k \in Nat,
           Len(s) = n, Len(t) = k, k <= 255
    PROVE  /\ s \o Part(t) \in Bytes
           /\ Len(s \o Part(t)) = n + 1 + k
           /\ Holds(s \o Part(t), n + 1, t)
BY HoldsLast

LEMMA PartIsReadAt ==
    ASSUME NEW s \in Bytes, NEW t \in Bytes, NEW i \in Nat, NEW k \in Nat, NEW stale,
           Holds(s, i, t), Len(t) = k
    PROVE  PartAt(s, stale, i) = t /\ NextPart(s, stale, i) = i + 1 + k
BY PartIsRead

-----------------------------------------------------------------------------
(* The cipher.                                                             *)

LEMMA ShiftIsByte == ASSUME NEW c \in Byte PROVE shift_char(c) \in Byte
BY DEF shift_char, Byte, CREDENTIALS_ENC_CHAR_SHIFT_COUNT

(* Each alphabet is moved onto itself, and no two characters meet.         *)
LEMMA ShiftOneToOne ==
    ASSUME NEW c \in Byte, NEW d \in Byte, shift_char(c) = shift_char(d)
    PROVE  c = d
<1> DEFINE Upper == 65 .. 90
           Small == 97 .. 122
           Digit == 48 .. 57
<1>1. ASSUME NEW x \in Byte
      PROVE  /\ x \in Upper => shift_char(x) \in Upper
             /\ x \in Small => shift_char(x) \in Small
             /\ x \in Digit => shift_char(x) \in Digit
             /\ x \notin Upper \cup Small \cup Digit => shift_char(x) = x
  BY DEF shift_char, CREDENTIALS_ENC_CHAR_SHIFT_COUNT, Byte
<1>2. ASSUME c \in Upper, d \in Upper PROVE c = d
  BY <1>2 DEF shift_char, CREDENTIALS_ENC_CHAR_SHIFT_COUNT
<1>3. ASSUME c \in Small, d \in Small PROVE c = d
  BY <1>3 DEF shift_char, CREDENTIALS_ENC_CHAR_SHIFT_COUNT
<1>4. ASSUME c \in Digit, d \in Digit PROVE c = d
  BY <1>4 DEF shift_char, CREDENTIALS_ENC_CHAR_SHIFT_COUNT
<1>5. shift_char(c) \in Upper <=> c \in Upper
  BY <1>1
<1>6. shift_char(c) \in Small <=> c \in Small
  BY <1>1
<1>7. shift_char(c) \in Digit <=> c \in Digit
  BY <1>1
<1>8. shift_char(d) \in Upper <=> d \in Upper
  BY <1>1
<1>9. shift_char(d) \in Small <=> d \in Small
  BY <1>1
<1>10. shift_char(d) \in Digit <=> d \in Digit
  BY <1>1
<1> HIDE DEF Upper, Small, Digit
<1> QED BY <1>1, <1>2, <1>3, <1>4, <1>5, <1>6, <1>7, <1>8, <1>9, <1>10

LEMMA CipherType ==
    ASSUME NEW s \in Bytes
    PROVE  /\ encrypt_buffer(s) \in Bytes
           /\ Len(encrypt_buffer(s)) = Len(s)
           /\ \A i \in 1 .. Len(s) : encrypt_buffer(s)[i] = shift_char(s[i])
<1>1. Len(s) \in Nat /\ DOMAIN s = 1 .. Len(s) /\ s \in [1 .. Len(s) -> Byte]
  BY BytesType
<1>2. encrypt_buffer(s) \in [1 .. Len(s) -> Byte]
  BY <1>1, ShiftIsByte DEF encrypt_buffer
<1>3. encrypt_buffer(s) \in Bytes /\ Len(encrypt_buffer(s)) = Len(s)
  BY <1>1, <1>2, IsASeq, LenProperties DEF Bytes
<1> QED BY <1>1, <1>3 DEF encrypt_buffer

(* serverC compares cipher text: two texts have the same only if they are  *)
(* the same (database.c 111-157).                                          *)
THEOREM CipherOneToOne ==
    ASSUME NEW s \in Bytes, NEW t \in Bytes, encrypt_buffer(s) = encrypt_buffer(t)
    PROVE  s = t
<1>1. Len(s) = Len(t)
  BY CipherType
<1>2. s \in [1 .. Len(s) -> Byte] /\ t \in [1 .. Len(s) -> Byte]
  BY <1>1, BytesType
<1>3. ASSUME NEW i \in 1 .. Len(s) PROVE s[i] = t[i]
  <2>1. shift_char(s[i]) = shift_char(t[i])
    BY <1>1, CipherType
  <2> QED BY <1>2, <2>1, ShiftOneToOne
<1> QED BY <1>2, <1>3

-----------------------------------------------------------------------------
(* Texts that are trimmed.                                                 *)

(* Some of the places in a text, counted.                                  *)
LEMMA Counted ==
    ASSUME NEW n \in Nat, NEW T \in SUBSET (1 .. n)
    PROVE  IsFiniteSet(T) /\ Cardinality(T) \in Nat /\ Cardinality(T) <= n
<1>1. IsFiniteSet(1 .. n) /\ Cardinality(1 .. n) = n
  BY FS_Interval
<1>2. IsFiniteSet(T) /\ Cardinality(T) <= n
  BY <1>1, FS_Subset
<1> QED BY <1>2, FS_CardinalityType

LEMMA Cut ==
    ASSUME NEW s \in Bytes, NEW m \in Nat, NEW n \in Nat, m \in 1 .. Len(s) + 1, n \in m - 1 .. Len(s)
    PROVE  SubSeq(s, m, n) \in Bytes /\ Len(SubSeq(s, m, n)) = (n - m) + 1
<1>1. Len(s) \in Nat /\ \A i \in m .. n : s[i] \in Byte
  <2>1. Len(s) \in Nat /\ s \in [1 .. Len(s) -> Byte]
    BY BytesType
  <2> QED BY <2>1
<1>2. m \in Int /\ n \in Int /\ m \in 1 .. n + 1
  BY <1>1
<1> QED BY <1>1, <1>2, SubSeqProperties DEF Bytes

(* Trimming a text leaves a text.                                          *)
LEMMA Stripped ==
    ASSUME NEW s \in Bytes, NEW S
    PROVE  StripFront(s, S) \in Bytes /\ StripBack(s, S) \in Bytes
           /\ Len(StripFront(s, S)) <= Len(s) /\ Len(StripBack(s, S)) <= Len(s)
<1>1. Len(s) \in Nat /\ DOMAIN s = 1 .. Len(s)
  BY BytesType
<1>2. PICK c \in Nat : /\ c = Cardinality({i \in DOMAIN s : \A k \in 1 .. i : s[k] \in S})
                       /\ c <= Len(s)
  BY <1>1, Counted
<1>3. PICK d \in Nat : /\ d = Cardinality({i \in DOMAIN s : \A k \in i .. Len(s) : s[k] \in S})
                       /\ d <= Len(s)
  BY <1>1, Counted
<1>4. SubSeq(s, 1 + c, Len(s)) \in Bytes /\ Len(SubSeq(s, 1 + c, Len(s))) = (Len(s) - (1 + c)) + 1
  <2>1. /\ 1 + c \in Nat /\ 1 + c \in 1 .. Len(s) + 1
        /\ Len(s) \in Nat /\ Len(s) \in (1 + c) - 1 .. Len(s)
    BY <1>1, <1>2
  <2> QED BY <2>1, Cut
<1>5. SubSeq(s, 1, Len(s) - d) \in Bytes
      /\ Len(SubSeq(s, 1, Len(s) - d)) = ((Len(s) - d) - 1) + 1
  <2>1. /\ 1 \in Nat /\ 1 \in 1 .. Len(s) + 1
        /\ Len(s) - d \in Nat /\ Len(s) - d \in 1 - 1 .. Len(s)
    BY <1>1, <1>3
  <2> QED BY <2>1, Cut
<1>6. (Len(s) - (1 + c)) + 1 <= Len(s) /\ ((Len(s) - d) - 1) + 1 <= Len(s)
  BY <1>1, <1>3
<1>7. StripFront(s, S) = SubSeq(s, 1 + c, Len(s))
  BY <1>2, Zenon DEF StripFront
<1>8. StripBack(s, S) = SubSeq(s, 1, Len(s) - d)
  BY <1>3, Zenon DEF StripBack
<1> QED BY <1>4, <1>5, <1>6, <1>7, <1>8

-----------------------------------------------------------------------------
(* The verdict of serverC.                                                 *)

Credentials == [username : Bytes, password : Bytes]

Status(user, password) ==
    IF user \notin DOMAIN Accounts THEN "USER_NOT_FOUND"
    ELSE IF Accounts[user] = password THEN "OK"
    ELSE "PASSWORD_MISMATCH"

EntryOf(name) == First(credentials_db, LAMBDA e : e.username = name, NoUser)

(* The entry a name is looked up in is the first one with that name.       *)
LEMMA FirstEntry ==
    ASSUME NEW name, NEW i \in DOMAIN credentials_db, credentials_db[i].username = name,
           \A k \in 1 .. i - 1 : credentials_db[k].username # name
    PROVE  EntryOf(name) = credentials_db[i]
<1> DEFINE first(k) == /\ credentials_db[k].username = name
                       /\ \A j \in 1 .. k - 1 : ~(credentials_db[j].username = name)
           found == CHOOSE k \in DOMAIN credentials_db : first(k)
<1>1. DOMAIN credentials_db = 1 .. Len(credentials_db) /\ Len(credentials_db) \in Nat
  BY AccountsAssumption, LenProperties
<1>2. first(i)
  OBVIOUS
<1>3. \A k \in DOMAIN credentials_db : first(k) => k = i
  BY <1>1
<1>4. found \in DOMAIN credentials_db /\ first(found)
  BY <1>2
<1>5. found = i
  BY <1>3, <1>4
<1> QED BY <1>5 DEF EntryOf, First

LEMMA NoEntry ==
    ASSUME NEW name, \A i \in DOMAIN credentials_db : credentials_db[i].username # name
    PROVE  EntryOf(name) = NoUser
BY DEF EntryOf, First

\* What the client reads of a login, and what serverC is sent of it; whether
\* the client sends it at all.
Read(login) == collect_credentials(login)

Sent(login) == database_credentials_encrypt(Read(login))

LongEnough(login) == ~TooShort(login.means[1]) /\ ~TooShort(login.means[2])

(* What fgets returned is short enough without the end of its line.        *)
LEMMA WordTyped ==
    ASSUME NEW line, NEW word, TypedAs(line, word)
    PROVE  Chars(word) \in Bytes /\ Len(Chars(word)) <= 50
<1>1. line \in Bytes /\ Len(line) <= 50
  BY DEF TypedAs, Bytes, CREDENTIALS_MAX_LEN
<1>2. PICK text \in Bytes : text = utils_string_rtrim_newlines(line) /\ Len(text) <= Len(line)
  BY <1>1, Stripped DEF utils_string_rtrim_newlines
<1>3. Len(line) \in Nat /\ Len(text) \in Nat
  BY <1>1, BytesType
<1>4. Chars(word) = text
  BY <1>2, Zenon DEF TypedAs
<1> QED BY <1>1, <1>2, <1>3, <1>4

(* A login is short enough for every buffer on the way, ciphered or not.   *)
LEMMA LoginType ==
    ASSUME NEW login \in Logins
    PROVE  /\ Read(login) = [username |-> Chars(login.means[1]), password |-> Chars(login.means[2])]
           /\ Sent(login) = [username |-> encrypt_buffer(Chars(login.means[1])),
                             password |-> encrypt_buffer(Chars(login.means[2]))]
           /\ Chars(login.means[1]) \in Bytes /\ Len(Chars(login.means[1])) <= 50
           /\ Chars(login.means[2]) \in Bytes /\ Len(Chars(login.means[2])) <= 50
<1>1. /\ TypedAs(login.username, login.means[1])
      /\ TypedAs(login.password, login.means[2])
  BY LoginsAssumption
<1>2. /\ Chars(login.means[1]) \in Bytes /\ Len(Chars(login.means[1])) <= 50
      /\ Chars(login.means[2]) \in Bytes /\ Len(Chars(login.means[2])) <= 50
  BY <1>1, WordTyped
<1>3. Read(login) = [username |-> Chars(login.means[1]), password |-> Chars(login.means[2])]
  BY <1>1, Zenon DEF Read, collect_credentials, TypedAs
<1>4. Sent(login) = [username |-> encrypt_buffer(Chars(login.means[1])),
                     password |-> encrypt_buffer(Chars(login.means[2]))]
  BY <1>3 DEF Sent, database_credentials_encrypt
<1> QED BY <1>2, <1>3, <1>4

(* The client sends the logins that are long enough and no others.         *)
LEMMA LoginAccepted ==
    ASSUME NEW login \in Logins
    PROVE  Accepted(Read(login).username) /\ Accepted(Read(login).password)
              <=> LongEnough(login)
<1>1. PICK u \in Bytes, p \in Bytes :
          /\ u = Chars(login.means[1]) /\ p = Chars(login.means[2])
          /\ Read(login) = [username |-> u, password |-> p]
          /\ Len(u) <= 50 /\ Len(p) <= 50
  BY LoginType
<1>2. Len(u) \in Nat /\ Len(p) \in Nat
  BY BytesType
<1>3. LongEnough(login) <=> Len(u) >= 5 /\ Len(p) >= 5
  BY <1>1, <1>2 DEF LongEnough, TooShort, CREDENTIALS_MIN_LEN
<1>4. \A s : Accepted(s) <=> Len(s) \in 5 .. 50
  BY Zenon DEF Accepted, CREDENTIALS_MIN_LEN, CREDENTIALS_MAX_LEN
<1>5. /\ Accepted(u) <=> Len(u) >= 5
      /\ Accepted(p) <=> Len(p) >= 5
  <2>1. \A n \in Nat : n <= 50 => (n \in 5 .. 50 <=> n >= 5)
    OBVIOUS
  <2>2. Len(u) \in 5 .. 50 <=> Len(u) >= 5
    BY <1>1, <1>2, <2>1
  <2>3. Len(p) \in 5 .. 50 <=> Len(p) >= 5
    BY <1>1, <1>2, <2>1
  <2> QED BY <1>4, <2>2, <2>3, Zenon
<1> QED BY <1>1, <1>3, <1>5

(* serverC, which knows cipher text only, says of a login what the         *)
(* accounts in the clear say of it.                                        *)
LEMMA ValidatedRight ==
    ASSUME NEW login \in Logins
    PROVE  database_credentials_validate(credentials_db, Sent(login))
              = Status(login.means[1], login.means[2])
<1> DEFINE user == login.means[1]
           password == login.means[2]
           name == encrypt_buffer(Chars(user))
           entry == EntryOf(name)
<1>1. /\ Sent(login).username = name /\ Sent(login).password = encrypt_buffer(Chars(password))
      /\ Chars(user) \in Bytes /\ Chars(password) \in Bytes
      /\ user \in Names /\ password \in Passwords
  BY LoginType DEF Names, Passwords
<1>2. database_credentials_validate(credentials_db, Sent(login)) =
         CASE entry = NoUser -> "USER_NOT_FOUND"
           [] entry # NoUser /\ entry.password = encrypt_buffer(Chars(password)) -> "OK"
           [] OTHER -> "PASSWORD_MISMATCH"
  BY <1>1 DEF database_credentials_validate, EntryOf
<1>3. CASE user \in DOMAIN Accounts
  <2>1. PICK i \in DOMAIN credentials_db :
            /\ credentials_db[i] = Ciphered(user)
            /\ \A k \in 1 .. i - 1 : credentials_db[k].username # Ciphered(user).username
    BY <1>3, AccountsAssumption
  <2>2. Ciphered(user).username = name
    BY DEF Ciphered
  <2>3. entry = Ciphered(user)
    BY <2>1, <2>2, FirstEntry
  <2>4. Len(name) # 0
    BY <1>1, <1>3, AccountsAssumption, CipherType, EmptySeq DEF Bytes
  <2>5. entry # NoUser
    BY <2>2, <2>3, <2>4 DEF NoUser
  <2>6. Chars(Accounts[user]) \in Bytes /\ Accounts[user] \in Passwords
    BY <1>3, AccountsAssumption DEF Bytes, Passwords
  <2>7. entry.password = encrypt_buffer(Chars(password)) <=> Accounts[user] = password
    <3>1. entry.password = encrypt_buffer(Chars(Accounts[user]))
      BY <2>3 DEF Ciphered
    <3>2. ASSUME encrypt_buffer(Chars(Accounts[user])) = encrypt_buffer(Chars(password))
          PROVE  Accounts[user] = password
      BY <1>1, <2>6, <3>2, CipherOneToOne, AccountsAssumption DEF OneToOne
    <3> QED BY <3>1, <3>2
  <2> QED BY <1>2, <1>3, <2>5, <2>7 DEF Status
<1>4. CASE user \notin DOMAIN Accounts
  <2>1. ASSUME NEW i \in DOMAIN credentials_db, credentials_db[i].username = name
        PROVE  FALSE
    <3>1. PICK other \in DOMAIN Accounts : encrypt_buffer(Chars(other)) = name
      BY <2>1, AccountsAssumption DEF Ciphered
    <3>2. Chars(other) \in Bytes /\ other \in Names
      BY AccountsAssumption DEF Bytes, Names
    <3>3. other = user
      BY <1>1, <3>1, <3>2, CipherOneToOne, AccountsAssumption DEF OneToOne
    <3> QED BY <1>4, <3>3
  <2>2. entry = NoUser
    BY <2>1, NoEntry
  <2> QED BY <1>2, <1>4, <2>2 DEF Status
<1> QED BY <1>3, <1>4

(* The login reaches serverM, and its cipher text reaches serverC.         *)
LEMMA LoginArrives ==
    ASSUME NEW login \in Logins
    PROVE  /\ protocol_authentication_request_decode(
                  protocol_authentication_request_encode(Read(login))) = Read(login)
           /\ protocol_authentication_request_decode(
                  protocol_authentication_request_encode(Sent(login))) = Sent(login)
<1> DEFINE u == Chars(login.means[1])
           p == Chars(login.means[2])
<1>1. u \in Bytes /\ p \in Bytes /\ Len(u) <= 50 /\ Len(p) <= 50
  BY LoginType
<1>2. /\ encrypt_buffer(u) \in Bytes /\ encrypt_buffer(p) \in Bytes
      /\ Len(encrypt_buffer(u)) <= 50 /\ Len(encrypt_buffer(p)) <= 50
  BY <1>1, CipherType
<1>3. Read(login) = [username |-> u, password |-> p]
  BY LoginType
<1>4. Sent(login) = [username |-> encrypt_buffer(u), password |-> encrypt_buffer(p)]
  BY LoginType
<1> HIDE DEF u, p
<1> QED BY <1>1, <1>2, <1>3, <1>4, CredentialsArrive

(* Credentials that fit never make an empty message.                       *)
LEMMA CredentialsEncoded ==
    ASSUME NEW u \in Bytes, NEW p \in Bytes, Len(u) <= 50, Len(p) <= 50
    PROVE  protocol_authentication_request_encode([username |-> u, password |-> p]).type
              = "AUTH_REQUEST"
<1>1. Len(u) \in Nat /\ Len(p) \in Nat
  BY BytesType
<1>2. Len(u) \in Byte /\ Len(p) \in Byte
  BY <1>1, SmallIsByte
<1> DEFINE head == <<Len(u), Len(p)>>
<1>3. head \in Bytes /\ Len(head) = 2
  BY <1>2, TwoBytes
<1> HIDE DEF head
<1>4. head \o u \in Bytes /\ Len(head \o u) = 2 + Len(u)
  BY <1>3, Concat
<1>5. Len((head \o u) \o p) = 2 + Len(u) + Len(p)
  BY <1>4, Concat
<1>6. Len((head \o u) \o p) <= PayloadMax
  BY <1>1, <1>5 DEF PayloadMax
<1> QED BY <1>6 DEF protocol_authentication_request_encode, protocol_encode, head

-----------------------------------------------------------------------------
(* A login on its way, as an invariant of the specification.               *)

\* The verdict on the login that is under way.
DueStatus == Status(typed.login.means[1], typed.login.means[2])

LoginUnderWay ==
    typed.kind = "login" =>
        /\ typed.login \in Logins
        /\ at # "shown" => LongEnough(typed.login)
        /\ \/ /\ at = "serverM"
              /\ flight = protocol_authentication_request_encode(Read(typed.login))
           \/ /\ at = "serverC"
              /\ flight = protocol_authentication_request_encode(Sent(typed.login))
           \/ /\ at = "client"
              /\ flight = protocol_authentication_response_encode(FlagsOf(DueStatus))
           \/ /\ at = "shown"
              /\ VerdictIsRight

(* A message of a login is one, and is handed on as it is.                 *)
LEMMA LoginEncoded ==
    ASSUME NEW login \in Logins
    PROVE  /\ protocol_authentication_request_encode(Read(login)).type = "AUTH_REQUEST"
           /\ protocol_authentication_request_encode(Sent(login)).type = "AUTH_REQUEST"
<1> DEFINE u == Chars(login.means[1])
           p == Chars(login.means[2])
<1>1. u \in Bytes /\ p \in Bytes /\ Len(u) <= 50 /\ Len(p) <= 50
  BY LoginType
<1>2. /\ encrypt_buffer(u) \in Bytes /\ encrypt_buffer(p) \in Bytes
      /\ Len(encrypt_buffer(u)) <= 50 /\ Len(encrypt_buffer(p)) <= 50
  BY <1>1, CipherType
<1>3. Read(login) = [username |-> u, password |-> p]
  BY LoginType
<1>4. Sent(login) = [username |-> encrypt_buffer(u), password |-> encrypt_buffer(p)]
  BY LoginType
<1> HIDE DEF u, p
<1> QED BY <1>1, <1>2, <1>3, <1>4, CredentialsEncoded

LEMMA VerdictEncoded ==
    ASSUME NEW flag
    PROVE  /\ protocol_authentication_response_encode(flag).type = "AUTH_REPLY"
           /\ protocol_authentication_response_encode(flag).flags = flag
BY DEF protocol_authentication_response_encode, protocol_encode, PayloadMax

(* The bits of the flags tell the three verdicts apart (client.c 151-163). *)
LEMMA FlagsAreRead ==
    LET Kind(flags) == CASE Bit(flags, AUTH_FLAGS_SUCCESS) -> "welcome"
                         [] Bit(flags, AUTH_FLAGS_USER_NOT_FOUND) -> "no such user"
                         [] OTHER -> "wrong password"
    IN /\ Kind(FlagsOf("OK")) = "welcome"
       /\ Kind(FlagsOf("USER_NOT_FOUND")) = "no such user"
       /\ Kind(FlagsOf("PASSWORD_MISMATCH")) = "wrong password"
<1>1. /\ FlagsOf("OK") = 16 /\ FlagsOf("USER_NOT_FOUND") = 33
      /\ FlagsOf("PASSWORD_MISMATCH") = 34
  BY DEF FlagsOf, AUTH_FLAGS_SUCCESS, AUTH_FLAGS_FAILURE, AUTH_FLAGS_USER_NOT_FOUND,
     AUTH_FLAGS_PASSWORD_MISMATCH
<1> QED BY <1>1 DEF Bit, AUTH_FLAGS_SUCCESS, AUTH_FLAGS_USER_NOT_FOUND

LEMMA LoginStarts ==
    ASSUME NEW login \in Logins, authenticate_user(login)
    PROVE  LoginUnderWay'
<1> DEFINE message == protocol_authentication_request_encode(Read(login))
<1>1. /\ typed' = [kind |-> "login", login |-> login]
      /\ IF Accepted(Read(login).username) /\ Accepted(Read(login).password)
         THEN Hand(message, "serverM")
         ELSE shown' = Refused /\ at' = "shown"
  BY DEF authenticate_user, Read
<1>2. message # NoMessage
  BY LoginEncoded DEF NoMessage
<1> HIDE DEF message
<1>3. CASE LongEnough(login)
  <2>1. flight' = message /\ at' = "serverM"
    BY <1>1, <1>2, <1>3, LoginAccepted DEF Hand
  <2> QED BY <1>1, <1>3, <2>1 DEF LoginUnderWay, message
<1>4. CASE ~LongEnough(login)
  <2>1. at' = "shown" /\ shown'.kind = "refused"
    BY <1>1, <1>4, LoginAccepted DEF Refused
  <2>2. VerdictIsRight'
    BY <1>1, <1>4, <2>1 DEF VerdictIsRight, LongEnough
  <2> QED BY <1>1, <2>1, <2>2 DEF LoginUnderWay
<1> QED BY <1>3, <1>4

LEMMA LoginCiphered ==
    ASSUME LoginUnderWay, on_auth_request_received
    PROVE  LoginUnderWay'
<1> SUFFICES ASSUME typed'.kind = "login"
             PROVE  LoginUnderWay'
  BY DEF LoginUnderWay
<1>1. /\ at = "serverM" /\ UNCHANGED typed
      /\ Hand(protocol_authentication_request_encode(
                 database_credentials_encrypt(protocol_authentication_request_decode(flight))),
              "serverC")
  BY DEF on_auth_request_received
<1>2. PICK login \in Logins :
          login = typed.login /\ flight = protocol_authentication_request_encode(Read(login))
  BY <1>1 DEF LoginUnderWay
<1> DEFINE message == protocol_authentication_request_encode(Sent(login))
<1>3. Hand(message, "serverC") /\ message # NoMessage
  BY <1>1, <1>2, LoginArrives, LoginEncoded DEF Sent, NoMessage
<1> HIDE DEF message
<1>4. flight' = message /\ at' = "serverC"
  BY <1>3 DEF Hand
<1> QED BY <1>1, <1>2, <1>4 DEF LoginUnderWay, message

LEMMA LoginValidated ==
    ASSUME LoginUnderWay, handle_auth_request_validate
    PROVE  LoginUnderWay'
<1> SUFFICES ASSUME typed'.kind = "login"
             PROVE  LoginUnderWay'
  BY DEF LoginUnderWay
<1>1. /\ at = "serverC" /\ UNCHANGED typed
      /\ Hand(protocol_authentication_response_encode(FlagsOf(
                 database_credentials_validate(
                    credentials_db, protocol_authentication_request_decode(flight)))), "client")
  BY DEF handle_auth_request_validate
<1>2. PICK login \in Logins :
          login = typed.login /\ flight = protocol_authentication_request_encode(Sent(login))
  BY <1>1 DEF LoginUnderWay
<1>3. database_credentials_validate(credentials_db, protocol_authentication_request_decode(flight))
         = DueStatus
  BY <1>2, LoginArrives, ValidatedRight DEF DueStatus
<1> DEFINE message == protocol_authentication_response_encode(FlagsOf(DueStatus))
<1>4. Hand(message, "client") /\ message # NoMessage
  BY <1>1, <1>3, VerdictEncoded DEF NoMessage
<1>5. DueStatus' = DueStatus
  BY <1>1 DEF DueStatus
<1> HIDE DEF message
<1>6. flight' = message /\ at' = "client"
  BY <1>4 DEF Hand
<1> QED BY <1>1, <1>2, <1>5, <1>6 DEF LoginUnderWay, message

LEMMA LoginShown ==
    ASSUME LoginUnderWay, on_auth_result
    PROVE  LoginUnderWay'
<1> SUFFICES ASSUME typed'.kind = "login"
             PROVE  LoginUnderWay'
  BY DEF LoginUnderWay
<1> DEFINE flags == protocol_authentication_response_decode(flight)
<1>1. at = "client" /\ at' = "shown" /\ UNCHANGED typed
  BY DEF on_auth_result, Screen
<1>2. /\ typed.login \in Logins /\ LongEnough(typed.login)
      /\ flight = protocol_authentication_response_encode(FlagsOf(DueStatus))
  BY <1>1 DEF LoginUnderWay
<1>3. flags = FlagsOf(DueStatus)
  BY <1>2, VerdictEncoded DEF protocol_authentication_response_decode
<1>4. shown' = [kind |-> CASE Bit(flags, AUTH_FLAGS_SUCCESS) -> "welcome"
                           [] Bit(flags, AUTH_FLAGS_USER_NOT_FOUND) -> "no such user"
                           [] OTHER -> "wrong password"]
  BY DEF on_auth_result, Screen
<1> HIDE DEF flags
<1>5. shown'.kind = CASE DueStatus = "OK" -> "welcome"
                      [] DueStatus = "USER_NOT_FOUND" -> "no such user"
                      [] OTHER -> "wrong password"
  <2>1. DueStatus \in {"OK", "USER_NOT_FOUND", "PASSWORD_MISMATCH"}
    BY DEF DueStatus, Status
  <2>2. CASE DueStatus = "OK"
    BY <1>3, <1>4, <2>2, FlagsAreRead
  <2>3. CASE DueStatus = "USER_NOT_FOUND"
    BY <1>3, <1>4, <2>3, FlagsAreRead
  <2>4. CASE DueStatus = "PASSWORD_MISMATCH"
    BY <1>3, <1>4, <2>4, FlagsAreRead
  <2> QED BY <2>1, <2>2, <2>3, <2>4
<1>6. VerdictIsRight'
  BY <1>1, <1>2, <1>5 DEF VerdictIsRight, DueStatus, Status, LongEnough
<1> QED BY <1>1, <1>2, <1>6 DEF LoginUnderWay

(* No step of a query is taken while a login is under way.                 *)
LEMMA QueryIsNoLogin ==
    ASSUME LoginUnderWay,
           \/ on_course_lookup_info_request_received
           \/ \E server \in {"CS", "EE"} :
                 \/ handle_course_info_lookup_request(server)
                 \/ handle_course_detail_lookup_request(server)
           \/ multi_request_thread \/ single_course_code_handler
           \/ insert_to_end_of_linked_list \/ ThreadResponds
           \/ on_course_lookup_info \/ on_course_lookup_error \/ on_course_multi_lookup
    PROVE  LoginUnderWay'
<1>1. UNCHANGED typed
  BY DEF on_course_lookup_info_request_received, handle_course_info_lookup_request,
     handle_course_detail_lookup_request, multi_request_thread, single_course_code_handler,
     insert_to_end_of_linked_list, ThreadResponds, on_course_lookup_info,
     on_course_lookup_error, on_course_multi_lookup, Screen
<1>2. \/ at \in {"CS", "EE", "thread", "collect"}
      \/ at = "serverM" /\ flight.type # "AUTH_REQUEST"
      \/ at = "client" /\ flight.type # "AUTH_REPLY"
  BY DEF on_course_lookup_info_request_received, handle_course_info_lookup_request,
     handle_course_detail_lookup_request, multi_request_thread, single_course_code_handler,
     insert_to_end_of_linked_list, ThreadResponds, on_course_lookup_info,
     on_course_lookup_error, on_course_multi_lookup
<1>3. typed.kind # "login"
  <2> SUFFICES ASSUME typed.kind = "login" PROVE FALSE
    OBVIOUS
  <2>1. typed.login \in Logins
    BY DEF LoginUnderWay
  <2>2. at = "serverM" => flight.type = "AUTH_REQUEST"
    BY <2>1, LoginEncoded DEF LoginUnderWay
  <2>3. at = "client" => flight.type = "AUTH_REPLY"
    BY VerdictEncoded DEF LoginUnderWay
  <2> QED BY <1>2, <2>2, <2>3 DEF LoginUnderWay
<1> QED BY <1>1, <1>3 DEF LoginUnderWay

LEMMA LoginUnderWayKept ==
    ASSUME LoginUnderWay, [Next]_vars
    PROVE  LoginUnderWay'
<1>1. ASSUME NEW line \in Lines, NEW category \in Categories, send_request(line, category)
      PROVE  LoginUnderWay'
  <2>1. typed' = [kind |-> "query", line |-> line, category |-> category]
    BY <1>1 DEF send_request
  <2> QED BY <2>1 DEF LoginUnderWay
<1>2. CASE NextPrompt
  BY <1>2 DEF NextPrompt, Silence, LoginUnderWay
<1>3. CASE UNCHANGED vars
  BY <1>3 DEF vars, LoginUnderWay, DueStatus, VerdictIsRight
<1> QED BY <1>1, <1>2, <1>3, LoginStarts, LoginCiphered, LoginValidated, LoginShown,
           QueryIsNoLogin DEF Next

(* For any accounts, file and logins that fit each other, the screen shows *)
(* the verdict that the accounts in the clear give, after two encodings    *)
(* and two decodings, the cipher and the look-up in cipher text (client.c  *)
(* 151-163, serverM.c 51-76, database.c 97-157).                           *)
THEOREM VerdictsAreRight == Spec => []VerdictIsRight
<1>1. Init => LoginUnderWay
  BY DEF Init, Silence, LoginUnderWay
<1>2. LoginUnderWay /\ [Next]_vars => LoginUnderWay'
  BY LoginUnderWayKept
<1>3. LoginUnderWay => VerdictIsRight
  BY DEF LoginUnderWay, VerdictIsRight
<1> QED BY <1>1, <1>2, <1>3, PTL DEF Spec

-----------------------------------------------------------------------------
(* Induction over numbers, and lists that are joined from their parts.     *)

(* Every set of numbers has a least member: the induction of this module.  *)
LEMMA LeastMember ==
    ASSUME NEW S \in SUBSET Nat, S # {}
    PROVE  \E m \in S : \A k \in S : m <= k
<1> DEFINE R == {ss \in Nat \X Nat : ss[1] < ss[2]}
<1>1. IsWellFoundedOn(R, Nat)
  BY NatLessThanWellFounded DEF OpToRel
<1>2. PICK m \in S : \A k \in S : <<k, m>> \notin R
  <2> HIDE DEF R
  <2> QED BY <1>1, WFMin, Zenon
<1>3. \A k \in S : ~(k < m)
  BY <1>2
<1> QED BY <1>3

LEMMA UpTo ==
    ASSUME NEW S, NEW n \in Nat, 0 \in S, \A k \in 0 .. n - 1 : k \in S => k + 1 \in S
    PROVE  \A k \in 0 .. n : k \in S
<1> DEFINE T == {k \in 0 .. n : k \notin S}
<1> SUFFICES ASSUME T # {}
             PROVE  FALSE
  OBVIOUS
<1>1. T \in SUBSET Nat
  OBVIOUS
<1>2. PICK m \in T : \A k \in T : m <= k
  <2> HIDE DEF T
  <2> QED BY <1>1, LeastMember
<1>3. m # 0 /\ m - 1 \in 0 .. n - 1 /\ m - 1 \notin T
  BY <1>2
<1>4. m - 1 \in S
  BY <1>3
<1>5. (m - 1) + 1 \in S
  BY <1>3, <1>4
<1>6. (m - 1) + 1 = m
  BY <1>2
<1> QED BY <1>2, <1>5, <1>6

\* h[i] is what the first i texts make, one after the other.
Joins(h, parts, n) ==
    /\ h[1] = parts[1]
    /\ \A i \in 2 .. n : h[i] = h[i - 1] \o parts[i]

LEMMA Joined ==
    ASSUME NEW parts, NEW n \in Nat, \A i \in 1 .. n + 1 : parts[i] \in Bytes
    PROVE  \E h \in [1 .. n + 1 -> Bytes] : Joins(h, parts, n + 1)
<1> DEFINE S == {m \in Nat : m <= n => \E h \in [1 .. m + 1 -> Bytes] : Joins(h, parts, m + 1)}
<1>1. 0 \in S
  <2> DEFINE h == [i \in 1 .. 0 + 1 |-> parts[1]]
  <2>1. h \in [1 .. 0 + 1 -> Bytes]
    OBVIOUS
  <2>2. h[1] = parts[1] /\ 2 .. 0 + 1 = {}
    OBVIOUS
  <2>3. Joins(h, parts, 0 + 1)
    BY <2>2 DEF Joins
  <2> QED BY <2>1, <2>3
<1>2. ASSUME NEW m \in 0 .. n - 1, m \in S
      PROVE  m + 1 \in S
  <2>0. m \in Nat /\ n \in Nat /\ m <= n - 1
    OBVIOUS
  <2>1. PICK h \in [1 .. m + 1 -> Bytes] : Joins(h, parts, m + 1)
    BY <1>2
  <2> DEFINE g == [i \in 1 .. m + 2 |-> IF i = m + 2 THEN h[m + 1] \o parts[m + 2] ELSE h[i]]
  <2>2. h[m + 1] \in Bytes /\ parts[m + 2] \in Bytes
    BY <1>2, <2>1
  <2>3. h[m + 1] \o parts[m + 2] \in Bytes
    BY <2>2, Concat
  <2>4. g \in [1 .. m + 2 -> Bytes]
    BY <2>1, <2>3
  <2>5. g[1] = parts[1]
    BY <1>2, <2>1 DEF Joins
  <2>6. ASSUME NEW i \in 2 .. m + 2
        PROVE  g[i] = g[i - 1] \o parts[i]
    <3>1. CASE i = m + 2
      <4>1. i \in 1 .. m + 2 /\ i - 1 \in 1 .. m + 2 /\ i - 1 # m + 2 /\ i - 1 = m + 1
        BY <2>0, <3>1
      <4>2. g[i - 1] = h[i - 1]
        BY <4>1
      <4>3. g[i] = h[m + 1] \o parts[m + 2]
        BY <3>1, <4>1, Zenon
      <4> QED BY <3>1, <4>1, <4>2, <4>3
    <3>2. CASE i # m + 2
      <4>1. i \in 2 .. m + 1 /\ g[i] = h[i] /\ g[i - 1] = h[i - 1]
        BY <1>2, <3>2
      <4> QED BY <2>1, <4>1 DEF Joins
    <3> QED BY <3>1, <3>2
  <2>7. (m + 1) + 1 = m + 2 /\ m + 1 \in Nat
    BY <1>2
  <2> HIDE DEF g
  <2>8. Joins(g, parts, m + 2)
    BY <2>5, <2>6 DEF Joins
  <2>9. \E f \in [1 .. (m + 1) + 1 -> Bytes] : Joins(f, parts, (m + 1) + 1)
    BY <2>4, <2>7, <2>8
  <2> QED BY <2>7, <2>9
<1>3. n \in S
  <2> HIDE DEF S
  <2>1. \A k \in 0 .. n : k \in S
    BY <1>1, <1>2, UpTo
  <2> QED BY <2>1
<1> QED BY <1>3

LEMMA JoinedType ==
    ASSUME NEW parts, NEW n \in Nat, \A i \in 1 .. n : parts[i] \in Bytes, NEW h,
           Joins(h, parts, n)
    PROVE  \A i \in 1 .. n : h[i] \in Bytes
<1> DEFINE S == {m \in Nat : m \in 1 .. n => h[m] \in Bytes}
<1>1. 0 \in S
  OBVIOUS
<1>2. ASSUME NEW m \in 0 .. n - 1, m \in S
      PROVE  m + 1 \in S
  <2>1. parts[m + 1] \in Bytes
    BY <1>2
  <2>2. CASE m = 0
    BY <2>1, <2>2 DEF Joins
  <2>3. CASE m # 0
    <3>1. h[m] \in Bytes /\ m + 1 \in 2 .. n /\ (m + 1) - 1 = m
      BY <1>2, <2>3
    <3>2. h[m + 1] = h[m] \o parts[m + 1]
      BY <3>1 DEF Joins
    <3>3. h[m + 1] \in Bytes
      BY <2>1, <3>1, <3>2, Concat
    <3> QED BY <3>3
  <2> QED BY <2>2, <2>3
<1> HIDE DEF S
<1>3. \A k \in 0 .. n : k \in S
  BY <1>1, <1>2, UpTo
<1> QED BY <1>3 DEF S

(* What FlattenSeq makes of a sequence of texts, one text at a time.       *)
LEMMA Flattened ==
    ASSUME NEW parts \in Seq(Bytes), NEW n \in Nat \ {0}, n = Len(parts)
    PROVE  \E h : /\ Joins(h, parts, n)
                  /\ \A i \in 1 .. n : h[i] \in Bytes
                  /\ FlattenSeq(parts) = h[n]
<1>1. \A i \in 1 .. n : parts[i] \in Bytes
  BY ElementOfSeq
<1>2. PICK f \in [1 .. n -> Bytes] : Joins(f, parts, n)
  <2>1. PICK m \in Nat : n = m + 1
    <3>1. n - 1 \in Nat /\ n = (n - 1) + 1
      OBVIOUS
    <3> QED BY <3>1
  <2>2. \A i \in 1 .. m + 1 : parts[i] \in Bytes
    BY <1>1, <2>1
  <2>3. \E h \in [1 .. m + 1 -> Bytes] : Joins(h, parts, m + 1)
    BY <2>2, Joined
  <2> QED BY <2>1, <2>3
<1>3. f = [i \in 1 .. n |-> IF i = 1 THEN parts[i] ELSE f[i - 1] \o parts[i]]
  <2>1. ASSUME NEW i \in 1 .. n
        PROVE  f[i] = IF i = 1 THEN parts[i] ELSE f[i - 1] \o parts[i]
    <3>1. CASE i = 1
      BY <1>2, <3>1 DEF Joins
    <3>2. CASE i # 1
      <4>1. i \in 2 .. n
        BY <3>2
      <4>2. f[i] = f[i - 1] \o parts[i]
        BY <1>2, <4>1, Zenon DEF Joins
      <4> QED BY <3>2, <4>2
    <3> QED BY <3>1, <3>2
  <2>2. f = [i \in 1 .. n |-> f[i]]
    BY <1>2
  <2> QED BY <2>1, <2>2, Zenon
<1>4. f = [i \in 1 .. Len(parts) |-> IF i = 1 THEN parts[i] ELSE f[i - 1] \o parts[i]]
  BY <1>3
<1>5. Len(parts) # 0
  OBVIOUS
<1>6. PICK h : /\ FlattenSeq(parts) = h[Len(parts)]
               /\ h = [i \in 1 .. Len(parts) |-> IF i = 1 THEN parts[i] ELSE h[i - 1] \o parts[i]]
  <2>1. FlattenSeq(parts)
           = (CHOOSE h : h = [i \in 1 .. Len(parts) |->
                                 IF i = 1 THEN parts[i] ELSE h[i - 1] \o parts[i]])[Len(parts)]
    BY <1>5, Zenon DEF FlattenSeq
  <2> QED BY <1>4, <2>1, Zenon
<1>7. h = [i \in 1 .. n |-> IF i = 1 THEN parts[i] ELSE h[i - 1] \o parts[i]]
  BY <1>6
<1>8. Joins(h, parts, n)
  <2>1. 1 \in 1 .. n /\ \A i \in 2 .. n : i \in 1 .. n /\ i # 1
    OBVIOUS
  <2>2. \A i \in 1 .. n : h[i] = IF i = 1 THEN parts[i] ELSE h[i - 1] \o parts[i]
    BY <1>7, Zenon
  <2>3. h[1] = parts[1]
    BY <2>1, <2>2, Zenon
  <2>4. ASSUME NEW i \in 2 .. n
        PROVE  h[i] = h[i - 1] \o parts[i]
    BY <2>1, <2>2, Zenon
  <2> QED BY <2>3, <2>4 DEF Joins
<1>9. \A i \in 1 .. n : h[i] \in Bytes
  BY <1>1, <1>8, JoinedType
<1> QED BY <1>6, <1>8, <1>9

-----------------------------------------------------------------------------
(* Where the parts of a joined list lie.                                   *)

(* A text stands in another from the i-th byte on.                         *)
Lies(s, i, t) ==
    /\ i \in Nat \ {0} /\ i + Len(t) <= Len(s) + 1
    /\ \A k \in 1 .. Len(t) : s[(i - 1) + k] = t[k]

LEMMA LiesFirst ==
    ASSUME NEW s \in Bytes
    PROVE  Lies(s, 1, s)
<1>1. Len(s) \in Nat
  BY BytesType
<1> QED BY <1>1 DEF Lies

LEMMA LiesStill ==
    ASSUME NEW s \in Bytes, NEW z \in Bytes, NEW t \in Bytes, NEW i, Lies(s, i, t)
    PROVE  Lies(s \o z, i, t)
<1>1. Len(t) \in Nat /\ Len(s) \in Nat /\ Len(z) \in Nat
  BY BytesType
<1>2. /\ Len(s \o z) = Len(s) + Len(z)
      /\ \A j \in 1 .. Len(s) + Len(z) : (s \o z)[j] = IF j <= Len(s) THEN s[j] ELSE z[j - Len(s)]
  BY Concat
<1>3. i \in Nat \ {0} /\ i + Len(t) <= Len(s) + 1
  BY DEF Lies
<1>4. ASSUME NEW k \in 1 .. Len(t)
      PROVE  (s \o z)[(i - 1) + k] = t[k]
  <2>1. (i - 1) + k \in 1 .. Len(s) + Len(z) /\ (i - 1) + k <= Len(s)
    BY <1>1, <1>3
  <2>2. s[(i - 1) + k] = t[k]
    BY DEF Lies
  <2> QED BY <1>2, <2>1, <2>2
<1> QED BY <1>1, <1>2, <1>3, <1>4 DEF Lies

LEMMA LiesLast ==
    ASSUME NEW s \in Bytes, NEW t \in Bytes
    PROVE  Lies(s \o t, Len(s) + 1, t)
<1>1. Len(t) \in Nat /\ Len(s) \in Nat
  BY BytesType
<1>2. /\ Len(s \o t) = Len(s) + Len(t)
      /\ \A j \in 1 .. Len(s) + Len(t) : (s \o t)[j] = IF j <= Len(s) THEN s[j] ELSE t[j - Len(s)]
  BY Concat
<1>3. ASSUME NEW k \in 1 .. Len(t)
      PROVE  (s \o t)[((Len(s) + 1) - 1) + k] = t[k]
  <2>1. /\ ((Len(s) + 1) - 1) + k \in 1 .. Len(s) + Len(t)
        /\ ~(((Len(s) + 1) - 1) + k <= Len(s))
        /\ (((Len(s) + 1) - 1) + k) - Len(s) = k
    BY <1>1
  <2> QED BY <1>2, <2>1
<1> QED BY <1>1, <1>2, <1>3 DEF Lies

\* The places where the parts of a list begin.
Begins(start, first, parts, n) ==
    /\ start[1] = first
    /\ \A j \in 1 .. n : start[j + 1] = start[j] + Len(parts[j])

(* The parts of a list lie one after the other behind what is before them. *)
LEMMA ListLies ==
    ASSUME NEW front \in Bytes, NEW parts \in Seq(Bytes), NEW n \in Nat \ {0}, n = Len(parts)
    PROVE  LET whole == front \o FlattenSeq(parts)
           IN /\ whole \in Bytes
              /\ Lies(whole, 1, front)
              /\ \E start \in [1 .. n + 1 -> Nat] :
                    /\ Begins(start, Len(front) + 1, parts, n)
                    /\ start[n + 1] = Len(whole) + 1
                    /\ \A j \in 1 .. n : Lies(whole, start[j], parts[j])
<1>1. PICK h : /\ Joins(h, parts, n)
               /\ \A i \in 1 .. n : h[i] \in Bytes
               /\ FlattenSeq(parts) = h[n]
  BY Flattened
<1>2. \A i \in 1 .. n : parts[i] \in Bytes
  BY ElementOfSeq
<1>3. h[1] = parts[1]
  BY <1>1 DEF Joins
<1>4. ASSUME NEW m \in 1 .. n, m # n
      PROVE  /\ m + 1 \in 1 .. n
             /\ front \o h[m + 1] = (front \o h[m]) \o parts[m + 1]
             /\ front \o h[m] \in Bytes
             /\ Len(front \o h[m + 1]) = Len(front \o h[m]) + Len(parts[m + 1])
  <2>1. m + 1 \in 2 .. n /\ m + 1 \in 1 .. n /\ (m + 1) - 1 = m
    BY <1>4
  <2>2. h[m + 1] = h[m] \o parts[m + 1]
    BY <1>1, <2>1 DEF Joins
  <2>3. PICK x \in Bytes, y \in Bytes : x = h[m] /\ y = parts[m + 1]
    BY <1>1, <1>2, <2>1
  <2>4. front \o (x \o y) = (front \o x) \o y
    <3>1. front \in Seq(Byte) /\ x \in Seq(Byte) /\ y \in Seq(Byte)
      BY DEF Bytes
    <3>2. (front \o x) \o y = front \o (x \o y)
      BY <3>1, ConcatAssociative
    <3> QED BY <3>2
  <2>5. front \o x \in Bytes
    BY Concat
  <2>6. Len((front \o x) \o y) = Len(front \o x) + Len(y)
    BY <2>5, Concat
  <2> QED BY <2>1, <2>2, <2>3, <2>4, <2>5, <2>6
<1> DEFINE start == [j \in 1 .. n + 1 |-> IF j = 1 THEN Len(front) + 1 ELSE Len(front \o h[j - 1]) + 1]
<1>5. ASSUME NEW m \in 1 .. n
      PROVE  /\ front \o h[m] \in Bytes
             /\ start[m + 1] = Len(front \o h[m]) + 1
             /\ start[m + 1] \in Nat
  <2>1. front \o h[m] \in Bytes
    <3>1. PICK x \in Bytes : x = h[m]
      BY <1>1
    <3> QED BY <3>1, Concat
  <2>2. m + 1 \in 1 .. n + 1 /\ m + 1 # 1 /\ (m + 1) - 1 = m
    OBVIOUS
  <2>3. start[m + 1] = Len(front \o h[m]) + 1
    BY <2>2
  <2> QED BY <2>1, <2>3, BytesType
<1>6. start[1] = Len(front) + 1
  OBVIOUS
<1>7. start \in [1 .. n + 1 -> Nat]
  <2>1. Len(front) + 1 \in Nat
    BY BytesType
  <2>2. ASSUME NEW j \in 1 .. n + 1
        PROVE  start[j] \in Nat
    <3>1. CASE j = 1
      BY <1>6, <2>1, <3>1
    <3>2. CASE j # 1
      <4>1. j - 1 \in 1 .. n /\ (j - 1) + 1 = j
        BY <3>2
      <4>2. start[(j - 1) + 1] \in Nat
        BY <1>5, <4>1
      <4> QED BY <4>1, <4>2
    <3> QED BY <3>1, <3>2
  <2>3. start = [j \in 1 .. n + 1 |-> start[j]]
    OBVIOUS
  <2> HIDE DEF start
  <2> QED BY <2>2, <2>3
<1>8. ASSUME NEW j \in 1 .. n
      PROVE  start[j + 1] = start[j] + Len(parts[j])
  <2>1. CASE j = 1
    <3>1. PICK y \in Bytes : y = parts[1] /\ h[1] = y
      BY <1>2, <1>3, <2>1
    <3>2. Len(front \o y) = Len(front) + Len(y) /\ Len(front) \in Nat /\ Len(y) \in Nat
      BY Concat, BytesType
    <3>3. start[1 + 1] = Len(front \o y) + 1
      BY <1>5, <2>1, <3>1
    <3> QED BY <1>6, <2>1, <3>1, <3>2, <3>3
  <2>2. CASE j # 1
    <3>1. PICK m \in 1 .. n : j = m + 1 /\ m # n
      <4>1. j - 1 \in 1 .. n /\ j = (j - 1) + 1 /\ j - 1 # n
        BY <2>2
      <4> QED BY <4>1
    <3>2. PICK l \in Nat, k \in Nat : l = Len(front \o h[m]) /\ k = Len(parts[j])
      BY <1>2, <1>5, BytesType
    <3>3. Len(front \o h[j]) = l + k
      <4>1. Len(front \o h[m + 1]) = Len(front \o h[m]) + Len(parts[m + 1])
        BY <1>4, <3>1, Zenon
      <4> QED BY <3>1, <3>2, <4>1, Zenon
    <3>4. start[j + 1] = (l + k) + 1
      BY <1>5, <3>3
    <3>5. start[j] = l + 1
      BY <1>5, <3>1, <3>2
    <3>6. (l + k) + 1 = (l + 1) + k
      OBVIOUS
    <3> QED BY <3>2, <3>4, <3>5, <3>6, Zenon
  <2> QED BY <2>1, <2>2
<1> HIDE DEF start
<1>9. Begins(start, Len(front) + 1, parts, n)
  BY <1>6, <1>8 DEF Begins
<1> DEFINE Stand(m) == /\ Lies(front \o h[m], 1, front)
                       /\ \A j \in 1 .. m : Lies(front \o h[m], start[j], parts[j])
           S == {m \in Nat : m \in 1 .. n => Stand(m)}
<1>10. 0 \in S
  OBVIOUS
<1>11. ASSUME NEW m \in 0 .. n - 1, m \in S
       PROVE  m + 1 \in S
  <2>1. CASE m = 0
    <3>1. PICK y \in Bytes : y = parts[1] /\ h[1] = y
      BY <1>2, <1>3
    <3>2. Lies(front \o y, 1, front)
      BY LiesFirst, LiesStill
    <3>3. Lies(front \o y, start[1], y)
      BY <1>6, LiesLast
    <3>4. Stand(1)
      BY <3>1, <3>2, <3>3
    <3> QED BY <2>1, <3>4
  <2>2. CASE m # 0
    <3>1. m \in 1 .. n /\ m # n /\ m + 1 \in 1 .. n
      BY <2>2
    <3>2. /\ front \o h[m + 1] = (front \o h[m]) \o parts[m + 1]
          /\ front \o h[m] \in Bytes
      BY <1>4, <3>1
    <3>3. PICK x \in Bytes, y \in Bytes :
              /\ x = front \o h[m] /\ y = parts[m + 1] /\ front \o h[m + 1] = x \o y
      BY <1>2, <3>1, <3>2
    <3>4. Stand(m)
      BY <1>11, <3>1
    <3>5. Lies(x \o y, 1, front)
      BY <3>3, <3>4, LiesStill
    <3>6. ASSUME NEW j \in 1 .. m + 1
          PROVE  Lies(x \o y, start[j], parts[j])
      <4>1. CASE j = m + 1
        <5>1. start[m + 1] = Len(x) + 1
          BY <1>5, <3>1, <3>3
        <5>2. Lies(x \o y, Len(x) + 1, y)
          BY LiesLast
        <5> QED BY <3>3, <4>1, <5>1, <5>2
      <4>2. CASE j # m + 1
        <5>1. j \in 1 .. m /\ j \in 1 .. n
          BY <3>1, <4>2
        <5>2. Lies(x, start[j], parts[j]) /\ parts[j] \in Bytes
          BY <1>2, <3>3, <3>4, <5>1
        <5> QED BY <5>2, LiesStill
      <4> QED BY <4>1, <4>2
    <3>7. Stand(m + 1)
      BY <3>3, <3>5, <3>6
    <3> QED BY <3>1, <3>7
  <2> QED BY <2>1, <2>2
<1>12. Stand(n)
  <2>1. n \in S
    <3> HIDE DEF S
    <3>1. \A k \in 0 .. n : k \in S
      BY <1>10, <1>11, UpTo
    <3> QED BY <3>1
  <2> HIDE DEF Stand
  <2> QED BY <2>1
<1>13. n \in 1 .. n /\ start[n + 1] = Len(front \o h[n]) + 1 /\ front \o h[n] \in Bytes
  BY <1>5
<1> QED BY <1>1, <1>7, <1>9, <1>12, <1>13

LEMMA SameFunction ==
    ASSUME NEW n \in Nat, NEW f, NEW g, n # 0 => f[1] = g[1],
           \A i \in 1 .. n - 1 : f[i] = g[i] => f[i + 1] = g[i + 1]
    PROVE  \A i \in 1 .. n : f[i] = g[i]
<1> DEFINE S == {m \in Nat : m \in 1 .. n => f[m] = g[m]}
<1>1. 0 \in S
  OBVIOUS
<1>2. ASSUME NEW m \in 0 .. n - 1, m \in S
      PROVE  m + 1 \in S
  BY <1>2
<1> HIDE DEF S
<1>3. \A k \in 0 .. n : k \in S
  BY <1>1, <1>2, UpTo
<1> QED BY <1>3 DEF S

-----------------------------------------------------------------------------
(* The codes of a query.                                                   *)

LEMMA LiesHolds ==
    ASSUME NEW s \in Bytes, NEW t \in Bytes, NEW i, Len(t) <= 255, Lies(s, i, Part(t))
    PROVE  Holds(s, i, t)
<1>1. Len(t) \in Nat /\ Len(s) \in Nat
  BY BytesType
<1>2. /\ Len(Part(t)) = 1 + Len(t) /\ Part(t)[1] = Len(t)
      /\ \A k \in 1 .. Len(t) : Part(t)[1 + k] = t[k]
  BY PartType
<1>3. /\ i \in Nat \ {0} /\ i + (1 + Len(t)) <= Len(s) + 1
      /\ \A k \in 1 .. 1 + Len(t) : s[(i - 1) + k] = Part(t)[k]
  BY <1>2 DEF Lies
<1>4. s[i] = Len(t)
  <2>1. 1 \in 1 .. 1 + Len(t) /\ (i - 1) + 1 = i
    BY <1>1, <1>3
  <2> QED BY <1>2, <1>3, <2>1
<1>5. ASSUME NEW k \in 1 .. Len(t)
      PROVE  s[i + k] = t[k]
  <2>1. 1 + k \in 1 .. 1 + Len(t) /\ (i - 1) + (1 + k) = i + k
    BY <1>1, <1>3
  <2> QED BY <1>2, <1>3, <2>1
<1>6. i \in 1 .. Len(s) /\ i + Len(t) <= Len(s)
  BY <1>1, <1>3
<1> QED BY <1>4, <1>5, <1>6 DEF Holds

\* What the decoder of a list of codes makes of the bytes it copied.
CodesIn(s, stale) ==
    [n \in 1 .. ByteAt(s, stale, 1) |-> PartAt(s, stale, CodePlaces(s, stale, ByteAt(s, stale, 1))[n])]

LEMMA CodesDecoded ==
    ASSUME NEW m, NEW stale
    PROVE  protocol_courses_lookup_multiple_request_decode(m, stale)
              = CodesIn(protocol_decode(m, DecodeBuffer), stale)
BY Zenon DEF protocol_courses_lookup_multiple_request_decode, CodesIn

CodesFollow(start, s, stale, n) ==
    /\ start[1] = 2
    /\ \A j \in 1 .. n - 1 : start[j + 1] = NextPart(s, stale, start[j])

CodesFoundAt(start, s, stale, n) ==
    \A j \in 1 .. n : CodePlaces(s, stale, n)[j] = start[j]

(* Places that follow from each other are the ones the decoder finds.      *)
LEMMA CodePlacesFollow ==
    ASSUME NEW s, NEW stale, NEW n \in Nat \ {0}, NEW start, CodesFollow(start, s, stale, n)
    PROVE  CodesFoundAt(start, s, stale, n)
<1> DEFINE Follows(g) ==
             g = [m \in 1 .. n |-> IF m = 1 THEN 2 ELSE NextPart(s, stale, g[m - 1])]
           own == [m \in 1 .. n |-> start[m]]
<1>1. Follows(own)
  <2>1. ASSUME NEW m \in 1 .. n
        PROVE  start[m] = IF m = 1 THEN 2 ELSE NextPart(s, stale, own[m - 1])
    <3>1. CASE m = 1
      BY <3>1 DEF CodesFollow
    <3>2. CASE m # 1
      <4>1. m - 1 \in 1 .. n - 1 /\ m - 1 \in 1 .. n /\ (m - 1) + 1 = m
        BY <3>2
      <4>2. start[(m - 1) + 1] = NextPart(s, stale, start[m - 1])
        BY <4>1 DEF CodesFollow
      <4>3. own[m - 1] = start[m - 1]
        BY <4>1
      <4> QED BY <3>2, <4>1, <4>2, <4>3
    <3> QED BY <3>1, <3>2
  <2> QED BY <2>1, Zenon
<1>2. PICK g : Follows(g) /\ CodePlaces(s, stale, n) = g
  <2>1. CodePlaces(s, stale, n) = CHOOSE g : Follows(g)
    BY Zenon DEF CodePlaces
  <2> HIDE DEF Follows
  <2> QED BY <1>1, <2>1, Zenon
<1>3. \A m \in 1 .. n : g[m] = IF m = 1 THEN 2 ELSE NextPart(s, stale, g[m - 1])
  BY <1>2, Zenon
<1>4. g[1] = start[1]
  <2>1. 1 \in 1 .. n
    OBVIOUS
  <2> QED BY <1>3, <2>1, Zenon DEF CodesFollow
<1>5. ASSUME NEW i \in 1 .. n - 1, g[i] = start[i]
      PROVE  g[i + 1] = start[i + 1]
  <2>1. i + 1 \in 1 .. n /\ i + 1 # 1 /\ (i + 1) - 1 = i
    OBVIOUS
  <2>2. g[i + 1] = NextPart(s, stale, g[(i + 1) - 1])
    BY <1>3, <2>1, Zenon
  <2>3. start[i + 1] = NextPart(s, stale, start[i])
    BY DEF CodesFollow
  <2> QED BY <1>5, <2>1, <2>2, <2>3
<1>6. \A i \in 1 .. n : g[i] = start[i]
  BY <1>4, <1>5, SameFunction
<1> QED BY <1>2, <1>6, Zenon DEF CodesFoundAt

(* The codes that serverM's thread decodes are those the client cut out of *)
(* the line, in their order, empty ones too, when they fit the buffer of   *)
(* 128 bytes (protocol.c 296-355).                                         *)
THEOREM CodesArrive ==
    ASSUME NEW line, NEW count \in Byte \ {0}, NEW stale,
           \A n \in 1 .. count : Word(line, n) \in Bytes /\ Len(Word(line, n)) <= 255,
           Len(FlattenSeq([n \in 1 .. count |-> Part(Word(line, n))])) < DecodeBuffer
    PROVE  protocol_courses_lookup_multiple_request_decode(
                protocol_courses_lookup_multiple_request_encode(count, line), stale)
              = [n \in 1 .. count |-> Word(line, n)]
<1> DEFINE parts == [n \in 1 .. count |-> Part(Word(line, n))]
           front == <<count>>
           whole == front \o FlattenSeq(parts)
<1>1. /\ count \in Nat \ {0} /\ front \in Bytes /\ Len(front) = 1 /\ front[1] = count
  <2>1. count \in Nat \ {0}
    BY DEF Byte
  <2> QED BY <2>1, OneByte
<1>2. \A n \in 1 .. count : Part(Word(line, n)) \in Bytes
  BY PartType
<1>3. parts \in Seq(Bytes) /\ Len(parts) = count
  BY <1>1, <1>2, IsASeq
<1>4. \A n \in 1 .. count : parts[n] = Part(Word(line, n))
  OBVIOUS
<1>5. PICK h : FlattenSeq(parts) = h[count] /\ h[count] \in Bytes
  <2> HIDE DEF parts
  <2>1. PICK h : (\A i \in 1 .. count : h[i] \in Bytes) /\ FlattenSeq(parts) = h[count]
    BY <1>1, <1>3, Flattened
  <2> QED BY <1>1, <2>1
<1>6. protocol_courses_lookup_multiple_request_encode(count, line)
         = protocol_encode("MULTI_REQUEST", 0, whole)
  BY Zenon DEF protocol_courses_lookup_multiple_request_encode
<1>7. Len(FlattenSeq(parts)) < DecodeBuffer
  OBVIOUS
<1> HIDE DEF parts, front
<1>8. /\ whole \in Bytes /\ Lies(whole, 1, front)
      /\ \E start \in [1 .. count + 1 -> Nat] :
            /\ Begins(start, Len(front) + 1, parts, count)
            /\ start[count + 1] = Len(whole) + 1
            /\ \A j \in 1 .. count : Lies(whole, start[j], parts[j])
  BY <1>1, <1>3, ListLies
<1>9. PICK start \in [1 .. count + 1 -> Nat] :
          /\ Begins(start, 2, parts, count)
          /\ \A j \in 1 .. count : Lies(whole, start[j], parts[j])
  <2>1. Len(front) + 1 = 2
    BY <1>1
  <2> HIDE DEF whole
  <2> QED BY <1>8, <2>1
<1>10. Len(whole) <= DecodeBuffer /\ Len(whole) <= PayloadMax /\ DecodeBuffer \in Nat
  <2>1. PICK x \in Bytes : x = FlattenSeq(parts) /\ Len(x) < DecodeBuffer /\ Len(x) \in Nat
    BY <1>5, <1>7, BytesType
  <2>2. Len(front \o x) = Len(front) + Len(x)
    BY <1>1, Concat
  <2>3. whole = front \o x
    BY <2>1
  <2> HIDE DEF whole
  <2> QED BY <1>1, <2>1, <2>2, <2>3 DEF DecodeBuffer, PayloadMax
<1>11. whole[1] = count /\ 1 \in DOMAIN whole
  <2>1. 1 \in 1 .. Len(front) /\ (1 - 1) + 1 = 1
    BY <1>1
  <2>2. 1 + Len(front) <= Len(whole) + 1 /\ whole[(1 - 1) + 1] = front[1]
    BY <1>8, <2>1 DEF Lies
  <2>3. Len(whole) \in Nat /\ DOMAIN whole = 1 .. Len(whole)
    BY <1>8, BytesType
  <2> HIDE DEF whole
  <2> QED BY <1>1, <2>1, <2>2, <2>3
<1> HIDE DEF whole
<1>12. protocol_decode(protocol_encode("MULTI_REQUEST", 0, whole), DecodeBuffer) = whole
  BY <1>8, <1>10, CopiedWhole
<1>13. ASSUME NEW j \in 1 .. count
       PROVE  /\ PartAt(whole, stale, start[j]) = Word(line, j)
              /\ start[j + 1] = NextPart(whole, stale, start[j])
  <2>1. PICK t \in Bytes : t = Word(line, j) /\ Len(t) <= 255 /\ parts[j] = Part(t)
    BY <1>4
  <2>2. Holds(whole, start[j], t)
    BY <1>8, <1>9, <2>1, LiesHolds
  <2>3. PartAt(whole, stale, start[j]) = t /\ NextPart(whole, stale, start[j]) = start[j] + 1 + Len(t)
    BY <1>8, <2>1, <2>2, PartIsRead
  <2>4. start[j + 1] = start[j] + (1 + Len(t))
    BY <1>9, <2>1, PartType DEF Begins
  <2>5. start[j] \in Nat /\ Len(t) \in Nat
    BY <1>1, BytesType
  <2> QED BY <2>1, <2>3, <2>4, <2>5
<1>14. \A j \in 1 .. count : CodePlaces(whole, stale, count)[j] = start[j]
  <2>1. start[1] = 2
    BY <1>9 DEF Begins
  <2>2. ASSUME NEW j \in 1 .. count - 1
        PROVE  start[j + 1] = NextPart(whole, stale, start[j])
    <3>1. j \in 1 .. count
      BY <1>1
    <3> QED BY <1>13, <3>1, Zenon
  <2>3. CodesFollow(start, whole, stale, count)
    BY <2>1, <2>2 DEF CodesFollow
  <2>4. CodesFoundAt(start, whole, stale, count)
    BY <1>1, <2>3, CodePlacesFollow
  <2> QED BY <2>4 DEF CodesFoundAt
<1>15. ByteAt(whole, stale, 1) = count
  BY <1>11 DEF ByteAt
<1>16. protocol_courses_lookup_multiple_request_decode(
           protocol_encode("MULTI_REQUEST", 0, whole), stale)
          = CodesIn(whole, stale)
  BY <1>12, CodesDecoded
<1>17. CodesIn(whole, stale)
          = [n \in 1 .. count |-> PartAt(whole, stale, CodePlaces(whole, stale, count)[n])]
  BY <1>15 DEF CodesIn
<1>18. \A n \in 1 .. count : PartAt(whole, stale, CodePlaces(whole, stale, count)[n]) = Word(line, n)
  BY <1>13, <1>14
<1> QED BY <1>6, <1>16, <1>17, <1>18

-----------------------------------------------------------------------------
(* The texts of a course.                                                  *)

CourseType == [code : Bytes, credits : Byte, professor : Bytes, days : Bytes, name : Bytes]

\* The lengths of the texts of a course, and where the texts begin when they
\* stand one after the other from the q-th byte on.
Sizes(c, i, j, k, l) ==
    Len(c.code) = i /\ Len(c.name) = j /\ Len(c.professor) = k /\ Len(c.days) = l

Stands(s, q, c, i, j, k, l) ==
    /\ Holds(s, q, c.code) /\ Holds(s, q + i + 1, c.name)
    /\ Holds(s, q + i + j + 2, c.professor) /\ Holds(s, q + i + j + k + 3, c.days)

LEMMA TextsHold ==
    ASSUME NEW c \in CourseType, NEW i \in Nat, NEW j \in Nat, NEW k \in Nat, NEW l \in Nat,
           Sizes(c, i, j, k, l), i + j + k + l <= 122
    PROVE  /\ Texts(c) \in Bytes /\ Len(Texts(c)) = i + j + k + l + 4
           /\ Stands(Texts(c), 1, c, i, j, k, l)
<1>1. PICK a \in Bytes, b \in Bytes, d \in Bytes, e \in Bytes :
          /\ a = c.code /\ b = c.name /\ d = c.professor /\ e = c.days
          /\ Len(a) = i /\ Len(b) = j /\ Len(d) = k /\ Len(e) = l
  BY DEF CourseType, Sizes
<1>2. /\ Len(a) = i /\ Len(b) = j /\ Len(d) = k /\ Len(e) = l
      /\ i <= 255 /\ j <= 255 /\ k <= 255 /\ l <= 255
  BY <1>1
<1> DEFINE p1 == Part(a)
           p2 == p1 \o Part(b)
           p3 == p2 \o Part(d)
           p4 == p3 \o Part(e)
<1>3. Part(b) \in Bytes /\ Part(d) \in Bytes /\ Part(e) \in Bytes
  BY <1>2, PartType
<1>4. p1 \in Bytes /\ Len(p1) = i + 1 /\ Holds(p1, 1, a)
  BY <1>2, PartType, HoldsFirst
<1>5. Texts(c) = p4
  BY <1>1 DEF Texts
<1> HIDE DEF p1
<1>6. p2 \in Bytes /\ Len(p2) = i + j + 2 /\ Holds(p2, i + 2, b)
  <2>1. i + 1 \in Nat /\ (i + 1) + 1 = i + 2 /\ (i + 1) + 1 + j = i + j + 2
    OBVIOUS
  <2> QED BY <1>2, <1>4, <2>1, HoldsNext
<1>7. Holds(p2, 1, a)
  BY <1>3, <1>4, HoldsStill
<1> HIDE DEF p2
<1>8. p3 \in Bytes /\ Len(p3) = i + j + k + 3 /\ Holds(p3, i + j + 3, d)
  <2>1. /\ i + j + 2 \in Nat /\ (i + j + 2) + 1 = i + j + 3
        /\ (i + j + 2) + 1 + k = i + j + k + 3
    OBVIOUS
  <2> QED BY <1>2, <1>6, <2>1, HoldsNext
<1>9. Holds(p3, 1, a) /\ Holds(p3, i + 2, b)
  BY <1>3, <1>6, <1>7, HoldsStill
<1> HIDE DEF p3
<1>10. p4 \in Bytes /\ Len(p4) = i + j + k + l + 4 /\ Holds(p4, i + j + k + 4, e)
  <2>1. /\ i + j + k + 3 \in Nat /\ (i + j + k + 3) + 1 = i + j + k + 4
        /\ (i + j + k + 3) + 1 + l = i + j + k + l + 4
    OBVIOUS
  <2> QED BY <1>2, <1>8, <2>1, HoldsNext
<1>11. Holds(p4, 1, a) /\ Holds(p4, i + 2, b) /\ Holds(p4, i + j + 3, d)
  BY <1>3, <1>8, <1>9, HoldsStill
<1> HIDE DEF p4
<1>12. 1 + i + 1 = i + 2 /\ 1 + i + j + 2 = i + j + 3 /\ 1 + i + j + k + 3 = i + j + k + 4
  OBVIOUS
<1> QED BY <1>1, <1>5, <1>10, <1>11, <1>12 DEF Stands

(* A course is read off its texts and the byte of its credits.             *)
LEMMA TextsAreRead ==
    ASSUME NEW s \in Bytes, NEW stale, NEW q \in Nat, NEW skip \in Nat, NEW c \in CourseType,
           NEW i \in Nat, NEW j \in Nat, NEW k \in Nat, NEW l \in Nat,
           Sizes(c, i, j, k, l), Stands(s, q, c, i, j, k, l),
           ByteAt(s, stale, q + i + j + k + l + 4 + skip) = c.credits
    PROVE  CourseAt(s, stale, q, skip) = c
<1>1. PICK a \in Bytes, b \in Bytes, d \in Bytes, e \in Bytes, credits \in Byte :
          /\ a = c.code /\ b = c.name /\ d = c.professor /\ e = c.days /\ credits = c.credits
          /\ Len(a) = i /\ Len(b) = j /\ Len(d) = k /\ Len(e) = l
  BY DEF CourseType, Sizes
<1>2. /\ Holds(s, q, a) /\ Holds(s, q + i + 1, b)
      /\ Holds(s, q + i + j + 2, d) /\ Holds(s, q + i + j + k + 3, e)
  BY <1>1 DEF Stands
<1>3. /\ Len(a) = i /\ Len(b) = j /\ Len(d) = k /\ Len(e) = l
      /\ q + i + 1 \in Nat /\ q + i + j + 2 \in Nat /\ q + i + j + k + 3 \in Nat
      /\ q + 1 + i = q + i + 1
      /\ (q + i + 1) + 1 + j = q + i + j + 2
      /\ (q + i + j + 2) + 1 + k = q + i + j + k + 3
      /\ (q + i + j + k + 3) + 1 + l = q + i + j + k + l + 4
  BY <1>1
<1>4. PartAt(s, stale, q) = a /\ NextPart(s, stale, q) = q + i + 1
  BY <1>2, <1>3, PartIsReadAt
<1>5. PartAt(s, stale, q + i + 1) = b /\ NextPart(s, stale, q + i + 1) = q + i + j + 2
  BY <1>2, <1>3, PartIsReadAt
<1>6. PartAt(s, stale, q + i + j + 2) = d /\ NextPart(s, stale, q + i + j + 2) = q + i + j + k + 3
  BY <1>2, <1>3, PartIsReadAt
<1>7. /\ PartAt(s, stale, q + i + j + k + 3) = e
      /\ NextPart(s, stale, q + i + j + k + 3) = q + i + j + k + l + 4
  BY <1>2, <1>3, PartIsReadAt
<1>8. CourseAt(s, stale, q, skip)
         = [code |-> a, name |-> b, professor |-> d, days |-> e, credits |-> credits]
  BY <1>1, <1>4, <1>5, <1>6, <1>7 DEF CourseAt
<1>9. c = [code |-> a, name |-> b, professor |-> d, days |-> e, credits |-> credits]
  BY <1>1 DEF CourseType
<1> QED BY <1>8, <1>9

LEMMA HoldsLater ==
    ASSUME NEW x \in Bytes, NEW t \in Bytes, NEW u \in Bytes, NEW i, Holds(t, i, u)
    PROVE  Holds(x \o t, Len(x) + i, u)
<1>1. Len(x) \in Nat /\ Len(t) \in Nat /\ Len(u) \in Nat
  BY BytesType
<1>2. /\ Len(x \o t) = Len(x) + Len(t)
      /\ \A j \in 1 .. Len(x) + Len(t) : (x \o t)[j] = IF j <= Len(x) THEN x[j] ELSE t[j - Len(x)]
  BY Concat
<1>3. i \in 1 .. Len(t) /\ i + Len(u) <= Len(t) /\ t[i] = Len(u)
  BY DEF Holds
<1>4. (x \o t)[Len(x) + i] = Len(u)
  <2>1. Len(x) + i \in 1 .. Len(x) + Len(t) /\ ~(Len(x) + i <= Len(x)) /\ (Len(x) + i) - Len(x) = i
    BY <1>1, <1>3
  <2> QED BY <1>2, <1>3, <2>1
<1>5. ASSUME NEW k \in 1 .. Len(u)
      PROVE  (x \o t)[(Len(x) + i) + k] = u[k]
  <2>1. /\ (Len(x) + i) + k \in 1 .. Len(x) + Len(t) /\ ~((Len(x) + i) + k <= Len(x))
        /\ ((Len(x) + i) + k) - Len(x) = i + k
    BY <1>1, <1>3
  <2>2. t[i + k] = u[k]
    BY DEF Holds
  <2> QED BY <1>2, <2>1, <2>2
<1>6. Len(x) + i \in 1 .. Len(x \o t) /\ (Len(x) + i) + Len(u) <= Len(x \o t)
  BY <1>1, <1>2, <1>3
<1> QED BY <1>4, <1>5, <1>6 DEF Holds

LEMMA HoldsInside ==
    ASSUME NEW s \in Bytes, NEW r \in Bytes, NEW u \in Bytes, NEW q, NEW i,
           Lies(s, q, r), Holds(r, i, u)
    PROVE  Holds(s, (q - 1) + i, u)
<1>1. Len(s) \in Nat /\ Len(r) \in Nat /\ Len(u) \in Nat
  BY BytesType
<1>2. /\ q \in Nat \ {0} /\ q + Len(r) <= Len(s) + 1
      /\ \A k \in 1 .. Len(r) : s[(q - 1) + k] = r[k]
  BY DEF Lies
<1>3. i \in 1 .. Len(r) /\ i + Len(u) <= Len(r) /\ r[i] = Len(u)
  BY DEF Holds
<1>4. s[(q - 1) + i] = Len(u)
  BY <1>2, <1>3
<1>5. ASSUME NEW k \in 1 .. Len(u)
      PROVE  s[((q - 1) + i) + k] = u[k]
  <2>1. i + k \in 1 .. Len(r) /\ (q - 1) + (i + k) = ((q - 1) + i) + k
    BY <1>1, <1>2, <1>3
  <2>2. r[i + k] = u[k]
    BY DEF Holds
  <2> QED BY <1>2, <2>1, <2>2
<1>6. (q - 1) + i \in 1 .. Len(s) /\ ((q - 1) + i) + Len(u) <= Len(s)
  BY <1>1, <1>2, <1>3
<1> QED BY <1>4, <1>5, <1>6 DEF Holds
LEMMA StandsStill ==
    ASSUME NEW s \in Bytes, NEW z \in Bytes, NEW q, NEW c \in CourseType,
           NEW i, NEW j, NEW k, NEW l, Stands(s, q, c, i, j, k, l)
    PROVE  Stands(s \o z, q, c, i, j, k, l)
<1>1. c.code \in Bytes /\ c.name \in Bytes /\ c.professor \in Bytes /\ c.days \in Bytes
  BY DEF CourseType
<1> QED BY <1>1, HoldsStill DEF Stands

LEMMA StandsLater ==
    ASSUME NEW x \in Bytes, NEW t \in Bytes, NEW n \in Nat, Len(x) = n, NEW q \in Nat,
           NEW c \in CourseType, NEW i \in Nat, NEW j \in Nat, NEW k \in Nat, NEW l \in Nat,
           Stands(t, q, c, i, j, k, l)
    PROVE  Stands(x \o t, n + q, c, i, j, k, l)
<1>1. c.code \in Bytes /\ c.name \in Bytes /\ c.professor \in Bytes /\ c.days \in Bytes
  BY DEF CourseType
<1>2. /\ n + (q + i + 1) = (n + q) + i + 1 /\ n + (q + i + j + 2) = (n + q) + i + j + 2
      /\ n + (q + i + j + k + 3) = (n + q) + i + j + k + 3
  OBVIOUS
<1>3. ASSUME NEW u \in Bytes, NEW p, Holds(t, p, u)
      PROVE  Holds(x \o t, n + p, u)
  BY <1>3, HoldsLater
<1>4. /\ Holds(x \o t, n + q, c.code) /\ Holds(x \o t, n + (q + i + 1), c.name)
      /\ Holds(x \o t, n + (q + i + j + 2), c.professor)
      /\ Holds(x \o t, n + (q + i + j + k + 3), c.days)
  BY <1>1, <1>3 DEF Stands
<1> QED BY <1>2, <1>4 DEF Stands

LEMMA StandsInside ==
    ASSUME NEW s \in Bytes, NEW r \in Bytes, NEW n \in Nat, Lies(s, n + 1, r), NEW q \in Nat,
           NEW c \in CourseType, NEW i \in Nat, NEW j \in Nat, NEW k \in Nat, NEW l \in Nat,
           Stands(r, q, c, i, j, k, l)
    PROVE  Stands(s, n + q, c, i, j, k, l)
<1>1. c.code \in Bytes /\ c.name \in Bytes /\ c.professor \in Bytes /\ c.days \in Bytes
  BY DEF CourseType
<1>2. /\ n + (q + i + 1) = (n + q) + i + 1 /\ n + (q + i + j + 2) = (n + q) + i + j + 2
      /\ n + (q + i + j + k + 3) = (n + q) + i + j + k + 3 /\ (n + 1) - 1 = n
  OBVIOUS
<1>3. ASSUME NEW u \in Bytes, NEW p, Holds(r, p, u)
      PROVE  Holds(s, n + p, u)
  BY <1>2, <1>3, HoldsInside
<1>4. /\ Holds(s, n + q, c.code) /\ Holds(s, n + (q + i + 1), c.name)
      /\ Holds(s, n + (q + i + j + 2), c.professor)
      /\ Holds(s, n + (q + i + j + k + 3), c.days)
  BY <1>1, <1>3 DEF Stands
<1> QED BY <1>2, <1>4 DEF Stands

LEMMA JoinLength ==
    ASSUME NEW s \in Seq(Nat), NEW t \in Seq(Nat)
    PROVE  s \o t \in Seq(Nat) /\ Len(s \o t) = Len(s) + Len(t)
BY ConcatProperties

LEMMA BytesAreNumbers == ASSUME NEW s \in Bytes PROVE s \in Seq(Nat)
<1>1. Len(s) \in Nat /\ s \in [1 .. Len(s) -> Byte] /\ Byte \subseteq Nat
  BY BytesType DEF Byte
<1>2. s \in [1 .. Len(s) -> Nat]
  BY <1>1
<1> QED BY <1>1, <1>2, IsASeq

LEMMA PartIsLonger ==
    ASSUME NEW t \in Bytes
    PROVE  Len(t) \in Nat /\ Part(t) \in Seq(Nat) /\ Len(Part(t)) = 1 + Len(t)
<1>1. Len(t) \in Nat
  BY BytesType
<1>2. <<Len(t)>> \in Seq(Nat) /\ Len(<<Len(t)>>) = 1
  BY <1>1
<1>3. PICK one \in Seq(Nat) : one = <<Len(t)>> /\ Len(one) = 1
  BY <1>2
<1>4. one \o t \in Seq(Nat) /\ Len(one \o t) = Len(one) + Len(t)
  BY BytesAreNumbers, JoinLength
<1>5. Part(t) = one \o t
  BY <1>3, Zenon DEF Part
<1> QED BY <1>1, <1>3, <1>4, <1>5

(* Four texts that are short together are short one by one.                *)
LEMMA TextsLength ==
    ASSUME NEW c \in CourseType, Len(Texts(c)) <= 126
    PROVE  \E i, j, k, l \in Nat : Sizes(c, i, j, k, l) /\ i + j + k + l <= 122
<1>1. PICK a \in Bytes, b \in Bytes, d \in Bytes, e \in Bytes :
          a = c.code /\ b = c.name /\ d = c.professor /\ e = c.days
  BY DEF CourseType
<1>2. PICK i \in Nat, j \in Nat, k \in Nat, l \in Nat :
          i = Len(a) /\ j = Len(b) /\ k = Len(d) /\ l = Len(e)
  BY BytesType
<1>3. PICK w \in Seq(Nat), x \in Seq(Nat), y \in Seq(Nat), z \in Seq(Nat) :
          w = Part(a) /\ x = Part(b) /\ y = Part(d) /\ z = Part(e)
  BY PartIsLonger
<1>4. Len(w) = 1 + i /\ Len(x) = 1 + j /\ Len(y) = 1 + k /\ Len(z) = 1 + l
  BY <1>2, <1>3, PartIsLonger
<1>5. w \o x \in Seq(Nat) /\ Len(w \o x) = Len(w) + Len(x)
  BY JoinLength
<1>6. (w \o x) \o y \in Seq(Nat) /\ Len((w \o x) \o y) = Len(w \o x) + Len(y)
  BY <1>5, JoinLength
<1>7. Len(((w \o x) \o y) \o z) = Len((w \o x) \o y) + Len(z)
  BY <1>6, JoinLength
<1>8. Texts(c) = ((w \o x) \o y) \o z
  BY <1>1, <1>3, Zenon DEF Texts
<1>9. i + j + k + l <= 122
  BY <1>4, <1>5, <1>6, <1>7, <1>8
<1>10. Sizes(c, i, j, k, l)
  BY <1>1, <1>2 DEF Sizes
<1> QED BY <1>9, <1>10

LEMMA CreditsKept ==
    ASSUME NEW c \in CourseType
    PROVE  c.credits \in Byte /\ CreditsByte(c) = c.credits
<1>1. PICK n \in Byte : n = c.credits
  BY DEF CourseType
<1>2. n % 256 = n
  BY DEF Byte
<1> QED BY <1>1, <1>2 DEF CreditsByte

(* A row of a list: its length, the texts of the course, its credits.      *)
LEMMA RowType ==
    ASSUME NEW c \in CourseType, NEW i \in Nat, NEW j \in Nat, NEW k \in Nat, NEW l \in Nat,
           Sizes(c, i, j, k, l), i + j + k + l <= 122
    PROVE  LET row == course_details_encode(c)
               n   == i + j + k + l + 6
           IN /\ row \in Bytes /\ Len(row) = n
              /\ row[1] = n /\ row[n] = c.credits
              /\ Stands(row, 2, c, i, j, k, l)
<1>1. PICK n \in Nat : n = i + j + k + l + 4
  OBVIOUS
<1>2. PICK texts \in Bytes :
          texts = Texts(c) /\ Len(texts) = n /\ Stands(texts, 1, c, i, j, k, l)
  BY <1>1, TextsHold
<1>3. c.credits \in Byte /\ CreditsByte(c) = c.credits
  BY CreditsKept
<1>4. PICK z \in Bytes : z = <<CreditsByte(c)>> /\ Len(z) = 1 /\ z[1] = c.credits
  BY <1>3, OneByte
<1>5. PICK details \in Bytes : details = texts \o z
  BY Concat
<1>6. /\ Len(details) = n + 1
      /\ \A x \in 1 .. n + 1 : details[x] = IF x <= n THEN texts[x] ELSE z[x - n]
  <2>1. /\ Len(texts \o z) = Len(texts) + Len(z)
        /\ \A x \in 1 .. Len(texts) + Len(z) :
              (texts \o z)[x] = IF x <= Len(texts) THEN texts[x] ELSE z[x - Len(texts)]
    BY Concat
  <2> QED BY <1>2, <1>4, <1>5, <2>1
<1>7. Stands(details, 1, c, i, j, k, l)
  BY <1>2, <1>5, StandsStill
<1>8. details[n + 1] = c.credits
  <2>1. n + 1 \in 1 .. n + 1 /\ ~(n + 1 <= n) /\ (n + 1) - n = 1
    OBVIOUS
  <2> QED BY <1>4, <1>6, <2>1
<1>9. n + 2 \in Byte /\ (n + 2) % 256 = n + 2
  <2>1. n + 2 \in 0 .. 255
    BY <1>1
  <2> QED BY <2>1 DEF Byte
<1>10. PICK one \in Bytes : one = <<n + 2>> /\ Len(one) = 1 /\ one[1] = n + 2
  BY <1>9, OneByte
<1>11. PICK row \in Bytes : row = one \o details
  BY Concat
<1>12. /\ Len(row) = 1 + (n + 1)
       /\ \A x \in 1 .. 1 + (n + 1) : row[x] = IF x <= 1 THEN one[x] ELSE details[x - 1]
  <2>1. /\ Len(one \o details) = Len(one) + Len(details)
        /\ \A x \in 1 .. Len(one) + Len(details) :
              (one \o details)[x] = IF x <= Len(one) THEN one[x] ELSE details[x - Len(one)]
    BY Concat
  <2> QED BY <1>6, <1>10, <1>11, <2>1
<1>13. Stands(row, 2, c, i, j, k, l)
  <2>1. Stands(one \o details, 1 + 1, c, i, j, k, l)
    BY <1>7, <1>10, StandsLater
  <2> QED BY <1>11, <2>1
<1>14. row = course_details_encode(c)
  <2>1. (Len(details) + 1) % 256 = n + 2
    <3>1. Len(details) + 1 = n + 2
      BY <1>6
    <3> QED BY <1>9, <3>1
  <2> QED BY <1>2, <1>4, <1>5, <1>10, <1>11, <2>1, Zenon DEF course_details_encode
<1>15. row[1] = n + 2 /\ row[n + 2] = c.credits
  <2>1. /\ 1 \in 1 .. 1 + (n + 1) /\ n + 2 \in 1 .. 1 + (n + 1)
        /\ ~(n + 2 <= 1) /\ (n + 2) - 1 = n + 1
    OBVIOUS
  <2> QED BY <1>8, <1>10, <1>12, <2>1
<1>16. n + 2 = i + j + k + l + 6 /\ 1 + (n + 1) = n + 2
  BY <1>1
<1> QED BY <1>12, <1>13, <1>14, <1>15, <1>16

(* A row is read where it lies, and the next one lies behind it.           *)
LEMMA RowIsRead ==
    ASSUME NEW c \in CourseType, Len(Texts(c)) <= 126, NEW s \in Bytes, NEW q,
           Lies(s, q, course_details_encode(c))
    PROVE  /\ ByteAt(s, 0, q) = Len(course_details_encode(c))
           /\ CourseAt(s, 0, q + 1, 0) = c
<1>1. PICK i, j, k, l \in Nat : Sizes(c, i, j, k, l) /\ i + j + k + l <= 122
  BY TextsLength
<1>2. PICK n \in Nat : n = i + j + k + l + 6
  OBVIOUS
<1>3. PICK row \in Bytes :
          /\ row = course_details_encode(c) /\ Len(row) = n
          /\ row[1] = n /\ row[n] = c.credits /\ Stands(row, 2, c, i, j, k, l)
  BY <1>1, <1>2, RowType
<1>4. PICK p \in Nat : q = p + 1
  <2>1. q \in Nat \ {0}
    BY DEF Lies
  <2>2. q - 1 \in Nat /\ q = (q - 1) + 1
    BY <2>1
  <2> QED BY <2>2
<1>5. /\ (p + 1) + n <= Len(s) + 1
      /\ \A x \in 1 .. n : s[p + x] = row[x]
  <2>1. (p + 1) - 1 = p
    OBVIOUS
  <2> QED BY <1>3, <1>4, <2>1 DEF Lies
<1>6. Len(s) \in Nat /\ DOMAIN s = 1 .. Len(s)
  BY BytesType
<1>7. Stands(s, p + 2, c, i, j, k, l)
  <2>1. Lies(s, p + 1, row)
    BY <1>3, <1>4
  <2> QED BY <1>1, <1>3, <2>1, StandsInside
<1>8. ByteAt(s, 0, p + n) = c.credits /\ ByteAt(s, 0, p + 1) = n
  <2>1. 1 \in 1 .. n /\ n \in 1 .. n /\ p + 1 \in DOMAIN s /\ p + n \in DOMAIN s
    BY <1>2, <1>5, <1>6
  <2>2. s[p + 1] = n /\ s[p + n] = c.credits
    BY <1>3, <1>5, <2>1
  <2> QED BY <2>1, <2>2 DEF ByteAt
<1>9. CourseAt(s, 0, p + 2, 0) = c
  <2>1. (p + 2) + i + j + k + l + 4 + 0 = p + n /\ p + 2 \in Nat /\ 0 \in Nat
    BY <1>2
  <2>2. ByteAt(s, 0, (p + 2) + i + j + k + l + 4 + 0) = c.credits
    BY <1>8, <2>1
  <2> QED BY <1>1, <1>7, <2>1, <2>2, TextsAreRead
<1>10. (p + 1) + 1 = p + 2
  OBVIOUS
<1> QED BY <1>3, <1>4, <1>8, <1>9, <1>10

(* What serverM decodes of a course's details is what the department       *)
(* encoded, when the texts with their lengths have at most 126 bytes       *)
(* (protocol.c 225-293: a buffer of 256 bytes in the encoder, of 128 in    *)
(* the decoder).                                                           *)
THEOREM DetailArrives ==
    ASSUME NEW c \in CourseType, NEW stale, Len(Texts(c)) <= 126
    PROVE  protocol_courses_lookup_detail_response_decode(
                protocol_courses_lookup_detail_response_encode(c), stale) = c
<1>1. PICK i, j, k, l \in Nat : Sizes(c, i, j, k, l) /\ i + j + k + l <= 122
  BY TextsLength
<1>2. PICK n \in Nat : n = i + j + k + l + 4
  OBVIOUS
<1>3. PICK texts \in Bytes :
          texts = Texts(c) /\ Len(texts) = n /\ Stands(texts, 1, c, i, j, k, l)
  BY <1>1, <1>2, TextsHold
<1>4. PICK credits \in Byte : credits = c.credits /\ CreditsByte(c) = credits /\ 1 \in Byte
  BY CreditsKept, SmallIsByte
<1>5. PICK z \in Bytes : z = <<1, CreditsByte(c)>> /\ Len(z) = 2 /\ z[2] = c.credits
  <2>1. <<1, credits>> \in Bytes /\ Len(<<1, credits>>) = 2 /\ <<1, credits>>[2] = credits
    BY <1>4, TwoBytes
  <2> QED BY <1>4, <2>1
<1>6. PICK s \in Bytes : s = texts \o z
  BY Concat
<1>7. /\ Len(s) = n + 2
      /\ \A x \in 1 .. n + 2 : s[x] = IF x <= n THEN texts[x] ELSE z[x - n]
  <2>1. /\ Len(texts \o z) = Len(texts) + Len(z)
        /\ \A x \in 1 .. Len(texts) + Len(z) :
              (texts \o z)[x] = IF x <= Len(texts) THEN texts[x] ELSE z[x - Len(texts)]
    BY Concat
  <2> QED BY <1>3, <1>5, <1>6, <2>1
<1>8. Stands(s, 1, c, i, j, k, l)
  BY <1>3, <1>6, StandsStill
<1>9. ByteAt(s, stale, n + 2) = c.credits
  <2>1. n + 2 \in 1 .. n + 2 /\ ~(n + 2 <= n) /\ (n + 2) - n = 2
    OBVIOUS
  <2>2. s[n + 2] = c.credits
    BY <1>5, <1>7, <2>1
  <2>3. n + 2 \in DOMAIN s
    BY <1>7, <2>1, BytesType
  <2> QED BY <2>2, <2>3 DEF ByteAt
<1>10. CourseAt(s, stale, 1, 1) = c
  <2>1. 1 + i + j + k + l + 4 + 1 = n + 2 /\ 1 \in Nat
    BY <1>2
  <2>2. ByteAt(s, stale, 1 + i + j + k + l + 4 + 1) = c.credits
    BY <1>9, <2>1
  <2> QED BY <1>1, <1>8, <2>1, <2>2, TextsAreRead
<1>11. Len(s) <= PayloadMax /\ Len(s) <= DecodeBuffer /\ DecodeBuffer \in Nat
  BY <1>1, <1>2, <1>7 DEF PayloadMax, DecodeBuffer
<1>12. protocol_decode(protocol_encode("DETAIL_REPLY", 0, s), DecodeBuffer) = s
  BY <1>11, CopiedWhole
<1>13. protocol_courses_lookup_detail_response_encode(c) = protocol_encode("DETAIL_REPLY", 0, s)
  BY <1>3, <1>5, <1>6, Zenon DEF protocol_courses_lookup_detail_response_encode
<1> QED BY <1>10, <1>12, <1>13 DEF protocol_courses_lookup_detail_response_decode

-----------------------------------------------------------------------------
(* The rows of a table.                                                    *)

\* What the decoder of a list of courses makes of the bytes it copied.
RowsIn(s, n) == [m \in 1 .. n |-> CourseAt(s, 0, RowPlaces(s, n)[m] + 1, 0)]

LEMMA RowsDecoded ==
    ASSUME NEW m
    PROVE  protocol_courses_lookup_multiple_response_decode(m)
              = RowsIn(protocol_decode(m, PayloadMax), m.flags)
BY Zenon DEF protocol_courses_lookup_multiple_response_decode, RowsIn

RowsFollow(start, s, n) ==
    /\ start[1] = 1
    /\ \A j \in 1 .. n - 1 : start[j + 1] = start[j] + ByteAt(s, 0, start[j])

RowsFoundAt(start, s, n) == \A j \in 1 .. n : RowPlaces(s, n)[j] = start[j]

LEMMA RowPlacesFollow ==
    ASSUME NEW s, NEW n \in Nat \ {0}, NEW start, RowsFollow(start, s, n)
    PROVE  RowsFoundAt(start, s, n)
<1> DEFINE Follows(g) ==
             g = [m \in 1 .. n |-> IF m = 1 THEN 1 ELSE g[m - 1] + ByteAt(s, 0, g[m - 1])]
           own == [m \in 1 .. n |-> start[m]]
<1>1. Follows(own)
  <2>1. ASSUME NEW m \in 1 .. n
        PROVE  start[m] = IF m = 1 THEN 1 ELSE own[m - 1] + ByteAt(s, 0, own[m - 1])
    <3>1. CASE m = 1
      BY <3>1 DEF RowsFollow
    <3>2. CASE m # 1
      <4>1. m - 1 \in 1 .. n - 1 /\ m - 1 \in 1 .. n /\ (m - 1) + 1 = m
        BY <3>2
      <4>2. start[(m - 1) + 1] = start[m - 1] + ByteAt(s, 0, start[m - 1])
        BY <4>1 DEF RowsFollow
      <4>3. own[m - 1] = start[m - 1]
        BY <4>1
      <4> QED BY <3>2, <4>1, <4>2, <4>3
    <3> QED BY <3>1, <3>2
  <2> QED BY <2>1, Zenon
<1>2. PICK g : Follows(g) /\ RowPlaces(s, n) = g
  <2>1. RowPlaces(s, n) = CHOOSE g : Follows(g)
    BY Zenon DEF RowPlaces
  <2> HIDE DEF Follows
  <2> QED BY <1>1, <2>1, Zenon
<1>3. \A m \in 1 .. n : g[m] = IF m = 1 THEN 1 ELSE g[m - 1] + ByteAt(s, 0, g[m - 1])
  BY <1>2, Zenon
<1>4. g[1] = start[1]
  <2>1. 1 \in 1 .. n
    OBVIOUS
  <2> QED BY <1>3, <2>1, Zenon DEF RowsFollow
<1>5. ASSUME NEW i \in 1 .. n - 1, g[i] = start[i]
      PROVE  g[i + 1] = start[i + 1]
  <2>1. i + 1 \in 1 .. n /\ i + 1 # 1 /\ (i + 1) - 1 = i
    OBVIOUS
  <2>2. g[i + 1] = g[(i + 1) - 1] + ByteAt(s, 0, g[(i + 1) - 1])
    BY <1>3, <2>1, Zenon
  <2>3. start[i + 1] = start[i] + ByteAt(s, 0, start[i])
    BY DEF RowsFollow
  <2> QED BY <1>5, <2>1, <2>2, <2>3
<1>6. \A i \in 1 .. n : g[i] = start[i]
  BY <1>4, <1>5, SameFunction
<1> QED BY <1>2, <1>6, Zenon DEF RowsFoundAt

ShortCourse == {c \in CourseType : Len(Texts(c)) <= 126}

LEMMA RowIsBytes ==
    ASSUME NEW c \in ShortCourse
    PROVE  /\ c \in CourseType /\ Len(Texts(c)) <= 126
           /\ course_details_encode(c) \in Bytes
           /\ Len(course_details_encode(c)) \in Nat \ {0}
<1>1. c \in CourseType /\ Len(Texts(c)) <= 126
  BY DEF ShortCourse
<1>2. PICK i, j, k, l \in Nat : Sizes(c, i, j, k, l) /\ i + j + k + l <= 122
  BY <1>1, TextsLength
<1>3. /\ course_details_encode(c) \in Bytes
      /\ Len(course_details_encode(c)) = i + j + k + l + 6
  BY <1>1, <1>2, RowType
<1> QED BY <1>1, <1>3

\* What the rows of a list come to.
ListOf(courses) == FlattenSeq([n \in DOMAIN courses |-> course_details_encode(courses[n])])

(* The courses that a client decodes of a table are those that serverM     *)
(* encoded, in their order, when every row and the list fit their buffers  *)
(* (protocol.c 364-495: the length byte of a row counts itself).           *)
THEOREM RowsArrive ==
    ASSUME NEW courses \in Seq(ShortCourse), courses # <<>>, Len(ListOf(courses)) <= ListBuffer
    PROVE  LET message == protocol_courses_lookup_multiple_response_encode(courses)
           IN /\ message.type = "MULTI_REPLY" /\ message.flags = Len(courses)
              /\ message.payload = ListOf(courses) /\ message.payload \in Bytes
              /\ protocol_courses_lookup_multiple_response_decode(message) = courses
<1> DEFINE rows == [n \in DOMAIN courses |-> course_details_encode(courses[n])]
           list1 == ListOf(courses)
<1>1. PICK n \in Nat \ {0} : n = Len(courses) /\ DOMAIN courses = 1 .. n
  <2>1. Len(courses) \in Nat /\ Len(courses) # 0 /\ DOMAIN courses = 1 .. Len(courses)
    BY EmptySeq, LenProperties
  <2> QED BY <2>1
<1>2. ASSUME NEW j \in 1 .. n
      PROVE  courses[j] \in ShortCourse /\ rows[j] = course_details_encode(courses[j])
             /\ rows[j] \in Bytes
  <2>1. courses[j] \in ShortCourse
    BY <1>1, ElementOfSeq
  <2>2. rows[j] = course_details_encode(courses[j])
    BY <1>1
  <2> QED BY <2>1, <2>2, RowIsBytes
<1>3. rows \in Seq(Bytes) /\ Len(rows) = n
  <2>1. rows = [j \in 1 .. n |-> course_details_encode(courses[j])]
    BY <1>1
  <2>2. \A j \in 1 .. n : course_details_encode(courses[j]) \in Bytes
    BY <1>2
  <2> HIDE DEF rows
  <2> QED BY <1>1, <2>1, <2>2, IsASeq
<1>4. list1 = FlattenSeq(rows)
  BY DEF ListOf
<1> HIDE DEF rows
<1>5. <<>> \in Bytes /\ Len(<<>>) = 0
  BY DEF Bytes
<1>6. PICK front \in Bytes : front = <<>> /\ Len(front) = 0
  BY <1>5
<1>7. PICK h : FlattenSeq(rows) = h[n] /\ h[n] \in Bytes
  <2>1. PICK h : (\A i \in 1 .. n : h[i] \in Bytes) /\ FlattenSeq(rows) = h[n]
    BY <1>1, <1>3, Flattened
  <2> QED BY <1>1, <2>1
<1>8. front \o FlattenSeq(rows) = list1 /\ list1 \in Bytes
  <2>1. PICK x \in Bytes : x = FlattenSeq(rows)
    BY <1>7
  <2>2. <<>> \o x = x
    BY ConcatEmptySeq DEF Bytes
  <2> QED BY <1>4, <1>6, <2>1, <2>2
<1>9. \E start \in [1 .. n + 1 -> Nat] :
          /\ Begins(start, Len(front) + 1, rows, n)
          /\ start[n + 1] = Len(list1) + 1
          /\ \A j \in 1 .. n : Lies(list1, start[j], rows[j])
  <2> HIDE DEF list1
  <2>1. LET whole == front \o FlattenSeq(rows)
        IN \E start \in [1 .. n + 1 -> Nat] :
              /\ Begins(start, Len(front) + 1, rows, n)
              /\ start[n + 1] = Len(whole) + 1
              /\ \A j \in 1 .. n : Lies(whole, start[j], rows[j])
    BY <1>3, ListLies
  <2> QED BY <1>8, <2>1, Zenon
<1>10. Len(list1) <= ListBuffer
  OBVIOUS
<1> HIDE DEF list1
<1>11. PICK start : /\ Begins(start, 1, rows, n)
                    /\ \A j \in 1 .. n : Lies(list1, start[j], rows[j])
  <2>1. Len(front) + 1 = 1
    BY <1>6
  <2> QED BY <1>9, <2>1, Zenon
<1>12. ASSUME NEW j \in 1 .. n
       PROVE  /\ start[j + 1] = start[j] + ByteAt(list1, 0, start[j])
              /\ CourseAt(list1, 0, start[j] + 1, 0) = courses[j]
  <2>1. PICK c \in ShortCourse : c = courses[j] /\ rows[j] = course_details_encode(c)
    BY <1>2
  <2>2. Lies(list1, start[j], course_details_encode(c))
    BY <1>11, <2>1
  <2>3. /\ ByteAt(list1, 0, start[j]) = Len(course_details_encode(c))
        /\ CourseAt(list1, 0, start[j] + 1, 0) = c
    BY <1>8, <2>2, RowIsRead, RowIsBytes
  <2>4. start[j + 1] = start[j] + Len(rows[j])
    BY <1>11 DEF Begins
  <2> QED BY <2>1, <2>3, <2>4
<1>13. RowsFollow(start, list1, n)
  <2>1. start[1] = 1
    BY <1>11 DEF Begins
  <2>2. ASSUME NEW j \in 1 .. n - 1
        PROVE  start[j + 1] = start[j] + ByteAt(list1, 0, start[j])
    <3>1. j \in 1 .. n
      OBVIOUS
    <3> QED BY <1>12, <3>1, Zenon
  <2> QED BY <2>1, <2>2 DEF RowsFollow
<1>14. RowsFoundAt(start, list1, n)
  BY <1>13, RowPlacesFollow
<1>15. RowsIn(list1, n) = courses
  <2>1. \A m \in 1 .. n : CourseAt(list1, 0, RowPlaces(list1, n)[m] + 1, 0) = courses[m]
    BY <1>12, <1>14, Zenon DEF RowsFoundAt
  <2>2. courses = [m \in 1 .. n |-> courses[m]]
    BY <1>1
  <2> QED BY <2>1, <2>2, Zenon DEF RowsIn
<1>16. Len(list1) \in Nat /\ Len(list1) <= PayloadMax /\ PayloadMax \in Nat
  BY <1>8, <1>10, BytesType DEF ListBuffer, PayloadMax
<1>17. protocol_courses_lookup_multiple_response_encode(courses)
          = protocol_encode("MULTI_REPLY", n, list1)
  <2>1. ~(Len(list1) > ListBuffer)
    BY <1>10, <1>16 DEF ListBuffer
  <2> QED BY <1>1, <2>1, Zenon DEF protocol_courses_lookup_multiple_response_encode, list1, ListOf
<1>18. /\ protocol_decode(protocol_encode("MULTI_REPLY", n, list1), PayloadMax) = list1
       /\ protocol_encode("MULTI_REPLY", n, list1).flags = n
  BY <1>8, <1>16, CopiedWhole
<1>19. /\ protocol_encode("MULTI_REPLY", n, list1).type = "MULTI_REPLY"
       /\ protocol_encode("MULTI_REPLY", n, list1).payload = list1
  BY <1>16 DEF protocol_encode
<1>20. protocol_courses_lookup_multiple_response_decode(protocol_encode("MULTI_REPLY", n, list1))
          = courses
  BY <1>15, <1>18, RowsDecoded
<1> QED BY <1>1, <1>8, <1>17, <1>18, <1>19, <1>20 DEF list1

-----------------------------------------------------------------------------
(* Lines that are counted and cut.                                         *)

(* Words are counted from one on, and a trimmed line is a text.            *)
LEMMA LineType ==
    ASSUME NEW s \in Bytes
    PROVE  utils_get_word_count(s) \in Nat \ {0} /\ TrimmedInPlace(s) \in Bytes
<1>1. PICK l \in Bytes : l = utils_string_ltrim(s) /\ Len(l) <= Len(s)
  BY Stripped DEF utils_string_ltrim
<1>2. PICK t \in Bytes : t = utils_string_trim(s)
  BY <1>1, Stripped DEF utils_string_trim, utils_string_rtrim
<1>3. Len(t) \in Nat /\ DOMAIN t = 1 .. Len(t) /\ Len(s) \in Nat /\ Len(l) \in Nat
  BY BytesType
<1>4. Cardinality({i \in DOMAIN t : t[i] \in {Blank, Tab}}) \in Nat
  BY <1>3, Counted
<1>5. utils_get_word_count(s) = 1 + Cardinality({i \in DOMAIN t : t[i] \in {Blank, Tab}})
  BY <1>2, Zenon DEF utils_get_word_count
<1>6. SubSeq(s, 1, Len(s) - Len(l)) \in Bytes
  BY <1>1, <1>3, Cut
<1>7. SubSeq(s, 1, Len(s) - Len(l)) \o t \in Bytes
  BY <1>6, Concat
<1> QED BY <1>1, <1>2, <1>4, <1>5, <1>7 DEF TrimmedInPlace

-----------------------------------------------------------------------------
Below(S, i) == Cardinality({k \in S : k < i})

(* A finite set of numbers has a member for each rank.                     *)
LEMMA Ranked ==
    ASSUME NEW S \in SUBSET Nat, IsFiniteSet(S), NEW c \in Nat, c = Cardinality(S)
    PROVE  \A n \in 1 .. c : \E i \in S : Below(S, i) = n - 1
<1> DEFINE T == {m \in Nat : m < c => \E i \in S : Below(S, i) = m}
<1>1. \A i : IsFiniteSet({k \in S : k < i}) /\ Below(S, i) \in Nat
  BY FS_Subset, FS_CardinalityType DEF Below
<1>2. 0 \in T
  <2> SUFFICES ASSUME 0 < c
               PROVE  \E i \in S : Below(S, i) = 0
    OBVIOUS
  <2>1. S # {}
    BY FS_EmptySet
  <2>2. PICK i \in S : \A k \in S : i <= k
    BY <2>1, LeastMember
  <2>3. {k \in S : k < i} = {}
    <3> SUFFICES ASSUME NEW k \in S
                 PROVE  ~(k < i)
      OBVIOUS
    <3>1. i <= k /\ i \in Nat /\ k \in Nat
      BY <2>2
    <3> QED BY <3>1
  <2> QED BY <2>3, FS_EmptySet DEF Below
<1>3. ASSUME NEW m \in 0 .. c - 1, m \in T
      PROVE  m + 1 \in T
  <2> SUFFICES ASSUME m + 1 < c
               PROVE  \E i \in S : Below(S, i) = m + 1
    OBVIOUS
  <2>1. PICK i \in S : Below(S, i) = m
    BY <1>3
  <2> DEFINE L == {k \in S : k < i}
             U == {k \in S : i < k}
  <2>2. IsFiniteSet(L \cup {i}) /\ Cardinality(L \cup {i}) = m + 1
    <3>1. IsFiniteSet(L) /\ Cardinality(L) = m /\ i \notin L
      BY <1>1, <2>1 DEF Below
    <3> HIDE DEF L
    <3> QED BY <3>1, FS_AddElement
  <2>3. U # {}
    <3> SUFFICES ASSUME U = {}
                 PROVE  FALSE
      OBVIOUS
    <3>1. S = L \cup {i}
      <4>1. ASSUME NEW k \in S
            PROVE  k \in L \cup {i}
        <5>1. k \in Nat /\ i \in Nat /\ ~(i < k)
          OBVIOUS
        <5>2. k < i \/ k = i
          BY <5>1
        <5> QED BY <5>2
      <4> QED BY <4>1
    <3> HIDE DEF L
    <3> QED BY <2>2, <3>1
  <2>4. PICK j \in U : \A k \in U : j <= k
    <3>1. U \in SUBSET Nat
      OBVIOUS
    <3> HIDE DEF U
    <3> QED BY <2>3, <3>1, LeastMember
  <2>5. {k \in S : k < j} = L \cup {i}
    <3>1. j \in S /\ i < j /\ i \in Nat /\ j \in Nat
      OBVIOUS
    <3>2. ASSUME NEW k \in S
          PROVE  k < j <=> k < i \/ k = i
      <4>1. k \in Nat
        OBVIOUS
      <4>2. i < k => j <= k
        BY <2>4
      <4> HIDE DEF L, U
      <4> QED BY <3>1, <4>1, <4>2
    <3>3. ASSUME NEW k \in S
          PROVE  k \in {x \in S : x < j} <=> k \in L \cup {i}
      BY <3>2
    <3> QED BY <3>3
  <2> HIDE DEF L
  <2> QED BY <2>2, <2>4, <2>5 DEF Below
<1>4. ASSUME NEW k \in 0 .. c
      PROVE  k \in T
  <2> HIDE DEF T
  <2> QED BY <1>2, <1>3, UpTo
<1>5. ASSUME NEW n \in 1 .. c
      PROVE  \E i \in S : Below(S, i) = n - 1
  <2>1. n - 1 \in 0 .. c /\ n - 1 < c /\ n - 1 \in Nat
    OBVIOUS
  <2>2. n - 1 \in T
    BY <1>4, <2>1
  <2> QED BY <2>1, <2>2
<1> QED BY <1>5

(* What Ascending lists are the members of the set, in their order.        *)
LEMMA AscendingSorts ==
    ASSUME NEW S \in SUBSET Nat, IsFiniteSet(S)
    PROVE  LET n == Cardinality(S)
           IN /\ n \in Nat /\ Ascending(S) \in [1 .. n -> S] /\ Len(Ascending(S)) = n
              /\ \A i, j \in 1 .. n : i < j => Ascending(S)[i] < Ascending(S)[j]
<1>1. PICK c \in Nat : c = Cardinality(S)
  BY FS_CardinalityType
<1>2. Ascending(S) = [n \in 1 .. c |-> CHOOSE i \in S : Below(S, i) = n - 1]
  BY <1>1, Zenon DEF Ascending, Below
<1>3. ASSUME NEW n \in 1 .. c
      PROVE  Ascending(S)[n] \in S /\ Below(S, Ascending(S)[n]) = n - 1
  <2>1. \E i \in S : Below(S, i) = n - 1
    BY <1>1, Ranked
  <2>2. Ascending(S)[n] = CHOOSE i \in S : Below(S, i) = n - 1
    BY <1>2, Zenon
  <2> QED BY <2>1, <2>2, Zenon
<1>4. Ascending(S) \in [1 .. c -> S]
  <2>1. Ascending(S) = [n \in 1 .. c |-> Ascending(S)[n]]
    BY <1>2, Zenon
  <2> QED BY <1>3, <2>1, Zenon
<1>5. Len(Ascending(S)) = c
  BY <1>1, <1>4, IsASeq, LenProperties
<1>6. ASSUME NEW i \in 1 .. c, NEW j \in 1 .. c, i < j
      PROVE  Ascending(S)[i] < Ascending(S)[j]
  <2>1. PICK x \in S, y \in S : /\ x = Ascending(S)[i] /\ y = Ascending(S)[j]
                                /\ Below(S, x) = i - 1 /\ Below(S, y) = j - 1
    BY <1>3
  <2> SUFFICES ASSUME ~(x < y)
               PROVE  FALSE
    BY <2>1
  <2>2. {k \in S : k < y} \subseteq {k \in S : k < x}
    <3> SUFFICES ASSUME NEW k \in S, k < y
                 PROVE  k < x
      OBVIOUS
    <3>1. k \in Nat /\ x \in Nat /\ y \in Nat
      OBVIOUS
    <3> QED BY <3>1
  <2>3. IsFiniteSet({k \in S : k < x})
    BY FS_Subset
  <2>4. Below(S, y) <= Below(S, x)
    BY <2>2, <2>3, FS_Subset DEF Below
  <2> QED BY <1>6, <2>1, <2>4
<1> QED BY <1>1, <1>4, <1>5, <1>6

(* A word is a piece of the text it is cut from.                           *)
LEMMA WordType == ASSUME NEW s \in Bytes, NEW n \in Nat \ {0} PROVE Word(s, n) \in Bytes
<1>1. Len(s) \in Nat /\ DOMAIN s = 1 .. Len(s)
  BY BytesType
<1> DEFINE S == {0, Len(s) + 1} \cup {i \in DOMAIN s : s[i] = Blank}
           cuts == Ascending(S)
<1>2. S \in SUBSET Nat /\ \A i \in S : i <= Len(s) + 1
  BY <1>1
<1>3. IsFiniteSet(S)
  <2>1. IsFiniteSet(0 .. Len(s) + 1)
    BY <1>1, FS_Interval
  <2>2. S \in SUBSET (0 .. Len(s) + 1)
    BY <1>1
  <2> HIDE DEF S
  <2> QED BY <2>1, <2>2, FS_Subset
<1>4. Word(s, n) = IF n < Len(cuts) THEN SubSeq(s, cuts[n] + 1, cuts[n + 1] - 1) ELSE <<>>
  BY Zenon DEF Word
<1>5. CASE n < Len(cuts)
  <2> HIDE DEF S
  <2>1. n \in 1 .. Len(cuts) /\ n + 1 \in 1 .. Len(cuts) /\ n < n + 1
    BY <1>2, <1>3, <1>5, AscendingSorts
  <2>2. cuts[n] \in S /\ cuts[n + 1] \in S /\ cuts[n] < cuts[n + 1]
    BY <1>2, <1>3, <2>1, AscendingSorts
  <2>3. PICK a \in Nat, b \in Nat : a = cuts[n] /\ b = cuts[n + 1] /\ a < b /\ b <= Len(s) + 1
    BY <1>2, <2>2
  <2>4. a + 1 \in Nat /\ b - 1 \in Nat /\ a + 1 \in 1 .. Len(s) + 1 /\ b - 1 \in (a + 1) - 1 .. Len(s)
    BY <1>1, <2>3
  <2>5. SubSeq(s, a + 1, b - 1) \in Bytes
    BY <2>4, Cut
  <2> QED BY <1>4, <1>5, <2>3, <2>5
<1>6. CASE ~(n < Len(cuts))
  BY <1>4, <1>6 DEF Bytes
<1> QED BY <1>5, <1>6

-----------------------------------------------------------------------------
(* Codes, whatever the case of their letters.                              *)

LEMMA SameIsSymmetric ==
    ASSUME NEW s \in Bytes, NEW t \in Bytes, SameIgnoringCase(s, t)
    PROVE  SameIgnoringCase(t, s)
BY BytesType DEF SameIgnoringCase

LEMMA SameIsTransitive ==
    ASSUME NEW s \in Bytes, NEW t \in Bytes, NEW u \in Bytes,
           SameIgnoringCase(s, t), SameIgnoringCase(t, u)
    PROVE  SameIgnoringCase(s, u)
BY BytesType DEF SameIgnoringCase

(* The department goes by the two first letters.                           *)
LEMMA SameDepartment ==
    ASSUME NEW s \in Bytes, NEW t \in Bytes, SameIgnoringCase(s, t)
    PROVE  get_department_server_endpoint(s) = get_department_server_endpoint(t)
<1>1. ASSUME NEW u \in Bytes, Len(u) >= 2
      PROVE  /\ SubSeq(u, 1, 2) \in Bytes /\ Len(SubSeq(u, 1, 2)) = 2
             /\ SubSeq(u, 1, 2)[1] = u[1] /\ SubSeq(u, 1, 2)[2] = u[2]
  <2>1. Len(u) \in Nat /\ \A i \in 1 .. 2 : u[i] \in Byte
    BY <1>1, BytesType
  <2>2. SubSeq(u, 1, 2) \in Seq(Byte) /\ Len(SubSeq(u, 1, 2)) = 2
    BY <2>1, SubSeqProperties
  <2>3. \A i \in 1 .. 2 : SubSeq(u, 1, 2)[i] = u[1 + i - 1]
    BY <2>1, SubSeqProperties
  <2>4. SubSeq(u, 1, 2)[1] = u[1] /\ SubSeq(u, 1, 2)[2] = u[2]
    BY <2>3
  <2> QED BY <2>2, <2>4 DEF Bytes
<1>2. ASSUME NEW prefix, Len(s) >= 2, SameIgnoringCase(SubSeq(s, 1, 2), Chars(prefix))
      PROVE  Len(t) >= 2 /\ SameIgnoringCase(SubSeq(t, 1, 2), Chars(prefix))
  <2>1. Len(t) >= 2 /\ Lower(s[1]) = Lower(t[1]) /\ Lower(s[2]) = Lower(t[2])
    BY <1>2, BytesType DEF SameIgnoringCase
  <2>2. DOMAIN SubSeq(s, 1, 2) = 1 .. 2 /\ DOMAIN SubSeq(t, 1, 2) = 1 .. 2
    BY <1>1, <1>2, <2>1, BytesType
  <2> QED BY <1>1, <1>2, <2>1, <2>2 DEF SameIgnoringCase
<1>3. ASSUME NEW prefix, Len(t) >= 2, SameIgnoringCase(SubSeq(t, 1, 2), Chars(prefix))
      PROVE  Len(s) >= 2 /\ SameIgnoringCase(SubSeq(s, 1, 2), Chars(prefix))
  <2>1. Len(s) >= 2 /\ Lower(s[1]) = Lower(t[1]) /\ Lower(s[2]) = Lower(t[2])
    BY <1>3, BytesType DEF SameIgnoringCase
  <2>2. DOMAIN SubSeq(s, 1, 2) = 1 .. 2 /\ DOMAIN SubSeq(t, 1, 2) = 1 .. 2
    BY <1>1, <1>3, <2>1, BytesType
  <2> QED BY <1>1, <1>3, <2>1, <2>2 DEF SameIgnoringCase
<1>4. ASSUME NEW prefix
      PROVE  (Len(s) >= 2 /\ SameIgnoringCase(SubSeq(s, 1, 2), Chars(prefix)))
                <=> (Len(t) >= 2 /\ SameIgnoringCase(SubSeq(t, 1, 2), Chars(prefix)))
  BY <1>2, <1>3
<1>5. /\ (Len(s) >= 2 /\ SameIgnoringCase(SubSeq(s, 1, 2), Chars("EE")))
            <=> (Len(t) >= 2 /\ SameIgnoringCase(SubSeq(t, 1, 2), Chars("EE")))
      /\ (Len(s) >= 2 /\ SameIgnoringCase(SubSeq(s, 1, 2), Chars("CS")))
            <=> (Len(t) >= 2 /\ SameIgnoringCase(SubSeq(t, 1, 2), Chars("CS")))
  BY <1>4
<1> QED BY <1>5, Zenon DEF get_department_server_endpoint

-----------------------------------------------------------------------------
(* The course of a code.                                                   *)

Server == {"CS", "EE"}

LEMMA Files ==
    ASSUME NEW server \in Server
    PROVE  /\ DOMAIN db(server) = 1 .. Len(db(server)) /\ Len(db(server)) \in Nat
           /\ \A i \in DOMAIN db(server) :
                 db(server)[i].code \in Bytes /\ Listed(db(server)[i].code) # {}
<1>1. /\ db(server) \in Seq(Range(db(server)))
      /\ \A entry \in Range(db(server)) : entry.code \in Seq(Byte) /\ Listed(entry.code) # {}
  BY CoursesAssumption DEF Server
<1>2. \A i \in DOMAIN db(server) : db(server)[i] \in Range(db(server))
  BY DEF Range
<1> QED BY <1>1, <1>2, LenProperties DEF Bytes

LEMMA FirstCourse ==
    ASSUME NEW server \in Server, NEW code, NEW i \in DOMAIN db(server),
           SameIgnoringCase(db(server)[i].code, code),
           \A k \in 1 .. i - 1 : ~SameIgnoringCase(db(server)[k].code, code)
    PROVE  database_courses_lookup(db(server), code) = db(server)[i]
<1> DEFINE entries == db(server)
           first(k) == /\ SameIgnoringCase(entries[k].code, code)
                       /\ \A j \in 1 .. k - 1 : ~SameIgnoringCase(entries[j].code, code)
           found == CHOOSE k \in DOMAIN entries : first(k)
<1>1. DOMAIN entries = 1 .. Len(entries) /\ Len(entries) \in Nat
  BY Files
<1> HIDE DEF entries
<1>2. first(i) /\ i \in DOMAIN entries
  BY DEF entries
<1>3. \A k \in DOMAIN entries : first(k) => k = i
  BY <1>1, <1>2
<1>4. found \in DOMAIN entries /\ first(found)
  BY <1>2
<1>5. found = i
  BY <1>3, <1>4
<1>6. database_courses_lookup(entries, code) = entries[found]
  BY <1>2 DEF database_courses_lookup, First
<1> QED BY <1>5, <1>6 DEF entries

(* A code that no course has is not found in any file.                     *)
LEMMA UnlistedNotFound ==
    ASSUME NEW server \in Server, NEW code \in Bytes, Listed(code) = {}
    PROVE  database_courses_lookup(db(server), code) = NoCourse
<1>1. ASSUME NEW i \in DOMAIN db(server), SameIgnoringCase(db(server)[i].code, code)
      PROVE  FALSE
  <2>1. PICK e \in Bytes : e = db(server)[i].code /\ Listed(e) # {}
    BY <1>1, Files
  <2>2. PICK c \in Courses : SameIgnoringCase(c.code, e)
    BY <2>1 DEF Listed
  <2>3. c.code \in Bytes
    BY CoursesAssumption DEF Bytes
  <2>4. SameIgnoringCase(c.code, code)
    BY <1>1, <2>1, <2>2, <2>3, SameIsTransitive
  <2> QED BY <2>4 DEF Listed
<1> QED BY <1>1 DEF database_courses_lookup, First

(* A code that a course has is found in the file of its department, and    *)
(* what is found is that course.                                           *)
LEMMA ListedFound ==
    ASSUME NEW code \in Bytes, Listed(code) # {}
    PROVE  /\ TheCourse(code) \in Courses
           /\ SameIgnoringCase(TheCourse(code).code, code)
           /\ get_department_server_endpoint(code) \in Server
           /\ database_courses_lookup(db(get_department_server_endpoint(code)), code)
                 = TheCourse(code)
<1>1. TheCourse(code) \in Listed(code)
  BY DEF TheCourse
<1>2. PICK c \in Courses : c = TheCourse(code) /\ SameIgnoringCase(c.code, code)
  BY <1>1 DEF Listed
<1>3. c.code \in Bytes
  BY CoursesAssumption DEF Bytes
<1>4. PICK server \in Server :
          /\ get_department_server_endpoint(c.code) = server
          /\ \E i \in DOMAIN db(server) :
                /\ db(server)[i] = c
                /\ \A k \in 1 .. i - 1 : ~SameIgnoringCase(db(server)[k].code, c.code)
  BY CoursesAssumption DEF Server
<1>5. PICK i \in DOMAIN db(server) :
          /\ db(server)[i] = c
          /\ \A k \in 1 .. i - 1 : ~SameIgnoringCase(db(server)[k].code, c.code)
  BY <1>4
<1>6. get_department_server_endpoint(code) = server
  BY <1>2, <1>3, <1>4, SameDepartment
<1>7. ASSUME NEW k \in 1 .. i - 1, SameIgnoringCase(db(server)[k].code, code)
      PROVE  FALSE
  <2>1. k \in DOMAIN db(server)
    BY <1>7, Files
  <2>2. PICK e \in Bytes : e = db(server)[k].code
    BY <2>1, Files
  <2>3. SameIgnoringCase(code, c.code)
    BY <1>2, <1>3, SameIsSymmetric
  <2>4. SameIgnoringCase(e, c.code)
    BY <1>3, <1>7, <2>2, <2>3, SameIsTransitive
  <2> QED BY <1>5, <2>2, <2>4
<1>8. database_courses_lookup(db(server), code) = c
  BY <1>2, <1>5, <1>7, FirstCourse
<1> QED BY <1>2, <1>4, <1>6, <1>8

-----------------------------------------------------------------------------
(* A query for one course on its way, as an invariant of the specification.*)

\* What the client sends of a line and a category, and where serverM sends it.
CodeSent(line) == TrimmedInPlace(line)

NumberSent(category) == NumberOf(Meaning[category])

Question(line, category) ==
    protocol_courses_lookup_single_request_encode(CodeSent(line), NumberSent(category))

\* What comes back: the value of the category, or the code that is not found.
Reply(line, category) ==
    IF Listed(CodeSent(line)) = {}
    THEN protocol_courses_error_encode(ERR_COURSES_NOT_FOUND, CodeSent(line))
    ELSE protocol_courses_lookup_single_response_encode(
             CodeSent(line), NumberSent(category),
             ValueOf(TheCourse(CodeSent(line)), Meaning[category]))

OneWord(line) == Len(WordsTyped(line)) <= 1

SingleUnderWay ==
    typed.kind = "query" /\ OneWord(typed.line) =>
        /\ typed.line \in Lines /\ typed.category \in Categories
        /\ \/ /\ Meaning[typed.category] # "none"
              /\ \/ /\ at = "serverM" /\ flight = Question(typed.line, typed.category)
                 \/ /\ at \in Server /\ flight = Question(typed.line, typed.category)
                    /\ at = get_department_server_endpoint(CodeSent(typed.line))
                 \/ /\ at = "client" /\ flight = Reply(typed.line, typed.category)
           \/ at = "shown" /\ ShowsTheValue

(* The code of a line with one word fits every buffer on its way.          *)
LEMMA CodeType ==
    ASSUME NEW line \in Lines, OneWord(line)
    PROVE  /\ CodeSent(line) \in Bytes /\ CodeSent(line) # <<>>
           /\ Len(CodeSent(line)) \in Nat /\ Len(CodeSent(line)) <= 9
           /\ utils_get_word_count(line) = 1
           /\ WordsTyped(line) = <<>> => Listed(CodeSent(line)) = {}
           /\ WordsTyped(line) # <<>> => CodeSent(line) = WordsTyped(line)[1]
<1>1. CodeSent(line) \in Bytes
  BY LinesAssumption, LineType DEF CodeSent, Bytes
<1>2. Len(CodeSent(line)) \in Nat
  BY <1>1, BytesType
<1>3. Len(CodeSent(line)) < CodeBuffer
  BY LinesAssumption DEF CodeSent, OneWord
<1>4. Len(CodeSent(line)) <= 9
  BY <1>2, <1>3 DEF CodeBuffer
<1> QED BY <1>1, <1>2, <1>4, LinesAssumption DEF CodeSent, OneWord

LEMMA CategoryType ==
    ASSUME NEW category \in Categories
    PROVE  /\ Meaning[category] \in Columns \cup {"none"}
           /\ database_courses_lookup_category_from_string(utils_string_trim(category))
                 = NumberSent(category)
           /\ NumberSent(category) = COURSES_LOOKUP_CATEGORY_INVALID <=> Meaning[category] = "none"
<1>1. /\ Meaning[category] \in Columns \cup {"none"}
      /\ database_courses_lookup_category_from_string(utils_string_trim(category))
            = NumberSent(category)
  BY CategoriesAssumption DEF NumberSent
<1>2. NumberSent(category) = COURSES_LOOKUP_CATEGORY_INVALID <=> Meaning[category] = "none"
  BY <1>1 DEF NumberSent, NumberOf, Columns, COURSES_LOOKUP_CATEGORY_COURSE_CODE,
     COURSES_LOOKUP_CATEGORY_COURSE_NAME, COURSES_LOOKUP_CATEGORY_PROFESSOR,
     COURSES_LOOKUP_CATEGORY_DAYS, COURSES_LOOKUP_CATEGORY_CREDITS,
     COURSES_LOOKUP_CATEGORY_INVALID
<1> QED BY <1>1, <1>2

(* The question is decoded to what was asked, by serverM and by the        *)
(* department it sends the question on to.                                 *)
LEMMA QuestionArrives ==
    ASSUME NEW line \in Lines, NEW category \in Categories, OneWord(line)
    PROVE  LET question == Question(line, category)
           IN /\ question.type = "SINGLE_REQUEST" /\ question # NoMessage
              /\ protocol_courses_lookup_single_request_decode(question)
                    = [code |-> CodeSent(line), category |-> NumberSent(category)]
<1>1. PICK code \in Bytes : code = CodeSent(line) /\ code # <<>> /\ Len(code) <= 9 /\ Len(code) \in Nat
  BY CodeType
<1>2. PICK number : number = NumberSent(category)
  OBVIOUS
<1>3. Len(code) <= PayloadMax /\ Len(code) <= CodeBuffer /\ CodeBuffer \in Nat
  BY <1>1 DEF PayloadMax, CodeBuffer
<1>4. Question(line, category) = protocol_encode("SINGLE_REQUEST", number, code)
  BY <1>1, <1>2 DEF Question, protocol_courses_lookup_single_request_encode
<1>5. /\ protocol_decode(protocol_encode("SINGLE_REQUEST", number, code), CodeBuffer) = code
      /\ protocol_encode("SINGLE_REQUEST", number, code).flags = number
  BY <1>3, CopiedWhole
<1>6. protocol_encode("SINGLE_REQUEST", number, code).type = "SINGLE_REQUEST"
  BY <1>3 DEF protocol_encode
<1> QED BY <1>1, <1>2, <1>4, <1>5, <1>6 DEF protocol_courses_lookup_single_request_decode, NoMessage

(* A code that is not found is told as it was typed.                       *)
LEMMA ErrorArrives ==
    ASSUME NEW code \in Bytes, Len(code) <= 9
    PROVE  LET error == protocol_courses_error_encode(ERR_COURSES_NOT_FOUND, code)
           IN /\ error.type = "ERROR" /\ error # NoMessage
              /\ protocol_courses_error_decode(error)
                    = [error |-> ERR_COURSES_NOT_FOUND, data |-> code]
<1>1. Len(code) <= PayloadMax /\ Len(code) <= ErrorBuffer /\ ErrorBuffer \in Nat
  BY BytesType DEF PayloadMax, ErrorBuffer
<1>2. /\ protocol_decode(protocol_encode("ERROR", ERR_COURSES_NOT_FOUND, code), ErrorBuffer) = code
      /\ protocol_encode("ERROR", ERR_COURSES_NOT_FOUND, code).flags = ERR_COURSES_NOT_FOUND
  BY <1>1, CopiedWhole
<1>3. protocol_encode("ERROR", ERR_COURSES_NOT_FOUND, code).type = "ERROR"
  BY <1>1 DEF protocol_encode
<1> QED BY <1>2, <1>3 DEF protocol_courses_error_encode, protocol_courses_error_decode, NoMessage

(* A value is told with its code and its category.                         *)
LEMMA ValueArrives ==
    ASSUME NEW line \in Lines, NEW category \in Categories, OneWord(line),
           Meaning[category] # "none", Listed(CodeSent(line)) # {}, NEW stale
    PROVE  LET value == ValueOf(TheCourse(CodeSent(line)), Meaning[category])
               reply == protocol_courses_lookup_single_response_encode(
                            CodeSent(line), NumberSent(category), value)
           IN /\ reply.type = "SINGLE_REPLY" /\ reply # NoMessage
              /\ protocol_courses_lookup_single_response_decode(reply, stale)
                    = [code |-> CodeSent(line), category |-> NumberSent(category), info |-> value]
<1>1. PICK code \in Bytes : code = CodeSent(line) /\ code # <<>> /\ Len(code) <= 9 /\ Len(code) \in Nat
  BY CodeType
<1>2. TheCourse(code) \in Courses /\ Meaning[category] \in Columns
  BY <1>1, ListedFound, CategoryType
<1>3. PICK value \in Bytes : /\ value = ValueOf(TheCourse(code), Meaning[category])
                             /\ value # <<>> /\ CodeBuffer + Len(value) <= DecodeBuffer - 2
  BY <1>2, CoursesAssumption DEF Bytes
<1>4. PICK number : number = NumberSent(category)
  OBVIOUS
<1>5. Len(value) \in Nat /\ Len(code) + Len(value) <= 126
  BY <1>1, <1>3, BytesType DEF CodeBuffer, DecodeBuffer
<1>6. protocol_courses_lookup_single_response_decode(
          protocol_courses_lookup_single_response_encode(code, number, value), stale)
         = [code |-> code, category |-> number, info |-> value]
  BY <1>1, <1>3, <1>5, SingleReplyArrives
<1>7. protocol_courses_lookup_single_response_encode(code, number, value).type = "SINGLE_REPLY"
  <2>1. Part(code) \in Bytes /\ Len(Part(code)) = 1 + Len(code)
    BY <1>1, PartType
  <2>2. Part(value) \in Bytes /\ Len(Part(value)) = 1 + Len(value)
    BY <1>1, <1>5, PartType
  <2>3. Len(Part(code) \o Part(value)) = (1 + Len(code)) + (1 + Len(value))
    <3>1. PICK x \in Bytes, y \in Bytes : x = Part(code) /\ y = Part(value)
      BY <2>1, <2>2
    <3>2. Len(x \o y) = Len(x) + Len(y)
      BY Concat
    <3> QED BY <2>1, <2>2, <3>1, <3>2
  <2>4. Len(Part(code) \o Part(value)) <= PayloadMax
    BY <1>1, <1>5, <2>3 DEF PayloadMax
  <2> QED BY <1>1, <1>3, <2>4 DEF protocol_courses_lookup_single_response_encode, protocol_encode
<1> QED BY <1>1, <1>3, <1>4, <1>6, <1>7 DEF NoMessage

LEMMA SingleAsked ==
    ASSUME NEW line \in Lines, NEW category \in Categories, send_request(line, category)
    PROVE  SingleUnderWay'
<1>1. typed' = [kind |-> "query", line |-> line, category |-> category]
  BY DEF send_request
<1> SUFFICES ASSUME OneWord(line)
             PROVE  SingleUnderWay'
  BY <1>1 DEF SingleUnderWay
<1>2. utils_get_word_count(line) = 1
  BY CodeType
<1>3. CASE Meaning[category] = "none"
  <2>1. shown' = InvalidCategory /\ at' = "shown"
    BY <1>2, <1>3, CategoryType DEF send_request
  <2>2. RightValue(WordsTyped(line), Meaning[category])'
    BY <1>3, <2>1 DEF RightValue
  <2>3. ShowsTheValue'
    BY <1>1, <2>2 DEF ShowsTheValue
  <2> QED BY <1>1, <2>1, <2>3 DEF SingleUnderWay
<1>4. CASE Meaning[category] # "none"
  <2>1. Hand(Question(line, category), "serverM")
    BY <1>2, <1>4, CategoryType DEF send_request, Question, CodeSent
  <2>2. flight' = Question(line, category) /\ at' = "serverM"
    BY <2>1, QuestionArrives DEF Hand
  <2> QED BY <1>1, <1>4, <2>2 DEF SingleUnderWay
<1> QED BY <1>3, <1>4

LEMMA SingleForwarded ==
    ASSUME SingleUnderWay, on_course_lookup_info_request_received
    PROVE  SingleUnderWay'
<1>1. UNCHANGED typed /\ at = "serverM"
  BY DEF on_course_lookup_info_request_received
<1> SUFFICES ASSUME typed.kind = "query", OneWord(typed.line)
             PROVE  SingleUnderWay'
  BY <1>1 DEF SingleUnderWay
<1>2. PICK line \in Lines, category \in Categories :
          /\ line = typed.line /\ category = typed.category /\ OneWord(line)
          /\ Meaning[category] # "none" /\ flight = Question(line, category)
  BY <1>1 DEF SingleUnderWay, Server
<1>3. PICK code \in Bytes : code = CodeSent(line) /\ Len(code) <= 9
  BY <1>2, CodeType
<1> DEFINE server == get_department_server_endpoint(code)
<1>4. protocol_courses_lookup_single_request_decode(flight)
         = [code |-> code, category |-> NumberSent(category)]
  BY <1>2, <1>3, QuestionArrives
<1>5. CASE server # Nowhere
  <2>1. Hand(Question(line, category), server)
    BY <1>3, <1>4, <1>5 DEF on_course_lookup_info_request_received, Question
  <2>2. flight' = Question(line, category) /\ at' = server
    BY <1>2, <2>1, QuestionArrives DEF Hand
  <2>3. server \in Server
    BY <1>5 DEF get_department_server_endpoint, Server
  <2> QED BY <1>1, <1>2, <1>3, <2>2, <2>3 DEF SingleUnderWay
<1>6. CASE server = Nowhere
  <2>1. Hand(protocol_courses_error_encode(ERR_COURSES_NOT_FOUND, code), "client")
    BY <1>4, <1>6 DEF on_course_lookup_info_request_received
  <2>2. Listed(code) = {}
    BY <1>6, ListedFound DEF Server, Nowhere
  <2>3. flight' = Reply(line, category) /\ at' = "client"
    BY <1>3, <2>1, <2>2, ErrorArrives DEF Hand, Reply
  <2> QED BY <1>1, <1>2, <2>3 DEF SingleUnderWay
<1> QED BY <1>5, <1>6

(* What database_courses_lookup_info takes out of a course.                *)
LEMMA InfoIsValue ==
    ASSUME NEW category \in Categories, Meaning[category] # "none", NEW course
    PROVE  database_courses_lookup_info(course, NumberSent(category))
              = ValueOf(course, Meaning[category])
<1>1. Meaning[category] \in Columns
  BY CategoryType
<1>2. PICK column \in Columns : column = Meaning[category]
  BY <1>1
<1>3. database_courses_lookup_info(course, NumberOf(column)) = ValueOf(course, column)
  BY DEF database_courses_lookup_info, NumberOf, ValueOf, Columns,
     COURSES_LOOKUP_CATEGORY_COURSE_CODE, COURSES_LOOKUP_CATEGORY_COURSE_NAME,
     COURSES_LOOKUP_CATEGORY_PROFESSOR, COURSES_LOOKUP_CATEGORY_DAYS,
     COURSES_LOOKUP_CATEGORY_CREDITS, COURSES_LOOKUP_CATEGORY_INVALID
<1> QED BY <1>2, <1>3 DEF NumberSent

LEMMA SingleLookedUp ==
    ASSUME SingleUnderWay, NEW server \in Server, handle_course_info_lookup_request(server)
    PROVE  SingleUnderWay'
<1>1. UNCHANGED typed /\ at = server
  BY DEF handle_course_info_lookup_request
<1> SUFFICES ASSUME typed.kind = "query", OneWord(typed.line)
             PROVE  SingleUnderWay'
  BY <1>1 DEF SingleUnderWay
<1>2. PICK line \in Lines, category \in Categories :
          /\ line = typed.line /\ category = typed.category /\ OneWord(line)
          /\ Meaning[category] # "none" /\ flight = Question(line, category)
          /\ server = get_department_server_endpoint(CodeSent(line))
  BY <1>1 DEF SingleUnderWay, Server
<1>3. PICK code \in Bytes : code = CodeSent(line) /\ code # <<>> /\ Len(code) <= 9
  BY <1>2, CodeType
<1>4. protocol_courses_lookup_single_request_decode(flight)
         = [code |-> code, category |-> NumberSent(category)]
  BY <1>2, <1>3, QuestionArrives
<1>5. CASE Listed(code) = {}
  <2>1. database_courses_lookup(db(server), code) = NoCourse
    BY <1>5, UnlistedNotFound
  <2>2. Hand(protocol_courses_error_encode(ERR_COURSES_NOT_FOUND, code), "client")
    BY <1>4, <2>1 DEF handle_course_info_lookup_request
  <2>3. flight' = Reply(line, category) /\ at' = "client"
    BY <1>3, <1>5, <2>2, ErrorArrives DEF Hand, Reply
  <2> QED BY <1>1, <1>2, <2>3 DEF SingleUnderWay
<1>6. CASE Listed(code) # {}
  <2>1. /\ database_courses_lookup(db(server), code) = TheCourse(code)
        /\ TheCourse(code) \in Courses
    BY <1>2, <1>3, <1>6, ListedFound
  <2>2. TheCourse(code) # NoCourse
    <3>1. TheCourse(code).code # <<>>
      BY <2>1, CoursesAssumption
    <3> QED BY <3>1 DEF NoCourse
  <2>3. Hand(Reply(line, category), "client")
    BY <1>2, <1>3, <1>4, <1>6, <2>1, <2>2, InfoIsValue
       DEF handle_course_info_lookup_request, Reply
  <2>4. Reply(line, category) # NoMessage
    BY <1>2, <1>3, <1>6, ValueArrives DEF Reply
  <2>5. flight' = Reply(line, category) /\ at' = "client"
    BY <2>3, <2>4 DEF Hand
  <2> QED BY <1>1, <1>2, <2>5 DEF SingleUnderWay
<1> QED BY <1>5, <1>6

(* The screen tells the value that was asked for, or the code.             *)
LEMMA SingleShown ==
    ASSUME SingleUnderWay,
           on_course_lookup_info \/ on_course_lookup_error \/ on_course_multi_lookup
    PROVE  SingleUnderWay'
<1>1. UNCHANGED typed /\ at = "client" /\ at' = "shown"
  BY DEF on_course_lookup_info, on_course_lookup_error, on_course_multi_lookup, Screen
<1> SUFFICES ASSUME typed.kind = "query", OneWord(typed.line)
             PROVE  SingleUnderWay'
  BY <1>1 DEF SingleUnderWay
<1>2. PICK line \in Lines, category \in Categories :
          /\ line = typed.line /\ category = typed.category /\ OneWord(line)
          /\ Meaning[category] # "none" /\ flight = Reply(line, category)
  BY <1>1 DEF SingleUnderWay, Server
<1>3. PICK code \in Bytes : code = CodeSent(line) /\ Len(code) <= 9
  BY <1>2, CodeType
<1>4. CASE Listed(code) = {}
  <2>1. flight = protocol_courses_error_encode(ERR_COURSES_NOT_FOUND, code)
    BY <1>2, <1>3, <1>4 DEF Reply
  <2>2. flight.type = "ERROR" /\ protocol_courses_error_decode(flight)
                    = [error |-> ERR_COURSES_NOT_FOUND, data |-> code]
    BY <1>3, <2>1, ErrorArrives
  <2>3. shown' = [kind |-> "not found", code |-> code]
    <3>1. on_course_lookup_error
      BY <2>2 DEF on_course_lookup_info, on_course_multi_lookup
    <3>2. PICK reply : /\ reply = protocol_courses_error_decode(flight)
                       /\ reply.error = ERR_COURSES_NOT_FOUND /\ reply.data = code
      BY <2>2
    <3>3. shown' = IF reply.error = ERR_COURSES_NOT_FOUND
                   THEN [kind |-> "not found", code |-> reply.data]
                   ELSE [kind |-> "unknown error"]
      BY <3>1, <3>2 DEF on_course_lookup_error, Screen
    <3> QED BY <3>2, <3>3
  <2>4. WordsTyped(line) # <<>> => code = WordsTyped(line)[1]
    BY <1>2, <1>3, CodeType
  <2>5. RightValue(WordsTyped(line), Meaning[category])'
    BY <1>2, <1>4, <2>3, <2>4 DEF RightValue
  <2> QED BY <1>1, <1>2, <2>5 DEF SingleUnderWay, ShowsTheValue
<1>5. CASE Listed(code) # {}
  <2>1. flight.type = "SINGLE_REPLY"
    BY <1>2, <1>3, <1>5, ValueArrives DEF Reply
  <2>2. PICK stale \in Stale :
            shown' = [kind |-> "value",
                      category |-> protocol_courses_lookup_single_response_decode(flight, stale).category,
                      code |-> protocol_courses_lookup_single_response_decode(flight, stale).code,
                      info |-> protocol_courses_lookup_single_response_decode(flight, stale).info]
    BY <2>1 DEF on_course_lookup_info, on_course_lookup_error, on_course_multi_lookup, Screen
  <2>3. protocol_courses_lookup_single_response_decode(flight, stale)
           = [code |-> code, category |-> NumberSent(category),
              info |-> ValueOf(TheCourse(code), Meaning[category])]
    BY <1>2, <1>3, <1>5, ValueArrives DEF Reply
  <2>4. /\ shown'.kind = "value" /\ shown'.code = code
        /\ shown'.info = ValueOf(TheCourse(code), Meaning[category])
    BY <2>2, <2>3
  <2>5. WordsTyped(line) # <<>> /\ code = WordsTyped(line)[1]
    BY <1>2, <1>3, <1>5, CodeType
  <2>6. RightValue(WordsTyped(line), Meaning[category])'
    BY <1>2, <1>5, <2>4, <2>5 DEF RightValue
  <2> QED BY <1>1, <1>2, <2>6 DEF SingleUnderWay, ShowsTheValue
<1> QED BY <1>4, <1>5

(* No step of a login or of a query for several courses is taken while a   *)
(* query for one is under way.                                             *)
LEMMA OthersAreNoSingle ==
    ASSUME SingleUnderWay,
           \/ on_auth_request_received \/ handle_auth_request_validate \/ on_auth_result
           \/ \E server \in Server : handle_course_detail_lookup_request(server)
           \/ multi_request_thread \/ single_course_code_handler
           \/ insert_to_end_of_linked_list \/ ThreadResponds
    PROVE  SingleUnderWay'
<1>1. UNCHANGED typed
  BY DEF on_auth_request_received, handle_auth_request_validate, on_auth_result, Screen,
     handle_course_detail_lookup_request, multi_request_thread, single_course_code_handler,
     insert_to_end_of_linked_list, ThreadResponds
<1>2. \/ at \in {"serverC", "thread", "collect"}
      \/ at \in Server \cup {"serverM"} /\ flight.type # "SINGLE_REQUEST"
      \/ at = "client" /\ flight.type = "AUTH_REPLY"
  BY DEF on_auth_request_received, handle_auth_request_validate, on_auth_result,
     handle_course_detail_lookup_request, multi_request_thread, single_course_code_handler,
     insert_to_end_of_linked_list, ThreadResponds
<1> SUFFICES ASSUME typed.kind = "query", OneWord(typed.line)
             PROVE  FALSE
  BY <1>1 DEF SingleUnderWay
<1>3. PICK line \in Lines, category \in Categories :
          /\ line = typed.line /\ category = typed.category /\ OneWord(line)
          /\ Meaning[category] # "none"
          /\ \/ at \in Server \cup {"serverM"} /\ flight = Question(line, category)
             \/ at = "client" /\ flight = Reply(line, category)
  BY <1>2 DEF SingleUnderWay, Server
<1>4. Question(line, category).type = "SINGLE_REQUEST"
  BY <1>3, QuestionArrives
<1>5. Reply(line, category).type \in {"ERROR", "SINGLE_REPLY"}
  <2>1. PICK code \in Bytes : code = CodeSent(line) /\ Len(code) <= 9
    BY <1>3, CodeType
  <2> QED BY <1>3, <2>1, ErrorArrives, ValueArrives DEF Reply
<1> QED BY <1>2, <1>3, <1>4, <1>5 DEF Server

LEMMA SingleUnderWayKept ==
    ASSUME SingleUnderWay, [Next]_vars
    PROVE  SingleUnderWay'
<1>1. ASSUME NEW login \in Logins, authenticate_user(login)
      PROVE  SingleUnderWay'
  BY <1>1 DEF authenticate_user, SingleUnderWay
<1>2. CASE NextPrompt
  BY <1>2 DEF NextPrompt, Silence, SingleUnderWay
<1>3. CASE UNCHANGED vars
  BY <1>3 DEF vars, SingleUnderWay, ShowsTheValue, RightValue
<1> QED BY <1>1, <1>2, <1>3, SingleAsked, SingleForwarded, SingleLookedUp, SingleShown,
           OthersAreNoSingle DEF Next, Server

(* For any files, courses and lines that fit each other, a query for one   *)
(* code shows what the files say of it, or that it is not found, whatever  *)
(* memory held: client, serverM and department encode and decode the code, *)
(* the number of the category and the value on the way (client.c 171-196,  *)
(* serverM.c 78-99, protocol.c 118-196, database.c 13-73).                 *)
THEOREM ValuesAreRight == Spec => []ShowsTheValue
<1>1. Init => SingleUnderWay
  BY DEF Init, Silence, SingleUnderWay
<1>2. SingleUnderWay /\ [Next]_vars => SingleUnderWay'
  BY SingleUnderWayKept
<1>3. SingleUnderWay => ShowsTheValue
  BY DEF SingleUnderWay, ShowsTheValue, OneWord, Server
<1> QED BY <1>1, <1>2, <1>3, PTL DEF Spec

-----------------------------------------------------------------------------
(* Numbers of words and rows, and lengths of lists.                        *)

(* How many members of a set are at most n.                                *)
CountTo(S, n) == Cardinality({i \in S : i <= n})

LEMMA CountsOn ==
    ASSUME NEW S \in SUBSET (Nat \ {0}), NEW n \in Nat
    PROVE  /\ CountTo(S, n) \in Nat /\ CountTo(S, n) <= n
           /\ CountTo(S, n + 1) = IF n + 1 \in S THEN CountTo(S, n) + 1 ELSE CountTo(S, n)
           /\ {i \in S : i <= n + 1} = {i \in S : i <= n} \cup (IF n + 1 \in S THEN {n + 1} ELSE {})
<1> DEFINE T == {i \in S : i <= n}
<1>1. T \in SUBSET (1 .. n)
  <2> SUFFICES ASSUME NEW i \in S, i <= n
               PROVE  i \in 1 .. n
    OBVIOUS
  <2>1. i \in Nat \ {0}
    OBVIOUS
  <2> QED BY <2>1
<1>2. IsFiniteSet(T) /\ Cardinality(T) \in Nat /\ Cardinality(T) <= n
  <2> HIDE DEF T
  <2> QED BY <1>1, Counted
<1>3. {i \in S : i <= n + 1} = T \cup (IF n + 1 \in S THEN {n + 1} ELSE {})
  <2>1. ASSUME NEW i \in S
        PROVE  i <= n + 1 <=> i <= n \/ i = n + 1
    <3>1. i \in Nat
      OBVIOUS
    <3> QED BY <3>1
  <2> QED BY <2>1
<1>4. n + 1 \notin T
  OBVIOUS
<1>5. CASE n + 1 \in S
  <2>1. {i \in S : i <= n + 1} = T \cup {n + 1}
    BY <1>3, <1>5
  <2> HIDE DEF T
  <2>2. Cardinality(T \cup {n + 1}) = Cardinality(T) + 1
    BY <1>2, <1>4, FS_AddElement
  <2>3. CountTo(S, n + 1) = Cardinality(T) + 1
    BY <2>1, <2>2, Zenon DEF CountTo
  <2> QED BY <1>2, <1>3, <1>5, <2>3 DEF CountTo, T
<1>6. CASE n + 1 \notin S
  <2>1. {i \in S : i <= n + 1} = T
    BY <1>3, <1>6
  <2>2. CountTo(S, n + 1) = Cardinality(T)
    BY <2>1, Zenon DEF CountTo
  <2> HIDE DEF T
  <2> QED BY <1>2, <1>3, <1>6, <2>2 DEF CountTo, T
<1> QED BY <1>5, <1>6

LEMMA CountsUp ==
    ASSUME NEW S \in SUBSET (Nat \ {0}), NEW n \in Nat, NEW m \in Nat, m <= n
    PROVE  /\ CountTo(S, m) <= CountTo(S, n)
           /\ m \in S => CountTo(S, m) \in Nat \ {0}
<1> DEFINE T(j) == {i \in S : i <= j}
<1>1. IsFiniteSet(T(n)) /\ IsFiniteSet(T(m)) /\ CountTo(S, m) \in Nat
  <2>1. ASSUME NEW j \in Nat
        PROVE  IsFiniteSet(T(j))
    <3>1. T(j) \in SUBSET (1 .. j)
      <4> SUFFICES ASSUME NEW i \in S, i <= j
                   PROVE  i \in 1 .. j
        OBVIOUS
      <4>1. i \in Nat \ {0}
        OBVIOUS
      <4> QED BY <4>1
    <3> HIDE DEF T
    <3> QED BY <3>1, Counted
  <2> QED BY <2>1, CountsOn
<1>2. T(m) \subseteq T(n)
  <2> SUFFICES ASSUME NEW i \in S, i <= m
               PROVE  i <= n
    OBVIOUS
  <2>1. i \in Nat
    OBVIOUS
  <2> QED BY <2>1
<1>3. Cardinality(T(m)) <= Cardinality(T(n))
  <2> HIDE DEF T
  <2> QED BY <1>1, <1>2, FS_Subset
<1>4. ASSUME m \in S
      PROVE  CountTo(S, m) # 0
  <2>1. m \in T(m)
    BY <1>4
  <2>2. T(m) # {}
    BY <2>1
  <2> HIDE DEF T
  <2>3. Cardinality(T(m)) # 0
    BY <1>1, <2>2, FS_EmptySet
  <2> QED BY <2>3 DEF CountTo, T
<1> QED BY <1>1, <1>3, <1>4 DEF CountTo

LEMMA FilledCounts ==
    ASSUME NEW codes, NEW n \in Nat
    PROVE  /\ Filled(codes, n) \in Nat /\ Filled(codes, n) <= n
           /\ Filled(codes, n + 1) =
                 IF codes[n + 1] # <<>> THEN Filled(codes, n) + 1 ELSE Filled(codes, n)
           /\ \A m \in 0 .. n : Filled(codes, m) <= Filled(codes, n)
<1> DEFINE S == {k \in Nat \ {0} : codes[k] # <<>>}
<1>1. ASSUME NEW m \in Nat
      PROVE  Filled(codes, m) = CountTo(S, m)
  <2>1. {k \in 1 .. m : codes[k] # <<>>} = {i \in S : i <= m}
    OBVIOUS
  <2> QED BY <2>1, Zenon DEF Filled, CountTo
<1>2. S \in SUBSET (Nat \ {0}) /\ n + 1 \in Nat
  OBVIOUS
<1>3. n + 1 \in S <=> codes[n + 1] # <<>>
  OBVIOUS
<1> HIDE DEF S
<1>4. ASSUME NEW m \in 0 .. n
      PROVE  Filled(codes, m) <= Filled(codes, n)
  <2>1. m \in Nat /\ m <= n
    OBVIOUS
  <2> QED BY <1>1, <1>2, <2>1, CountsUp
<1>5. Filled(codes, n) = CountTo(S, n) /\ Filled(codes, n + 1) = CountTo(S, n + 1)
  BY <1>1, <1>2
<1>6. /\ CountTo(S, n) \in Nat /\ CountTo(S, n) <= n
      /\ CountTo(S, n + 1) = IF n + 1 \in S THEN CountTo(S, n) + 1 ELSE CountTo(S, n)
  BY <1>2, CountsOn
<1> QED BY <1>3, <1>4, <1>5, <1>6

-----------------------------------------------------------------------------
(* A list is at least as long as its parts are many, when none is empty.   *)
LEMMA ListIsLong ==
    ASSUME NEW parts \in Seq(Bytes), NEW n \in Nat \ {0}, n = Len(parts),
           \A i \in 1 .. n : Len(parts[i]) >= 1
    PROVE  FlattenSeq(parts) \in Bytes /\ n <= Len(FlattenSeq(parts))
<1>1. PICK h : /\ Joins(h, parts, n)
               /\ \A i \in 1 .. n : h[i] \in Bytes
               /\ FlattenSeq(parts) = h[n]
  BY Flattened
<1>2. \A i \in 1 .. n : parts[i] \in Bytes /\ Len(parts[i]) \in Nat /\ Len(h[i]) \in Nat
  <2>1. \A i \in 1 .. n : parts[i] \in Bytes
    OBVIOUS
  <2> QED BY <1>1, <2>1, BytesType
<1> DEFINE S == {m \in Nat : m \in 1 .. n => m <= Len(h[m])}
<1>3. 0 \in S
  OBVIOUS
<1>4. ASSUME NEW m \in 0 .. n - 1, m \in S
      PROVE  m + 1 \in S
  <2>1. m + 1 \in Nat /\ m + 1 \in 1 .. n
    OBVIOUS
  <2>2. CASE m = 0
    <3>1. h[1] = parts[1] /\ 1 \in 1 .. n
      BY <1>1 DEF Joins
    <3>2. 1 <= Len(h[1])
      BY <3>1
    <3> QED BY <2>2, <3>2
  <2>3. CASE m # 0
    <3>1. m + 1 \in 2 .. n /\ (m + 1) - 1 = m /\ m \in 1 .. n
      BY <2>3
    <3>2. h[m + 1] = h[m] \o parts[m + 1]
      BY <1>1, <3>1 DEF Joins
    <3>3. Len(h[m + 1]) = Len(h[m]) + Len(parts[m + 1])
      BY <1>1, <1>2, <2>1, <3>1, <3>2, Concat
    <3>4. m <= Len(h[m])
      BY <1>4, <3>1
    <3>5. Len(parts[m + 1]) >= 1 /\ Len(parts[m + 1]) \in Nat /\ Len(h[m]) \in Nat
      BY <1>2, <2>1, <3>1
    <3>6. PICK x \in Nat, y \in Nat : x = Len(h[m]) /\ y = Len(parts[m + 1]) /\ y >= 1 /\ m <= x
      BY <3>4, <3>5
    <3>7. Len(h[m + 1]) = x + y
      BY <3>3, <3>6
    <3>8. m + 1 <= x + y
      <4>1. m <= x /\ 1 <= y
        BY <3>6
      <4> QED BY <4>1
    <3> QED BY <3>7, <3>8
  <2> QED BY <2>2, <2>3
<1>5. n \in S
  <2> HIDE DEF S
  <2>1. n \in 0 .. n
    OBVIOUS
  <2> QED BY <1>3, <1>4, <2>1, UpTo
<1>6. n \in 1 .. n
  OBVIOUS
<1> QED BY <1>1, <1>5, <1>6

(* What w times each of the parts does not exceed ...                      *)
LEMMA TimesAdd ==
    ASSUME NEW w \in Nat, NEW a \in Nat, NEW b \in Nat, NEW m \in Nat, NEW max \in Nat,
           w * a <= m * max, w * b <= max
    PROVE  w * (a + b) <= (m + 1) * max
<1>1. w * (a + b) = w * a + w * b
  OBVIOUS
<1>2. (m + 1) * max = m * max + max
  OBVIOUS
<1>3. w * a \in Nat /\ w * b \in Nat /\ m * max \in Nat
  OBVIOUS
<1> QED BY <1>1, <1>2, <1>3

LEMMA TimesLess ==
    ASSUME NEW w \in Nat \ {0}, NEW n \in Nat, NEW a \in Nat, NEW max \in Nat,
           w * a <= n * max, n <= w
    PROVE  a <= max
<1> SUFFICES ASSUME a >= max + 1
             PROVE  FALSE
  OBVIOUS
<1>1. w * a >= w * (max + 1)
  OBVIOUS
<1>2. w * (max + 1) = w * max + w
  OBVIOUS
<1>3. n * max <= w * max
  OBVIOUS
<1>4. w * a \in Nat /\ w * max \in Nat /\ n * max \in Nat
  OBVIOUS
<1> QED BY <1>1, <1>2, <1>3, <1>4

(* A list of at most w parts is no longer than w times the longest.        *)
LEMMA ListIsShort ==
    ASSUME NEW parts \in Seq(Bytes), NEW n \in Nat \ {0}, n = Len(parts),
           NEW w \in Nat, n <= w, NEW max \in Nat,
           \A i \in 1 .. n : w * Len(parts[i]) <= max
    PROVE  Len(FlattenSeq(parts)) <= max
<1>1. PICK h : /\ Joins(h, parts, n)
               /\ \A i \in 1 .. n : h[i] \in Bytes
               /\ FlattenSeq(parts) = h[n]
  BY Flattened
<1>2. \A i \in 1 .. n : parts[i] \in Bytes /\ Len(parts[i]) \in Nat /\ Len(h[i]) \in Nat
  <2>1. \A i \in 1 .. n : parts[i] \in Bytes
    OBVIOUS
  <2> QED BY <1>1, <2>1, BytesType
<1> DEFINE S == {m \in Nat : m \in 1 .. n => w * Len(h[m]) <= m * max}
<1>3. 0 \in S
  OBVIOUS
<1>4. ASSUME NEW m \in 0 .. n - 1, m \in S
      PROVE  m + 1 \in S
  <2>1. m + 1 \in Nat /\ m + 1 \in 1 .. n
    OBVIOUS
  <2>2. CASE m = 0
    <3>1. h[1] = parts[1] /\ 1 \in 1 .. n
      BY <1>1 DEF Joins
    <3>2. w * Len(h[1]) <= max
      BY <3>1
    <3>3. max = 1 * max
      OBVIOUS
    <3>4. w * Len(h[1]) <= 1 * max
      BY <3>2, <3>3
    <3> QED BY <2>2, <3>4
  <2>3. CASE m # 0
    <3>1. m + 1 \in 2 .. n /\ (m + 1) - 1 = m /\ m \in 1 .. n
      BY <2>3
    <3>2. h[m + 1] = h[m] \o parts[m + 1]
      BY <1>1, <3>1 DEF Joins
    <3>3. Len(h[m + 1]) = Len(h[m]) + Len(parts[m + 1])
      BY <1>1, <1>2, <2>1, <3>1, <3>2, Concat
    <3>4. w * Len(h[m]) <= m * max
      BY <1>4, <3>1
    <3>5. PICK a \in Nat, b \in Nat : a = Len(h[m]) /\ b = Len(parts[m + 1])
      BY <1>2, <2>1, <3>1
    <3>6. w * b <= max
      BY <2>1, <3>5
    <3>7. w * a <= m * max /\ m \in Nat
      BY <3>4, <3>5
    <3>8. w * (a + b) <= (m + 1) * max
      BY <3>6, <3>7, TimesAdd
    <3>9. w * Len(h[m + 1]) <= (m + 1) * max
      BY <3>3, <3>5, <3>8
    <3> QED BY <3>9
  <2> QED BY <2>2, <2>3
<1>5. n \in S
  <2> HIDE DEF S
  <2>1. n \in 0 .. n
    OBVIOUS
  <2> QED BY <1>3, <1>4, <2>1, UpTo
<1>6. n \in 1 .. n /\ w \in Nat \ {0}
  OBVIOUS
<1>7. w * Len(h[n]) <= n * max /\ Len(h[n]) \in Nat
  BY <1>2, <1>5, <1>6
<1>8. Len(h[n]) <= max
  BY <1>6, <1>7, TimesLess
<1> QED BY <1>1, <1>8

(* The words of a text are numbered from one on.                           *)
LEMMA WordsAreNumbered ==
    ASSUME NEW line \in Bytes
    PROVE  Len(WordsTyped(line)) \in Nat /\ DOMAIN WordsTyped(line) = 1 .. Len(WordsTyped(line))
<1>1. Len(line) \in Nat /\ DOMAIN line = 1 .. Len(line)
  BY BytesType
<1> DEFINE Inside(i) == i \in DOMAIN line /\ line[i] \notin Spaces
           S == {i \in DOMAIN line : Inside(i) /\ ~Inside(i - 1)}
           starts == Ascending(S)
           ends == Ascending({i \in DOMAIN line : Inside(i) /\ ~Inside(i + 1)})
<1>2. WordsTyped(line) = [n \in DOMAIN starts |-> SubSeq(line, starts[n], ends[n])]
  BY Zenon DEF WordsTyped, Tokens
<1>3. IsFiniteSet(S) /\ S \in SUBSET Nat
  <2>1. S \in SUBSET (1 .. Len(line)) /\ S \in SUBSET Nat
    BY <1>1
  <2> HIDE DEF S
  <2> QED BY <1>1, <2>1, Counted
<1>4. PICK n \in Nat : DOMAIN starts = 1 .. n
  <2> HIDE DEF S
  <2>1. Cardinality(S) \in Nat /\ starts \in [1 .. Cardinality(S) -> S]
    BY <1>3, AscendingSorts
  <2> QED BY <2>1
<1>5. DOMAIN WordsTyped(line) = 1 .. n
  BY <1>2, <1>4, Zenon
<1>6. Len(WordsTyped(line)) = n
  BY <1>5
<1> QED BY <1>5, <1>6

LEMMA CodesAreParts ==
    ASSUME NEW line
    PROVE  LET t == TrimmedInPlace(line)
               n == utils_get_word_count(line)
           IN /\ DOMAIN CodesCut(line) = 1 .. n
              /\ \A i \in 1 .. n : CodesCut(line)[i] = Word(t, i)
              /\ [i \in DOMAIN CodesCut(line) |-> Part(CodesCut(line)[i])]
                    = [i \in 1 .. n |-> Part(Word(t, i))]
<1>1. DOMAIN CodesCut(line) = 1 .. utils_get_word_count(line)
  BY Zenon DEF CodesCut
<1>2. \A i \in 1 .. utils_get_word_count(line) :
          CodesCut(line)[i] = Word(TrimmedInPlace(line), i)
  BY Zenon DEF CodesCut
<1>3. [i \in DOMAIN CodesCut(line) |-> Part(CodesCut(line)[i])]
         = [i \in 1 .. utils_get_word_count(line) |-> Part(Word(TrimmedInPlace(line), i))]
  BY <1>1, <1>2, Zenon
<1> QED BY <1>1, <1>2, <1>3

(* What the assumption on lines says of one with several words.            *)
LEMMA SeveralWords ==
    ASSUME NEW line \in Lines, ~OneWord(line)
    PROVE  LET n == utils_get_word_count(line)
               t == TrimmedInPlace(line)
               w == Len(WordsTyped(line))
           IN /\ n \in Byte \ {0} /\ n \in Nat \ {0} /\ n # 1 /\ n < DecodeBuffer
              /\ Len(CodesCut(line)) = n
              /\ \A i \in 1 .. n : /\ CodesCut(line)[i] = Word(t, i)
                                   /\ Word(t, i) \in Bytes /\ Len(Word(t, i)) <= 9
              /\ Len(FlattenSeq([i \in 1 .. n |-> Part(Word(t, i))])) < DecodeBuffer
              /\ w \in Nat \ {0} /\ DOMAIN WordsTyped(line) = 1 .. w
              /\ w = Filled(CodesCut(line), n)
<1>1. line \in Bytes
  BY LinesAssumption DEF Bytes
<1>2. PICK w \in Nat : w = Len(WordsTyped(line)) /\ DOMAIN WordsTyped(line) = 1 .. w
  BY <1>1, WordsAreNumbered
<1>3. ~(w <= 1)
  BY <1>2 DEF OneWord
<1>4. PICK n \in Nat \ {0} : n = utils_get_word_count(line)
  BY <1>1, LineType
<1>5. PICK t \in Bytes : t = TrimmedInPlace(line)
  BY <1>1, LineType
<1>6. n # 1
  BY <1>2, <1>3, <1>4, LinesAssumption
<1>7. Len(WordsTyped(line)) > 1
  BY <1>2, <1>3
<1>8. /\ Len(FlattenSeq([i \in DOMAIN CodesCut(line) |-> Part(CodesCut(line)[i])])) < DecodeBuffer
      /\ w = Filled(CodesCut(line), Len(CodesCut(line)))
      /\ \A i \in DOMAIN CodesCut(line) : Len(CodesCut(line)[i]) < CodeBuffer
  BY <1>2, <1>7, LinesAssumption
<1>9. /\ DOMAIN CodesCut(line) = 1 .. n
      /\ \A i \in 1 .. n : CodesCut(line)[i] = Word(t, i)
      /\ [i \in DOMAIN CodesCut(line) |-> Part(CodesCut(line)[i])] = [i \in 1 .. n |-> Part(Word(t, i))]
  BY <1>4, <1>5, CodesAreParts
<1>10. Len(CodesCut(line)) = n
  BY <1>9
<1>11. ASSUME NEW i \in 1 .. n
       PROVE  Word(t, i) \in Bytes /\ Len(Word(t, i)) <= 9 /\ Len(Word(t, i)) \in Nat
  <2>1. i \in Nat \ {0}
    OBVIOUS
  <2>2. Word(t, i) \in Bytes
    BY <2>1, WordType
  <2>3. Len(Word(t, i)) < CodeBuffer
    BY <1>8, <1>9
  <2>4. Len(Word(t, i)) \in Nat
    BY <2>2, BytesType
  <2> QED BY <2>2, <2>3, <2>4 DEF CodeBuffer
<1> DEFINE parts == [i \in 1 .. n |-> Part(Word(t, i))]
<1>12. Len(FlattenSeq(parts)) < DecodeBuffer
  BY <1>8, <1>9
<1>13. n <= Len(FlattenSeq(parts)) /\ FlattenSeq(parts) \in Bytes
  <2>1. ASSUME NEW i \in 1 .. n
        PROVE  parts[i] \in Bytes /\ Len(parts[i]) >= 1
    <3>1. Len(Word(t, i)) <= 255 /\ Len(Word(t, i)) \in Nat /\ Word(t, i) \in Bytes
      BY <1>11
    <3>2. Part(Word(t, i)) \in Bytes /\ Len(Part(Word(t, i))) = 1 + Len(Word(t, i))
      BY <3>1, PartType
    <3>3. Len(Part(Word(t, i))) >= 1
      BY <3>1, <3>2
    <3> QED BY <3>2, <3>3
  <2>2. parts \in [1 .. n -> Bytes]
    BY <2>1
  <2> HIDE DEF parts
  <2>3. parts \in Seq(Bytes) /\ n = Len(parts)
    BY <2>2, IsASeq, LenProperties
  <2> QED BY <2>1, <2>3, ListIsLong
<1>14. n < DecodeBuffer /\ n \in Byte
  <2> HIDE DEF parts
  <2>1. Len(FlattenSeq(parts)) \in Nat
    BY <1>13, BytesType
  <2>2. n < 128
    BY <1>12, <1>13, <2>1 DEF DecodeBuffer
  <2> QED BY <2>2, SmallIsByte DEF DecodeBuffer
<1>15. w \in Nat \ {0} /\ w = Filled(CodesCut(line), n)
  BY <1>3, <1>8, <1>10
<1> QED BY <1>2, <1>4, <1>5, <1>6, <1>9, <1>10, <1>11, <1>12, <1>14, <1>15

-----------------------------------------------------------------------------
(* A query for several courses on its way, as an invariant of the          *)
(* specification.                                                          *)

\* The words of a line that are codes of courses, those up to the f-th word,
\* and the row of the table that the n-th one makes.
Known(line) == {n \in DOMAIN WordsTyped(line) : Listed(WordsTyped(line)[n]) # {}}

KnownTo(line, f) == {n \in Known(line) : n <= f}

RowOf(line, n) == Cardinality(KnownTo(line, n))

\* The thread has taken k codes off the list, and has the rows of k codes.
Remaining(line, k) ==
    /\ todo \in Seq(Bytes) /\ Len(todo) + k = utils_get_word_count(line)
    /\ \A i \in 1 .. Len(todo) : todo[i] = CodesCut(line)[k + i]

Collected(line, k) ==
    LET f == Filled(CodesCut(line), k)
    IN /\ list \in Seq(NamedIn(line)) /\ Len(list) = RowOf(line, f)
       /\ \A n \in KnownTo(line, f) : list[RowOf(line, n)] = TheCourse(WordsTyped(line)[n])

CodeMessage(line) ==
    protocol_courses_lookup_multiple_request_encode(
        utils_get_word_count(line), TrimmedInPlace(line))

DetailReply(code) ==
    IF Listed(code) = {} THEN protocol_courses_error_encode(ERR_COURSES_NOT_FOUND, code)
    ELSE protocol_courses_lookup_detail_response_encode(TheCourse(code))

\* The stages: all codes are on their way to serverM; k of them are dealt
\* with; the k-th one is on its way to its department; what is known of it is
\* on its way back; the table is on its way to the client.
CodesSent(line) == at = "serverM" /\ flight = CodeMessage(line)

Between(line, k) == at = "thread" /\ Remaining(line, k) /\ Collected(line, k)

Asked(line, k) ==
    /\ at \in Server /\ at = get_department_server_endpoint(CodesCut(line)[k])
    /\ Remaining(line, k) /\ Collected(line, k - 1)
    /\ flight = protocol_courses_lookup_detail_request_encode(CodesCut(line)[k])

Answered(line, k) ==
    /\ at = "collect" /\ Remaining(line, k) /\ Collected(line, k - 1)
    /\ flight = DetailReply(CodesCut(line)[k])

Told(line) ==
    /\ at = "client" /\ list # <<>> /\ Collected(line, utils_get_word_count(line))
    /\ flight = protocol_courses_lookup_multiple_response_encode(list)

TableUnderWay ==
    typed.kind = "query" /\ ~OneWord(typed.line) =>
        /\ typed.line \in Lines
        /\ \/ CodesSent(typed.line)
           \/ \E k \in 0 .. utils_get_word_count(typed.line) : Between(typed.line, k)
           \/ \E k \in 1 .. utils_get_word_count(typed.line) :
                 Asked(typed.line, k) \/ Answered(typed.line, k)
           \/ Told(typed.line)
           \/ at = "shown" /\ ShowsTheTable

LEMMA KnownType ==
    ASSUME NEW line \in Lines
    PROVE  Known(line) \in SUBSET (Nat \ {0})
<1>1. line \in Bytes
  BY LinesAssumption DEF Bytes
<1>2. Len(WordsTyped(line)) \in Nat /\ DOMAIN WordsTyped(line) = 1 .. Len(WordsTyped(line))
  BY <1>1, WordsAreNumbered
<1>3. DOMAIN WordsTyped(line) \in SUBSET (Nat \ {0})
  BY <1>2
<1>4. Known(line) \subseteq DOMAIN WordsTyped(line)
  BY Zenon DEF Known
<1> QED BY <1>3, <1>4, Zenon

LEMMA RowsCount ==
    ASSUME NEW line, NEW n
    PROVE  RowOf(line, n) = CountTo(Known(line), n)
BY Zenon DEF RowOf, KnownTo, CountTo

(* The rows that are there stay where they are.                            *)
LEMMA RowsBefore ==
    ASSUME NEW line \in Lines, NEW f \in Nat
    PROVE  /\ RowOf(line, f) \in Nat /\ RowOf(line, f) <= f
           /\ \A n \in KnownTo(line, f) : RowOf(line, n) \in 1 .. RowOf(line, f)
<1>1. Known(line) \in SUBSET (Nat \ {0})
  BY KnownType
<1>2. RowOf(line, f) \in Nat /\ RowOf(line, f) <= f
  BY <1>1, CountsOn, RowsCount
<1>3. ASSUME NEW n \in KnownTo(line, f)
      PROVE  RowOf(line, n) \in 1 .. RowOf(line, f)
  <2>1. n \in Known(line) /\ n <= f
    BY <1>3, Zenon DEF KnownTo
  <2>2. n \in Nat
    BY <1>1, <2>1
  <2>3. /\ CountTo(Known(line), n) <= CountTo(Known(line), f)
        /\ CountTo(Known(line), n) \in Nat \ {0}
    BY <1>1, <2>1, <2>2, CountsUp
  <2>4. RowOf(line, n) <= RowOf(line, f) /\ RowOf(line, n) \in Nat \ {0}
    BY <2>3, RowsCount
  <2> QED BY <1>2, <2>4
<1> QED BY <1>2, <1>3

(* No course has an empty code.                                            *)
LEMMA EmptyIsUnlisted == Listed(<<>>) = {}
<1> SUFFICES ASSUME NEW c \in Courses, SameIgnoringCase(c.code, <<>>)
             PROVE  FALSE
  BY DEF Listed
<1>1. c.code \in Seq(Byte) \ {<<>>}
  BY CoursesAssumption
<1>2. Len(c.code) = Len(<<>>)
  BY Zenon DEF SameIgnoringCase
<1> QED BY <1>1, <1>2, EmptySeq

(* The next code makes the next row when it is the code of a course, which *)
(* is the next word then.                                                  *)
LEMMA NextCode ==
    ASSUME NEW line \in Lines, ~OneWord(line), NEW k \in Nat, k + 1 <= utils_get_word_count(line)
    PROVE  LET code == CodesCut(line)[k + 1]
               f    == Filled(CodesCut(line), k)
               g    == Filled(CodesCut(line), k + 1)
           IN /\ f \in Nat /\ g \in Nat
              /\ Listed(code) = {} =>
                    RowOf(line, g) = RowOf(line, f) /\ KnownTo(line, g) = KnownTo(line, f)
              /\ Listed(code) # {} =>
                    /\ WordsTyped(line)[g] = code
                    /\ RowOf(line, g) = RowOf(line, f) + 1
                    /\ KnownTo(line, g) = KnownTo(line, f) \cup {g}
<1>1. PICK codes : codes = CodesCut(line)
  OBVIOUS
<1>2. PICK n \in Nat, w \in Nat :
          /\ n = utils_get_word_count(line) /\ Len(codes) = n
          /\ w = Len(WordsTyped(line)) /\ w = Filled(codes, n)
          /\ DOMAIN WordsTyped(line) = 1 .. w /\ DOMAIN codes = 1 .. n
  BY <1>1, SeveralWords, CodesAreParts
<1>3. k + 1 \in Nat /\ k + 1 \in 1 .. n /\ k + 1 \in 0 .. n
  BY <1>2
<1>4. PICK f \in Nat, g \in Nat :
          /\ f = Filled(codes, k) /\ g = Filled(codes, k + 1)
          /\ g = IF codes[k + 1] # <<>> THEN f + 1 ELSE f
  BY <1>3, FilledCounts
<1>5. g <= w
  BY <1>2, <1>3, <1>4, FilledCounts
<1>6. Known(line) \in SUBSET (Nat \ {0})
  BY KnownType
<1>7. /\ RowOf(line, f + 1) = IF f + 1 \in Known(line) THEN RowOf(line, f) + 1 ELSE RowOf(line, f)
      /\ KnownTo(line, f + 1) = KnownTo(line, f) \cup (IF f + 1 \in Known(line) THEN {f + 1} ELSE {})
  <2>1. PICK S \in SUBSET (Nat \ {0}) : S = Known(line)
    BY <1>6
  <2>2. /\ CountTo(S, f + 1) = IF f + 1 \in S THEN CountTo(S, f) + 1 ELSE CountTo(S, f)
        /\ {i \in S : i <= f + 1} = {i \in S : i <= f} \cup (IF f + 1 \in S THEN {f + 1} ELSE {})
    BY CountsOn
  <2>3. KnownTo(line, f + 1) = {i \in S : i <= f + 1} /\ KnownTo(line, f) = {i \in S : i <= f}
    BY <2>1, Zenon DEF KnownTo
  <2> QED BY <2>1, <2>2, <2>3, RowsCount, Zenon
<1>8. CASE codes[k + 1] = <<>>
  <2>1. g = f /\ Listed(codes[k + 1]) = {}
    BY <1>4, <1>8, EmptyIsUnlisted
  <2> QED BY <1>1, <1>4, <2>1
<1>9. CASE codes[k + 1] # <<>>
  <2>1. g = f + 1
    BY <1>4, <1>9
  <2>2. codes[k + 1] = WordsTyped(line)[g]
    <3>1. Len(WordsTyped(line)) > 1
      <4>1. ~(w <= 1)
        BY <1>2 DEF OneWord
      <4> QED BY <1>2, <4>1
    <3>2. \A i \in DOMAIN codes : codes[i] # <<>> => codes[i] = WordsTyped(line)[Filled(codes, i)]
      BY <1>1, <3>1, LinesAssumption
    <3> QED BY <1>2, <1>3, <1>4, <1>9, <3>2
  <2>3. g \in Known(line) <=> Listed(codes[k + 1]) # {}
    <3>1. g \in DOMAIN WordsTyped(line)
      BY <1>2, <1>5, <2>1
    <3> QED BY <2>2, <3>1, Zenon DEF Known
  <2>4. CASE Listed(codes[k + 1]) = {}
    <3>1. f + 1 \notin Known(line)
      BY <2>1, <2>3, <2>4
    <3>2. RowOf(line, g) = RowOf(line, f) /\ KnownTo(line, g) = KnownTo(line, f)
      BY <1>7, <2>1, <3>1
    <3> QED BY <1>1, <1>4, <2>4, <3>2
  <2>5. CASE Listed(codes[k + 1]) # {}
    <3>1. f + 1 \in Known(line)
      BY <2>1, <2>3, <2>5
    <3>2. RowOf(line, g) = RowOf(line, f) + 1 /\ KnownTo(line, g) = KnownTo(line, f) \cup {g}
      BY <1>7, <2>1, <3>1
    <3> QED BY <1>1, <1>4, <2>2, <2>5, <3>2
  <2> QED BY <2>4, <2>5
<1> QED BY <1>8, <1>9

(* In the end every known word has its row.                                *)
LEMMA AllRows ==
    ASSUME NEW line \in Lines, ~OneWord(line)
    PROVE  LET f == Filled(CodesCut(line), utils_get_word_count(line))
           IN /\ f \in Nat /\ f = Len(WordsTyped(line))
              /\ KnownTo(line, f) = Known(line) /\ RowOf(line, f) = Cardinality(Known(line))
              /\ RowOf(line, f) = 0 <=> Known(line) = {}
<1>1. PICK w \in Nat : /\ w = Len(WordsTyped(line)) /\ DOMAIN WordsTyped(line) = 1 .. w
                       /\ w = Filled(CodesCut(line), utils_get_word_count(line))
  BY SeveralWords
<1>2. Known(line) \in SUBSET (1 .. w)
  BY <1>1, Zenon DEF Known
<1>3. KnownTo(line, w) = Known(line)
  <2>1. ASSUME NEW n \in Known(line)
        PROVE  n <= w
    BY <1>2
  <2> QED BY <2>1, Zenon DEF KnownTo
<1>4. RowOf(line, w) = Cardinality(Known(line))
  BY <1>3, Zenon DEF RowOf
<1>5. IsFiniteSet(Known(line))
  BY <1>2, Counted
<1>6. Cardinality(Known(line)) = 0 <=> Known(line) = {}
  BY <1>5, FS_EmptySet
<1> QED BY <1>1, <1>3, <1>4, <1>6

(* The codes reach serverM as they were cut out of the line.               *)
LEMMA CodeMessageArrives ==
    ASSUME NEW line \in Lines, ~OneWord(line)
    PROVE  /\ CodeMessage(line).type = "MULTI_REQUEST" /\ CodeMessage(line) # NoMessage
           /\ CodeMessage(line).flags = 0 /\ CodeMessage(line).payload \in Bytes
           /\ Len(CodeMessage(line).payload) <= PayloadMax
           /\ \A stale : protocol_courses_lookup_multiple_request_decode(CodeMessage(line), stale)
                            = CodesCut(line)
<1>1. PICK n, t : n \in Byte \ {0} /\ n = utils_get_word_count(line) /\ t = TrimmedInPlace(line)
  BY SeveralWords
<1> DEFINE parts == [i \in 1 .. n |-> Part(Word(t, i))]
<1>2. /\ \A i \in 1 .. n : Word(t, i) \in Bytes /\ Len(Word(t, i)) <= 9
      /\ Len(FlattenSeq(parts)) < DecodeBuffer
  BY <1>1, SeveralWords
<1>3. \A i \in 1 .. n : Word(t, i) \in Bytes /\ Len(Word(t, i)) <= 255
  BY <1>2, BytesType
<1>4. n \in Nat \ {0}
  BY <1>1 DEF Byte
<1>5. FlattenSeq(parts) \in Bytes
  <2>1. ASSUME NEW i \in 1 .. n
        PROVE  parts[i] \in Bytes /\ Len(parts[i]) >= 1
    <3>1. Len(Word(t, i)) \in Nat
      BY <1>3, BytesType
    <3>2. Part(Word(t, i)) \in Bytes /\ Len(Part(Word(t, i))) = 1 + Len(Word(t, i))
      BY <1>3, PartType
    <3> QED BY <3>1, <3>2
  <2>2. parts \in [1 .. n -> Bytes]
    BY <2>1
  <2> HIDE DEF parts
  <2>3. parts \in Seq(Bytes) /\ n = Len(parts)
    BY <1>4, <2>2, IsASeq, LenProperties
  <2> QED BY <1>4, <2>1, <2>3, ListIsLong
<1>6. ASSUME NEW stale
      PROVE  protocol_courses_lookup_multiple_request_decode(CodeMessage(line), stale)
                = CodesCut(line)
  <2>1. protocol_courses_lookup_multiple_request_decode(
            protocol_courses_lookup_multiple_request_encode(n, t), stale)
           = [i \in 1 .. n |-> Word(t, i)]
    BY <1>1, <1>2, <1>3, CodesArrive
  <2>2. CodesCut(line) = [i \in 1 .. n |-> Word(t, i)]
    BY <1>1, Zenon DEF CodesCut
  <2>3. CodeMessage(line) = protocol_courses_lookup_multiple_request_encode(n, t)
    BY <1>1, Zenon DEF CodeMessage
  <2> QED BY <2>1, <2>2, <2>3, Zenon
<1>7. CodeMessage(line) = protocol_encode("MULTI_REQUEST", 0, <<n>> \o FlattenSeq(parts))
  BY <1>1, Zenon DEF CodeMessage, protocol_courses_lookup_multiple_request_encode
<1> HIDE DEF parts
<1>8. PICK flat \in Bytes : flat = FlattenSeq(parts) /\ Len(flat) < DecodeBuffer /\ Len(flat) \in Nat
  BY <1>2, <1>5, BytesType
<1>9. PICK one \in Bytes : one = <<n>> /\ Len(one) = 1
  BY <1>1, OneByte
<1>10. one \o flat \in Bytes /\ Len(one \o flat) = 1 + Len(flat)
  BY <1>9, Concat
<1>11. Len(one \o flat) <= PayloadMax
  BY <1>8, <1>10 DEF PayloadMax, DecodeBuffer
<1>12. PICK payload \in Bytes : payload = one \o flat /\ Len(payload) <= PayloadMax
  BY <1>10, <1>11
<1>13. CodeMessage(line) = [type |-> "MULTI_REQUEST", flags |-> 0, payload |-> payload]
  <2>1. CodeMessage(line) = protocol_encode("MULTI_REQUEST", 0, payload)
    BY <1>7, <1>8, <1>9, <1>12
  <2> QED BY <1>12, <2>1 DEF protocol_encode
<1>14. /\ CodeMessage(line).type = "MULTI_REQUEST" /\ CodeMessage(line).flags = 0
       /\ CodeMessage(line).payload \in Bytes /\ Len(CodeMessage(line).payload) <= PayloadMax
  BY <1>12, <1>13
<1>15. CodeMessage(line) # NoMessage
  BY <1>14 DEF NoMessage
<1> QED BY <1>6, <1>14, <1>15

(* One code reaches the department as it is.                               *)
LEMMA CodeArrives ==
    ASSUME NEW code \in Bytes, Len(code) <= 9
    PROVE  LET request == protocol_courses_lookup_detail_request_encode(code)
           IN /\ request.type = "DETAIL_REQUEST" /\ request.flags = 0 /\ request.payload = code
              /\ protocol_courses_lookup_detail_request_decode(request) = code
<1>1. Len(code) \in Nat
  BY BytesType
<1>2. Len(code) <= PayloadMax /\ Len(code) < CodeBuffer /\ CodeBuffer \in Nat
  BY <1>1 DEF PayloadMax, CodeBuffer
<1>3. protocol_decode(protocol_encode("DETAIL_REQUEST", 0, code), CodeBuffer) = code
  BY <1>2, CopiedWhole
<1>4. protocol_encode("DETAIL_REQUEST", 0, code)
         = [type |-> "DETAIL_REQUEST", flags |-> 0, payload |-> code]
  BY <1>2 DEF protocol_encode
<1> QED BY <1>2, <1>3, <1>4 DEF protocol_courses_lookup_detail_request_encode,
                          protocol_courses_lookup_detail_request_decode

LEMMA CoursesAreShort ==
    ASSUME NEW c \in Courses
    PROVE  c \in ShortCourse /\ c \in CourseType /\ Len(Texts(c)) <= 126
<1>1. c \in CourseType
  BY CoursesAssumption DEF CourseType, Bytes
<1>2. Len(Texts(c)) <= 126
  BY CoursesAssumption DEF DecodeBuffer
<1> QED BY <1>1, <1>2 DEF ShortCourse

LEMMA DetailEncoded ==
    ASSUME NEW c \in Courses
    PROVE  LET reply == protocol_courses_lookup_detail_response_encode(c)
           IN /\ reply.type = "DETAIL_REPLY" /\ reply.flags = 0
              /\ reply.payload \in Bytes /\ Len(reply.payload) <= PayloadMax
<1>1. c \in CourseType /\ Len(Texts(c)) <= 126
  BY CoursesAreShort
<1>2. PICK i \in Nat, j \in Nat, k \in Nat, l \in Nat :
          Sizes(c, i, j, k, l) /\ i + j + k + l <= 122
  BY <1>1, TextsLength
<1>3. PICK s \in Bytes : s = Texts(c) /\ Len(s) = i + j + k + l + 4
  BY <1>1, <1>2, TextsHold
<1>4. PICK z \in Bytes : z = <<1, CreditsByte(c)>> /\ Len(z) = 2
  <2>1. 1 \in Byte /\ CreditsByte(c) \in Byte
    BY <1>1, CreditsKept, SmallIsByte
  <2> QED BY <2>1, TwoBytes
<1>5. s \o z \in Bytes /\ Len(s \o z) = Len(s) + Len(z)
  BY Concat
<1>6. Len(s \o z) <= PayloadMax
  <2>1. i + j + k + l + 4 + 2 <= 1020
    BY <1>2
  <2> QED BY <1>3, <1>4, <1>5, <2>1 DEF PayloadMax
<1>7. protocol_courses_lookup_detail_response_encode(c)
         = [type |-> "DETAIL_REPLY", flags |-> 0, payload |-> s \o z]
  BY <1>3, <1>4, <1>6 DEF protocol_courses_lookup_detail_response_encode, protocol_encode
<1> QED BY <1>5, <1>6, <1>7

(* The thread learns which course a code has, or that it has none.         *)
LEMMA DetailReplies ==
    ASSUME NEW code \in Bytes, Len(code) <= 9
    PROVE  /\ Listed(code) = {} => DetailReply(code).type = "ERROR"
           /\ Listed(code) # {} =>
                 /\ DetailReply(code).type = "DETAIL_REPLY"
                 /\ TheCourse(code) \in Courses
                 /\ \A stale : protocol_courses_lookup_detail_response_decode(
                                   DetailReply(code), stale) = TheCourse(code)
<1>1. CASE Listed(code) = {}
  BY <1>1, ErrorArrives DEF DetailReply
<1>2. CASE Listed(code) # {}
  <2>1. PICK c \in Courses : c = TheCourse(code)
    BY <1>2, ListedFound
  <2>2. DetailReply(code) = protocol_courses_lookup_detail_response_encode(c)
    BY <1>2, <2>1 DEF DetailReply
  <2>3. c \in CourseType /\ Len(Texts(c)) <= 126
    BY CoursesAreShort
  <2>4. \A stale : protocol_courses_lookup_detail_response_decode(DetailReply(code), stale) = c
    BY <2>2, <2>3, DetailArrives
  <2>5. DetailReply(code).type = "DETAIL_REPLY"
    BY <2>2, DetailEncoded
  <2> QED BY <1>2, <2>1, <2>4, <2>5
<1> QED BY <1>1, <1>2

LEMMA NamedAreCourses ==
    ASSUME NEW line
    PROVE  NamedIn(line) \subseteq Courses
BY DEF NamedIn, Listed

(* The rows of a line fit the buffer of the encoder of lists.              *)
LEMMA RowsFit ==
    ASSUME NEW line \in Lines, ~OneWord(line), NEW rows \in Seq(NamedIn(line)), rows # <<>>,
           Len(rows) <= Len(WordsTyped(line))
    PROVE  rows \in Seq(ShortCourse) /\ Len(ListOf(rows)) <= ListBuffer
<1>1. PICK n \in Nat \ {0} : n = Len(rows) /\ DOMAIN rows = 1 .. n
  BY EmptySeq, LenProperties
<1>2. \A i \in 1 .. n : rows[i] \in NamedIn(line) /\ rows[i] \in Courses
  BY <1>1, NamedAreCourses
<1>3. rows \in Seq(ShortCourse)
  <2>1. NamedIn(line) \subseteq ShortCourse
    BY CoursesAreShort, NamedAreCourses
  <2> QED BY <2>1
<1>4. PICK w \in Nat : w = Len(WordsTyped(line)) /\ n <= w
  BY <1>1, SeveralWords
<1>5. Len(WordsTyped(line)) > 1
  <2>1. ~(w <= 1)
    BY <1>4 DEF OneWord
  <2> QED BY <1>4, <2>1
<1>6. \A c \in NamedIn(line) : w * Len(course_details_encode(c)) <= ListBuffer
  BY <1>4, <1>5, LinesAssumption
<1> DEFINE parts == [i \in DOMAIN rows |-> course_details_encode(rows[i])]
<1>7. \A i \in 1 .. n : /\ parts[i] = course_details_encode(rows[i])
                        /\ parts[i] \in Bytes
                        /\ w * Len(parts[i]) <= ListBuffer
  <2>1. ASSUME NEW i \in 1 .. n
        PROVE  parts[i] = course_details_encode(rows[i])
    BY <1>1
  <2>2. ASSUME NEW i \in 1 .. n
        PROVE  course_details_encode(rows[i]) \in Bytes
    BY <1>2, CoursesAreShort, RowIsBytes
  <2> HIDE DEF parts
  <2> QED BY <1>2, <1>6, <2>1, <2>2
<1>8. parts \in [1 .. n -> Bytes]
  BY <1>1, <1>7
<1> HIDE DEF parts
<1>9. parts \in Seq(Bytes) /\ n = Len(parts)
  BY <1>8, IsASeq, LenProperties
<1>10. Len(FlattenSeq(parts)) <= ListBuffer
  <2>1. ListBuffer \in Nat
    BY DEF ListBuffer
  <2>2. \A i \in 1 .. n : w * Len(parts[i]) <= ListBuffer
    BY <1>7
  <2> QED BY <1>4, <1>9, <2>1, <2>2, ListIsShort
<1>11. ListOf(rows) = FlattenSeq(parts)
  BY Zenon DEF ListOf, parts
<1> QED BY <1>3, <1>10, <1>11

LEMMA CodesOfLine ==
    ASSUME NEW line \in Lines, ~OneWord(line)
    PROVE  \E n \in Nat :
              /\ n = utils_get_word_count(line) /\ Len(CodesCut(line)) = n
              /\ CodesCut(line) \in Seq(Bytes)
              /\ \A i \in 1 .. n : CodesCut(line)[i] \in Bytes /\ Len(CodesCut(line)[i]) <= 9
<1> DEFINE n == utils_get_word_count(line)
           t == TrimmedInPlace(line)
<1>1. n \in Nat /\ Len(CodesCut(line)) = n
  BY SeveralWords
<1>2. \A i \in 1 .. n : /\ CodesCut(line)[i] = Word(t, i)
                       /\ Word(t, i) \in Bytes /\ Len(Word(t, i)) <= 9
  BY SeveralWords
<1>3. CodesCut(line) = [i \in 1 .. n |-> Word(t, i)]
  BY Zenon DEF CodesCut
<1> HIDE DEF n, t
<1>4. CodesCut(line) \in [1 .. n -> Bytes]
  BY <1>2, <1>3
<1>5. CodesCut(line) \in Seq(Bytes)
  BY <1>1, <1>4, IsASeq
<1>6. \A i \in 1 .. n : CodesCut(line)[i] \in Bytes /\ Len(CodesCut(line)[i]) <= 9
  BY <1>2
<1>7. n = utils_get_word_count(line)
  BY DEF n
<1> QED BY <1>1, <1>5, <1>6, <1>7

LEMMA TableAsked ==
    ASSUME NEW line \in Lines, NEW category \in Categories, send_request(line, category)
    PROVE  TableUnderWay'
<1>1. typed' = [kind |-> "query", line |-> line, category |-> category]
  BY DEF send_request
<1> SUFFICES ASSUME ~OneWord(line)
             PROVE  TableUnderWay'
  BY <1>1 DEF TableUnderWay
<1>2. utils_get_word_count(line) # 1
  BY SeveralWords
<1>3. Hand(CodeMessage(line), "serverM")
  BY <1>2 DEF send_request, CodeMessage
<1>4. flight' = CodeMessage(line) /\ at' = "serverM"
  BY <1>3, CodeMessageArrives DEF Hand
<1> QED BY <1>1, <1>4 DEF TableUnderWay, CodesSent


LEMMA CodesTaken ==
    ASSUME TableUnderWay, multi_request_thread
    PROVE  TableUnderWay'
<1>1. /\ at = "serverM" /\ UNCHANGED typed /\ at' = "thread" /\ list' = <<>>
      /\ \E stale \in Stale :
            todo' = protocol_courses_lookup_multiple_request_decode(flight, stale)
  BY DEF multi_request_thread
<1> SUFFICES ASSUME typed.kind = "query", ~OneWord(typed.line)
             PROVE  TableUnderWay'
  BY <1>1 DEF TableUnderWay
<1>2. PICK line \in Lines : line = typed.line /\ ~OneWord(line) /\ flight = CodeMessage(line)
  BY <1>1 DEF TableUnderWay, CodesSent, Between, Asked, Answered, Told, Server
<1>3. todo' = CodesCut(line)
  BY <1>1, <1>2, CodeMessageArrives
<1>4. PICK n \in Nat : /\ n = utils_get_word_count(line) /\ Len(CodesCut(line)) = n
                       /\ CodesCut(line) \in Seq(Bytes)
  BY <1>2, CodesOfLine
<1>6. Remaining(line, 0)'
  BY <1>3, <1>4 DEF Remaining
<1>7. Collected(line, 0)'
  <2>1. Filled(CodesCut(line), 0) = 0
    BY FilledCounts
  <2>2. RowOf(line, 0) = 0 /\ \A m \in KnownTo(line, 0) : RowOf(line, m) \in 1 .. 0
    BY RowsBefore
  <2>3. list' \in Seq(NamedIn(line)) /\ Len(list') = 0
    BY <1>1, EmptySeq
  <2> QED BY <2>1, <2>2, <2>3 DEF Collected
<1>8. Between(line, 0)'
  BY <1>1, <1>6, <1>7 DEF Between
<1>9. 0 \in 0 .. n
  BY <1>4
<1> QED BY <1>1, <1>2, <1>4, <1>8, <1>9 DEF TableUnderWay

(* The rows that are collected do not depend on what is asked for next.    *)
LEMMA StillCollected ==
    ASSUME NEW line, NEW k, Collected(line, k), UNCHANGED list
    PROVE  Collected(line, k)'
BY DEF Collected

LEMMA PassedOver ==
    ASSUME NEW line \in Lines, ~OneWord(line), NEW k \in Nat, k + 1 <= utils_get_word_count(line),
           Collected(line, k), UNCHANGED list, Listed(CodesCut(line)[k + 1]) = {}
    PROVE  Collected(line, k + 1)'
<1>1. PICK f \in Nat, g \in Nat :
          /\ f = Filled(CodesCut(line), k) /\ g = Filled(CodesCut(line), k + 1)
          /\ RowOf(line, g) = RowOf(line, f) /\ KnownTo(line, g) = KnownTo(line, f)
  BY NextCode
<1>2. /\ list \in Seq(NamedIn(line)) /\ Len(list) = RowOf(line, f)
      /\ \A n \in KnownTo(line, f) : list[RowOf(line, n)] = TheCourse(WordsTyped(line)[n])
  BY <1>1 DEF Collected
<1>3. /\ list' \in Seq(NamedIn(line)) /\ Len(list') = RowOf(line, g)
      /\ \A n \in KnownTo(line, g) : list'[RowOf(line, n)] = TheCourse(WordsTyped(line)[n])
  BY <1>1, <1>2
<1> QED BY <1>1, <1>3 DEF Collected

LEMMA RowAdded ==
    ASSUME NEW line \in Lines, ~OneWord(line), NEW k \in Nat, k + 1 <= utils_get_word_count(line),
           Collected(line, k), Listed(CodesCut(line)[k + 1]) # {},
           list' = Append(list, TheCourse(CodesCut(line)[k + 1]))
    PROVE  Collected(line, k + 1)'
<1>1. PICK course \in NamedIn(line) : course = TheCourse(CodesCut(line)[k + 1])
  <2>1. PICK g : /\ WordsTyped(line)[g] = CodesCut(line)[k + 1]
                 /\ g \in KnownTo(line, Filled(CodesCut(line), k + 1))
    BY NextCode
  <2>2. g \in DOMAIN WordsTyped(line)
    BY <2>1 DEF KnownTo, Known
  <2>3. TheCourse(WordsTyped(line)[g]) \in Listed(WordsTyped(line)[g])
    BY <2>1 DEF TheCourse
  <2> QED BY <2>1, <2>2, <2>3 DEF NamedIn
<1>2. PICK f \in Nat, g \in Nat :
          /\ f = Filled(CodesCut(line), k) /\ g = Filled(CodesCut(line), k + 1)
          /\ WordsTyped(line)[g] = CodesCut(line)[k + 1]
          /\ RowOf(line, g) = RowOf(line, f) + 1 /\ KnownTo(line, g) = KnownTo(line, f) \cup {g}
  <2>1. /\ Filled(CodesCut(line), k) \in Nat /\ Filled(CodesCut(line), k + 1) \in Nat
        /\ WordsTyped(line)[Filled(CodesCut(line), k + 1)] = CodesCut(line)[k + 1]
        /\ RowOf(line, Filled(CodesCut(line), k + 1)) = RowOf(line, Filled(CodesCut(line), k)) + 1
        /\ KnownTo(line, Filled(CodesCut(line), k + 1))
              = KnownTo(line, Filled(CodesCut(line), k)) \cup {Filled(CodesCut(line), k + 1)}
    BY NextCode
  <2> QED BY <2>1
<1>3. /\ list \in Seq(NamedIn(line)) /\ Len(list) = RowOf(line, f)
      /\ \A n \in KnownTo(line, f) : list[RowOf(line, n)] = TheCourse(WordsTyped(line)[n])
  BY <1>2 DEF Collected
<1>4. /\ RowOf(line, f) \in Nat
      /\ \A n \in KnownTo(line, f) : RowOf(line, n) \in 1 .. RowOf(line, f)
  BY RowsBefore
<1>5. /\ list' \in Seq(NamedIn(line)) /\ Len(list') = Len(list) + 1
      /\ \A i \in 1 .. Len(list) : list'[i] = list[i]
      /\ list'[Len(list) + 1] = course
  BY <1>1, <1>3, AppendProperties
<1>6. ASSUME NEW n \in KnownTo(line, g)
      PROVE  list'[RowOf(line, n)] = TheCourse(WordsTyped(line)[n])
  <2>1. CASE n \in KnownTo(line, f)
    <3>1. list'[RowOf(line, n)] = list[RowOf(line, n)]
      BY <1>3, <1>4, <1>5, <2>1
    <3> QED BY <1>3, <2>1, <3>1
  <2>2. CASE n = g
    <3>1. list'[RowOf(line, n)] = course
      BY <1>2, <1>3, <1>5, <2>2
    <3> QED BY <1>1, <1>2, <2>2, <3>1
  <2> QED BY <1>2, <2>1, <2>2
<1>7. Len(list') = RowOf(line, g)
  BY <1>2, <1>3, <1>5
<1> QED BY <1>2, <1>5, <1>6, <1>7 DEF Collected

(* The thread asks for the next code, or passes over one of no department. *)
LEMMA CodeAsked ==
    ASSUME TableUnderWay, single_course_code_handler
    PROVE  TableUnderWay'
<1>1. at = "thread" /\ todo # <<>> /\ todo' = Tail(todo) /\ UNCHANGED <<typed, list>>
  BY DEF single_course_code_handler
<1> SUFFICES ASSUME typed.kind = "query", ~OneWord(typed.line)
             PROVE  TableUnderWay'
  BY <1>1 DEF TableUnderWay
<1>2. PICK line \in Lines : line = typed.line /\ ~OneWord(line)
  BY DEF TableUnderWay
<1>3. PICK n \in Nat : /\ n = utils_get_word_count(line)
                       /\ \A i \in 1 .. n : CodesCut(line)[i] \in Bytes
  BY <1>2, CodesOfLine
<1>4. PICK k \in 0 .. n : Remaining(line, k) /\ Collected(line, k)
  BY <1>1, <1>2, <1>3 DEF TableUnderWay, CodesSent, Between, Asked, Answered, Told, Server
<1>5. /\ todo \in Seq(Bytes) /\ Len(todo) + k = n
      /\ \A i \in 1 .. Len(todo) : todo[i] = CodesCut(line)[k + i]
  BY <1>3, <1>4 DEF Remaining
<1>6. Len(todo) \in Nat \ {0}
  BY <1>1, <1>5, EmptySeq
<1>7. k + 1 <= n /\ k \in Nat /\ k + 1 \in 1 .. n /\ k + 1 \in 0 .. n /\ (k + 1) - 1 = k
  BY <1>5, <1>6
<1>8. PICK code \in Bytes : code = CodesCut(line)[k + 1] /\ Head(todo) = code
  <2>1. CodesCut(line)[k + 1] \in Bytes
    BY <1>3, <1>7
  <2>2. Head(todo) = todo[1] /\ 1 \in 1 .. Len(todo)
    BY <1>5, <1>6
  <2> QED BY <1>5, <2>1, <2>2
<1>9. Remaining(line, k + 1)'
  <2>1. /\ Tail(todo) \in Seq(Bytes) /\ Len(Tail(todo)) = Len(todo) - 1
        /\ \A i \in 1 .. Len(Tail(todo)) : Tail(todo)[i] = todo[i + 1]
    BY <1>1, <1>5, HeadTailProperties
  <2>2. ASSUME NEW i \in 1 .. Len(Tail(todo))
        PROVE  Tail(todo)[i] = CodesCut(line)[(k + 1) + i]
    <3>1. i + 1 \in 1 .. Len(todo) /\ k + (i + 1) = (k + 1) + i
      BY <1>6, <2>1
    <3>2. todo[i + 1] = CodesCut(line)[k + (i + 1)]
      BY <1>5, <3>1
    <3> QED BY <2>1, <3>1, <3>2
  <2>3. Len(Tail(todo)) + (k + 1) = n
    BY <1>5, <1>6, <2>1
  <2> QED BY <1>1, <1>3, <2>1, <2>2, <2>3 DEF Remaining
<1>10. CASE get_department_server_endpoint(code) # Nowhere
  <2>1. /\ flight' = protocol_courses_lookup_detail_request_encode(code)
        /\ at' = get_department_server_endpoint(code)
    BY <1>8, <1>10 DEF single_course_code_handler
  <2>2. at' \in Server
    BY <1>10, <2>1 DEF get_department_server_endpoint, Server
  <2>3. Collected(line, (k + 1) - 1)'
    BY <1>1, <1>4, <1>7, StillCollected
  <2>4. Asked(line, k + 1)'
    BY <1>8, <1>9, <2>1, <2>2, <2>3 DEF Asked
  <2> QED BY <1>1, <1>2, <1>3, <1>7, <2>4 DEF TableUnderWay
<1>11. CASE get_department_server_endpoint(code) = Nowhere
  <2>1. UNCHANGED at
    BY <1>8, <1>11 DEF single_course_code_handler
  <2>2. Listed(code) = {}
    BY <1>11, ListedFound DEF Server, Nowhere
  <2>3. Collected(line, k + 1)'
    BY <1>1, <1>2, <1>3, <1>4, <1>7, <1>8, <2>2, PassedOver
  <2>4. Between(line, k + 1)'
    BY <1>1, <1>9, <2>1, <2>3 DEF Between
  <2> QED BY <1>1, <1>2, <1>3, <1>7, <2>4 DEF TableUnderWay
<1> QED BY <1>10, <1>11

LEMMA DetailLookedUp ==
    ASSUME TableUnderWay, NEW server \in Server, handle_course_detail_lookup_request(server)
    PROVE  TableUnderWay'
<1>1. at = server /\ at' = "collect" /\ UNCHANGED <<typed, todo, list>>
  BY DEF handle_course_detail_lookup_request
<1> SUFFICES ASSUME typed.kind = "query", ~OneWord(typed.line)
             PROVE  TableUnderWay'
  BY <1>1 DEF TableUnderWay
<1>2. PICK line \in Lines : line = typed.line /\ ~OneWord(line)
  BY DEF TableUnderWay
<1>3. PICK n \in Nat : /\ n = utils_get_word_count(line)
                       /\ \A i \in 1 .. n : CodesCut(line)[i] \in Bytes /\ Len(CodesCut(line)[i]) <= 9
  BY <1>2, CodesOfLine
<1>4. PICK k \in 1 .. n : Asked(line, k)
  BY <1>1, <1>2, <1>3 DEF TableUnderWay, CodesSent, Between, Answered, Told, Server
<1>5. PICK code \in Bytes : code = CodesCut(line)[k] /\ Len(code) <= 9
  BY <1>3
<1>6. /\ server = get_department_server_endpoint(code)
      /\ Remaining(line, k) /\ Collected(line, k - 1)
      /\ flight = protocol_courses_lookup_detail_request_encode(code)
  BY <1>1, <1>4, <1>5 DEF Asked
<1>7. protocol_courses_lookup_detail_request_decode(flight) = code
  BY <1>5, <1>6, CodeArrives
<1>8. flight' = DetailReply(code)
  <2>1. CASE Listed(code) = {}
    <3>1. database_courses_lookup(db(server), code) = NoCourse
      BY <2>1, UnlistedNotFound
    <3> QED BY <1>7, <2>1, <3>1 DEF handle_course_detail_lookup_request, DetailReply
  <2>2. CASE Listed(code) # {}
    <3>1. /\ database_courses_lookup(db(server), code) = TheCourse(code)
          /\ TheCourse(code) \in Courses
      BY <1>6, <2>2, ListedFound
    <3>2. TheCourse(code) # NoCourse
      <4>1. TheCourse(code).code # <<>>
        BY <3>1, CoursesAssumption
      <4> QED BY <4>1 DEF NoCourse
    <3> QED BY <1>7, <2>2, <3>1, <3>2 DEF handle_course_detail_lookup_request, DetailReply
  <2> QED BY <2>1, <2>2
<1>9. Remaining(line, k)' /\ Collected(line, k - 1)'
  BY <1>1, <1>6, StillCollected DEF Remaining
<1>10. Answered(line, k)'
  BY <1>1, <1>5, <1>8, <1>9 DEF Answered
<1> QED BY <1>1, <1>2, <1>3, <1>10 DEF TableUnderWay

LEMMA RowCollected ==
    ASSUME TableUnderWay, insert_to_end_of_linked_list
    PROVE  TableUnderWay'
<1>1. at = "collect" /\ at' = "thread" /\ UNCHANGED <<typed, todo>>
  BY DEF insert_to_end_of_linked_list
<1> SUFFICES ASSUME typed.kind = "query", ~OneWord(typed.line)
             PROVE  TableUnderWay'
  BY <1>1 DEF TableUnderWay
<1>2. PICK line \in Lines : line = typed.line /\ ~OneWord(line)
  BY DEF TableUnderWay
<1>3. PICK n \in Nat : /\ n = utils_get_word_count(line)
                       /\ \A i \in 1 .. n : CodesCut(line)[i] \in Bytes /\ Len(CodesCut(line)[i]) <= 9
  BY <1>2, CodesOfLine
<1>4. PICK k \in 1 .. n : Answered(line, k)
  BY <1>1, <1>2, <1>3 DEF TableUnderWay, CodesSent, Between, Asked, Told, Server
<1>5. PICK code \in Bytes : code = CodesCut(line)[k] /\ Len(code) <= 9
  BY <1>3
<1>6. Remaining(line, k) /\ Collected(line, k - 1) /\ flight = DetailReply(code)
  BY <1>4, <1>5 DEF Answered
<1>7. PICK j \in Nat : j = k - 1 /\ j + 1 = k /\ j + 1 <= n /\ k \in 0 .. n
  BY <1>3
<1>8. Collected(line, k)'
  <2>1. CASE Listed(code) = {}
    <3>1. UNCHANGED list
      BY <1>5, <1>6, <2>1, DetailReplies DEF insert_to_end_of_linked_list
    <3>2. Collected(line, j) /\ CodesCut(line)[j + 1] = code
      BY <1>5, <1>6, <1>7
    <3>3. Collected(line, j + 1)'
      BY <1>2, <1>3, <1>7, <2>1, <3>1, <3>2, PassedOver
    <3> QED BY <1>7, <3>3
  <2>2. CASE Listed(code) # {}
    <3>1. flight.type = "DETAIL_REPLY"
      BY <1>5, <1>6, <2>2, DetailReplies
    <3>2. PICK stale \in Stale :
              list' = Append(list, protocol_courses_lookup_detail_response_decode(flight, stale))
      BY <3>1 DEF insert_to_end_of_linked_list
    <3>3. list' = Append(list, TheCourse(code))
      BY <1>5, <1>6, <2>2, <3>2, DetailReplies
    <3>4. Collected(line, j) /\ CodesCut(line)[j + 1] = code
      BY <1>5, <1>6, <1>7
    <3>5. Collected(line, j + 1)'
      BY <1>2, <1>3, <1>7, <2>2, <3>1, <3>3, <3>4, RowAdded
    <3> QED BY <1>7, <3>5
  <2> QED BY <2>1, <2>2
<1>9. Remaining(line, k)'
  BY <1>1, <1>6 DEF Remaining
<1>10. Between(line, k)'
  BY <1>1, <1>8, <1>9 DEF Between
<1> QED BY <1>1, <1>2, <1>3, <1>7, <1>10 DEF TableUnderWay

(* The table goes out when no code is left; without a row it never does.   *)
LEMMA TableSent ==
    ASSUME TableUnderWay, ThreadResponds
    PROVE  TableUnderWay'
<1>1. /\ at = "thread" /\ todo = <<>> /\ UNCHANGED <<typed, list>>
      /\ Hand(protocol_courses_lookup_multiple_response_encode(list), "client")
  BY DEF ThreadResponds
<1> SUFFICES ASSUME typed.kind = "query", ~OneWord(typed.line)
             PROVE  TableUnderWay'
  BY <1>1 DEF TableUnderWay
<1>2. PICK line \in Lines : line = typed.line /\ ~OneWord(line)
  BY DEF TableUnderWay
<1>3. PICK n \in Nat : n = utils_get_word_count(line)
  BY <1>2, SeveralWords
<1>4. PICK k \in 0 .. n : Remaining(line, k) /\ Collected(line, k)
  BY <1>1, <1>2, <1>3 DEF TableUnderWay, CodesSent, Between, Asked, Answered, Told, Server
<1>5. k = n
  <2>1. Len(todo) = 0 /\ Len(todo) + k = n
    BY <1>1, <1>3, <1>4, EmptySeq DEF Remaining
  <2> QED BY <2>1
<1>6. Collected(line, n)
  BY <1>4, <1>5
<1>7. PICK f \in Nat :
          /\ f = Filled(CodesCut(line), n) /\ f = Len(WordsTyped(line))
          /\ RowOf(line, f) = 0 <=> Known(line) = {}
  BY <1>2, <1>3, AllRows
<1>8. list \in Seq(NamedIn(line)) /\ Len(list) = RowOf(line, f)
  BY <1>6, <1>7 DEF Collected
<1>9. CASE list = <<>>
  <2>1. at' = "shown" /\ shown' = Silence
    BY <1>1, <1>9 DEF Hand, protocol_courses_lookup_multiple_response_encode
  <2>2. Known(line) = {}
    BY <1>7, <1>8, <1>9, EmptySeq
  <2>3. RightTable(WordsTyped(line))'
    BY <2>1, <2>2 DEF RightTable, Known
  <2>4. ShowsTheTable'
    BY <1>1, <1>2, <2>3 DEF ShowsTheTable
  <2> QED BY <1>1, <1>2, <2>1, <2>4 DEF TableUnderWay
<1>10. CASE list # <<>>
  <2>1. Len(list) <= Len(WordsTyped(line))
    BY <1>7, <1>8, <1>2, RowsBefore
  <2>2. list \in Seq(ShortCourse) /\ Len(ListOf(list)) <= ListBuffer
    BY <1>2, <1>8, <1>10, <2>1, RowsFit
  <2>3. protocol_courses_lookup_multiple_response_encode(list).type = "MULTI_REPLY"
    BY <1>10, <2>2, RowsArrive
  <2>4. protocol_courses_lookup_multiple_response_encode(list) # NoMessage
    BY <2>3 DEF NoMessage
  <2>5. /\ at' = "client"
        /\ flight' = protocol_courses_lookup_multiple_response_encode(list)
    BY <1>1, <2>4 DEF Hand
  <2>6. Collected(line, n)'
    BY <1>1, <1>6, StillCollected
  <2>7. Told(line)'
    BY <1>1, <1>3, <1>10, <2>5, <2>6 DEF Told
  <2> QED BY <1>1, <1>2, <2>7 DEF TableUnderWay
<1> QED BY <1>9, <1>10

(* The table on its way to the client: every row in its place, and the     *)
(* message carries it.                                                     *)
LEMMA TableArrives ==
    ASSUME NEW line \in Lines, ~OneWord(line), Told(line)
    PROVE  /\ flight.type = "MULTI_REPLY" /\ flight.flags = Len(list)
           /\ flight.payload \in Bytes /\ Len(flight.payload) <= PayloadMax
           /\ protocol_courses_lookup_multiple_response_decode(flight) = list
           /\ list \in Seq(Courses) /\ list # <<>> /\ Len(list) = Cardinality(Known(line))
           /\ Len(list) <= Len(WordsTyped(line))
           /\ \A n \in Known(line) : list[RowOf(line, n)] = TheCourse(WordsTyped(line)[n])
<1>1. PICK f \in Nat :
          /\ f = Filled(CodesCut(line), utils_get_word_count(line)) /\ f = Len(WordsTyped(line))
          /\ KnownTo(line, f) = Known(line) /\ RowOf(line, f) = Cardinality(Known(line))
  BY AllRows
<1>2. /\ list \in Seq(NamedIn(line)) /\ Len(list) = RowOf(line, f)
      /\ \A n \in KnownTo(line, f) : list[RowOf(line, n)] = TheCourse(WordsTyped(line)[n])
  BY <1>1 DEF Told, Collected
<1>3. Len(list) <= Len(WordsTyped(line))
  BY <1>1, <1>2, RowsBefore
<1>4. list # <<>> /\ flight = protocol_courses_lookup_multiple_response_encode(list)
  BY DEF Told
<1>5. list \in Seq(ShortCourse) /\ Len(ListOf(list)) <= ListBuffer
  BY <1>2, <1>3, <1>4, RowsFit
<1>6. /\ flight.type = "MULTI_REPLY" /\ flight.flags = Len(list)
      /\ flight.payload = ListOf(list) /\ flight.payload \in Bytes
      /\ protocol_courses_lookup_multiple_response_decode(flight) = list
  BY <1>4, <1>5, RowsArrive
<1>7. Len(flight.payload) <= PayloadMax
  <2>1. Len(flight.payload) \in Nat /\ Len(flight.payload) <= ListBuffer
    BY <1>5, <1>6, BytesType
  <2> QED BY <2>1 DEF ListBuffer, PayloadMax
<1>8. list \in Seq(Courses)
  BY <1>2, NamedAreCourses
<1> QED BY <1>1, <1>2, <1>3, <1>4, <1>6, <1>7, <1>8

LEMMA TableShown ==
    ASSUME TableUnderWay, on_course_multi_lookup
    PROVE  TableUnderWay'
<1>1. /\ UNCHANGED typed /\ at = "client" /\ at' = "shown"
      /\ shown' = [kind |-> "table",
                   courses |-> protocol_courses_lookup_multiple_response_decode(flight)]
  BY DEF on_course_multi_lookup, Screen
<1> SUFFICES ASSUME typed.kind = "query", ~OneWord(typed.line)
             PROVE  TableUnderWay'
  BY <1>1 DEF TableUnderWay
<1>2. PICK line \in Lines : line = typed.line /\ ~OneWord(line)
  BY DEF TableUnderWay
<1>3. Told(line)
  BY <1>1, <1>2 DEF TableUnderWay, CodesSent, Between, Asked, Answered, Server
<1>4. shown' = [kind |-> "table", courses |-> list]
  BY <1>1, <1>2, <1>3, TableArrives
<1>5. /\ Known(line) # {} /\ Len(list) = Cardinality(Known(line))
      /\ \A n \in Known(line) : list[RowOf(line, n)] = TheCourse(WordsTyped(line)[n])
  <2>1. Known(line) # {}
    <3>1. Len(list) # 0
      BY <1>2, <1>3, TableArrives, EmptySeq
    <3> QED BY <1>2, <1>3, <3>1, TableArrives, FS_EmptySet
  <2> QED BY <1>2, <1>3, <2>1, TableArrives
<1>6. shown'.kind = "table" /\ shown'.courses = list
  BY <1>4
<1>7. RightTable(WordsTyped(line))'
  BY <1>5, <1>6 DEF RightTable, Known, KnownTo, RowOf
<1>8. ShowsTheTable'
  BY <1>1, <1>2, <1>7 DEF ShowsTheTable
<1> QED BY <1>1, <1>2, <1>8 DEF TableUnderWay

(* No step of a login or of a query for one course is taken while a query  *)
(* for several is under way.                                               *)
LEMMA OthersAreNoTable ==
    ASSUME TableUnderWay,
           \/ on_auth_request_received \/ handle_auth_request_validate \/ on_auth_result
           \/ on_course_lookup_info_request_received
           \/ \E server \in Server : handle_course_info_lookup_request(server)
           \/ on_course_lookup_info \/ on_course_lookup_error
    PROVE  TableUnderWay'
<1>1. UNCHANGED typed
  BY DEF on_auth_request_received, handle_auth_request_validate, on_auth_result, Screen,
     on_course_lookup_info_request_received, handle_course_info_lookup_request,
     on_course_lookup_info, on_course_lookup_error
<1>2. \/ at = "serverC"
      \/ at = "serverM" /\ flight.type \in {"AUTH_REQUEST", "SINGLE_REQUEST"}
      \/ at \in Server /\ flight.type = "SINGLE_REQUEST"
      \/ at = "client" /\ flight.type \in {"AUTH_REPLY", "SINGLE_REPLY", "ERROR"}
  BY DEF on_auth_request_received, handle_auth_request_validate, on_auth_result,
     on_course_lookup_info_request_received, handle_course_info_lookup_request,
     on_course_lookup_info, on_course_lookup_error
<1> SUFFICES ASSUME typed.kind = "query", ~OneWord(typed.line)
             PROVE  FALSE
  BY <1>1 DEF TableUnderWay
<1>3. PICK line \in Lines : line = typed.line /\ ~OneWord(line)
  BY DEF TableUnderWay
<1>4. \/ CodesSent(line)
      \/ \E k \in 1 .. utils_get_word_count(line) : Asked(line, k)
      \/ Told(line)
  BY <1>2, <1>3 DEF TableUnderWay, Between, Answered, Server
<1>5. ~CodesSent(line)
  BY <1>2, <1>3, CodeMessageArrives DEF CodesSent, Server
<1>6. ~Told(line)
  BY <1>2, <1>3, TableArrives DEF Told, Server
<1>7. ASSUME NEW k \in 1 .. utils_get_word_count(line), Asked(line, k)
      PROVE  FALSE
  <2>1. CodesCut(line)[k] \in Bytes /\ Len(CodesCut(line)[k]) <= 9
    BY <1>3, CodesOfLine
  <2>2. flight.type = "DETAIL_REQUEST" /\ at \in Server
    BY <1>7, <2>1, CodeArrives DEF Asked
  <2> QED BY <1>2, <2>2 DEF Server
<1> QED BY <1>4, <1>5, <1>6, <1>7

LEMMA TableUnderWayKept ==
    ASSUME TableUnderWay, [Next]_vars
    PROVE  TableUnderWay'
<1>1. ASSUME NEW login \in Logins, authenticate_user(login)
      PROVE  TableUnderWay'
  BY <1>1 DEF authenticate_user, TableUnderWay
<1>2. CASE NextPrompt
  BY <1>2 DEF NextPrompt, Silence, TableUnderWay
<1>3. CASE UNCHANGED vars
  <2>1. UNCHANGED <<at, typed, flight, todo, list, shown>>
    BY <1>3 DEF vars
  <2>2. ASSUME NEW line, NEW k
        PROVE  /\ CodesSent(line) => CodesSent(line)'
               /\ Remaining(line, k) => Remaining(line, k)'
               /\ Collected(line, k) => Collected(line, k)'
    BY <2>1 DEF CodesSent, Remaining, Collected
  <2>3. ASSUME NEW line, NEW k
        PROVE  /\ Between(line, k) => Between(line, k)'
               /\ Asked(line, k) => Asked(line, k)'
               /\ Answered(line, k) => Answered(line, k)'
               /\ Told(line) => Told(line)'
    BY <2>1, <2>2 DEF Between, Asked, Answered, Told
  <2>4. at = "shown" /\ ShowsTheTable => at' = "shown" /\ ShowsTheTable'
    BY <2>1 DEF ShowsTheTable, RightTable
  <2> QED BY <2>1, <2>2, <2>3, <2>4 DEF TableUnderWay
<1> QED BY <1>1, <1>2, <1>3, TableAsked, CodesTaken, CodeAsked, DetailLookedUp, RowCollected,
           TableSent, TableShown, OthersAreNoTable DEF Next, Server

(* For any files, courses and lines that fit each other, a query for       *)
(* several codes shows one row for each code of a course, in the order of  *)
(* the line, and no others, whatever memory held: the codes are cut out of *)
(* the line and counted, taken apart by the thread, asked for one by one,  *)
(* and the rows are put into one message and taken out of it (client.c     *)
(* 198-228; serverM.c 180-271; protocol.c 225-495; utils.c; database.c).   *)
THEOREM TablesAreRight == Spec => []ShowsTheTable
<1>1. Init => TableUnderWay
  BY DEF Init, Silence, TableUnderWay
<1>2. TableUnderWay /\ [Next]_vars => TableUnderWay'
  BY TableUnderWayKept
<1>3. TableUnderWay => ShowsTheTable
  <2>1. ASSUME TableUnderWay, at = "shown", typed.kind = "query", ~OneWord(typed.line)
        PROVE  ShowsTheTable
    BY <2>1 DEF TableUnderWay, CodesSent, Between, Asked, Answered, Told, Server
  <2>2. ASSUME OneWord(typed.line)
        PROVE  ShowsTheTable
    BY <2>2 DEF OneWord, ShowsTheTable
  <2> QED BY <2>1, <2>2 DEF ShowsTheTable
<1> QED BY <1>1, <1>2, <1>3, PTL DEF Spec

-----------------------------------------------------------------------------
(* Types.                                                                  *)

MessageOK(m) == m.flags \in Byte /\ m.payload \in Bytes /\ Len(m.payload) <= PayloadMax

LEMMA Encodes ==
    ASSUME NEW type, NEW flags \in Byte, NEW payload \in Bytes
    PROVE  MessageOK(protocol_encode(type, flags, payload)) /\ MessageOK(NoMessage)
<1>1. MessageOK(NoMessage)
  <2>1. NoMessage.flags = 0 /\ NoMessage.payload = <<>>
    BY DEF NoMessage
  <2>2. <<>> \in Bytes /\ Len(<<>>) = 0 /\ 0 \in Byte
    BY DEF Bytes, Byte
  <2> QED BY <2>1, <2>2 DEF MessageOK, PayloadMax
<1>2. CASE Len(payload) <= PayloadMax
  <2>1. protocol_encode(type, flags, payload)
           = [type |-> type, flags |-> flags, payload |-> payload]
    BY <1>2 DEF protocol_encode
  <2> QED BY <1>1, <1>2, <2>1 DEF MessageOK
<1>3. CASE ~(Len(payload) <= PayloadMax)
  <2>1. protocol_encode(type, flags, payload) = NoMessage
    BY <1>3 DEF protocol_encode
  <2> QED BY <1>1, <2>1
<1> QED BY <1>2, <1>3

LEMMA CredentialsTyped ==
    ASSUME NEW u \in Bytes, NEW p \in Bytes, Len(u) <= 50, Len(p) <= 50
    PROVE  MessageOK(protocol_authentication_request_encode([username |-> u, password |-> p]))
<1>1. Len(u) \in Byte /\ Len(p) \in Byte
  BY BytesType, SmallIsByte
<1>2. PICK head \in Bytes : head = <<Len(u), Len(p)>>
  BY <1>1, TwoBytes
<1>3. PICK front \in Bytes : front = head \o u
  BY Concat
<1>4. front \o p \in Bytes /\ 0 \in Byte
  BY Concat, SmallIsByte
<1>5. protocol_authentication_request_encode([username |-> u, password |-> p])
         = protocol_encode("AUTH_REQUEST", 0, front \o p)
  BY <1>2, <1>3 DEF protocol_authentication_request_encode
<1> QED BY <1>4, <1>5, Encodes

LEMMA LoginTyped ==
    ASSUME NEW login \in Logins, NEW user, NEW password
    PROVE  /\ MessageOK(protocol_authentication_request_encode(Read(login)))
           /\ MessageOK(protocol_authentication_request_encode(Sent(login)))
           /\ MessageOK(protocol_authentication_response_encode(FlagsOf(Status(user, password))))
<1> DEFINE u == Chars(login.means[1])
           p == Chars(login.means[2])
<1>1. u \in Bytes /\ p \in Bytes /\ Len(u) <= 50 /\ Len(p) <= 50
  BY LoginType
<1>2. /\ encrypt_buffer(u) \in Bytes /\ encrypt_buffer(p) \in Bytes
      /\ Len(encrypt_buffer(u)) <= 50 /\ Len(encrypt_buffer(p)) <= 50
  BY <1>1, CipherType
<1>3. /\ Read(login) = [username |-> u, password |-> p]
      /\ Sent(login) = [username |-> encrypt_buffer(u), password |-> encrypt_buffer(p)]
  BY LoginType
<1> HIDE DEF u, p
<1>4. /\ MessageOK(protocol_authentication_request_encode(Read(login)))
      /\ MessageOK(protocol_authentication_request_encode(Sent(login)))
  BY <1>1, <1>2, <1>3, CredentialsTyped
<1>5. FlagsOf(Status(user, password)) \in Byte
  BY DEF FlagsOf, Status, Byte, AUTH_FLAGS_SUCCESS, AUTH_FLAGS_FAILURE,
     AUTH_FLAGS_USER_NOT_FOUND, AUTH_FLAGS_PASSWORD_MISMATCH
<1>6. <<>> \in Bytes
  BY DEF Bytes
<1> QED BY <1>4, <1>5, <1>6, Encodes DEF protocol_authentication_response_encode

LEMMA NumberType ==
    ASSUME NEW category \in Categories
    PROVE  NumberSent(category) \in Byte
<1>1. Meaning[category] \in Columns \cup {"none"}
  BY CategoryType
<1> QED BY <1>1 DEF NumberSent, NumberOf, Columns, Byte, COURSES_LOOKUP_CATEGORY_COURSE_CODE,
           COURSES_LOOKUP_CATEGORY_COURSE_NAME, COURSES_LOOKUP_CATEGORY_PROFESSOR,
           COURSES_LOOKUP_CATEGORY_DAYS, COURSES_LOOKUP_CATEGORY_CREDITS,
           COURSES_LOOKUP_CATEGORY_INVALID

LEMMA ErrorTyped ==
    ASSUME NEW code \in Bytes
    PROVE  MessageOK(protocol_courses_error_encode(ERR_COURSES_NOT_FOUND, code))
<1>1. ERR_COURSES_NOT_FOUND \in Byte
  BY DEF ERR_COURSES_NOT_FOUND, Byte
<1> QED BY <1>1, Encodes DEF protocol_courses_error_encode

LEMMA SingleTyped ==
    ASSUME NEW line \in Lines, NEW category \in Categories, OneWord(line), Meaning[category] # "none"
    PROVE  MessageOK(Question(line, category)) /\ MessageOK(Reply(line, category))
<1>1. PICK code \in Bytes : /\ code = CodeSent(line) /\ code # <<>>
                            /\ Len(code) <= 9 /\ Len(code) \in Nat
  BY CodeType
<1>2. PICK number \in Byte : number = NumberSent(category)
  BY NumberType
<1>3. MessageOK(Question(line, category))
  <2>1. Question(line, category) = protocol_encode("SINGLE_REQUEST", number, code)
    BY <1>1, <1>2 DEF Question, protocol_courses_lookup_single_request_encode
  <2> QED BY <2>1, Encodes
<1>4. CASE Listed(code) = {}
  <2>1. Reply(line, category) = protocol_courses_error_encode(ERR_COURSES_NOT_FOUND, code)
    BY <1>1, <1>4 DEF Reply
  <2> QED BY <1>3, <2>1, ErrorTyped
<1>5. CASE Listed(code) # {}
  <2>1. TheCourse(code) \in Courses /\ Meaning[category] \in Columns
    BY <1>5, ListedFound, CategoryType
  <2>2. PICK value \in Bytes : /\ value = ValueOf(TheCourse(code), Meaning[category])
                               /\ value # <<>> /\ CodeBuffer + Len(value) <= DecodeBuffer - 2
    BY <2>1, CoursesAssumption DEF Bytes
  <2>3. Len(code) <= 255 /\ Len(value) <= 255
    BY <1>1, <2>2, BytesType DEF CodeBuffer, DecodeBuffer
  <2>4. PICK x \in Bytes, y \in Bytes : x = Part(code) /\ y = Part(value)
    BY <2>3, PartType
  <2>5. x \o y \in Bytes
    BY Concat
  <2>6. Reply(line, category) = protocol_encode("SINGLE_REPLY", number, x \o y)
    BY <1>1, <1>2, <1>5, <2>2, <2>4 DEF Reply, protocol_courses_lookup_single_response_encode
  <2> QED BY <1>3, <2>5, <2>6, Encodes
<1> QED BY <1>4, <1>5

LEMMA CodeTyped ==
    ASSUME NEW code \in Bytes, Len(code) <= 9
    PROVE  /\ MessageOK(protocol_courses_lookup_detail_request_encode(code))
           /\ MessageOK(DetailReply(code))
<1>1. 0 \in Byte
  BY SmallIsByte
<1>2. MessageOK(protocol_courses_lookup_detail_request_encode(code))
  BY <1>1, Encodes DEF protocol_courses_lookup_detail_request_encode
<1>3. CASE Listed(code) = {}
  BY <1>2, <1>3, ErrorTyped DEF DetailReply
<1>4. CASE Listed(code) # {}
  <2>1. PICK c \in Courses : c = TheCourse(code)
    BY <1>4, ListedFound
  <2>2. DetailReply(code) = protocol_courses_lookup_detail_response_encode(c)
    BY <1>4, <2>1 DEF DetailReply
  <2>3. PICK reply : reply = protocol_courses_lookup_detail_response_encode(c)
    OBVIOUS
  <2>4. reply.flags = 0 /\ reply.payload \in Bytes /\ Len(reply.payload) <= PayloadMax
    BY <2>3, DetailEncoded
  <2> QED BY <1>1, <1>2, <2>2, <2>3, <2>4 DEF MessageOK
<1> QED BY <1>3, <1>4

-----------------------------------------------------------------------------
\* Whose data the state holds.
Several == typed.kind = "query" /\ ~OneWord(typed.line)

KindOK ==
    /\ typed.kind \in {"timeout", "login", "query"}
    /\ typed.kind = "timeout" => at = "prompt"

UnderWay == LoginUnderWay /\ SingleUnderWay /\ TableUnderWay /\ KindOK

LEMMA KindKept ==
    ASSUME KindOK, [Next]_vars
    PROVE  KindOK'
<1>1. ASSUME NEW login \in Logins, authenticate_user(login)
      PROVE  KindOK'
  BY <1>1 DEF authenticate_user, KindOK
<1>2. ASSUME NEW line \in Lines, NEW category \in Categories, send_request(line, category)
      PROVE  KindOK'
  <2>1. typed' = [kind |-> "query", line |-> line, category |-> category]
    BY <1>2 DEF send_request
  <2> QED BY <2>1 DEF KindOK
<1>3. CASE NextPrompt
  BY <1>3 DEF NextPrompt, KindOK, Silence
<1>4. CASE UNCHANGED vars
  BY <1>4 DEF vars, KindOK
<1>5. ASSUME UNCHANGED typed, at # "prompt"
      PROVE  KindOK'
  BY <1>5 DEF KindOK
<1>6. CASE \/ on_auth_request_received \/ handle_auth_request_validate \/ on_auth_result
           \/ on_course_lookup_info \/ on_course_lookup_error \/ on_course_multi_lookup
           \/ on_course_lookup_info_request_received \/ multi_request_thread
           \/ single_course_code_handler \/ insert_to_end_of_linked_list \/ ThreadResponds
  <2>1. UNCHANGED typed /\ at # "prompt"
    BY <1>6 DEF on_auth_request_received, handle_auth_request_validate, on_auth_result, Screen,
       on_course_lookup_info, on_course_lookup_error, on_course_multi_lookup,
       on_course_lookup_info_request_received, multi_request_thread, single_course_code_handler,
       insert_to_end_of_linked_list, ThreadResponds
  <2> QED BY <1>5, <2>1
<1>7. ASSUME NEW server \in Server,
             \/ handle_course_info_lookup_request(server)
             \/ handle_course_detail_lookup_request(server)
      PROVE  KindOK'
  <2>1. UNCHANGED typed /\ at # "prompt"
    BY <1>7 DEF handle_course_info_lookup_request, handle_course_detail_lookup_request, Server
  <2> QED BY <1>5, <2>1
<1> QED BY <1>1, <1>2, <1>3, <1>4, <1>6, <1>7 DEF Next, Server

LEMMA UnderWayKept ==
    ASSUME UnderWay, [Next]_vars
    PROVE  UnderWay'
BY LoginUnderWayKept, SingleUnderWayKept, TableUnderWayKept, KindKept DEF UnderWay

-----------------------------------------------------------------------------
\* Where the message in flight is not one of an earlier state.
Carried == at \notin {"prompt", "thread", "shown"} => MessageOK(flight)

LEMMA WhatIsCarried == UnderWay => Carried
<1> SUFFICES ASSUME UnderWay, at \notin {"prompt", "thread", "shown"}
             PROVE  MessageOK(flight)
  BY DEF Carried
<1>1. typed.kind \in {"login", "query"}
  BY DEF UnderWay, KindOK
<1>2. CASE typed.kind = "login"
  <2>1. PICK login \in Logins : login = typed.login
    BY <1>2 DEF UnderWay, LoginUnderWay
  <2>2. \/ flight = protocol_authentication_request_encode(Read(login))
        \/ flight = protocol_authentication_request_encode(Sent(login))
        \/ flight = protocol_authentication_response_encode(FlagsOf(
                        Status(login.means[1], login.means[2])))
    BY <1>2, <2>1 DEF UnderWay, LoginUnderWay, DueStatus
  <2> QED BY <2>2, LoginTyped
<1>3. CASE typed.kind = "query" /\ OneWord(typed.line)
  <2>1. PICK line \in Lines, category \in Categories :
            /\ OneWord(line) /\ Meaning[category] # "none"
            /\ flight = Question(line, category) \/ flight = Reply(line, category)
    BY <1>3 DEF UnderWay, SingleUnderWay
  <2> QED BY <2>1, SingleTyped
<1>4. CASE typed.kind = "query" /\ ~OneWord(typed.line)
  <2>1. PICK line \in Lines :
            /\ ~OneWord(line)
            /\ \/ CodesSent(line)
               \/ \E k \in 1 .. utils_get_word_count(line) : Asked(line, k) \/ Answered(line, k)
               \/ Told(line)
    BY <1>4 DEF UnderWay, TableUnderWay, Between
  <2>2. 0 \in Byte
    BY SmallIsByte
  <2>3. CASE CodesSent(line)
    BY <2>1, <2>2, <2>3, CodeMessageArrives DEF CodesSent, MessageOK
  <2>4. ASSUME NEW k \in 1 .. utils_get_word_count(line), Asked(line, k) \/ Answered(line, k)
        PROVE  MessageOK(flight)
    <3>1. PICK code \in Bytes : code = CodesCut(line)[k] /\ Len(code) <= 9
      BY <2>1, CodesOfLine
    <3>2. \/ flight = protocol_courses_lookup_detail_request_encode(code)
          \/ flight = DetailReply(code)
      BY <2>4, <3>1 DEF Asked, Answered
    <3> QED BY <3>1, <3>2, CodeTyped
  <2>5. CASE Told(line)
    <3>1. /\ flight.flags = Len(list) /\ flight.payload \in Bytes
          /\ Len(flight.payload) <= PayloadMax
          /\ list \in Seq(Courses) /\ Len(list) <= Len(WordsTyped(line))
      BY <2>1, <2>5, TableArrives
    <3>2. Len(list) \in Byte
      <4>1. PICK n \in Nat, w \in Nat :
                /\ n < DecodeBuffer /\ w = Filled(CodesCut(line), n)
                /\ w = Len(WordsTyped(line))
        BY <2>1, SeveralWords
      <4>2. w <= n /\ Len(list) \in Nat /\ Len(list) <= w
        BY <3>1, <4>1, FilledCounts, LenProperties
      <4>3. Len(list) <= 255
        BY <4>1, <4>2 DEF DecodeBuffer
      <4> QED BY <4>2, <4>3, SmallIsByte
    <3> QED BY <3>1, <3>2 DEF MessageOK
  <2> QED BY <2>1, <2>3, <2>4, <2>5
<1> QED BY <1>1, <1>2, <1>3, <1>4

-----------------------------------------------------------------------------
SizesOK == Len(todo) + Len(list) < DecodeBuffer

\* Only the thread and the departments it asks see codes and rows.
Bounded ==
    /\ at \in {"thread", "collect"} => Several
    /\ Several /\ at \in {"thread", "collect"} \cup Server => SizesOK

LEMMA WhatIsBounded == UnderWay => Bounded
<1> SUFFICES ASSUME UnderWay
             PROVE  Bounded
  OBVIOUS
<1>1. ASSUME at \in {"thread", "collect"}
      PROVE  Several
  BY <1>1 DEF UnderWay, KindOK, LoginUnderWay, SingleUnderWay, Several, Server
<1>2. ASSUME Several, at \in {"thread", "collect"} \cup Server
      PROVE  SizesOK
  <2>1. PICK line \in Lines : line = typed.line /\ ~OneWord(line)
    BY <1>2 DEF UnderWay, TableUnderWay, Several
  <2>2. PICK n \in Nat : n = utils_get_word_count(line) /\ n < DecodeBuffer
    BY <2>1, SeveralWords
  <2>3. \/ \E k \in 0 .. n : Between(line, k)
        \/ \E k \in 1 .. n : Asked(line, k) \/ Answered(line, k)
    BY <1>2, <2>1, <2>2 DEF UnderWay, TableUnderWay, Several, CodesSent, Told, Server
  <2>4. PICK k \in 0 .. n, j \in 0 .. n : Remaining(line, k) /\ Collected(line, j) /\ j <= k
    <3>1. ASSUME NEW k \in 0 .. n, Between(line, k)
          PROVE  \E i \in 0 .. n, j \in 0 .. n : Remaining(line, i) /\ Collected(line, j) /\ j <= i
      BY <3>1 DEF Between
    <3>2. ASSUME NEW k \in 1 .. n, Asked(line, k) \/ Answered(line, k)
          PROVE  \E i \in 0 .. n, j \in 0 .. n : Remaining(line, i) /\ Collected(line, j) /\ j <= i
      <4>1. k - 1 \in 0 .. n /\ k \in 0 .. n /\ k - 1 <= k
        OBVIOUS
      <4>2. Remaining(line, k) /\ Collected(line, k - 1)
        BY <3>2 DEF Asked, Answered
      <4> QED BY <4>1, <4>2
    <3> QED BY <2>3, <3>1, <3>2
  <2>5. Len(todo) \in Nat /\ Len(todo) + k = n
    BY <2>2, <2>4, LenProperties DEF Remaining
  <2>6. PICK f \in Nat : f = Filled(CodesCut(line), j) /\ f <= j
    BY FilledCounts
  <2>7. Len(list) = RowOf(line, f)
    BY <2>4, <2>6 DEF Collected
  <2>8. Len(list) \in Nat /\ Len(list) <= f
    BY <2>7, RowsBefore
  <2>9. Len(todo) + Len(list) <= n
    BY <2>4, <2>5, <2>6, <2>8
  <2> QED BY <2>2, <2>5, <2>8, <2>9 DEF SizesOK, DecodeBuffer
<1> QED BY <1>1, <1>2 DEF Bounded

Turns == {"prompt", "serverM", "serverC", "CS", "EE", "thread", "collect", "client", "shown"}

LEMMA PlaceKept ==
    ASSUME at \in Turns, [Next]_vars
    PROVE  at' \in Turns
<1>1. ASSUME NEW message, NEW to \in Turns, Hand(message, to)
      PROVE  at' \in Turns
  BY <1>1 DEF Hand, Turns
<1>2. ASSUME NEW result, Screen(result)
      PROVE  at' \in Turns
  BY <1>2 DEF Screen, Turns
<1>3. ASSUME NEW login \in Logins, authenticate_user(login)
      PROVE  at' \in Turns
  BY <1>1, <1>3 DEF authenticate_user, Turns
<1>4. ASSUME NEW line \in Lines, NEW category \in Categories, send_request(line, category)
      PROVE  at' \in Turns
  <2>1. at' = "shown" \/ \E message : Hand(message, "serverM")
    BY <1>4 DEF send_request
  <2> QED BY <1>1, <2>1 DEF Turns
<1>5. CASE on_auth_request_received \/ handle_auth_request_validate \/ ThreadResponds
  <2>1. \E message : Hand(message, "serverC") \/ Hand(message, "client")
    BY <1>5 DEF on_auth_request_received, handle_auth_request_validate, ThreadResponds
  <2> QED BY <1>1, <2>1 DEF Turns
<1>6. CASE on_auth_result \/ on_course_lookup_info \/ on_course_lookup_error
           \/ on_course_multi_lookup
  <2>1. at' = "shown"
    BY <1>6 DEF on_auth_result, on_course_lookup_info, on_course_lookup_error,
       on_course_multi_lookup, Screen
  <2> QED BY <2>1 DEF Turns
<1>7. ASSUME NEW code
      PROVE  get_department_server_endpoint(code) \in {"CS", "EE", Nowhere}
  BY Zenon DEF get_department_server_endpoint
<1>8. CASE on_course_lookup_info_request_received
  <2>1. \E server \in {"CS", "EE", Nowhere} : \E message :
            \/ server # Nowhere /\ Hand(message, server)
            \/ Hand(message, "client")
    BY <1>7, <1>8, Zenon DEF on_course_lookup_info_request_received
  <2> QED BY <1>1, <2>1 DEF Turns
<1>9. CASE single_course_code_handler
  <2>1. PICK server \in {"CS", "EE", Nowhere} : (server # Nowhere /\ at' = server) \/ at' = at
    BY <1>7, <1>9, Zenon DEF single_course_code_handler
  <2> QED BY <2>1 DEF Turns
<1>10. CASE multi_request_thread \/ insert_to_end_of_linked_list \/ NextPrompt
  <2>1. at' \in {"thread", "prompt"}
    BY <1>10 DEF multi_request_thread, insert_to_end_of_linked_list, NextPrompt
  <2> QED BY <2>1 DEF Turns
<1>11. ASSUME NEW server, handle_course_info_lookup_request(server)
       PROVE  at' \in Turns
  <2>1. \E message : Hand(message, "client")
    BY <1>11 DEF handle_course_info_lookup_request
  <2> QED BY <1>1, <2>1 DEF Turns
<1>12. ASSUME NEW server, handle_course_detail_lookup_request(server)
       PROVE  at' \in Turns
  BY <1>12 DEF handle_course_detail_lookup_request, Turns
<1>13. CASE UNCHANGED vars
  BY <1>13 DEF vars
<1> QED BY <1>3, <1>4, <1>5, <1>6, <1>8, <1>9, <1>10, <1>11, <1>12, <1>13 DEF Next

(* A step that does not carry a message on leaves the one there is or none.*)
LEMMA FlightKept ==
    ASSUME MessageOK(flight), Carried', [Next]_vars
    PROVE  MessageOK(flight)'
<1>1. MessageOK(NoMessage)
  <2>1. 0 \in Byte /\ <<>> \in Bytes
    BY SmallIsByte DEF Bytes
  <2> QED BY <2>1, Encodes
<1>2. ASSUME at' \notin {"prompt", "thread", "shown"}
      PROVE  MessageOK(flight)'
  BY <1>2 DEF Carried
<1>3. ASSUME UNCHANGED flight \/ flight' = NoMessage
      PROVE  MessageOK(flight)'
  BY <1>1, <1>3 DEF MessageOK
<1>4. ASSUME NEW message, NEW to, to \notin {"prompt", "thread", "shown"}, Hand(message, to)
      PROVE  MessageOK(flight)'
  BY <1>2, <1>3, <1>4 DEF Hand
<1>5. ASSUME NEW login \in Logins, authenticate_user(login)
      PROVE  MessageOK(flight)'
  BY <1>4, <1>5 DEF authenticate_user
<1>6. ASSUME NEW line \in Lines, NEW category \in Categories, send_request(line, category)
      PROVE  MessageOK(flight)'
  <2>1. UNCHANGED flight \/ \E message : Hand(message, "serverM")
    BY <1>6 DEF send_request
  <2> QED BY <1>3, <1>4, <2>1
<1>7. CASE on_auth_request_received \/ handle_auth_request_validate \/ ThreadResponds
  <2>1. \E message : Hand(message, "serverC") \/ Hand(message, "client")
    BY <1>7 DEF on_auth_request_received, handle_auth_request_validate, ThreadResponds
  <2> QED BY <1>4, <2>1
<1>8. CASE \/ on_auth_result \/ on_course_lookup_info \/ on_course_lookup_error
           \/ on_course_multi_lookup \/ multi_request_thread \/ insert_to_end_of_linked_list
           \/ NextPrompt \/ UNCHANGED vars
  <2>1. UNCHANGED flight \/ flight' = NoMessage
    BY <1>8 DEF on_auth_result, on_course_lookup_info, on_course_lookup_error, vars,
       on_course_multi_lookup, Screen, multi_request_thread, insert_to_end_of_linked_list, NextPrompt
  <2> QED BY <1>3, <2>1
<1>9. ASSUME NEW code
      PROVE  get_department_server_endpoint(code) \in {"CS", "EE", Nowhere}
  BY Zenon DEF get_department_server_endpoint
<1>10. CASE on_course_lookup_info_request_received
  <2>1. \E server \in {"CS", "EE", Nowhere} : \E message :
            \/ server # Nowhere /\ Hand(message, server)
            \/ Hand(message, "client")
    BY <1>9, <1>10, Zenon DEF on_course_lookup_info_request_received
  <2> QED BY <1>4, <2>1 DEF Nowhere
<1>11. CASE single_course_code_handler
  <2>1. PICK server \in {"CS", "EE", Nowhere} :
            (server # Nowhere /\ at' = server) \/ UNCHANGED flight
    BY <1>9, <1>11, Zenon DEF single_course_code_handler
  <2> QED BY <1>2, <1>3, <2>1 DEF Nowhere
<1>12. ASSUME NEW server,
              \/ handle_course_info_lookup_request(server)
              \/ handle_course_detail_lookup_request(server)
       PROVE  MessageOK(flight)'
  <2>1. at' = "collect" \/ \E message : Hand(message, "client")
    BY <1>12 DEF handle_course_info_lookup_request, handle_course_detail_lookup_request
  <2> QED BY <1>2, <1>4, <2>1
<1> QED BY <1>5, <1>6, <1>7, <1>8, <1>10, <1>11, <1>12 DEF Next

LEMMA SizesKept ==
    ASSUME SizesOK, Bounded, Bounded', [Next]_vars
    PROVE  SizesOK'
<1>1. ASSUME UNCHANGED <<todo, list>>
      PROVE  SizesOK'
  BY <1>1 DEF SizesOK
<1>2. ASSUME at' \in {"thread", "collect"}
      PROVE  SizesOK'
  BY <1>2 DEF Bounded
<1>3. ASSUME NEW login \in Logins, authenticate_user(login)
      PROVE  SizesOK'
  BY <1>1, <1>3 DEF authenticate_user
<1>4. ASSUME NEW line \in Lines, NEW category \in Categories, send_request(line, category)
      PROVE  SizesOK'
  <2>1. UNCHANGED <<todo, list>>
    BY <1>4 DEF send_request
  <2> QED BY <1>1, <2>1
<1>5. CASE \/ on_auth_request_received \/ handle_auth_request_validate \/ on_auth_result
           \/ on_course_lookup_info \/ on_course_lookup_error \/ on_course_multi_lookup
           \/ on_course_lookup_info_request_received \/ ThreadResponds \/ UNCHANGED vars
  <2>1. UNCHANGED <<todo, list>>
    BY <1>5 DEF on_auth_request_received, handle_auth_request_validate, on_auth_result, Screen,
       on_course_lookup_info, on_course_lookup_error, on_course_multi_lookup,
       on_course_lookup_info_request_received, ThreadResponds, vars
  <2> QED BY <1>1, <2>1
<1>6. ASSUME NEW server,
             \/ handle_course_info_lookup_request(server)
             \/ handle_course_detail_lookup_request(server)
      PROVE  SizesOK'
  <2>1. UNCHANGED <<todo, list>>
    BY <1>6 DEF handle_course_info_lookup_request, handle_course_detail_lookup_request
  <2> QED BY <1>1, <2>1
<1>7. CASE multi_request_thread \/ insert_to_end_of_linked_list
  BY <1>2, <1>7 DEF multi_request_thread, insert_to_end_of_linked_list
<1>8. CASE NextPrompt
  <2>1. Len(todo') = 0 /\ Len(list') = 0
    BY <1>8 DEF NextPrompt
  <2> QED BY <2>1 DEF SizesOK, DecodeBuffer
<1>9. CASE single_course_code_handler
  <2>1. PICK server \in {"CS", "EE", Nowhere} : (server # Nowhere /\ at' = server) \/ at' = at
    <3>1. get_department_server_endpoint(Head(todo)) \in {"CS", "EE", Nowhere}
      BY Zenon DEF get_department_server_endpoint
    <3> QED BY <1>9, <3>1, Zenon DEF single_course_code_handler
  <2>2. at = "thread" /\ UNCHANGED typed
    BY <1>9 DEF single_course_code_handler
  <2>3. at' \in {"thread"} \cup Server
    BY <2>1, <2>2 DEF Server
  <2>4. Several'
    BY <2>2 DEF Bounded, Several
  <2> QED BY <2>3, <2>4 DEF Bounded
<1> QED BY <1>3, <1>4, <1>5, <1>6, <1>7, <1>8, <1>9 DEF Next

(* For any files, logins, lines and courses that fit each other, every     *)
(* message that is sent has a payload that fits, and only bytes; the codes *)
(* and the rows that the thread holds are never more than the buffer of    *)
(* the codes has bytes (protocol.c 6-44, serverM.c 180-271).               *)
THEOREM DataPathTypes == Spec => []TypeOK
<1>1. Init => UnderWay
  BY DEF Init, Silence, UnderWay, LoginUnderWay, SingleUnderWay, TableUnderWay, KindOK
<1>2. UnderWay /\ [Next]_vars => UnderWay'
  BY UnderWayKept
<1>3. UnderWay => Carried
  BY WhatIsCarried
<1>4. UnderWay => Bounded
  BY WhatIsBounded
<1> DEFINE Here == at \in Turns
           Message == MessageOK(flight)
<1>5. Init => Here /\ Message /\ SizesOK
  <2>1. ASSUME Init
        PROVE  Message
    <3>1. 0 \in Byte /\ <<>> \in Bytes
      BY SmallIsByte DEF Bytes
    <3>2. MessageOK(NoMessage)
      BY <3>1, Encodes
    <3> QED BY <2>1, <3>2 DEF Init
  <2>2. ASSUME Init
        PROVE  SizesOK
    <3>1. Len(todo) = 0 /\ Len(list) = 0
      BY <2>2 DEF Init
    <3> QED BY <3>1 DEF SizesOK, DecodeBuffer
  <2>3. Init => Here
    BY DEF Init, Turns
  <2> QED BY <2>1, <2>2, <2>3
<1>6. Here /\ [Next]_vars => Here'
  BY PlaceKept
<1>7. Message /\ Carried' /\ [Next]_vars => Message'
  BY FlightKept
<1>8. SizesOK /\ Bounded /\ Bounded' /\ [Next]_vars => SizesOK'
  BY SizesKept
<1>9. Here /\ Message /\ SizesOK => TypeOK
  <2>1. ASSUME Message
        PROVE  /\ flight.flags \in Byte /\ Len(flight.payload) <= PayloadMax
               /\ \A i \in DOMAIN flight.payload : flight.payload[i] \in Byte
    BY <2>1, BytesType DEF MessageOK
  <2> HIDE DEF Message
  <2> QED BY <2>1 DEF TypeOK, SizesOK, Turns
<1> HIDE DEF Here, Message
<1> QED BY <1>1, <1>2, <1>3, <1>4, <1>5, <1>6, <1>7, <1>8, <1>9, PTL DEF Spec
=============================================================================
