-------------------------- MODULE Terminal_proofs ---------------------------
(***************************************************************************)
(* For lines of any lengths, longer than every buffer or not: a line       *)
(* within the limit of its prompt is read whole by that prompt, and what   *)
(* is left of a longer one always ends, with its newline.                  *)
(***************************************************************************)
EXTENDS Terminal, TLAPS

\* A rest in stdin ends with its newline.
NewlineLeft == stdin # NoLine => stdin.left >= 1

\* A line within its limit is in stdin as it was typed, at its own prompt.
WholeLine ==
    (stdin # NoLine /\ stdin.length <= LineLimit[stdin.for]) =>
        at = stdin.for /\ stdin.left = stdin.length + 1

TerminalInv == TypeOK /\ NewlineLeft /\ WholeLine /\ PromptReadsItsLine

(* Every buffer holds a line of its prompt's limit, the newline and a zero *)
(* byte.                                                                   *)
LEMMA LimitsFit ==
    ASSUME NEW prompt \in Prompts
    PROVE  /\ LineLimit[prompt] \in Nat
           /\ BufferSize[prompt] \in Nat
           /\ LineLimit[prompt] + 1 < BufferSize[prompt]
BY DEF LineLimit, BufferSize, Prompts

(* A prompt takes what fits and leaves at least the newline of the rest.   *)
LEMMA ReadsSome ==
    ASSUME TypeOK, NewlineLeft, NEW prompt \in Prompts, Read(prompt)
    PROVE  /\ stdin' \in Line \cup {NoLine} /\ NewlineLeft'
           /\ read' \in Piece
<1>1. stdin \in Line /\ stdin.left \in Nat /\ stdin.left >= 1
  BY DEF TypeOK, Read, NewlineLeft, Line
<1>2. BufferSize[prompt] \in Nat /\ BufferSize[prompt] >= 2
  BY DEF BufferSize, Prompts
<1>3. CASE stdin.left < BufferSize[prompt]
  <2>1. stdin' = NoLine /\ read' = [at |-> prompt, length |-> stdin.left - 1, line |-> stdin]
    BY <1>3 DEF Read
  <2>2. stdin.left - 1 \in Nat
    BY <1>1
  <2> QED BY <1>1, <2>1, <2>2 DEF Piece, NewlineLeft
<1>4. CASE ~(stdin.left < BufferSize[prompt])
  <2>1. /\ read' = [at |-> prompt, length |-> BufferSize[prompt] - 1, line |-> stdin]
        /\ stdin' = [stdin EXCEPT !.left = @ - (BufferSize[prompt] - 1)]
    BY <1>4 DEF Read
  <2>2. /\ BufferSize[prompt] - 1 \in Nat
        /\ stdin.left - (BufferSize[prompt] - 1) \in Nat
        /\ stdin.left - (BufferSize[prompt] - 1) >= 1
    BY <1>1, <1>2, <1>4
  <2>3. stdin' \in Line /\ stdin'.left = stdin.left - (BufferSize[prompt] - 1)
    BY <1>1, <2>1, <2>2 DEF Line
  <2> QED BY <1>1, <2>1, <2>2, <2>3 DEF Piece, NewlineLeft
<1> QED BY <1>3, <1>4

(* A prompt that reads a line within its limit reads all of it.            *)
LEMMA ReadsAll ==
    ASSUME TypeOK, WholeLine, NEW prompt \in Prompts, Read(prompt)
    PROVE  WholeLine' /\ PromptReadsItsLine'
<1>1. /\ stdin \in Line /\ stdin.length \in Nat /\ stdin.for \in Prompts
      /\ stdin # NoLine /\ at = prompt
  BY DEF TypeOK, Read, Line
<1>2. read'.line = stdin /\ read'.at = prompt
  BY DEF Read
<1>3. CASE stdin.length <= LineLimit[stdin.for]
  <2>1. stdin.for = prompt /\ stdin.left = stdin.length + 1
    BY <1>1, <1>3 DEF WholeLine
  <2>2. stdin.left < BufferSize[prompt] /\ stdin.left - 1 = stdin.length
    BY <1>1, <1>3, <2>1, LimitsFit
  <2>3. stdin' = NoLine /\ read' = [at |-> prompt, length |-> stdin.left - 1, line |-> stdin]
    BY <2>2 DEF Read
  <2> QED BY <2>1, <2>2, <2>3 DEF WholeLine, PromptReadsItsLine
<1>4. CASE ~(stdin.length <= LineLimit[stdin.for])
  <2>1. PromptReadsItsLine'
    BY <1>2, <1>4 DEF PromptReadsItsLine, LineLimit
  <2>2. stdin' # NoLine => stdin'.length = stdin.length /\ stdin'.for = stdin.for
    BY <1>1 DEF Read, Line
  <2> QED BY <1>4, <2>1, <2>2 DEF WholeLine, LineLimit
<1> QED BY <1>3, <1>4

LEMMA TerminalInvInit == Init => TerminalInv
BY DEF Init, TerminalInv, TypeOK, NewlineLeft, WholeLine, PromptReadsItsLine, Prompts

LEMMA TerminalInvStep == TerminalInv /\ [Next]_vars => TerminalInv'
<1> SUFFICES ASSUME TerminalInv, [Next]_vars
             PROVE  TerminalInv'
  OBVIOUS
<1> USE DEF TerminalInv
<1>1. ASSUME NEW n \in Lengths, Type(n)
      PROVE  TerminalInv'
  <2>1. n \in Nat /\ n + 1 \in Nat /\ n + 1 >= 1
    BY <1>1, TerminalAssumption
  <2>2. /\ stdin' = [for |-> at, length |-> n, left |-> n + 1] /\ at \in Prompts
        /\ UNCHANGED <<at, read>>
    BY <1>1 DEF Type
  <2>3. /\ stdin' \in Line /\ stdin'.left = stdin'.length + 1 /\ stdin'.left >= 1
        /\ stdin'.for = at
    BY <2>1, <2>2 DEF Line
  <2> QED BY <2>2, <2>3 DEF TypeOK, NewlineLeft, WholeLine, PromptReadsItsLine
<1>2. ASSUME ReadUsername \/ ReadPassword \/ ReadCodes \/ ReadCategory
      PROVE  TerminalInv'
  <2>1. at' \in Prompts \cup {"login", "reply", "exited"}
    BY <1>2 DEF ReadUsername, ReadPassword, ReadCodes, ReadCategory, Prompts
  <2>2. \E prompt \in Prompts : Read(prompt)
    BY <1>2 DEF ReadUsername, ReadPassword, ReadCodes, ReadCategory, Prompts
  <2> QED BY <2>1, <2>2, ReadsSome, ReadsAll DEF TypeOK
<1>3. ASSUME LoginEnds \/ ReplyOrTimeout \/ Finished \/ UNCHANGED vars
      PROVE  TerminalInv'
  <2>1. UNCHANGED <<stdin, read>>
    BY <1>3 DEF LoginEnds, ReplyOrTimeout, Finished, vars
  <2>2. at' \in Prompts \cup {"login", "reply", "exited"}
    BY <1>3 DEF LoginEnds, ReplyOrTimeout, Finished, vars, TypeOK, Prompts
  <2>3. at' = at \/ at \notin Prompts
    BY <1>3 DEF LoginEnds, ReplyOrTimeout, Finished, vars, Prompts
  <2>4. WholeLine'
    BY <2>1, <2>3 DEF WholeLine, TypeOK, Line
  <2> QED BY <2>1, <2>2, <2>4 DEF TypeOK, NewlineLeft, PromptReadsItsLine
<1> QED BY <1>1, <1>2, <1>3 DEF Next, ClientStep

LEMMA TerminalInvHolds == Spec => []TerminalInv
BY TerminalInvInit, TerminalInvStep, PTL DEF Spec

(* Whatever lengths users type, and whatever long lines came before: a     *)
(* name or password of up to 49 characters, a line of codes of up to 89    *)
(* and a category of up to 11 are read whole by their own prompts          *)
(* (client.c:44, 287, 288 against fgets at 56, 75, 92 and 106).            *)
THEOREM PromptsReadTheirLines == Spec => []PromptReadsItsLine
BY TerminalInvHolds, PTL DEF TerminalInv

(* Whatever is typed, the client is at a prompt or waits, and what it      *)
(* reads has a length and a line.                                          *)
THEOREM TerminalTypes == Spec => []TypeOK
BY TerminalInvHolds, PTL DEF TerminalInv
=============================================================================
