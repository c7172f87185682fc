-------------------------------- MODULE Text --------------------------------
(***************************************************************************)
(* Lines of text as the programs cut them up (utils.c, and what they call  *)
(* of the C library).  A text is the sequence of the codes of its          *)
(* characters, without the terminating zero.                               *)
(***************************************************************************)
EXTENDS Naturals, Sequences, FiniteSets, SequencesExt

\* The codes of the characters of a string.
Printable == " ()*+,-./0123456789:;<=>?@ABCDEFGHIJKLMNOPQRSTUVWXYZabcdefghijklmnopqrstuvwxyz"

CodeOf(character) ==
    LET k == CHOOSE k \in 1 .. Len(Printable) : SubSeq(Printable, k, k) = character
    IN CASE k = 1 -> 32 [] k \in 2 .. 52 -> k + 38 [] OTHER -> k + 44

Chars(string) == [i \in 1 .. Len(string) |-> CodeOf(SubSeq(string, i, i))]

Tab     == 9
Newline == 10
Return  == 13
Blank   == 32
Comma   == 44

\* What is left of a text without the leading, or the trailing, characters of S.
StripFront(s, S) ==
    SubSeq(s, 1 + Cardinality({i \in DOMAIN s : \A k \in 1 .. i : s[k] \in S}), Len(s))

StripBack(s, S) ==
    SubSeq(s, 1, Len(s) - Cardinality({i \in DOMAIN s : \A k \in i .. Len(s) : s[k] \in S}))

Spaces == {Blank} \cup 9 .. 13

utils_string_ltrim(s) == StripFront(s, Spaces)
utils_string_rtrim(s) == StripBack(s, Spaces)
utils_string_rtrim_newlines(s) == StripBack(s, {Newline, Return})
utils_string_trim(s) == utils_string_rtrim(utils_string_ltrim(s))

utils_get_word_count(s) ==
    1 + Cardinality({i \in DOMAIN utils_string_trim(s) :
                        utils_string_trim(s)[i] \in {Blank, Tab}})

\* The line in its buffer after its words were counted: the zero byte that
\* ends the trimmed text is written in place, the leading spaces stay.
TrimmedInPlace(s) ==
    SubSeq(s, 1, Len(s) - Len(utils_string_ltrim(s))) \o utils_string_trim(s)

\* The members of a set of numbers, the smallest first.
Ascending(S) ==
    [n \in 1 .. Cardinality(S) |-> CHOOSE i \in S : Cardinality({k \in S : k < i}) = n - 1]

\* The n-th word by utils_get_word_length, which a single blank or the end of
\* the text ends; behind the end the buffer is zero and words are empty.
Word(s, n) ==
    LET cuts == Ascending({0, Len(s) + 1} \cup {i \in DOMAIN s : s[i] = Blank})
    IN IF n < Len(cuts) THEN SubSeq(s, cuts[n] + 1, cuts[n + 1] - 1) ELSE <<>>

\* strtok: the longest pieces without a separator, none of them empty.
Tokens(s, Separators) ==
    LET Inside(i) == i \in DOMAIN s /\ s[i] \notin Separators
        starts == Ascending({i \in DOMAIN s : Inside(i) /\ ~Inside(i - 1)})
        ends   == Ascending({i \in DOMAIN s : Inside(i) /\ ~Inside(i + 1)})
    IN [n \in DOMAIN starts |-> SubSeq(s, starts[n], ends[n])]

Lower(c) == IF c \in 65 .. 90 THEN c + 32 ELSE c

\* strcasecmp
SameIgnoringCase(s, t) ==
    /\ Len(s) = Len(t)
    /\ \A i \in DOMAIN s : Lower(s[i]) = Lower(t[i])

Digits == 48 .. 57

\* atoi: the number the leading digits stand for.
Number(s) ==
    FoldLeft(LAMBDA n, c : 10 * n + (c - 48), 0,
             SubSeq(s, 1, Cardinality({i \in DOMAIN s : \A k \in 1 .. i : s[k] \in Digits})))

\* snprintf of a number.
Decimal[n \in Nat] ==
    IF n < 10 THEN <<48 + n>> ELSE Append(Decimal[n \div 10], 48 + (n % 10))
=============================================================================
