----------------------------- MODULE MCDataPath -----------------------------
(***************************************************************************)
(* Some lines of the repository's data files, some that are skipped or     *)
(* hidden by an earlier one, and lines a user may type about them.         *)
(***************************************************************************)
EXTENDS DataPath, TLC

Crlf == <<Return, Newline>>
Typed(string) == Chars(string) \o <<Newline>>

MCCredFile ==
    << Chars("neqiw,6oErwe1w)") \o Crlf, Crlf, Chars("waerez") \o Crlf,
       Chars("waerez,56789") \o Crlf, Chars("fvmxxerc,*Xvm2xmyq3") \o Crlf >>

\* From cred_unencrypted.txt.
MCAccounts == [james |-> "2kAnsa7s)", swanav |-> "12345", brittany |-> "*Tri8tium9"]

Login(user, password) ==
    [username |-> Typed(user), password |-> Typed(password), means |-> <<user, password>>]

\* Right ones, wrong passwords, unknown names, and what is too short by one.
MCLogins ==
    {Login("james", "2kAnsa7s)"), Login("james", "2kansa7s)"), Login("swanav", "12345"),
     Login("swanav", "12346"), Login("swanav", "123456"), Login("swanav", "1234"),
     Login("brittany", "*Tri8tium9"), Login("waerez", "12345"), Login("jamess", "2kAnsa7s)"),
     Login("jame", "2kAnsa7s)")}

\* With these names a course fills eight rows of a list to its last byte, and
\* fills the answer of its department to its last byte.
LongName ==
    "Building Knowledge Graphs from Text and Tables and Images and Logs and Databases"
LongestName ==
    "Diagnosis and Design of Reliable Digital Systems and of the Tests that Tell the Good from the Bad"

MCCsFile ==
    << Chars("CS999,4,Nobody") \o Crlf,
       Chars("CS100,4,Sathyanaraya Raghavachary,Tue;Thu,Explorations in Computing") \o Crlf,
       Chars("CS310,,12,Chao Wang,Mon;Wed,Software Engineering") \o Crlf,
       Chars("CS571,4,Craig Knoblock and Jay Pujara,Tue;Thu,") \o Chars(LongName) \o Crlf >>
MCEeFile ==
    << Chars("EE450,4,Ali Zahid,Tue;Thu,Introduction to Computer Networks") \o Crlf, Crlf,
       Chars("EE608,4,Eun Kim,Monday,Wearable Technology,Online") \o Crlf,
       Chars("EE658,4,Sandeep Gupta,Tue;Thu,") \o Chars(LongestName) \o Crlf,
       Chars("EE450,3,Nobody,Sunday,Nothing") >>

Row(code, credits, professor, days, name) ==
    [code |-> Chars(code), credits |-> credits, professor |-> Chars(professor),
     days |-> Chars(days), name |-> Chars(name)]

MCCourses ==
    {Row("CS100", 4, "Sathyanaraya Raghavachary", "Tue;Thu", "Explorations in Computing"),
     Row("CS310", 12, "Chao Wang", "Mon;Wed", "Software Engineering"),
     Row("EE450", 4, "Ali Zahid", "Tue;Thu", "Introduction to Computer Networks"),
     Row("EE608", 4, "Eun Kim", "Monday", "Wearable Technology"),
     Row("CS571", 4, "Craig Knoblock and Jay Pujara", "Tue;Thu", LongName),
     Row("EE658", 4, "Sandeep Gupta", "Tue;Thu", LongestName)}

\* Twenty codes.
Twenty(code) == FlattenSeq([n \in 1 .. 20 |-> Chars(code) \o Chars(" ")])

\* One code, with spaces behind it or none, unknown ones, and no code at all;
\* several codes, nine of them, two blanks between them; codes of the longest
\* courses, and as many characters as the buffer of a line takes.
MCLines ==
    {Typed("EE450"), Typed("cs100  "), Typed("eE608") \o Crlf, Typed("CS310"), Typed("EE999"),
     Typed("CS999"), Typed("ME101"), Typed("E"), Typed(""), Typed("EE4500000"), Typed("ee658"),
     Typed("EE450 CS100"), Typed("CS100 EE608 ") , Typed("ee608 XY1 CS310 EE450"),
     Typed("EE450  CS100"), Typed("EE1 CS1"), Typed("E CS100"),
     Typed("EE450 CS100 EE608 CS310 EE450 CS100 EE608 CS310 EE450"),
     Typed("CS571 CS571 CS571 CS571 CS571 CS571 CS571 CS571"),
     Typed("EE658 CS571 EE658"), Twenty("EE608") \o Typed("EE6080")}

MCMeaning ==
    Typed("CourseCode") :> "code" @@ Typed("course name ") :> "name" @@ Typed("Credit") :> "credits"
    @@ Typed(" Professor") :> "professor" @@ Typed("DAYS") :> "days" @@ Typed("Day") :> "none"
    @@ Typed("") :> "none"
MCCategories == DOMAIN MCMeaning

MCStale == {0, 1, 255}
=============================================================================
