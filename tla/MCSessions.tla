----------------------------- MODULE MCSessions -----------------------------
(* Constants of the runs of Sessions: four codes, two catalogued, one the  *)
(* EE department does not know and one no department takes.                *)
EXTENDS Sessions

MCCodes == {"CS1", "EE1", "EE0", "XX0"}
MCCatalog == {"CS1", "EE1"}
MCDeptOf == [code \in MCCodes |->
    CASE code = "CS1" -> "CS" [] code \in {"EE1", "EE0"} -> "EE" [] OTHER -> NoDept]

\* The cipher is a permutation of the words that moves each of them.
MCWords == {"james", "bo", "pw", "no"}
MCEncrypt == [w \in MCWords |->
    CASE w = "james" -> "bo" [] w = "bo" -> "pw" [] w = "pw" -> "no" [] w = "no" -> "james"]
MCAccount == [user \in {"james"} |-> "pw"]
TwoAccounts == [user \in {"james", "bo"} |-> "pw"]

SameLength == [w \in MCWords |-> 5]

Login(user, pass) == [type |-> "AUTH", user |-> user, pass |-> pass]
Single(code) == [type |-> "SINGLE", code |-> code]
Multi(codes) == [type |-> "MULTI", codes |-> codes]

AllLogins == {Login("james", "pw"), Login("james", "no"), Login("bo", "pw")}
OneLogin == {Login("james", "pw")}

SomeQueries ==
    {Single("CS1"), Single("EE0"), Single("XX0"),
     Multi(<<"EE1", "CS1">>), Multi(<<"CS1", "XX0", "EE1">>), Multi(<<"EE0", "EE1">>),
     Multi(<<"XX0", "EE0">>)}

KnownQueries == {Single("CS1"), Multi(<<"EE1", "CS1">>), Multi(<<"EE0", "XX0", "EE1">>)}

\* For the run that follows one shortest history.
TwoQueries == {Multi(<<"EE1", "CS1">>), Single("XX0")}

Garbage == {<<>>, <<"XX0">>}
=============================================================================
