------------------------------ MODULE MCOutages ------------------------------
(* Constants of the runs of Outages: one user, a course of each department *)
(* and one of none.                                                        *)
EXTENDS Outages

MCCodes == {"CS1", "EE1", "XX0"}
MCCatalog == {"CS1", "EE1"}
MCDeptOf == [code \in MCCodes |->
    CASE code = "CS1" -> "CS" [] code = "EE1" -> "EE" [] OTHER -> NoDept]

MCWords == {"james", "bo"}
MCEncrypt == [w \in MCWords |-> IF w = "bo" THEN "james" ELSE "bo"]
MCAccount == [user \in {"james"} |-> "james"]
SameLength == [w \in MCWords |-> 5]

Login(user, pass) == [type |-> "AUTH", user |-> user, pass |-> pass]
MCLogins == {Login("james", "james"), Login("james", "bo")}
MCQueries ==
    {[type |-> "SINGLE", code |-> "CS1"], [type |-> "SINGLE", code |-> "XX0"],
     [type |-> "MULTI", codes |-> <<"CS1", "EE1">>]}

Garbage == {<<>>}
=============================================================================
