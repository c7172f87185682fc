------------------------------ MODULE MCClient ------------------------------
(* One client, a user whose password is right and one whose is wrong.      *)
EXTENDS Client

CONSTANTS james, mallory

MCUsers == {james, mallory}
MCValid == {james}
=============================================================================
