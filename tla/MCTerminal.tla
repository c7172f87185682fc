----------------------------- MODULE MCTerminal -----------------------------
(* Lengths around every bound of the program.                              *)
EXTENDS Terminal

MCLengths == {0, 2, 3, 4, 5, 11, 12, 22, 23, 24, 49, 50, 51, 55, 56, 89, 126, 127, 128, 253, 254}
=============================================================================
