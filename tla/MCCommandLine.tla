---------------------------- MODULE MCCommandLine ----------------------------
(* Instances of CommandLine: a long of 5 bits, units of 2, 4 and 8.  The     *)
(* numbers are text, in range and too large.                                 *)
EXTENDS CommandLine

MCNumbers == {0, 1, 3, 16}
MCLarge == {4}
=============================================================================
