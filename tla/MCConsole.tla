------------------------------ MODULE MCConsole ------------------------------
(* A three-character line, a command that restarts and one that prints,     *)
(* behind a two-byte ring.                                                  *)
EXTENDS Console

MCLetters == {"r", "h"}
MCInput == {"r", "h", "LF", "BS", "CR"}
MCCommands == [name \in {<<"r">>, <<"h">>} |-> IF name = <<"r">> THEN "reboot" ELSE "help"]
=============================================================================
