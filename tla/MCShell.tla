------------------------------- MODULE MCShell -------------------------------
(* Instances of the shell for TLC: a six-character buffer, two arguments,  *)
(* two letters and one command of each kind.                                *)
EXTENDS Shell

MCLetters == {"h", "r"}
MCPrintable == MCLetters \cup {Blank, Newline, Return, Backspace}
MCAnyChar == MCPrintable \cup {NUL}
MCCommands ==
    [name \in {<<"h">>, <<"r">>, <<"r", "h">>, <<"h", "h">>} |->
        CASE name = <<"h">> -> "help"
          [] name = <<"r">> -> "reboot"
          [] name = <<"r", "h">> -> "swap"
          [] OTHER -> "log"]
=============================================================================
