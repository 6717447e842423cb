-------------------------------- MODULE Shell --------------------------------
(***************************************************************************)
(* The command shell of the firmware: line editing, the in-place tokeniser *)
(* and command dispatch.  Sources: common/src/shell.c and                  *)
(* common/src/shell_commands.c.                                            *)
(*                                                                         *)
(* The receive buffer is an array of characters; argv holds indices into   *)
(* it, as the C pointers do.  The tokeniser's loop is one action per       *)
(* iteration.  Texts are reduced to one cell each (">" is the prompt).     *)
(***************************************************************************)
EXTENDS Integers, Sequences

CONSTANTS
    RX_SIZE,   \* SHELL_RX_BUFFER_SIZE, 256 in the code
    MAX_ARGS,  \* SHELL_MAX_ARGS, 16 in the code
    Letters,   \* printable characters other than the blank
    Input,     \* the characters that can be received
    NUL,       \* '\0'
    Commands   \* g_shell_commands: command name -> kind of its handler

Blank == " "
Newline == "LF"
Return == "CR"
Backspace == "BS"

ASSUME ShellAssumption ==
    /\ RX_SIZE \in Nat \ {0}
    /\ MAX_ARGS \in Nat \ {0}
    /\ Input \subseteq Letters \cup {Blank, Newline, Return, Backspace, NUL}
    /\ {Blank, Newline, Return, Backspace, NUL} \cap Letters = {}
    /\ NUL \notin {Blank, Newline, Return, Backspace, ">", "#"}
    /\ \A name \in DOMAIN Commands : name \in Seq(Letters)

VARIABLES
    booted,     \* s_shell.send_char != NULL
    rx_size,    \* s_shell.rx_size
    rx_buffer,  \* s_shell.rx_buffer
    pc,         \* "idle", or where prv_process is
    i,          \* its loop index
    next_arg,   \* its pending argument, -1 for NULL
    argv,       \* its argument vector; argc is its length
    line,       \* history: the buffer when prv_process was entered
    term        \* the terminal: its current row and the cursor's column

editVars == <<booted, rx_size, rx_buffer>>
scanVars == <<i, next_arg, argv, line>>
vars == <<editVars, pc, scanVars, term>>

Cells == 0 .. RX_SIZE - 1
Chars == Letters \cup {Blank, Newline, NUL}
NULL == -1
argc == Len(argv)

-----------------------------------------------------------------------------
(* The terminal at the other end of the line.                              *)

Blanks(n) == [k \in 1 .. n |-> Blank]
OneLeft(col) == IF col = 0 THEN 0 ELSE col - 1

TermPut(t, ch) ==
    CASE ch = Return    -> [t EXCEPT !.col = 0]
      [] ch = Newline   -> [t EXCEPT !.row = Blanks(t.col)]
      [] ch = Backspace -> [t EXCEPT !.col = OneLeft(@)]
      [] ch = NUL       -> t
      [] OTHER -> [row |-> IF t.col = Len(t.row) THEN Append(t.row, ch)
                           ELSE [t.row EXCEPT ![t.col + 1] = ch],
                   col |-> t.col + 1]

\* prv_echo
prv_echo(t, ch) ==
    CASE ch = Newline   -> TermPut(TermPut(t, Return), Newline)
      [] ch = Backspace -> TermPut(TermPut(TermPut(t, Backspace), Blank), Backspace)
      [] OTHER          -> TermPut(t, ch)

prv_send_prompt(t) == prv_echo(t, ">")

\* A line of text through prv_echo_str and prv_echo, and one through the
\* logger, whose newline carries no carriage return.
EchoLine(t) == prv_echo(prv_echo(t, "#"), Newline)
LogLine(t) == TermPut(TermPut(t, "#"), Newline)

-----------------------------------------------------------------------------
(* Line editing.                                                           *)

Empty == [k \in Cells |-> NUL]

Init ==
    /\ booted = FALSE
    /\ rx_size = 0 /\ rx_buffer = Empty
    /\ pc = "idle" /\ i = 0 /\ next_arg = NULL /\ argv = <<>> /\ line = <<>>
    /\ term = [row |-> <<>>, col |-> 0]

\* prv_reset_rx_buffer
prv_reset_rx_buffer == rx_size' = 0 /\ rx_buffer' = Empty

prv_is_rx_buffer_full == rx_size >= RX_SIZE

shell_boot ==
    /\ ~booted
    /\ booted' = TRUE
    /\ prv_reset_rx_buffer
    /\ term' = prv_send_prompt(prv_echo(term, Newline))
    /\ UNCHANGED <<pc, scanVars>>

\* Mutant: a backspace on the empty line is echoed.
IgnoreAndEcho(ch) ==
    /\ pc = "idle"
    /\ \/ ch = Return \/ prv_is_rx_buffer_full \/ ~booted
       \/ ch = Backspace /\ rx_size = 0
    /\ term' = IF ch = Backspace THEN prv_echo(term, ch) ELSE term
    /\ UNCHANGED <<editVars, pc, scanVars>>

\* The early returns of shell_receive_char.
IgnoreChar(ch) ==
    /\ pc = "idle"
    /\ \/ ch = Return \/ prv_is_rx_buffer_full \/ ~booted
       \/ ch = Backspace /\ rx_size = 0
    /\ UNCHANGED vars

\* A backspace drops the last character and wipes it off the terminal.
EraseChar ==
    /\ pc = "idle" /\ booted /\ ~prv_is_rx_buffer_full /\ rx_size > 0
    /\ term' = prv_echo(term, Backspace)
    /\ rx_size' = rx_size - 1
    /\ rx_buffer' = [rx_buffer EXCEPT ![rx_size - 1] = NUL]
    /\ UNCHANGED <<booted, pc, scanVars>>

\* Mutant: only a newline completes a line.
LineCompleteOnNewline(ch) == ch = Newline

\* prv_process goes on when the last character is a newline or the buffer,
\* with that character in it, is full.
LineComplete(ch) == ch = Newline \/ rx_size + 1 >= RX_SIZE

\* Any other character is echoed and stored, and prv_process is called.
StoreChar(ch) ==
    /\ pc = "idle" /\ booted /\ ~prv_is_rx_buffer_full
    /\ ch \notin {Return, Backspace}
    /\ term' = prv_echo(term, ch)
    /\ rx_buffer' = [rx_buffer EXCEPT ![rx_size] = ch]
    /\ rx_size' = rx_size + 1
    /\ IF LineComplete(ch)
       THEN /\ pc' = "scan" /\ i' = 0 /\ next_arg' = NULL /\ argv' = <<>>
            /\ line' = [k \in 1 .. rx_size + 1 |-> rx_buffer'[k - 1]]
       ELSE UNCHANGED <<pc, scanVars>>
    /\ UNCHANGED booted

-----------------------------------------------------------------------------
(* prv_process: the tokeniser.                                             *)

\* Mutant: only blanks and newlines separate.
IsSeparatorChar(k) == rx_buffer[k] \in {Blank, Newline}

\* A blank, a newline and whatever is last in the buffer end a word.
IsSeparator(k) == rx_buffer[k] \in {Blank, Newline} \/ k = rx_size - 1

\* Mutant: the argument vector's size is not checked.
ScanningUnbounded == pc = "scan" /\ i < rx_size

\* The loop condition of the tokeniser.
Scanning == pc = "scan" /\ i < rx_size /\ argc < MAX_ARGS

\* Mutant: the separator is left in place.
ScanSeparatorUnterminated ==
    /\ Scanning /\ IsSeparator(i)
    /\ argv' = IF next_arg # NULL THEN Append(argv, next_arg) ELSE argv
    /\ next_arg' = NULL
    /\ i' = i + 1
    /\ UNCHANGED <<editVars, pc, line, term>>

\* Mutant: the loop index is not advanced past a separator.
ScanSeparatorAgain ==
    /\ Scanning /\ IsSeparator(i)
    /\ rx_buffer' = [rx_buffer EXCEPT ![i] = NUL]
    /\ argv' = IF next_arg # NULL THEN Append(argv, next_arg) ELSE argv
    /\ next_arg' = NULL
    /\ UNCHANGED <<booted, rx_size, pc, i, line, term>>

\* A separator is overwritten by the terminator of the word before it.
ScanSeparator ==
    /\ Scanning /\ IsSeparator(i)
    /\ rx_buffer' = [rx_buffer EXCEPT ![i] = NUL]
    /\ argv' = IF next_arg # NULL THEN Append(argv, next_arg) ELSE argv
    /\ next_arg' = NULL
    /\ i' = i + 1
    /\ UNCHANGED <<booted, rx_size, pc, line, term>>

ScanLetter ==
    /\ Scanning /\ ~IsSeparator(i)
    /\ next_arg' = IF next_arg = NULL THEN i ELSE next_arg
    /\ i' = i + 1
    /\ UNCHANGED <<editVars, pc, argv, line, term>>

\* The loop ends; a line that filled the buffer gets its missing newline.
ScanDone ==
    /\ pc = "scan" /\ ~Scanning
    /\ term' = IF rx_size = RX_SIZE THEN prv_echo(term, Newline) ELSE term
    /\ pc' = "dispatch"
    /\ UNCHANGED <<editVars, scanVars>>

-----------------------------------------------------------------------------
(* prv_process: dispatch.                                                  *)

\* The C string at index k, read up to the first terminator.
IsCString(k, s) ==
    /\ k + Len(s) \in Cells /\ rx_buffer[k + Len(s)] = NUL
    /\ \A j \in 1 .. Len(s) : rx_buffer[k + j - 1] = s[j] /\ s[j] # NUL

\* Mutant: names are compared over the length of the command only.
FindByPrefix(name) ==
    /\ argc >= 1
    /\ \A j \in 1 .. Len(name) : argv[1] + j - 1 \in Cells /\ rx_buffer[argv[1] + j - 1] = name[j]

\* prv_find_command(argv[0]) yields the command called name.
prv_find_command(name) == argc >= 1 /\ IsCString(argv[1], name)

\* The locals of prv_process go out of scope.
ForgetLocals == i' = 0 /\ next_arg' = NULL /\ argv' = <<>> /\ line' = <<>>

\* The end of prv_process, reached whenever the handler returns.
FinishLine(t) ==
    /\ prv_reset_rx_buffer
    /\ term' = prv_send_prompt(t)
    /\ pc' = "idle" /\ ForgetLocals
    /\ UNCHANGED booted

RunNothing == pc = "dispatch" /\ argc = 0 /\ FinishLine(term)

\* "Unknown command: <argv[0]>" and the hint, one line each.
RunUnknown ==
    /\ pc = "dispatch" /\ argc >= 1
    /\ \A name \in DOMAIN Commands : ~prv_find_command(name)
    /\ FinishLine(EchoLine(EchoLine(term)))

\* shell_help_handler: one line per command.
RunHelp(name) ==
    /\ pc = "dispatch" /\ prv_find_command(name) /\ Commands[name] = "help"
    /\ FinishLine(EchoLine(EchoLine(term)))

\* cli_idn, cli_magic_number_check, and a swap that boot_set_pending refuses:
\* one or two lines of log.
RunLog(name) ==
    /\ pc = "dispatch" /\ prv_find_command(name) /\ Commands[name] \in {"log", "swap"}
    /\ \E t \in {LogLine(term), LogLine(LogLine(term))} : FinishLine(t)

\* prv_reboot: the handler does not return, RAM is initialised again.  A swap
\* ends the same way once boot_set_pending has succeeded.
RunReboot(name) ==
    /\ pc = "dispatch" /\ prv_find_command(name) /\ Commands[name] \in {"reboot", "swap"}
    /\ term' = IF Commands[name] = "swap" THEN LogLine(term) ELSE term
    /\ booted' = FALSE
    /\ rx_size' = 0 /\ rx_buffer' = Empty
    /\ pc' = "idle" /\ ForgetLocals

-----------------------------------------------------------------------------
shell_receive_char ==
    \E ch \in Input :
        \/ IgnoreChar(ch)
        \/ ch = Backspace /\ EraseChar
        \/ StoreChar(ch)

prv_process ==
    \/ ScanSeparator \/ ScanLetter \/ ScanDone
    \/ RunNothing \/ RunUnknown
    \/ \E name \in DOMAIN Commands : RunHelp(name) \/ RunLog(name) \/ RunReboot(name)

Next == shell_boot \/ shell_receive_char \/ prv_process

Spec == Init /\ [][Next]_vars

\* The processor executes prv_process to its end; nobody has to type.
FairSpec == Spec /\ WF_vars(prv_process) /\ WF_vars(shell_boot)

-----------------------------------------------------------------------------
(* Properties.                                                             *)

\* Type invariant: every index the code uses stays inside its array.
TypeOK ==
    /\ booted \in BOOLEAN
    /\ rx_size \in 0 .. RX_SIZE /\ rx_buffer \in [Cells -> Chars]
    /\ pc \in {"idle", "scan", "dispatch"}
    /\ i \in 0 .. RX_SIZE /\ next_arg \in Cells \cup {NULL}
    /\ argv \in Seq(Cells) /\ argc <= MAX_ARGS
    /\ line \in Seq(Chars)
    /\ term.col \in Nat

\* The shell never sits at the prompt with a full buffer, where
\* shell_receive_char drops every further character (shell.c:84, 131).
NeverStuckFull == pc = "idle" => ~prv_is_rx_buffer_full

\* Every argument handed to strcmp and to a handler is a C string that ends
\* inside rx_buffer, also when the line filled it without a newline
\* (shell.c:94-99, 110, 117).
ArgvTerminated ==
    pc = "dispatch" =>
        \A k \in 1 .. argc : \E j \in Cells : j > argv[k] /\ rx_buffer[j] = NUL

\* The reference: word starts of a line, its last character being a
\* separator whatever it is.
LineSeparator(k) == line[k + 1] \in {Blank, Newline} \/ k = Len(line) - 1
WordStarts ==
    {k \in 0 .. Len(line) - 1 :
        ~LineSeparator(k) /\ (k = 0 \/ LineSeparator(k - 1))}

\* k is a start with fewer than MAX_ARGS starts before it; the n-th such
\* start has exactly n - 1 before it.
IsNthStart(k, n) ==
    /\ k \in WordStarts
    /\ \E f \in [1 .. n - 1 -> WordStarts] :
           /\ \A a, b \in 1 .. n - 1 : a < b => f[a] < f[b]
           /\ {f[a] : a \in 1 .. n - 1} = {w \in WordStarts : w < k}

\* argv is the first MAX_ARGS words of the line, in order, none twice and
\* none missing (shell.c:88-103).
ArgvIsWords ==
    pc = "dispatch" =>
        /\ \A n \in 1 .. argc : IsNthStart(argv[n], n)
        /\ argc < MAX_ARGS => WordStarts = {argv[n] : n \in 1 .. argc}

\* What the user sees left of the cursor is the prompt and the characters
\* the shell holds, and nothing is left over to the right (shell.c:38-49,
\* 134-143).
ScreenShowsBuffer ==
    pc = "idle" /\ booted =>
        LET shown == <<">">> \o [k \in 1 .. rx_size |-> rx_buffer[k - 1]] IN
        /\ term.col >= Len(shown)
        /\ SubSeq(term.row, term.col - Len(shown) + 1, term.col) = shown
        /\ \A k \in term.col + 1 .. Len(term.row) : term.row[k] = Blank

\* A reader's idea of the first word: it starts after nothing but blanks ...
Gap == {Blank, Newline}
FirstWordStarts(a) ==
    /\ a \in 1 .. Len(line) /\ line[a] \notin Gap
    /\ \A k \in 1 .. a - 1 : line[k] \in Gap

\* ... and reads name up to the character before the e-th.
ReadsUpTo(name, e) ==
    /\ e \in 1 .. Len(line) /\ FirstWordStarts(e - Len(name))
    /\ \A j \in 1 .. Len(name) : line[e - Len(name) + j - 1] = name[j]

\* The first word is name, in full: a blank or a newline follows.
FirstWordIs(name) == \E e \in 1 .. Len(line) : ReadsUpTo(name, e) /\ line[e] \in Gap

\* The line filled the buffer and has one more character after name, its last,
\* which prv_process overwrites whatever it is (shell.c:94-95).
LosesLastCharacter(name) == Len(line) = RX_SIZE /\ ReadsUpTo(name, RX_SIZE)

\* A NUL was typed after name, where strcmp stops reading (shell.c:76).
CutByNul(name) == \E e \in 1 .. Len(line) : ReadsUpTo(name, e) /\ line[e] = NUL

\* The system restarts only because the line's first word is, in full, a
\* command that restarts it, but for two longer words the code takes for it:
\* one cut by a typed NUL, and one whose single character too many is the last
\* of a line that filled the buffer (shell.c:74-81, 94, shell_commands.c:22-46).
RestartOnlyOnCommand ==
    [][booted /\ ~booted' =>
          \E name \in DOMAIN Commands :
              /\ Commands[name] \in {"reboot", "swap"}
              /\ FirstWordIs(name) \/ LosesLastCharacter(name) \/ CutByNul(name)]_vars

\* Whatever was typed, the shell comes back to its prompt.
BackToPrompt == []<>(pc = "idle" /\ booted)
=============================================================================
