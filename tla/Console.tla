------------------------------ MODULE Console -------------------------------
(***************************************************************************)
(* The console as a whole: UartConsole's input path and transmitter with   *)
(* Shell in the place of shell_receive_char, composed as                   *)
(* shell_processing_loop (common/src/shell_port.c) composes them, and the  *)
(* restart that a command makes of both.                                   *)
(*                                                                         *)
(* While the main loop is inside shell_receive_char, UartConsole is at     *)
(* "transmit" or "txWait" and the interrupt goes on filling the ring.      *)
(***************************************************************************)
EXTENDS Shell

CONSTANTS N, MaxBytes, MaxEcho, Paced

VARIABLES
    rxArmed, endrx, rxBuf, isr, irqOff, read_idx, num_bytes, buf,
    mpc,        \* where the main loop is
    c, tmp, toSend, endtx, received, offered, accepted, taken

U == INSTANCE UartConsole WITH Bytes <- Input, pc <- mpc

ASSUME InputPathAssumption == U!ConsoleAssumption

inputVars == <<rxArmed, endrx, rxBuf, isr, irqOff, read_idx, num_bytes, buf, mpc, c, tmp,
               toSend, endtx, received, offered, accepted, taken>>
consoleVars == <<inputVars, vars>>

ConsoleInit == U!Init /\ Init

-----------------------------------------------------------------------------
\* uart_boot runs in main, before shell_processing_loop.
uart_boot == U!uart_boot /\ UNCHANGED vars

loop_shell_boot == mpc = "poll" /\ isr = "idle" /\ shell_boot /\ UNCHANGED inputVars

shell_port_getchar ==
    /\ booted
    /\ \/ U!PollEmpty \/ U!PollReady \/ U!LoadChar \/ U!DisableIrq
       \/ U!AdvanceIdx \/ U!DecLoad \/ U!DecStore \/ U!EnableIrq
    /\ UNCHANGED vars

\* Mutant: a carriage return completes a line.
loop_receive_char_on_return ==
    /\ U!Receive
    /\ \/ c # Return /\ IgnoreChar(c)
       \/ c = Backspace /\ EraseChar
       \/ StoreChar(IF c = Return THEN Newline ELSE c)

\* The byte the ring gave is the byte the shell is called with.
loop_receive_char ==
    /\ U!Receive
    /\ \/ IgnoreChar(c)
       \/ c = Backspace /\ EraseChar
       \/ StoreChar(c)

\* prv_process runs inside that call, with the handlers that return ...
loop_process ==
    /\ isr = "idle" /\ mpc = "transmit"
    /\ prv_process /\ UNCHANGED booted
    /\ UNCHANGED inputVars

\* ... and a restart, which starts the peripheral over and clears RAM.
prv_reboot ==
    /\ isr = "idle" /\ mpc = "transmit"
    /\ \E name \in DOMAIN Commands : RunReboot(name)
    /\ rxArmed' = FALSE /\ endrx' = FALSE /\ rxBuf' = NUL
    /\ irqOff' = FALSE
    /\ read_idx' = 0 /\ num_bytes' = 0 /\ buf' = [k \in U!Slots |-> NUL]
    /\ mpc' = "boot" /\ c' = NUL /\ tmp' = 0 /\ toSend' = 0 /\ endtx' = FALSE
    /\ received' = <<>> /\ offered' = <<>> /\ accepted' = <<>> /\ taken' = <<>>
    /\ UNCHANGED isr

prv_console_putc == (U!StartTx \/ U!FinishTx) /\ UNCHANGED vars

ReceiveDone == pc = "idle" /\ U!ReceiveDone /\ UNCHANGED vars

shell_processing_loop ==
    \/ uart_boot \/ loop_shell_boot \/ shell_port_getchar \/ loop_receive_char
    \/ loop_process \/ prv_reboot \/ prv_console_putc \/ ReceiveDone

Irq2_Handler == U!Isr /\ UNCHANGED vars

Peripheral == U!TxComplete /\ UNCHANGED vars

Terminal == U!Terminal /\ UNCHANGED vars

ConsoleNext == shell_processing_loop \/ Irq2_Handler \/ Peripheral \/ Terminal

ConsoleSpec == ConsoleInit /\ [][ConsoleNext]_consoleVars

\* Processor and transmitter run on; nobody has to type.
ConsoleFairSpec ==
    /\ ConsoleSpec /\ WF_consoleVars(shell_processing_loop)
    /\ WF_consoleVars(Irq2_Handler) /\ WF_consoleVars(Peripheral)

-----------------------------------------------------------------------------
(* Properties.                                                             *)

\* The reference: what a user who typed s expects to stand on the line.
TypeOne(l, ch) ==
    IF ch = Return THEN l
    ELSE IF ch = Backspace THEN SubSeq(l, 1, Len(l) - 1)
    ELSE IF ch = Newline \/ Len(l) + 1 = RX_SIZE THEN <<>>
    ELSE Append(l, ch)
Typed(s) ==
    LET edit[k \in 0 .. Len(s)] == IF k = 0 THEN <<>> ELSE TypeOne(edit[k - 1], s[k])
    IN  edit[Len(s)]

\* What the shell holds of the line being typed.
LineHeld == [k \in 1 .. rx_size |-> rx_buffer[k - 1]]

\* For a terminal that waits for each byte to be handled the line the shell
\* holds is the line that was typed, through DMA buffer, interrupt, ring and
\* line editing (shell_port.c:57-61, shell.c:130-143).
LineIsTyped ==
    mpc = "poll" /\ Len(taken) = Len(received) => LineHeld = Typed(received)

\* ... and the line it takes apart and runs is the one typed, with the key
\* that completed it (shell.c:83-86).
CommandIsTyped ==
    pc # "idle" => line = Append(Typed(SubSeq(taken, 1, Len(taken) - 1)), taken[Len(taken)])
                   /\ taken = SubSeq(received, 1, Len(taken))

\* What the terminal shows left of its cursor is the prompt and the line being
\* edited, and nothing to the right, whenever the main loop waits for a key
\* (shell.c:38-49, 134-143, shell_port.c:46-62).
ScreenMatchesBuffer == mpc = "poll" => ScreenShowsBuffer

\* Through echo, commands and restarts the loop always comes back to the prompt
\* and polls for the next byte (shell_port.c:57-62).
PromptReturns == []<>(booted /\ pc = "idle" /\ mpc = "poll")
=============================================================================
