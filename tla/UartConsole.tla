----------------------------- MODULE UartConsole -----------------------------
(***************************************************************************)
(* The console input path of the firmware: the UARTE receiver with its     *)
(* one-byte DMA buffer, the receive interrupt, the ring buffer the         *)
(* interrupt shares with the main loop, and the main loop that polls it.   *)
(* Sources: common/src/minimal_nrf52_uart.c and common/src/shell_port.c.   *)
(*                                                                         *)
(* Three actors interleave: the terminal (DMA writes), the interrupt       *)
(* handler and the main loop.  The handler preempts the main loop between  *)
(* any two of its memory accesses unless interrupts are disabled, and the  *)
(* main loop never runs while the handler does.                            *)
(***************************************************************************)
EXTENDS Integers, Sequences

CONSTANTS
    N,         \* sizeof(s_uart_buffer.buf), 64 in the code
    Bytes,     \* the bytes a terminal can send
    NUL,       \* what the zero-initialised buffers hold
    MaxBytes,  \* bound: how many bytes the terminal sends
    MaxEcho,   \* bound: bytes the shell transmits while handling one byte
    Paced      \* TRUE: the terminal waits until its last byte was handled

ASSUME ConsoleAssumption ==
    /\ N \in Nat \ {0}
    /\ MaxBytes \in Nat
    /\ MaxEcho \in Nat
    /\ Paced \in BOOLEAN

VARIABLES
    rxArmed,    \* TASKS_STARTRX given and RXD.MAXCNT bytes not yet received
    endrx,      \* UARTE->EVENTS_ENDRX
    rxBuf,      \* s_rx_recv_buf[0]
    isr,        \* where Irq2_Handler is
    irqOff,     \* PRIMASK, set between __disable_irq and __enable_irq
    read_idx,   \* s_uart_buffer.read_idx
    num_bytes,  \* s_uart_buffer.num_bytes
    buf,        \* s_uart_buffer.buf
    pc,         \* where the main loop is
    c,          \* local c of shell_port_getchar
    tmp,        \* the register holding num_bytes during num_bytes--
    toSend,     \* bytes shell_receive_char has still to transmit
    endtx,      \* UARTE->EVENTS_ENDTX
    received,   \* history: every byte the DMA stored
    offered,    \* history: every byte given to the receive callback
    accepted,   \* history: every byte the callback put into the ring
    taken       \* history: every byte given to shell_receive_char

uartVars == <<rxArmed, endrx, rxBuf>>
ringVars == <<read_idx, num_bytes, buf>>
mainVars == <<c, tmp>>
txVars   == <<toSend, endtx>>
rxHist   == <<received, offered, accepted>>
vars == <<uartVars, isr, irqOff, ringVars, pc, mainVars, txVars, rxHist, taken>>

Data == Bytes \cup {NUL}
Slots == 0 .. N - 1
MainSteps == {"boot", "poll", "load", "lock", "advance", "decLoad", "decStore",
              "unlock", "receive", "transmit", "txWait"}

Init ==
    /\ rxArmed = FALSE /\ endrx = FALSE /\ rxBuf = NUL
    /\ isr = "idle" /\ irqOff = FALSE
    /\ read_idx = 0 /\ num_bytes = 0 /\ buf = [i \in Slots |-> NUL]
    /\ pc = "boot" /\ c = NUL /\ tmp = 0
    /\ toSend = 0 /\ endtx = FALSE
    /\ received = <<>> /\ offered = <<>> /\ accepted = <<>> /\ taken = <<>>

-----------------------------------------------------------------------------
(* The terminal and the UARTE peripheral.                                  *)

\* One byte arrives.  Hardware flow control (CONFIG = 1) keeps the terminal
\* quiet while the receiver is not armed; MAXCNT = 1 ends the transfer at once.
TerminalSend(b) ==
    /\ rxArmed
    /\ Len(received) < MaxBytes
    /\ Paced => Len(taken) = Len(received)
    /\ rxBuf' = b
    /\ endrx' = TRUE
    /\ rxArmed' = FALSE
    /\ received' = Append(received, b)
    /\ UNCHANGED <<isr, irqOff, ringVars, pc, mainVars, txVars, offered, accepted, taken>>

\* The peripheral reports the end of a transmission.
TxComplete ==
    /\ pc = "txWait" /\ ~endtx
    /\ endtx' = TRUE
    /\ UNCHANGED <<uartVars, isr, irqOff, ringVars, pc, mainVars, toSend, rxHist, taken>>

-----------------------------------------------------------------------------
(* Irq2_Handler and the callback it makes.                                 *)

\* Mutant: the receiver is re-armed before the byte is read out.
IsrEnterRearming ==
    /\ isr = "idle" /\ ~irqOff /\ endrx
    /\ endrx' = FALSE
    /\ rxArmed' = TRUE
    /\ isr' = "callback"
    /\ UNCHANGED <<rxBuf, irqOff, ringVars, pc, mainVars, txVars, rxHist, taken>>

IsrEnter ==
    /\ isr = "idle" /\ ~irqOff /\ endrx
    /\ endrx' = FALSE
    /\ isr' = "callback"
    /\ UNCHANGED <<rxArmed, rxBuf, irqOff, ringVars, pc, mainVars, txVars, rxHist, taken>>

\* Mutant: off by one at the limit.
RingFullOffByOne == num_bytes > N

RingFull == num_bytes >= N

\* uart_byte_received_from_isr_cb: a full ring drops the byte; otherwise the
\* byte goes to the slot the READER is at, whatever number of bytes waits.
uart_byte_received_from_isr_cb(b) ==
    /\ offered' = Append(offered, b)
    /\ IF RingFull
       THEN UNCHANGED <<num_bytes, buf, accepted>>
       ELSE /\ buf' = [buf EXCEPT ![read_idx] = b]
            /\ num_bytes' = num_bytes + 1
            /\ accepted' = Append(accepted, b)

IsrCallback ==
    /\ isr = "callback"
    /\ uart_byte_received_from_isr_cb(rxBuf)
    /\ isr' = "rearm"
    /\ UNCHANGED <<uartVars, irqOff, read_idx, pc, mainVars, txVars, received, taken>>

IsrRearm ==
    /\ isr = "rearm"
    /\ rxArmed' = TRUE
    /\ isr' = "idle"
    /\ UNCHANGED <<endrx, rxBuf, irqOff, ringVars, pc, mainVars, txVars, rxHist, taken>>

-----------------------------------------------------------------------------
(* The main loop: uart_boot, then shell_port_getchar and the shell.         *)

\* uart_boot; the receiver is armed by its last statement.
uart_boot ==
    /\ pc = "boot"
    /\ rxBuf' = NUL
    /\ rxArmed' = TRUE
    /\ pc' = "poll"
    /\ UNCHANGED <<endrx, isr, irqOff, ringVars, mainVars, txVars, rxHist, taken>>

\* The main loop moves from one memory access to the next only when the
\* handler is not running.
MainAt(from, to) == isr = "idle" /\ pc = from /\ pc' = to

\* num_bytes == 0: shell_port_getchar returns false and the loop polls again.
PollEmpty ==
    /\ num_bytes = 0
    /\ MainAt("poll", "poll")
    /\ UNCHANGED <<uartVars, isr, irqOff, ringVars, mainVars, txVars, rxHist, taken>>

PollReady ==
    /\ num_bytes # 0
    /\ MainAt("poll", "load")
    /\ UNCHANGED <<uartVars, isr, irqOff, ringVars, mainVars, txVars, rxHist, taken>>

\* Mutant: the index is advanced before the byte is loaded.
LoadNextChar ==
    /\ MainAt("load", "lock")
    /\ c' = buf[(read_idx + 1) % N]
    /\ UNCHANGED <<uartVars, isr, irqOff, ringVars, tmp, txVars, rxHist, taken>>

\* The byte is loaded with interrupts still enabled.
LoadChar ==
    /\ MainAt("load", "lock")
    /\ c' = buf[read_idx]
    /\ UNCHANGED <<uartVars, isr, irqOff, ringVars, tmp, txVars, rxHist, taken>>

\* Mutant: the counter is updated without masking the interrupt.
KeepIrqEnabled ==
    /\ MainAt("lock", "advance")
    /\ UNCHANGED <<uartVars, isr, irqOff, ringVars, mainVars, txVars, rxHist, taken>>

DisableIrq ==
    /\ MainAt("lock", "advance")
    /\ irqOff' = TRUE
    /\ UNCHANGED <<uartVars, isr, ringVars, mainVars, txVars, rxHist, taken>>

AdvanceIdx ==
    /\ MainAt("advance", "decLoad")
    /\ read_idx' = (read_idx + 1) % N
    /\ UNCHANGED <<uartVars, isr, irqOff, num_bytes, buf, mainVars, txVars, rxHist, taken>>

\* num_bytes-- is a load ...
DecLoad ==
    /\ MainAt("decLoad", "decStore")
    /\ tmp' = num_bytes
    /\ UNCHANGED <<uartVars, isr, irqOff, ringVars, c, txVars, rxHist, taken>>

\* ... and a store.
DecStore ==
    /\ MainAt("decStore", "unlock")
    /\ num_bytes' = tmp - 1
    /\ UNCHANGED <<uartVars, isr, irqOff, read_idx, buf, mainVars, txVars, rxHist, taken>>

\* Mutant: interrupts stay disabled.
ForgetEnableIrq ==
    /\ MainAt("unlock", "receive")
    /\ UNCHANGED <<uartVars, isr, irqOff, ringVars, mainVars, txVars, rxHist, taken>>

EnableIrq ==
    /\ MainAt("unlock", "receive")
    /\ irqOff' = FALSE
    /\ UNCHANGED <<uartVars, isr, ringVars, mainVars, txVars, rxHist, taken>>

\* shell_receive_char(c) takes the byte and has n bytes to send in answer.
ReceiveChar(n) ==
    /\ MainAt("receive", "transmit")
    /\ toSend' = n
    /\ taken' = Append(taken, c)
    /\ UNCHANGED <<uartVars, isr, irqOff, ringVars, mainVars, endtx, rxHist>>

\* uart_tx_blocking for the next byte: clear the event, start the transfer.
StartTx ==
    /\ toSend > 0
    /\ MainAt("transmit", "txWait")
    /\ endtx' = FALSE
    /\ toSend' = toSend - 1
    /\ UNCHANGED <<uartVars, isr, irqOff, ringVars, mainVars, rxHist, taken>>

\* ... and leave the busy wait once the peripheral is done.
FinishTx ==
    /\ endtx
    /\ MainAt("txWait", "transmit")
    /\ UNCHANGED <<uartVars, isr, irqOff, ringVars, mainVars, txVars, rxHist, taken>>

\* shell_receive_char returns; the loop polls again.
ReceiveDone ==
    /\ toSend = 0
    /\ MainAt("transmit", "poll")
    /\ UNCHANGED <<uartVars, isr, irqOff, ringVars, mainVars, txVars, rxHist, taken>>

-----------------------------------------------------------------------------
Receive == \E n \in 0 .. MaxEcho : ReceiveChar(n)

Terminal == \E b \in Bytes : TerminalSend(b)

Isr == IsrEnter \/ IsrCallback \/ IsrRearm

Main ==
    \/ uart_boot \/ PollEmpty \/ PollReady \/ LoadChar \/ DisableIrq
    \/ AdvanceIdx \/ DecLoad \/ DecStore \/ EnableIrq
    \/ Receive \/ StartTx \/ FinishTx \/ ReceiveDone

Next == Terminal \/ TxComplete \/ Isr \/ Main

Spec == Init /\ [][Next]_vars

\* The processor keeps executing the handler and the main loop and the
\* transmitter finishes what it starts; the terminal owes nothing.
Fairness == WF_vars(Isr) /\ WF_vars(Main) /\ WF_vars(TxComplete)

FairSpec == Spec /\ Fairness

-----------------------------------------------------------------------------
(* Properties.                                                             *)

\* Type invariant; its bounds are the memory safety of the ring: the index
\* stays inside buf and num_bytes never exceeds it (shell_port.c:23, 39).
TypeOK ==
    /\ rxArmed \in BOOLEAN /\ endrx \in BOOLEAN /\ rxBuf \in Data
    /\ isr \in {"idle", "callback", "rearm"} /\ irqOff \in BOOLEAN
    /\ read_idx \in Slots /\ num_bytes \in 0 .. N /\ buf \in [Slots -> Data]
    /\ pc \in MainSteps /\ c \in Data /\ tmp \in 0 .. N
    /\ toSend \in 0 .. MaxEcho /\ endtx \in BOOLEAN
    /\ received \in Seq(Bytes) /\ offered \in Seq(Data)
    /\ accepted \in Seq(Data) /\ taken \in Seq(Data)

\* Between num_bytes-- and the hand-over to the shell one byte is neither
\* counted in the ring nor taken.
InHand == IF pc \in {"unlock", "receive"} THEN 1 ELSE 0

\* The shared counter is exact at every instant of the main loop, whatever
\* instruction the interrupt hits: bytes accepted less bytes taken
\* (shell_port.c:28 against :38-41).
CountExact == num_bytes = Len(accepted) - Len(taken) - InHand

\* The DMA buffer is one byte deep, so a byte must be read before the next
\* one can be stored: the callback has seen every byte but the one pending
\* (minimal_nrf52_uart.c:118-127).
NoByteOverwritten ==
    \/ offered = received
    \/ received = Append(offered, rxBuf)

\* s is an initial segment of t.
Prefix(s, t) == Len(s) <= Len(t) /\ \A i \in 1 .. Len(s) : s[i] = t[i]

\* The bytes the shell gets are the bytes put into the ring, in order:
\* "Get's the next available char on the input stream" (shell_port.h:5).
TakenInOrder == Prefix(taken, accepted)

\* The byte at the head has been loaded and is still counted in the ring.
Loaded == pc \in {"lock", "advance", "decLoad", "decStore"}

\* The k-th byte shell_port_getchar would deliver from here on; the index is
\* one ahead of the counter between its two updates (shell_port.c:39-40).
Waiting(k) ==
    LET ahead == IF pc \in {"decLoad", "decStore"} THEN 1 ELSE 0
    IN  IF k = 1 /\ Loaded THEN c ELSE buf[(read_idx + k - 1 - ahead) % N]

\* What the ring, the interrupt and the main loop together implement, for a
\* terminal that never waits: the queue InputBuffer, delivered by the store of
\* num_bytes-- (shell_port.c:23-43).
Buffer == INSTANCE InputBuffer WITH
            Capacity <- N, Value <- Bytes, put <- accepted,
            queue <- [k \in 1 .. num_bytes |-> Waiting(k)],
            delivered <- IF InHand = 1 THEN Append(taken, c) ELSE taken

\* The number waiting is exact, a byte that waits alone is delivered as it
\* came, bytes put behind it disturb only the head and the new end, and
\* nothing is delivered that the terminal did not send before.
BufferSpec == Buffer!Spec

\* The main loop always comes back to polling with the receiver armed.
KeepsListening == []<>(pc = "poll" /\ rxArmed)

\* Every byte put into the ring is counted off again: the main loop drains.
DrainsEventually ==
    \A k \in 1 .. MaxBytes : Len(accepted) >= k ~> Len(taken) >= k
=============================================================================
