-------------------------- MODULE UartConsoleProofs --------------------------
(***************************************************************************)
(* Proofs about the console input path, for every ring size, byte set and  *)
(* bound: type correctness, the exact counter, no lost DMA byte, and the   *)
(* queue the shell reads from, for a terminal of any speed.                *)
(***************************************************************************)
EXTENDS UartConsole, SequenceTheorems, TLAPS

(* Who may touch what when: the facts that make the counter exact.         *)

\* Interrupts are off exactly between __disable_irq and __enable_irq.
LockedSteps == {"advance", "decLoad", "decStore", "unlock"}

MaskInv ==
    /\ irqOff <=> pc \in LockedSteps
    /\ irqOff => isr = "idle"
    /\ pc = "boot" => isr = "idle"

\* From the successful poll to the store the ring is known to be non-empty,
\* and the loaded counter is still the counter.
HoldsByte ==
    /\ pc \in {"load", "lock", "advance", "decLoad", "decStore"} => num_bytes >= 1
    /\ pc = "decStore" => tmp = num_bytes

\* The receiver, the event and the handler take turns.
RxTurns ==
    /\ rxArmed => ~endrx /\ isr = "idle"
    /\ endrx => isr = "idle"
    /\ pc = "boot" => ~rxArmed /\ ~endrx

\* The histories agree except for the one byte that waits in rxBuf.
RxHistory ==
    IF endrx \/ isr = "callback" THEN received = Append(offered, rxBuf)
                                 ELSE offered = received

IInv == TypeOK /\ MaskInv /\ HoldsByte /\ CountExact /\ RxTurns /\ RxHistory

\* It holds at the start.
LEMMA InitIInv == Init => IInv
  BY ConsoleAssumption
  DEF Init, IInv, TypeOK, MaskInv, HoldsByte, CountExact, RxTurns, RxHistory,
      LockedSteps, InHand, Data, Slots, MainSteps

\* Type correctness needs that the counter is positive before it is
\* decremented; the other conjuncts supply it.
LEMMA NextType == IInv /\ [Next]_vars => TypeOK'
<1> SUFFICES ASSUME IInv, [Next]_vars PROVE TypeOK'
  OBVIOUS
<1> USE ConsoleAssumption DEF IInv, TypeOK, Data, Slots, MainSteps
<1>1. CASE Terminal
  <2>1. PICK b \in Bytes : TerminalSend(b)
    BY <1>1 DEF Terminal
  <2>2. received' \in Seq(Bytes)
    BY <2>1 DEF TerminalSend
  <2> QED BY <2>1, <2>2 DEF TerminalSend, ringVars, mainVars, txVars
<1>2. CASE TxComplete
  BY <1>2 DEF TxComplete, uartVars, ringVars, mainVars, rxHist
<1>3. CASE Isr
  <2>1. CASE IsrEnter
    BY <2>1 DEF IsrEnter, ringVars, mainVars, txVars, rxHist
  <2>2. CASE IsrCallback
    <3>1. CASE RingFull
      BY <2>2, <3>1 DEF IsrCallback, uart_byte_received_from_isr_cb, uartVars, mainVars, txVars
    <3>2. CASE ~RingFull
      <4>1. num_bytes' \in 0 .. N
        BY <2>2, <3>2 DEF IsrCallback, uart_byte_received_from_isr_cb, RingFull
      <4>2. buf' \in [Slots -> Data]
        BY <2>2, <3>2 DEF IsrCallback, uart_byte_received_from_isr_cb
      <4>3. accepted' = Append(accepted, rxBuf) /\ offered' = Append(offered, rxBuf)
        BY <2>2, <3>2 DEF IsrCallback, uart_byte_received_from_isr_cb
      <4>4. accepted' \in Seq(Data) /\ offered' \in Seq(Data)
        BY <4>3
      <4> QED
        BY <2>2, <4>1, <4>2, <4>4 DEF IsrCallback, uartVars, mainVars, txVars
    <3> QED BY <3>1, <3>2
  <2>3. CASE IsrRearm
    BY <2>3 DEF IsrRearm, ringVars, mainVars, txVars, rxHist
  <2> QED BY <1>3, <2>1, <2>2, <2>3 DEF Isr
<1>4. CASE Main
  <2> USE DEF MainAt, uartVars, ringVars, mainVars, txVars, rxHist
  <2>1. CASE uart_boot BY <2>1 DEF uart_boot
  <2>2. CASE PollEmpty BY <2>2 DEF PollEmpty
  <2>3. CASE PollReady BY <2>3 DEF PollReady
  <2>4. CASE LoadChar BY <2>4 DEF LoadChar
  <2>5. CASE DisableIrq BY <2>5 DEF DisableIrq
  <2>6. CASE AdvanceIdx
    <3>1. read_idx' \in Slots
      BY <2>6 DEF AdvanceIdx
    <3> QED BY <2>6, <3>1 DEF AdvanceIdx
  <2>7. CASE DecLoad BY <2>7 DEF DecLoad
  <2>8. CASE DecStore
    <3>1. num_bytes' \in 0 .. N
      BY <2>8 DEF DecStore, HoldsByte
    <3> QED BY <2>8, <3>1 DEF DecStore
  <2>9. CASE EnableIrq BY <2>9 DEF EnableIrq
  <2>10. CASE Receive BY <2>10 DEF Receive, ReceiveChar
  <2>11. CASE StartTx
    <3>1. toSend' \in 0 .. MaxEcho
      BY <2>11 DEF StartTx
    <3> QED BY <2>11, <3>1 DEF StartTx
  <2>12. CASE FinishTx BY <2>12 DEF FinishTx
  <2>13. CASE ReceiveDone BY <2>13 DEF ReceiveDone
  <2> QED
    BY <1>4, <2>1, <2>2, <2>3, <2>4, <2>5, <2>6, <2>7, <2>8, <2>9, <2>10,
       <2>11, <2>12, <2>13 DEF Main
<1>5. CASE UNCHANGED vars
  BY <1>5 DEF vars, uartVars, ringVars, mainVars, txVars, rxHist
<1> QED BY <1>1, <1>2, <1>3, <1>4, <1>5 DEF Next

\* The interrupt can hit any step of the main loop, but the counter is only
\* read for update and stored while it is masked.
LEMMA NextCounter == IInv /\ [Next]_vars => MaskInv' /\ HoldsByte' /\ CountExact'
<1> SUFFICES ASSUME IInv, [Next]_vars PROVE MaskInv' /\ HoldsByte' /\ CountExact'
  OBVIOUS
<1> USE DEF IInv, MaskInv, HoldsByte, CountExact, InHand, LockedSteps
<1>0. /\ num_bytes \in Nat /\ tmp \in Nat
      /\ Len(accepted) \in Nat /\ Len(taken) \in Nat
      /\ accepted \in Seq(Data) /\ taken \in Seq(Data)
  BY DEF TypeOK
<1>1. CASE Terminal
  BY <1>0, <1>1 DEF Terminal, TerminalSend, ringVars, mainVars, RxTurns
<1>2. CASE TxComplete
  BY <1>0, <1>2 DEF TxComplete, ringVars, mainVars, rxHist
<1>3. CASE Isr
  <2>1. CASE IsrEnter
    BY <1>0, <2>1 DEF IsrEnter, ringVars, mainVars, rxHist, RxTurns
  <2>2. CASE IsrCallback
    <3>1. CASE RingFull
      BY <1>0, <2>2, <3>1 DEF IsrCallback, uart_byte_received_from_isr_cb, mainVars
    <3>2. CASE ~RingFull
      <4>1. num_bytes' = num_bytes + 1 /\ accepted' = Append(accepted, rxBuf)
        BY <2>2, <3>2 DEF IsrCallback, uart_byte_received_from_isr_cb
      <4>2. Len(accepted') = Len(accepted) + 1
        BY <1>0, <4>1 DEF TypeOK
      <4> QED
        BY <1>0, <2>2, <4>1, <4>2 DEF IsrCallback, mainVars
    <3> QED BY <3>1, <3>2
  <2>3. CASE IsrRearm
    BY <1>0, <2>3 DEF IsrRearm, ringVars, mainVars, rxHist
  <2> QED BY <1>3, <2>1, <2>2, <2>3 DEF Isr
<1>4. CASE Main
  <2> USE <1>0 DEF MainAt, ringVars, mainVars, rxHist
  <2>1. CASE uart_boot BY <2>1 DEF uart_boot
  <2>2. CASE PollEmpty BY <2>2 DEF PollEmpty
  <2>3. CASE PollReady BY <2>3 DEF PollReady
  <2>4. CASE LoadChar BY <2>4 DEF LoadChar
  <2>5. CASE DisableIrq BY <2>5 DEF DisableIrq
  <2>6. CASE AdvanceIdx BY <2>6 DEF AdvanceIdx
  <2>7. CASE DecLoad BY <2>7 DEF DecLoad
  <2>8. CASE DecStore BY <2>8 DEF DecStore
  <2>9. CASE EnableIrq BY <2>9 DEF EnableIrq
  <2>10. CASE Receive
    <3>1. Len(taken') = Len(taken) + 1
      BY <2>10 DEF Receive, ReceiveChar, TypeOK
    <3> QED BY <2>10, <3>1 DEF Receive, ReceiveChar
  <2>11. CASE StartTx BY <2>11 DEF StartTx
  <2>12. CASE FinishTx BY <2>12 DEF FinishTx
  <2>13. CASE ReceiveDone BY <2>13 DEF ReceiveDone
  <2> QED
    BY <1>4, <2>1, <2>2, <2>3, <2>4, <2>5, <2>6, <2>7, <2>8, <2>9, <2>10,
       <2>11, <2>12, <2>13 DEF Main
<1>5. CASE UNCHANGED vars
  BY <1>0, <1>5 DEF vars, ringVars, mainVars, rxHist
<1> QED BY <1>1, <1>2, <1>3, <1>4, <1>5 DEF Next

\* A byte is stored only while the receiver is armed, and the receiver is
\* armed again only after the callback has the byte.
LEMMA NextRx == IInv /\ [Next]_vars => RxTurns' /\ RxHistory'
<1> SUFFICES ASSUME IInv, [Next]_vars PROVE RxTurns' /\ RxHistory'
  OBVIOUS
<1> USE DEF IInv, RxTurns, RxHistory
<1>1. CASE Terminal
  BY <1>1 DEF Terminal, TerminalSend
<1>2. CASE TxComplete
  BY <1>2 DEF TxComplete, uartVars, rxHist
<1>3. CASE Isr
  <2>1. CASE IsrEnter BY <2>1 DEF IsrEnter, rxHist
  <2>2. CASE IsrCallback
    BY <2>2 DEF IsrCallback, uart_byte_received_from_isr_cb, uartVars
  <2>3. CASE IsrRearm BY <2>3 DEF IsrRearm, rxHist, MaskInv
  <2> QED BY <1>3, <2>1, <2>2, <2>3 DEF Isr
<1>4. CASE Main
  <2>1. CASE uart_boot BY <2>1 DEF uart_boot, rxHist, MaskInv
  <2>2. CASE Main /\ ~uart_boot
    <3>1. pc # "boot" => pc' # "boot"
      BY <2>2 DEF Main, MainAt, PollEmpty, PollReady, LoadChar, DisableIrq, AdvanceIdx,
        DecLoad, DecStore, EnableIrq, Receive, ReceiveChar, StartTx, FinishTx, ReceiveDone
    <3>2. UNCHANGED <<uartVars, isr, rxHist>>
      BY <2>2 DEF Main, PollEmpty, PollReady, LoadChar, DisableIrq, AdvanceIdx,
        DecLoad, DecStore, EnableIrq, Receive, ReceiveChar, StartTx, FinishTx, ReceiveDone
    <3>3. pc # "boot"
      BY <2>2 DEF Main, MainAt, PollEmpty, PollReady, LoadChar, DisableIrq, AdvanceIdx,
        DecLoad, DecStore, EnableIrq, Receive, ReceiveChar, StartTx, FinishTx, ReceiveDone
    <3> QED BY <3>1, <3>2, <3>3 DEF uartVars, rxHist
  <2> QED BY <1>4, <2>1, <2>2
<1>5. CASE UNCHANGED vars
  BY <1>5 DEF vars, uartVars, rxHist
<1> QED BY <1>1, <1>2, <1>3, <1>4, <1>5 DEF Next

\* The inductive invariant holds in every reachable state.
THEOREM ConsoleInvariant == Spec => []IInv
<1>1. IInv /\ [Next]_vars => IInv'
  BY NextType, NextCounter, NextRx DEF IInv
<1> QED BY InitIInv, <1>1, PTL DEF Spec

\* Memory safety of the ring: the index stays inside buf and the counter
\* within its size, for every ring size and every interleaving.
THEOREM ConsoleTypeCorrect == Spec => []TypeOK
<1>1. IInv => TypeOK BY DEF IInv
<1> QED BY ConsoleInvariant, <1>1, PTL

\* No update of num_bytes is lost to the interrupt.
THEOREM ConsoleCountExact == Spec => []CountExact
<1>1. IInv => CountExact BY DEF IInv
<1> QED BY ConsoleInvariant, <1>1, PTL

\* No byte in the DMA buffer is overwritten before the callback has it.
THEOREM ConsoleNoByteOverwritten == Spec => []NoByteOverwritten
<1>1. IInv => NoByteOverwritten BY DEF IInv, RxHistory, NoByteOverwritten
<1> QED BY ConsoleInvariant, <1>1, PTL

-----------------------------------------------------------------------------
(* What a paced terminal can have on its way to the shell.                 *)

\* The main loop has loaded a byte and not yet handed it to the shell.
Holding == {"lock", "advance", "decLoad", "decStore", "unlock", "receive"}

\* Where the one byte on its way to the shell is.
NextByte == IF pc \in Holding THEN c ELSE buf[read_idx]

\* Either the shell has everything and at most one byte is on its way to the
\* callback, or exactly one byte is between the callback and the shell.
PacedInv ==
    /\ accepted = offered
    /\ \/ accepted = taken /\ pc \notin Holding \cup {"load"}
       \/ offered = received /\ accepted = Append(taken, NextByte)

\* A paced terminal and every step of the driver keep it.
LEMMA PacedStep ==
  ASSUME Paced, IInv, PacedInv, [Next]_vars PROVE PacedInv'
<1> USE DEF PacedInv, NextByte, Holding
<1>0. /\ taken \in Seq(Data) /\ accepted \in Seq(Data) /\ NextByte \in Data
      /\ num_bytes \in Nat /\ read_idx \in DOMAIN buf
  BY DEF IInv, TypeOK, Slots
<1>1. CASE Terminal
  <2>1. accepted = taken
    <3> SUFFICES ASSUME offered = received, accepted = Append(taken, NextByte)
        PROVE FALSE
      OBVIOUS
    <3>1. Len(accepted) = Len(taken) + 1
      BY <1>0
    <3> QED BY <1>0, <1>1, <3>1 DEF Terminal, TerminalSend
  <2> QED BY <1>0, <1>1, <2>1 DEF Terminal, TerminalSend, mainVars, ringVars
<1>2. CASE TxComplete
  BY <1>2 DEF TxComplete, mainVars, ringVars, rxHist
<1>3. CASE Isr
  <2>1. CASE IsrEnter BY <2>1 DEF IsrEnter, ringVars, mainVars, rxHist
  <2>2. CASE IsrCallback
    <3>1. received = Append(offered, rxBuf)
      BY <2>2 DEF IInv, RxHistory, IsrCallback
    <3>2. offered # received
      <4>1. Len(received) = Len(offered) + 1
        BY <1>0, <3>1
      <4> QED BY <1>0, <4>1
    <3>3. accepted = taken /\ pc \notin Holding \cup {"load"}
      BY <3>2
    <3>4. num_bytes = 0
      <4>1. Len(accepted) = Len(taken) /\ Len(taken) \in Nat /\ InHand = 0
        BY <1>0, <3>3 DEF InHand
      <4> QED BY <1>0, <4>1 DEF IInv, CountExact
    <3>5. ~RingFull
      BY <3>4, ConsoleAssumption DEF RingFull
    <3>6. /\ accepted' = Append(taken, rxBuf) /\ offered' = received'
          /\ buf'[read_idx'] = rxBuf /\ accepted' = offered'
      BY <1>0, <2>2, <3>1, <3>3, <3>5 DEF IsrCallback, uart_byte_received_from_isr_cb
    <3> QED BY <2>2, <3>3, <3>6 DEF IsrCallback, mainVars
  <2>3. CASE IsrRearm BY <2>3 DEF IsrRearm, ringVars, mainVars, rxHist
  <2> QED BY <1>3, <2>1, <2>2, <2>3 DEF Isr
<1>4. CASE Main
  <2> USE DEF MainAt, ringVars, mainVars, rxHist
  <2>1. CASE uart_boot BY <2>1 DEF uart_boot
  <2>2. CASE PollEmpty BY <2>2 DEF PollEmpty
  <2>3. CASE PollReady
    <3>1. accepted # taken
      BY <1>0, <2>3 DEF PollReady, IInv, CountExact, InHand
    <3> QED BY <2>3, <3>1 DEF PollReady
  <2>4. CASE LoadChar BY <2>4 DEF LoadChar
  <2>5. CASE DisableIrq BY <2>5 DEF DisableIrq
  <2>6. CASE AdvanceIdx BY <2>6 DEF AdvanceIdx
  <2>7. CASE DecLoad BY <2>7 DEF DecLoad
  <2>8. CASE DecStore BY <2>8 DEF DecStore
  <2>9. CASE EnableIrq BY <2>9 DEF EnableIrq
  <2>10. CASE Receive BY <2>10 DEF Receive, ReceiveChar
  <2>11. CASE StartTx BY <2>11 DEF StartTx
  <2>12. CASE FinishTx BY <2>12 DEF FinishTx
  <2>13. CASE ReceiveDone BY <2>13 DEF ReceiveDone
  <2> QED
    BY <1>4, <2>1, <2>2, <2>3, <2>4, <2>5, <2>6, <2>7, <2>8, <2>9, <2>10,
       <2>11, <2>12, <2>13 DEF Main
<1>5. CASE UNCHANGED vars
  BY <1>5 DEF vars, ringVars, mainVars, rxHist
<1> QED BY <1>1, <1>2, <1>3, <1>4, <1>5 DEF Next

-----------------------------------------------------------------------------
(* The queue the shell reads from.                                         *)

\* Nothing is made up: every slot, and the byte in hand, holds NUL or a byte
\* that was put into the ring.
SlotInv ==
    /\ \A i \in Slots : buf[i] \in Buffer!Leftover(accepted)
    /\ c \in Buffer!Leftover(accepted)

\* The remainder of an index at most once around the ring.
LEMMA ModN ==
  ASSUME NEW x \in 0 .. 2 * N - 1
  PROVE  x % N = IF x < N THEN x ELSE x - N
  BY ConsoleAssumption

\* What was put before is still something that was put.
LEMMA LeftoverGrows ==
  ASSUME NEW S, NEW s \in Seq(S), NEW v \in S
  PROVE  /\ Buffer!Leftover(s) \subseteq Buffer!Leftover(Append(s, v))
         /\ v \in Buffer!Leftover(Append(s, v))
<1>1. /\ Len(Append(s, v)) = Len(s) + 1 /\ Len(s) \in Nat
      /\ \A i \in 1 .. Len(s) : Append(s, v)[i] = s[i]
      /\ Append(s, v)[Len(s) + 1] = v
  OBVIOUS
<1> QED BY <1>1 DEF Buffer!Leftover

\* The callback stores what it puts, and the load copies a slot.
LEMMA SlotStep ==
  ASSUME IInv, SlotInv, [Next]_vars PROVE SlotInv'
<1> USE DEF SlotInv, ringVars, mainVars, rxHist
<1>0. /\ accepted \in Seq(Data) /\ rxBuf \in Data /\ read_idx \in Slots
      /\ buf \in [Slots -> Data]
  BY DEF IInv, TypeOK
<1>1. CASE Terminal BY <1>1 DEF Terminal, TerminalSend
<1>2. CASE TxComplete BY <1>2 DEF TxComplete
<1>3. CASE Isr
  <2>1. CASE IsrEnter BY <2>1 DEF IsrEnter
  <2>2. CASE IsrCallback
    <3>1. CASE RingFull
      BY <2>2, <3>1 DEF IsrCallback, uart_byte_received_from_isr_cb
    <3>2. CASE ~RingFull
      <4>1. /\ accepted' = Append(accepted, rxBuf) /\ c' = c
            /\ buf' = [buf EXCEPT ![read_idx] = rxBuf]
        BY <2>2, <3>2 DEF IsrCallback, uart_byte_received_from_isr_cb
      <4>2. /\ Buffer!Leftover(accepted) \subseteq Buffer!Leftover(accepted')
            /\ rxBuf \in Buffer!Leftover(accepted')
        BY <1>0, <4>1, LeftoverGrows
      <4>3. ASSUME NEW i \in Slots PROVE buf'[i] \in Buffer!Leftover(accepted')
        BY <1>0, <4>1, <4>2
      <4> QED BY <4>1, <4>2, <4>3
    <3> QED BY <3>1, <3>2
  <2>3. CASE IsrRearm BY <2>3 DEF IsrRearm
  <2> QED BY <1>3, <2>1, <2>2, <2>3 DEF Isr
<1>4. CASE Main
  <2>1. buf' = buf /\ accepted' = accepted
    BY <1>4 DEF Main, uart_boot, PollEmpty, PollReady, LoadChar, DisableIrq, AdvanceIdx,
       DecLoad, DecStore, EnableIrq, Receive, ReceiveChar, StartTx, FinishTx, ReceiveDone
  <2>2. c' = c \/ c' = buf[read_idx]
    BY <1>4 DEF Main, uart_boot, PollEmpty, PollReady, LoadChar, DisableIrq, AdvanceIdx,
       DecLoad, DecStore, EnableIrq, Receive, ReceiveChar, StartTx, FinishTx, ReceiveDone
  <2> QED BY <1>0, <2>1, <2>2
<1>5. CASE UNCHANGED vars BY <1>5 DEF vars
<1> QED BY <1>1, <1>2, <1>3, <1>4, <1>5 DEF Next

\* What the shell would get, and what it got.
Queue == [k \in 1 .. num_bytes |-> Waiting(k)]
Delivered == IF InHand = 1 THEN Append(taken, c) ELSE taken

\* The queue is a sequence as long as the counter says.
LEMMA QueueType ==
  ASSUME IInv
  PROVE  /\ Queue \in Seq(Data) /\ Len(Queue) = num_bytes
         /\ \A k \in 1 .. num_bytes : Queue[k] = Waiting(k)
<1>1. ASSUME NEW k \in 1 .. num_bytes PROVE Waiting(k) \in Data
  <2> DEFINE ahead == IF pc \in {"decLoad", "decStore"} THEN 1 ELSE 0
  <2>1. CASE k = 1 /\ Loaded
    BY <2>1 DEF Waiting, IInv, TypeOK
  <2>2. CASE ~(k = 1 /\ Loaded)
    <3>1. read_idx + k - 1 - ahead \in Nat
      BY <2>2 DEF Loaded, IInv, TypeOK, Slots
    <3>2. (read_idx + k - 1 - ahead) % N \in Slots
      BY <3>1, ConsoleAssumption DEF Slots
    <3> QED BY <2>2, <3>2 DEF Waiting, IInv, TypeOK
  <2> QED BY <2>1, <2>2
<1>2. num_bytes \in Nat
  BY ConsoleAssumption DEF IInv, TypeOK
<1> QED BY <1>1, <1>2 DEF Queue

\* A queue of the same length with the same bytes is the same queue.
LEMMA QueueKept ==
  ASSUME IInv, num_bytes' = num_bytes,
         \A k \in 1 .. num_bytes : Waiting(k)' = Waiting(k)
  PROVE  Queue' = Queue
  BY DEF Queue

\* Only the callback with room and the store of num_bytes-- show in the queue:
\* the load takes the byte the queue already had at its head, and the index is
\* moved without moving what waits.
LEMMA QuietSteps ==
  ASSUME IInv, [Next]_vars
  PROVE  \/ IsrCallback /\ ~RingFull
         \/ DecStore
         \/ UNCHANGED <<Queue, accepted, Delivered>>
<1> USE DEF ringVars, mainVars, rxHist
<1>0. /\ read_idx \in 0 .. N - 1 /\ num_bytes \in 0 .. N /\ N \in Nat \ {0}
      /\ isr \in {"idle", "callback", "rearm"}
  BY ConsoleAssumption DEF IInv, TypeOK, Slots
<1>1. ASSUME UNCHANGED <<num_bytes, read_idx, buf, c, accepted, taken, pc>>
      PROVE  UNCHANGED <<Queue, accepted, Delivered>>
  <2>1. \A k \in 1 .. num_bytes : Waiting(k)' = Waiting(k)
    BY <1>1 DEF Waiting, Loaded
  <2> QED BY <1>1, <2>1, QueueKept DEF Delivered, InHand
<1>2. CASE Terminal BY <1>1, <1>2 DEF Terminal, TerminalSend
<1>3. CASE TxComplete BY <1>1, <1>3 DEF TxComplete
<1>4. CASE Isr
  <2>1. CASE IsrEnter BY <1>1, <2>1 DEF IsrEnter
  <2>2. CASE IsrCallback /\ RingFull
    BY <1>1, <2>2 DEF IsrCallback, uart_byte_received_from_isr_cb
  <2>3. CASE IsrRearm BY <1>1, <2>3 DEF IsrRearm
  <2> QED BY <1>4, <2>1, <2>2, <2>3 DEF Isr
<1>5. CASE Main
  <2> USE DEF MainAt
  <2>1. ASSUME UNCHANGED <<num_bytes, read_idx, buf, c, accepted, taken>>,
               pc \notin {"decLoad", "decStore"} <=> pc' \notin {"decLoad", "decStore"},
               pc \in {"lock", "advance"} <=> pc' \in {"lock", "advance"},
               pc \in {"unlock", "receive"} <=> pc' \in {"unlock", "receive"}
        PROVE  UNCHANGED <<Queue, accepted, Delivered>>
    <3>1. \A k \in 1 .. num_bytes : Waiting(k)' = Waiting(k)
      BY <2>1 DEF Waiting, Loaded
    <3> QED BY <2>1, <3>1, QueueKept DEF Delivered, InHand
  <2>2. CASE uart_boot BY <2>1, <2>2 DEF uart_boot
  <2>3. CASE PollEmpty BY <2>1, <2>3 DEF PollEmpty
  <2>4. CASE PollReady BY <2>1, <2>4 DEF PollReady
  <2>5. CASE LoadChar
    <3>1. ASSUME NEW k \in 1 .. num_bytes PROVE Waiting(k)' = Waiting(k)
      <4>1. read_idx + 1 - 1 - 0 = read_idx /\ read_idx % N = read_idx
        BY <1>0, ModN
      <4> QED BY <1>0, <2>5, <4>1 DEF LoadChar, Waiting, Loaded
    <3> QED BY <2>5, <3>1, QueueKept DEF LoadChar, Delivered, InHand
  <2>6. CASE DisableIrq BY <2>1, <2>6 DEF DisableIrq
  <2>7. CASE AdvanceIdx
    <3>1. ASSUME NEW k \in 1 .. num_bytes PROVE Waiting(k)' = Waiting(k)
      <4>1. CASE k = 1
        BY <2>7, <4>1 DEF AdvanceIdx, Waiting, Loaded
      <4>2. CASE k # 1
        <5>1. k \in 2 .. N
          BY <1>0, <4>2
        <5>2. read_idx' = IF read_idx + 1 < N THEN read_idx + 1 ELSE read_idx + 1 - N
          BY <1>0, <2>7, ModN DEF AdvanceIdx
        <5>3. (read_idx' + k - 1 - 1) % N = (read_idx + k - 1 - 0) % N
          <6>1. PICK i : i = read_idx' + k - 1 - 1
            OBVIOUS
          <6>2. PICK j : j = read_idx + k - 1 - 0
            OBVIOUS
          <6>3. i \in 0 .. 2 * N - 1 /\ j \in 0 .. 2 * N - 1
            BY <1>0, <5>1, <5>2, <6>1, <6>2
          <6>4. i % N = j % N
            BY <1>0, <5>1, <5>2, <6>1, <6>2, <6>3, ModN
          <6> QED BY <6>1, <6>2, <6>4
        <5> QED BY <2>7, <4>2, <5>3 DEF AdvanceIdx, Waiting, Loaded
      <4> QED BY <4>1, <4>2
    <3> QED BY <2>7, <3>1, QueueKept DEF AdvanceIdx, Delivered, InHand
  <2>8. CASE DecLoad BY <2>1, <2>8 DEF DecLoad
  <2>9. CASE EnableIrq BY <2>1, <2>9 DEF EnableIrq
  <2>10. CASE Receive
    <3>1. \A k \in 1 .. num_bytes : Waiting(k)' = Waiting(k)
      BY <2>10 DEF Receive, ReceiveChar, Waiting, Loaded
    <3> QED BY <2>10, <3>1, QueueKept DEF Receive, ReceiveChar, Delivered, InHand
  <2>11. CASE StartTx BY <2>1, <2>11 DEF StartTx
  <2>12. CASE FinishTx BY <2>1, <2>12 DEF FinishTx
  <2>13. CASE ReceiveDone BY <2>1, <2>13 DEF ReceiveDone
  <2> QED
    BY <1>5, <2>2, <2>3, <2>4, <2>5, <2>6, <2>7, <2>8, <2>9, <2>10,
       <2>11, <2>12, <2>13 DEF Main
<1>6. CASE UNCHANGED vars BY <1>1, <1>6 DEF vars
<1> QED BY <1>2, <1>3, <1>4, <1>5, <1>6 DEF Next

\* The store of num_bytes-- is the queue's Get: the byte in hand was its head.
LEMMA DecStoreGets ==
  ASSUME IInv, IInv', DecStore
  PROVE  /\ Queue # <<>> /\ Delivered' = Append(Delivered, Head(Queue))
         /\ Queue' = Tail(Queue) /\ accepted' = accepted
<1>0. /\ num_bytes \in Nat \ {0} /\ num_bytes' = num_bytes - 1 /\ num_bytes' \in Nat
      /\ UNCHANGED <<read_idx, buf, c, taken, accepted>>
      /\ pc = "decStore" /\ pc' = "unlock"
  BY ConsoleAssumption
  DEF IInv, TypeOK, HoldsByte, DecStore, MainAt, mainVars, rxHist
<1>1. Queue \in Seq(Data) /\ Len(Queue) = num_bytes /\ Queue[1] = c
  BY <1>0, QueueType DEF Waiting, Loaded
<1>2. Queue' \in Seq(Data) /\ Len(Queue') = num_bytes'
      /\ \A k \in 1 .. num_bytes' : Queue'[k] = Waiting(k)'
  <2>1. (Queue \in Seq(Data) /\ Len(Queue) = num_bytes
          /\ \A k \in 1 .. num_bytes : Queue[k] = Waiting(k))'
    BY QueueType, PTL
  <2> QED BY <2>1
<1>3. ASSUME NEW k \in 1 .. num_bytes' PROVE Queue'[k] = Queue[k + 1]
  <2>1. Queue[k + 1] = Waiting(k + 1)
    BY <1>0, QueueType
  <2>2. read_idx + (k + 1) - 1 - 1 = read_idx + k - 1 - 0 /\ k + 1 # 1
    BY <1>0 DEF IInv, TypeOK, Slots
  <2>3. Waiting(k)' = Waiting(k + 1)
    BY <1>0, <2>2 DEF Waiting, Loaded
  <2> QED BY <1>2, <2>1, <2>3
<1>4. Queue' = Tail(Queue)
  <2>1. Tail(Queue) \in Seq(Data) /\ Len(Tail(Queue)) = num_bytes'
    BY <1>0, <1>1
  <2>2. \A k \in 1 .. num_bytes' : Tail(Queue)[k] = Queue[k + 1]
    BY <1>0, <1>1
  <2> QED BY <1>2, <1>3, <2>1, <2>2, SeqEqual
<1>5. Delivered = taken /\ Delivered' = Append(taken, c)
  BY <1>0 DEF Delivered, InHand
<1>6. Queue # <<>> /\ Head(Queue) = c
  BY <1>0, <1>1
<1> QED BY <1>0, <1>4, <1>5, <1>6

\* The callback with room is the queue's Put: the byte goes to the slot the
\* reader is at, the head unless that was loaded before, and the queue grows by
\* a slot that nobody has written for this place.
LEMMA CallbackPuts ==
  ASSUME IInv, IInv', SlotInv, IsrCallback, ~RingFull
  PROVE  Buffer!Put(rxBuf) /\ rxBuf \in Bytes
<1>0. /\ num_bytes \in 0 .. N - 1 /\ num_bytes' = num_bytes + 1
      /\ read_idx \in 0 .. N - 1 /\ N \in Nat \ {0} /\ buf \in [Slots -> Data]
      /\ buf' = [buf EXCEPT ![read_idx] = rxBuf] /\ accepted' = Append(accepted, rxBuf)
      /\ UNCHANGED <<read_idx, c, taken, pc>>
  BY ConsoleAssumption DEF IInv, TypeOK, Slots, IsrCallback, RingFull,
     uart_byte_received_from_isr_cb, mainVars
<1>1. pc \notin {"decLoad", "decStore"} /\ (Loaded <=> pc = "lock")
  BY DEF IInv, MaskInv, LockedSteps, IsrCallback, Loaded
<1>2. /\ Queue \in Seq(Data) /\ Len(Queue) = num_bytes
      /\ \A k \in 1 .. num_bytes : Queue[k] = Waiting(k)
  BY QueueType
<1>3. /\ Queue' \in Seq(Data) /\ Len(Queue') = num_bytes + 1
      /\ \A k \in 1 .. num_bytes + 1 : Queue'[k] = Waiting(k)'
  <2>1. (Queue \in Seq(Data) /\ Len(Queue) = num_bytes
          /\ \A k \in 1 .. num_bytes : Queue[k] = Waiting(k))'
    BY QueueType, PTL
  <2> QED BY <1>0, <2>1
<1>4. rxBuf \in Bytes
  <2>1. received = Append(offered, rxBuf)
    BY DEF IInv, RxHistory, IsrCallback
  <2>2. offered \in Seq(Data) /\ received \in Seq(Bytes)
    BY DEF IInv, TypeOK
  <2>3. Len(received) = Len(offered) + 1 /\ received[Len(offered) + 1] = rxBuf
    BY <2>1, <2>2
  <2> QED BY <2>2, <2>3
<1>5. \A k \in 2 .. num_bytes + 1 :
          /\ (read_idx + k - 1 - 0) % N \in Slots \ {read_idx}
          /\ Waiting(k)' = buf[(read_idx + k - 1 - 0) % N]
          /\ k <= num_bytes => Waiting(k)' = Waiting(k)
  <2> SUFFICES ASSUME NEW k \in 2 .. num_bytes + 1
               PROVE  /\ (read_idx + k - 1 - 0) % N \in Slots \ {read_idx}
                      /\ Waiting(k)' = buf[(read_idx + k - 1 - 0) % N]
                      /\ k <= num_bytes => Waiting(k)' = Waiting(k)
    OBVIOUS
  <2>1. PICK i : i = read_idx + k - 1 - 0
    OBVIOUS
  <2>2. i \in 0 .. 2 * N - 1 /\ i > read_idx /\ i < read_idx + N
    BY <1>0, <2>1
  <2>3. i % N \in Slots \ {read_idx}
    <3>1. i % N = IF i < N THEN i ELSE i - N
      BY <2>2, ModN
    <3>2. PICK m : m = i % N
      OBVIOUS
    <3>3. m \in 0 .. N - 1 /\ m # read_idx
      <4>1. CASE i < N BY <1>0, <2>2, <3>1, <3>2, <4>1
      <4>2. CASE ~(i < N) BY <1>0, <2>2, <3>1, <3>2, <4>2
      <4> QED BY <4>1, <4>2
    <3> QED BY <3>2, <3>3 DEF Slots
  <2>4. Waiting(k)' = buf'[i % N] /\ Waiting(k) = buf[i % N]
    BY <1>0, <1>1, <2>1 DEF Waiting
  <2>5. buf'[i % N] = buf[i % N]
    BY <1>0, <2>3
  <2> QED BY <2>1, <2>3, <2>4, <2>5
<1>6. Delivered' = Delivered
  BY <1>0 DEF Delivered, InHand
<1>7. CASE num_bytes = 0
  <2>1. Queue = <<>>
    BY <1>2, <1>7
  <2>2. pc # "lock"
    BY <1>7 DEF IInv, HoldsByte
  <2>3. read_idx + 1 - 1 - 0 = read_idx /\ read_idx % N = read_idx
    BY <1>0, ModN
  <2>4. Waiting(1)' = rxBuf
    BY <1>0, <1>1, <2>2, <2>3 DEF Waiting, Slots, Loaded
  <2>5. Queue' = <<rxBuf>>
    <3>1. Queue' \in Seq(Data) /\ Len(Queue') = 1 /\ Queue'[1] = rxBuf
      BY <1>3, <1>7, <2>4
    <3>2. rxBuf \in Data
      BY DEF IInv, TypeOK
    <3>3. <<rxBuf>> \in Seq(Data) /\ Len(<<rxBuf>>) = 1 /\ <<rxBuf>>[1] = rxBuf
      BY <3>2
    <3>4. \A k \in 1 .. Len(Queue') : Queue'[k] = <<rxBuf>>[k]
      BY <3>1, <3>3
    <3> QED BY <3>1, <3>3, <3>4, SeqEqual
  <2> QED BY <1>0, <1>2, <1>4, <1>6, <2>1, <2>5 DEF Buffer!Put, Queue, Delivered
<1>8. CASE num_bytes # 0
  <2> DEFINE h == Queue'[1]
             x == Queue'[num_bytes + 1]
  <2>1. Queue # <<>>
    BY <1>0, <1>2, <1>8
  <2>2. h \in {Head(Queue), rxBuf}
    <3>1. Head(Queue) = Waiting(1) /\ h = Waiting(1)'
      BY <1>0, <1>2, <1>3, <1>8
    <3>2. read_idx + 1 - 1 - 0 = read_idx /\ read_idx % N = read_idx
      BY <1>0, ModN
    <3>3. CASE pc = "lock"
      BY <1>0, <1>1, <3>1, <3>3 DEF Waiting, Loaded
    <3>4. CASE pc # "lock"
      BY <1>0, <1>1, <3>1, <3>2, <3>4 DEF Waiting, Slots, Loaded
    <3> QED BY <3>3, <3>4
  <2>3. x \in Buffer!Leftover(accepted)
    BY <1>0, <1>3, <1>5, <1>8 DEF SlotInv
  <2>4. Queue' = Append([Queue EXCEPT ![1] = h], x)
    <3> DEFINE t == [Queue EXCEPT ![1] = h]
    <3>1. t \in Seq(Data) /\ Len(t) = num_bytes /\ h \in Data /\ x \in Data
      BY <1>0, <1>2, <1>3, <1>8
    <3>2. \A k \in 1 .. num_bytes : t[k] = Queue'[k]
      BY <1>0, <1>2, <1>3, <1>5, <1>8
    <3> HIDE DEF t, h, x
    <3>3. Append(t, x) \in Seq(Data) /\ Len(Append(t, x)) = num_bytes + 1
      BY <3>1
    <3>4. \A k \in 1 .. num_bytes + 1 : Append(t, x)[k] = Queue'[k]
      <4>1. Append(t, x)[num_bytes + 1] = x
        BY <3>1
      <4>2. \A k \in 1 .. num_bytes : Append(t, x)[k] = t[k]
        BY <3>1
      <4>3. x = Queue'[num_bytes + 1]
        BY DEF x
      <4>4. ASSUME NEW k \in 1 .. num_bytes + 1 PROVE Append(t, x)[k] = Queue'[k]
        <5>1. CASE k = num_bytes + 1 BY <4>1, <4>3, <5>1
        <5>2. CASE k # num_bytes + 1
          <6>1. k \in 1 .. num_bytes BY <1>0, <5>2
          <6> QED BY <3>2, <4>2, <6>1
        <5> QED BY <5>1, <5>2
      <4> QED BY <4>4
    <3>5. Queue' = Append(t, x)
      BY <1>3, <3>3, <3>4, SeqEqual
    <3> QED BY <3>5 DEF t
  <2> HIDE DEF h, x
  <2>5. \E g \in {Head(Queue), rxBuf}, y \in Buffer!Leftover(accepted) :
            Queue' = Append([Queue EXCEPT ![1] = g], y)
    BY <2>2, <2>3, <2>4
  <2>6. Len(Queue) < N
    BY <1>0, <1>2
  <2> QED BY <1>0, <1>4, <1>6, <2>1, <2>5, <2>6 DEF Buffer!Put, Queue, Delivered
<1> QED BY <1>0, <1>4, <1>7, <1>8

\* What shell_port_getchar gives the shell, at any speed of the terminal: the
\* driver implements InputBuffer, the bounded queue with an exact length in
\* which a byte waiting alone is delivered as it came and nothing is made up.
THEOREM ConsoleIsInputBuffer == Spec => BufferSpec
<1>1. Init => SlotInv /\ Buffer!Init
  <2> SUFFICES ASSUME Init PROVE SlotInv /\ Buffer!Init
    OBVIOUS
  <2>1. SlotInv
    BY DEF Init, SlotInv, Buffer!Leftover
  <2>2. Queue = <<>> /\ Delivered = <<>> /\ accepted = <<>>
    <3>1. num_bytes = 0 /\ Queue = [k \in 1 .. num_bytes |-> Waiting(k)]
      BY DEF Init, Queue
    <3>2. Queue = <<>>
      BY InitIInv, QueueType, <3>1
    <3> QED BY <3>2 DEF Init, Delivered, InHand
  <2> QED BY <2>1, <2>2 DEF Buffer!Init, Queue, Delivered
<1>2. IInv /\ SlotInv /\ [Next]_vars => SlotInv'
  BY SlotStep
<1>3. IInv /\ IInv' /\ SlotInv /\ [Next]_vars
        => [Buffer!Next]_<<Queue, accepted, Delivered>>
  <2> SUFFICES ASSUME IInv, IInv', SlotInv, [Next]_vars
               PROVE  [Buffer!Next]_<<Queue, accepted, Delivered>>
    OBVIOUS
  <2>1. CASE IsrCallback /\ ~RingFull
    BY <2>1, CallbackPuts DEF Buffer!Next
  <2>2. CASE DecStore
    <3>1. Buffer!Get
      BY <2>2, DecStoreGets DEF Buffer!Get, Queue, Delivered
    <3> QED BY <3>1 DEF Buffer!Next
  <2> QED BY <2>1, <2>2, QuietSteps
<1> QED
  BY <1>1, <1>2, <1>3, ConsoleInvariant, PTL
  DEF Spec, BufferSpec, Buffer!Spec, Queue, Delivered
=============================================================================
