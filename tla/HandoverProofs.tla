--------------------------- MODULE HandoverProofs ---------------------------
(***************************************************************************)
(* Proofs about the hand-over from the bootloader to the application, for  *)
(* every ring size, every contents of RAM and every way the two images     *)
(* overlap.  What the application finds in its ring depends on whether a   *)
(* byte was typed while it started and, if so, on one fact about the link: *)
(* that the bootloader's receive buffer, which the DMA fills until then,   *)
(* is not one of the application's two ring variables.                     *)
(***************************************************************************)
EXTENDS Handover, TLAPS

\* Where the objects of an image are.
LEMMA LayoutFacts ==
    ASSUME NEW img \in Image
    PROVE  /\ Idx(img) \in Nat /\ Num(img) \in Nat /\ Idx(img) # Num(img)
           /\ Idx(img) \in Ram /\ Num(img) \in Ram /\ Layout[img].rx \in Ram
           /\ Idx(img) \in Bss(img) /\ Num(img) \in Bss(img)
           /\ Layout[img].rx # Idx(img) /\ Layout[img].rx # Num(img)
           /\ \A j \in Nat : Buf(img, j) # Idx(img) /\ Buf(img, j) # Num(img)
<1>1. /\ N \in Nat \ {0} /\ Layout[img].ring \in Nat /\ Bss(img) \subseteq Ram
      /\ Layout[img].rx \notin Idx(img) .. Buf(img, N - 1)
  BY HandoverAssumption
<1>2. /\ Idx(img) \in Nat /\ Num(img) \in Nat /\ Idx(img) # Num(img)
      /\ Idx(img) \in Idx(img) .. Buf(img, N - 1)
      /\ Num(img) \in Idx(img) .. Buf(img, N - 1)
      /\ \A j \in Nat : Buf(img, j) # Idx(img) /\ Buf(img, j) # Num(img)
  BY SMT, <1>1 DEF Idx, Num, Buf
<1>3. QED
  BY <1>1, <1>2 DEF Bss

-----------------------------------------------------------------------------
(* The inductive invariant.                                                *)

\* Types: whatever RAM holds are numbers.
HandoverTypeOK ==
    /\ image \in Image /\ ram \in [Ram -> Nat] /\ took \in Seq(Nat)
    /\ pc \in {"cinit", "main", "boot_go", "do_boot", "console"}
    /\ image = "application" => pc \in {"cinit", "main", "console"}
    /\ armed \in BOOLEAN /\ endrx \in BOOLEAN /\ nvic \in BOOLEAN
    /\ typed \in Seq(Nat) /\ passed \in Seq(Nat) /\ early \subseteq Nat

\* The bootloader has not yet come to its uart_boot.
Silent == image = "bootloader" /\ pc \in {"cinit", "main"}

\* The receiver: off until the bootloader's uart_boot, then filling the
\* bootloader's buffer until the application's uart_boot.
ReceiverInv ==
    /\ Silent => /\ ~nvic /\ ~armed /\ ~endrx
                 /\ typed = <<>> /\ passed = <<>> /\ early = {} /\ took = <<>>
    /\ ~Silent => nvic
    /\ ~Silent => ptr = Layout[IF InWindow THEN "bootloader" ELSE image].rx
    /\ ~Silent => (armed <=> ~endrx)
    /\ pc # "console" => took = <<>>

\* The handler is at most one byte behind, and that byte is where the receiver
\* put it; one that came in the window is known as such.
PassedInv ==
    /\ Len(typed) = IF endrx THEN Len(passed) + 1 ELSE Len(passed)
    /\ early \subseteq 1 .. Len(typed)
    /\ endrx => ram[ptr] = typed[Len(typed)]
    /\ endrx /\ InWindow => Len(typed) \in early
    /\ \A k \in DOMAIN passed \ early : passed[k] = typed[k]

\* Nothing was received in the window, or not where the application has its
\* read_idx, or its num_bytes.
IdxKept == early = {} \/ Layout["bootloader"].rx # Idx("application")
NumKept == early = {} \/ Layout["bootloader"].rx # Num("application")

\* Once its two variables are cleared, a ring is consistent: the rest of the
\* clearing, and a handler that interrupts it, cannot undo that.
RingInv ==
    /\ pc # "cinit" => Bss(image) \subseteq cleared
    /\ IdxKept /\ Idx(image) \in cleared => ram[Idx(image)] < N
    /\ NumKept /\ Num(image) \in cleared => Len(took) + ram[Num(image)] <= Len(passed)

\* The inductive invariant.
HandoverInv == HandoverTypeOK /\ ReceiverInv /\ PassedInv /\ RingInv

\* After a reset, whatever RAM holds.
JustReset ==
    /\ image = "bootloader" /\ pc = "cinit" /\ cleared = {} /\ ram \in [Ram -> Nat]
    /\ armed = FALSE /\ endrx = FALSE /\ nvic = FALSE
    /\ typed = <<>> /\ passed = <<>> /\ early = {} /\ took = <<>>

\* A reset establishes the invariant (prv_reboot, power-on).
LEMMA ResetInv == JustReset => HandoverInv
<1> SUFFICES ASSUME JustReset PROVE HandoverInv
  OBVIOUS
<1> USE DEF JustReset
<1>1. HandoverTypeOK
  <2>1. <<>> \in Seq(Nat) /\ {} \subseteq Nat /\ 0 \in Nat
    OBVIOUS
  <2>2. QED
    BY Zenon, <2>1 DEF HandoverTypeOK, Image
<1>2. ReceiverInv
  BY DEF ReceiverInv, Silent
<1>3. PassedInv
  <2>1. Len(<<>>) = 0 /\ DOMAIN <<>> = {}
    OBVIOUS
  <2>2. QED
    BY <2>1 DEF PassedInv
<1>4. RingInv
  BY DEF RingInv
<1>5. QED
  BY <1>1, <1>2, <1>3, <1>4 DEF HandoverInv

\* The same of the state after a step.
LEMMA ResetInvNext == JustReset' => HandoverInv'
  BY ResetInv, PTL

\* Once its interrupt is on, the receiver fills an existing cell.
LEMMA ReceiverInRam ==
    ASSUME HandoverInv, nvic PROVE ~Silent /\ ptr \in Ram
<1>1. ~Silent /\ image \in Image /\ ptr = Layout[IF InWindow THEN "bootloader" ELSE image].rx
  BY DEF HandoverInv, HandoverTypeOK, ReceiverInv
<1>2. \A img \in Image : Layout[img].rx \in Ram
  BY LayoutFacts
<1>3. QED
  BY <1>1, <1>2 DEF Image

\* A byte arrives.
LEMMA SendInv ==
    ASSUME HandoverInv, NEW b \in Bytes, TerminalSend(b)
    PROVE  HandoverInv'
<1>1. /\ armed /\ ram' = [ram EXCEPT ![ptr] = b] /\ endrx' = TRUE /\ armed' = FALSE
      /\ typed' = Append(typed, b) /\ image' = image /\ pc' = pc /\ cleared' = cleared
      /\ ptr' = ptr /\ nvic' = nvic /\ passed' = passed /\ took' = took
      /\ early' = IF InWindow THEN early \cup {Len(typed')} ELSE early
  BY DEF TerminalSend
<1>2. /\ image \in Image /\ ram \in [Ram -> Nat] /\ took \in Seq(Nat) /\ b \in Nat /\ early \subseteq Nat
      /\ typed \in Seq(Nat) /\ passed \in Seq(Nat)
  BY HandoverAssumption DEF HandoverInv, HandoverTypeOK
<1>3. ~Silent /\ nvic /\ ~endrx
  BY <1>1 DEF HandoverInv, ReceiverInv
<1>4. ptr \in Ram
  BY <1>3, ReceiverInRam
<1>5. /\ IdxKept' => IdxKept /\ ptr # Idx(image)
      /\ NumKept' => NumKept /\ ptr # Num(image)
  <2>1. (early' = {} => early = {}) /\ (InWindow => early' # {})
    BY <1>1
  <2>2. \A img \in Image : Layout[img].rx # Idx(img) /\ Layout[img].rx # Num(img)
    BY LayoutFacts
  <2>3. ptr = Layout[IF InWindow THEN "bootloader" ELSE image].rx
    BY <1>3 DEF HandoverInv, ReceiverInv
  <2>4. QED
    BY <1>2, <2>1, <2>2, <2>3 DEF IdxKept, NumKept, InWindow, Idx, Num
<1>6. /\ typed' \in Seq(Nat) /\ Len(typed') = Len(typed) + 1 /\ typed'[Len(typed')] = b
      /\ Len(typed) \in Nat /\ \A j \in 1 .. Len(typed) : typed'[j] = typed[j]
  BY <1>1, <1>2
<1>7. Len(typed) = Len(passed) /\ early \subseteq 1 .. Len(typed)
  BY <1>3 DEF HandoverInv, PassedInv
<1>8. early' \subseteq 1 .. Len(typed')
  <2>1. early' = early \/ early' = early \cup {Len(typed')}
    BY Zenon, <1>1
  <2>2. 1 .. Len(typed) \subseteq 1 .. Len(typed') /\ Len(typed') \in 1 .. Len(typed')
    <3>1. Len(typed') = Len(typed) + 1 /\ Len(typed) \in Nat
      BY <1>6
    <3>2. QED
      BY SMT, <3>1
  <2>3. QED
    BY <1>7, <2>1, <2>2
<1>9. HandoverTypeOK'
  <2>1. ram' \in [Ram -> Nat] /\ early' \subseteq Nat
    <3>1. 1 .. Len(typed') \subseteq Nat
      BY <1>6
    <3>2. QED
      BY <1>1, <1>2, <1>8, <3>1
  <2>2. QED
    BY <1>1, <1>2, <1>6, <2>1 DEF HandoverInv, HandoverTypeOK
<1>10. ReceiverInv'
  BY <1>1, <1>3 DEF HandoverInv, ReceiverInv, Silent, InWindow
<1>11. PassedInv'
  <2>1. Len(typed') = Len(passed') + 1 /\ early' \subseteq 1 .. Len(typed')
    BY <1>1, <1>6, <1>7, <1>8
  <2>2. ram'[ptr'] = typed'[Len(typed')]
    BY <1>1, <1>2, <1>4, <1>6
  <2>3. InWindow' => Len(typed') \in early'
    BY <1>1 DEF InWindow
  <2>4. \A j \in DOMAIN passed' \ early' : passed'[j] = typed'[j]
    <3>1. DOMAIN passed = 1 .. Len(typed)
      BY <1>2, <1>7
    <3>2. QED
      BY <1>1, <1>6, <3>1 DEF HandoverInv, PassedInv
  <2>5. QED
    BY <1>1, <2>1, <2>2, <2>3, <2>4 DEF PassedInv
<1>12. RingInv'
  <2>1. /\ IdxKept' => IdxKept /\ ram'[Idx(image)] = ram[Idx(image)]
        /\ NumKept' => NumKept /\ ram'[Num(image)] = ram[Num(image)]
    BY <1>1, <1>2, <1>4, <1>5, LayoutFacts
  <2>2. QED
    BY <1>1, <2>1 DEF HandoverInv, RingInv, Idx, Num, Bss
<1>13. QED
  BY <1>9, <1>10, <1>11, <1>12 DEF HandoverInv

\* The handler passes the byte on.
LEMMA HandlerInv ==
    ASSUME HandoverInv, Irq2_Handler
    PROVE  HandoverInv'
<1> DEFINE byte == ram[Layout[image].rx]
           slot == Buf(image, ram[Idx(image)])
           stored == [a \in Ram |-> IF a = slot THEN byte ELSE ram[a]]
<1>1. /\ endrx /\ nvic /\ endrx' = FALSE /\ armed' = TRUE /\ passed' = Append(passed, byte)
      /\ image' = image /\ pc' = pc /\ cleared' = cleared /\ ptr' = ptr /\ nvic' = nvic
      /\ typed' = typed /\ early' = early /\ took' = took
      /\ ram' = IF ram[Num(image)] >= N THEN ram
                ELSE [stored EXCEPT ![Num(image)] = @ + 1]
  BY DEF Irq2_Handler
<1>2. /\ image \in Image /\ ram \in [Ram -> Nat] /\ took \in Seq(Nat)
      /\ typed \in Seq(Nat) /\ passed \in Seq(Nat)
  BY DEF HandoverInv, HandoverTypeOK
<1>3. ~Silent
  BY <1>1, ReceiverInRam
<1>4. /\ Idx(image) \in Ram /\ Num(image) \in Ram /\ Idx(image) # Num(image)
      /\ Layout[image].rx \in Ram
      /\ \A j \in Nat : Buf(image, j) # Idx(image) /\ Buf(image, j) # Num(image)
  BY <1>2, LayoutFacts
<1>5. byte \in Nat /\ ram[Idx(image)] \in Nat /\ slot # Idx(image) /\ slot # Num(image)
  BY <1>2, <1>4
<1> HIDE DEF byte, slot
<1>6. stored \in [Ram -> Nat] /\ stored[Idx(image)] = ram[Idx(image)]
      /\ stored[Num(image)] = ram[Num(image)]
  BY <1>2, <1>4, <1>5
<1> HIDE DEF stored
<1>7. /\ ram' \in [Ram -> Nat] /\ ram'[Idx(image)] = ram[Idx(image)]
      /\ ram'[Num(image)] <= ram[Num(image)] + 1
  <2>1. CASE ram[Num(image)] >= N
    BY <1>1, <1>2, <1>4, <2>1
  <2>2. CASE ~(ram[Num(image)] >= N)
    BY <1>1, <1>2, <1>4, <1>6, <2>2
  <2>3. QED
    BY <2>1, <2>2
<1>8. /\ passed' \in Seq(Nat) /\ Len(passed') = Len(passed) + 1 /\ passed'[Len(passed')] = byte
      /\ Len(passed) \in Nat /\ \A j \in 1 .. Len(passed) : passed'[j] = passed[j]
      /\ DOMAIN passed = 1 .. Len(passed) /\ DOMAIN passed' = 1 .. Len(passed')
  BY <1>1, <1>2, <1>5
<1>9. HandoverTypeOK'
  BY <1>1, <1>2, <1>7, <1>8 DEF HandoverInv, HandoverTypeOK
<1>10. ReceiverInv'
  BY <1>1, <1>3 DEF HandoverInv, ReceiverInv, Silent, InWindow
<1>11. PassedInv'
  <2>1. Len(typed) = Len(passed) + 1
    BY <1>1 DEF HandoverInv, PassedInv
  <2>2. Len(typed) \notin early => byte = typed[Len(typed)]
    <3>1. SUFFICES ASSUME Len(typed) \notin early PROVE byte = typed[Len(typed)]
      OBVIOUS
    <3>2. ~InWindow /\ ram[ptr] = typed[Len(typed)]
      BY <1>1, <3>1 DEF HandoverInv, PassedInv
    <3>3. ptr = Layout[image].rx
      BY <1>3, <3>2 DEF HandoverInv, ReceiverInv
    <3>4. QED
      BY <3>2, <3>3 DEF byte
  <2>3. ASSUME NEW j \in DOMAIN passed' \ early' PROVE passed'[j] = typed'[j]
    <3>1. CASE j = Len(passed')
      BY <1>1, <1>8, <2>1, <2>2, <3>1
    <3>2. CASE j # Len(passed')
      <4>1. j \in DOMAIN passed \ early
        BY <1>1, <1>8, <3>2
      <4>2. passed[j] = typed[j]
        BY <4>1 DEF HandoverInv, PassedInv
      <4>3. QED
        BY <1>1, <1>8, <4>1, <4>2
    <3>3. QED
      BY <3>1, <3>2
  <2>4. early' \subseteq 1 .. Len(typed')
    BY <1>1 DEF HandoverInv, PassedInv
  <2>5. QED
    BY <1>1, <1>8, <2>1, <2>3, <2>4 DEF PassedInv
<1>12. RingInv'
  <2>1. ram[Num(image)] \in Nat /\ ram'[Num(image)] \in Nat
    BY <1>2, <1>4, <1>7
  <2>2. ASSUME NumKept, Num(image) \in cleared
        PROVE  Len(took) + ram'[Num(image)] <= Len(passed')
    <3>1. Len(took) + ram[Num(image)] <= Len(passed)
      BY <2>2 DEF HandoverInv, RingInv
    <3>2. QED
      BY SMT, <1>2, <1>7, <1>8, <2>1, <3>1
  <2>3. QED
    BY <1>1, <1>7, <2>2 DEF HandoverInv, RingInv, Idx, Num, Bss, IdxKept, NumKept
<1>13. QED
  BY <1>9, <1>10, <1>11, <1>12 DEF HandoverInv

\* prv_cinit zeroes one cell of the running image.
LEMMA CinitInv ==
    ASSUME HandoverInv, prv_cinit
    PROVE  HandoverInv'
<1>1. PICK a \in BssRange(image) \ cleared :
        ram' = [ram EXCEPT ![a] = 0] /\ cleared' = cleared \cup {a}
  BY DEF prv_cinit
<1>2. /\ pc = "cinit" /\ pc' = "cinit" /\ ~(endrx /\ nvic) /\ image' = image /\ ptr' = ptr
      /\ armed' = armed /\ endrx' = endrx /\ nvic' = nvic /\ typed' = typed /\ passed' = passed
      /\ early' = early /\ took' = took
  BY DEF prv_cinit, Step, uartVars, history
<1>3. /\ image \in Image /\ ram \in [Ram -> Nat] /\ took = <<>> /\ passed \in Seq(Nat)
  BY <1>2 DEF HandoverInv, HandoverTypeOK, ReceiverInv
<1>4. ~endrx
  BY <1>2 DEF HandoverInv, ReceiverInv
<1>5. HandoverTypeOK'
  <2>1. ram' \in [Ram -> Nat]
    BY <1>1, <1>3
  <2>2. QED
    BY <1>2, <2>1 DEF HandoverInv, HandoverTypeOK
<1>6. ReceiverInv'
  BY <1>2 DEF HandoverInv, ReceiverInv, Silent, InWindow
<1>7. PassedInv'
  BY <1>2, <1>4 DEF HandoverInv, PassedInv
<1>8. RingInv'
  <2>1. /\ Idx(image) \in Ram /\ Num(image) \in Ram /\ N \in Nat \ {0} /\ Len(passed) \in Nat
    BY <1>3, LayoutFacts, HandoverAssumption
  <2>2. /\ ram'[Idx(image)] = IF a = Idx(image) THEN 0 ELSE ram[Idx(image)]
        /\ ram'[Num(image)] = IF a = Num(image) THEN 0 ELSE ram[Num(image)]
    BY <1>1, <1>3, <2>1
  <2>3. IdxKept /\ Idx(image) \in cleared' => ram'[Idx(image)] < N
    BY <1>1, <2>1, <2>2 DEF HandoverInv, RingInv
  <2>4. NumKept /\ Num(image) \in cleared' => Len(took) + ram'[Num(image)] <= Len(passed)
    BY <1>1, <1>3, <2>1, <2>2 DEF HandoverInv, RingInv
  <2>5. QED
    BY <1>2, <2>3, <2>4 DEF RingInv, Idx, Num, IdxKept, NumKept
<1>9. QED
  BY <1>5, <1>6, <1>7, <1>8 DEF HandoverInv

\* uart_boot gives the peripheral the running image's buffer.
LEMMA BootUartInv ==
    ASSUME HandoverInv, uart_boot
    PROVE  HandoverInv'
<1>1. /\ pc = "main" /\ pc' = IF image = "bootloader" THEN "boot_go" ELSE "console"
      /\ ~(endrx /\ nvic) /\ ram' = [ram EXCEPT ![Layout[image].rx] = 0]
      /\ ptr' = Layout[image].rx /\ nvic' = TRUE /\ armed' = TRUE /\ image' = image
      /\ cleared' = cleared /\ endrx' = endrx /\ typed' = typed /\ passed' = passed
      /\ early' = early /\ took' = took
  BY DEF uart_boot, Step, history
<1>2. image \in Image /\ ram \in [Ram -> Nat]
  BY DEF HandoverInv, HandoverTypeOK
<1>3. ~endrx /\ took = <<>>
  BY <1>1 DEF HandoverInv, ReceiverInv
<1>4. pc' \in {"boot_go", "console"} /\ (image = "application" => pc' = "console")
  BY Zenon, <1>1, <1>2 DEF Image
<1>5. HandoverTypeOK'
  <2>1. ram' \in [Ram -> Nat]
    BY <1>1, <1>2
  <2>2. QED
    BY <1>1, <1>4, <2>1 DEF HandoverInv, HandoverTypeOK
<1>6. ReceiverInv'
  BY <1>1, <1>3, <1>4 DEF ReceiverInv, Silent, InWindow
<1>7. PassedInv'
  BY <1>1, <1>3 DEF HandoverInv, PassedInv
<1>8. RingInv'
  <2>1. ram'[Idx(image)] = ram[Idx(image)] /\ ram'[Num(image)] = ram[Num(image)]
    BY <1>1, <1>2, LayoutFacts
  <2>2. Bss(image) \subseteq cleared
    BY <1>1 DEF HandoverInv, RingInv
  <2>3. QED
    BY <1>1, <2>1, <2>2 DEF HandoverInv, RingInv, Idx, Num, Bss, IdxKept, NumKept
<1>9. QED
  BY <1>5, <1>6, <1>7, <1>8 DEF HandoverInv

\* The steps that only move on: CallMain after the last cell, and boot_go.
LEMMA MoveOnInv ==
    ASSUME HandoverInv, CallMain \/ boot_go
    PROVE  HandoverInv'
<1>1. /\ image' = image /\ ram' = ram /\ cleared' = cleared /\ ptr' = ptr /\ armed' = armed
      /\ endrx' = endrx /\ nvic' = nvic /\ typed' = typed /\ passed' = passed
      /\ early' = early /\ took' = took
  BY DEF CallMain, boot_go, uartVars, history
<1>2. \/ pc = "cinit" /\ pc' = "main" /\ Bss(image) \subseteq cleared
      \/ pc = "boot_go" /\ pc' \in {"do_boot", "console"}
  BY DEF CallMain, boot_go, Step, BssRange
<1>3. HandoverTypeOK'
  BY <1>1, <1>2 DEF HandoverInv, HandoverTypeOK
<1>4. image = "application" => pc = "cinit"
  BY <1>2 DEF HandoverInv, HandoverTypeOK
<1>5. ReceiverInv'
  BY <1>1, <1>2, <1>4 DEF HandoverInv, ReceiverInv, Silent, InWindow
<1>6. PassedInv'
  <2>1. InWindow' <=> InWindow
    BY <1>1, <1>2, <1>4 DEF InWindow
  <2>2. QED
    BY <1>1, <2>1 DEF HandoverInv, PassedInv
<1>7. RingInv'
  BY <1>1, <1>2 DEF HandoverInv, RingInv, Idx, Num, Bss, IdxKept, NumKept
<1>8. QED
  BY <1>3, <1>5, <1>6, <1>7 DEF HandoverInv

\* The jump: nothing of the application's .bss is cleared yet.
LEMMA JumpInv ==
    ASSUME HandoverInv, do_boot
    PROVE  HandoverInv'
<1>1. /\ pc = "do_boot" /\ pc' = "cinit" /\ ~(endrx /\ nvic) /\ image' = "application"
      /\ cleared' = {} /\ ram' = ram /\ ptr' = ptr /\ armed' = armed /\ endrx' = endrx
      /\ nvic' = nvic /\ typed' = typed /\ passed' = passed /\ early' = early /\ took' = took
  BY DEF do_boot, Step, uartVars, history
<1>2. image = "bootloader" /\ ~Silent
  BY <1>1 DEF HandoverInv, HandoverTypeOK, Image, Silent
<1>3. ~endrx
  BY <1>1, <1>2 DEF HandoverInv, ReceiverInv
<1>4. HandoverTypeOK'
  BY <1>1 DEF HandoverInv, HandoverTypeOK, Image
<1>5. ReceiverInv'
  BY <1>1, <1>2 DEF HandoverInv, ReceiverInv, Silent, InWindow
<1>6. PassedInv'
  BY <1>1, <1>3 DEF HandoverInv, PassedInv
<1>7. RingInv'
  BY <1>1 DEF RingInv
<1>8. QED
  BY <1>4, <1>5, <1>6, <1>7 DEF HandoverInv

\* The console takes a byte: one less counted, one more taken.
LEMMA GetcharInv ==
    ASSUME HandoverInv, shell_port_getchar
    PROVE  HandoverInv'
<1>1. /\ pc = "console" /\ pc' = "console" /\ ~(endrx /\ nvic) /\ ram[Num(image)] > 0
      /\ ram' = [ram EXCEPT ![Num(image)] = @ - 1, ![Idx(image)] = (@ + 1) % N]
      /\ image' = image /\ cleared' = cleared /\ ptr' = ptr
      /\ armed' = armed /\ endrx' = endrx /\ nvic' = nvic /\ typed' = typed
      /\ passed' = passed /\ early' = early
  BY DEF shell_port_getchar, Step, uartVars
<1>2. /\ image \in Image /\ ram \in [Ram -> Nat] /\ took \in Seq(Nat) /\ N \in Nat \ {0}
      /\ Idx(image) \in Ram /\ Num(image) \in Ram /\ Idx(image) # Num(image)
      /\ passed \in Seq(Nat)
  BY LayoutFacts, HandoverAssumption DEF HandoverInv, HandoverTypeOK
<1>3. ~endrx /\ ~Silent
  BY <1>1 DEF HandoverInv, ReceiverInv, Silent
<1>4. /\ ram[Num(image)] - 1 \in Nat /\ (ram[Idx(image)] + 1) % N \in 0 .. N - 1
      /\ ram[Num(image)] \in Nat /\ ram[Idx(image)] \in Nat
  <2>1. ram[Num(image)] \in Nat /\ ram[Idx(image)] \in Nat
    BY <1>2
  <2>2. QED
    BY SMT, <1>1, <1>2, <2>1
<1>5. /\ ram'[Num(image)] = ram[Num(image)] - 1 /\ ram'[Idx(image)] = (ram[Idx(image)] + 1) % N
      /\ ram' \in [Ram -> Nat]
  <2>1. /\ ram'[Num(image)] = ram[Num(image)] - 1
        /\ ram'[Idx(image)] = (ram[Idx(image)] + 1) % N
    BY <1>1, <1>2
  <2>2. (ram[Idx(image)] + 1) % N \in Nat
    BY <1>2, <1>4
  <2>3. ram' \in [Ram -> Nat]
    BY <1>1, <1>2, <1>4, <2>2
  <2>4. QED
    BY <2>1, <2>3
<1>11. took' \in Seq(Nat) /\ Len(took') = Len(took) + 1 /\ Len(took) \in Nat
  <2>1. PICK x \in CharRead : took' = Append(took, x)
    BY DEF shell_port_getchar
  <2>2. CharRead \subseteq Nat
    <3>1. Value \subseteq Nat
      BY HandoverAssumption DEF Value
    <3>2. QED
      BY <1>2, <3>1 DEF CharRead
  <2>3. x \in Nat
    BY <2>2
  <2>4. QED
    BY <1>2, <2>1, <2>3
<1>6. HandoverTypeOK'
  <2>1. HandoverTypeOK
    BY DEF HandoverInv
  <2>2. QED
    BY Zenon, <1>1, <1>5, <1>11, <2>1 DEF HandoverTypeOK
<1>7. ReceiverInv'
  BY <1>1, <1>3 DEF HandoverInv, ReceiverInv, Silent, InWindow
<1>8. PassedInv'
  BY <1>1, <1>3 DEF HandoverInv, PassedInv
<1>9. RingInv'
  <2>1. ram'[Idx(image)] < N
    BY SMT, <1>2, <1>4, <1>5
  <2>2. Len(took') + ram'[Num(image)] = Len(took) + ram[Num(image)]
    <3>1. /\ ram'[Num(image)] = ram[Num(image)] - 1 /\ ram[Num(image)] \in Nat
          /\ Len(took') = Len(took) + 1 /\ Len(took) \in Nat
      BY <1>4, <1>5, <1>11
    <3>2. QED
      BY SMT, <3>1
  <2>3. Bss(image) \subseteq cleared
    BY <1>1 DEF HandoverInv, RingInv
  <2>4. QED
    BY <1>1, <2>1, <2>2, <2>3 DEF HandoverInv, RingInv, Idx, Num, Bss, IdxKept, NumKept
<1>10. QED
  BY <1>6, <1>7, <1>8, <1>9 DEF HandoverInv

\* The invariant holds in every reachable state.
LEMMA HandoverInvariant == Spec => []HandoverInv
<1>1. Init => HandoverInv
  <2> SUFFICES ASSUME Init PROVE HandoverInv
    OBVIOUS
  <2>1. ram \in [Ram -> Nat]
    <3>1. Value \subseteq Nat
      BY HandoverAssumption DEF Value
    <3>2. QED
      BY <3>1 DEF Init
  <2>2. QED
    BY <2>1, ResetInv DEF Init, JustReset
<1>2. HandoverInv /\ [Next]_vars => HandoverInv'
  <2> SUFFICES ASSUME HandoverInv, [Next]_vars PROVE HandoverInv'
    OBVIOUS
  <2>1. CASE prv_cinit
    BY <2>1, CinitInv
  <2>2. CASE CallMain \/ boot_go
    BY <2>2, MoveOnInv
  <2>3. CASE uart_boot
    BY <2>3, BootUartInv
  <2>4. CASE do_boot
    BY <2>4, JumpInv
  <2>5. CASE shell_port_getchar
    BY <2>5, GetcharInv
  <2>6. CASE prv_reboot
    <3>1. JustReset'
      BY <2>6 DEF prv_reboot, JustReset, HandoverInv, HandoverTypeOK
    <3>2. QED
      BY <3>1, ResetInvNext
  <2>7. CASE Irq2_Handler
    BY <2>7, HandlerInv
  <2>8. CASE \E b \in Bytes : TerminalSend(b)
    BY <2>8, SendInv
  <2>9. CASE UNCHANGED vars
    <3>1. /\ image' = image /\ pc' = pc /\ ram' = ram /\ cleared' = cleared /\ ptr' = ptr
          /\ armed' = armed /\ endrx' = endrx /\ nvic' = nvic /\ typed' = typed
          /\ passed' = passed /\ early' = early /\ took' = took
      BY <2>9 DEF vars
    <3>2. HandoverTypeOK'
      BY <3>1 DEF HandoverInv, HandoverTypeOK
    <3>3. ReceiverInv'
      BY <3>1 DEF HandoverInv, ReceiverInv, Silent, InWindow
    <3>4. PassedInv'
      BY <3>1 DEF HandoverInv, PassedInv, InWindow
    <3>5. RingInv'
      BY <3>1 DEF HandoverInv, RingInv, Idx, Num, Bss, IdxKept, NumKept
    <3>6. QED
      BY <3>2, <3>3, <3>4, <3>5 DEF HandoverInv
  <2>10. QED
    BY <2>1, <2>2, <2>3, <2>4, <2>5, <2>6, <2>7, <2>8, <2>9 DEF Next, Main
<1>3. QED
  BY <1>1, <1>2, PTL DEF Spec

-----------------------------------------------------------------------------
(* What the cleared slots of the running image's ring can hold.            *)

\* A slot that was cleared holds what came in since; so does what the console
\* took from it, as long as its index stayed in the ring.
ContentInv ==
    /\ \A j \in 0 .. N - 1 : Buf(image, j) \in cleared => ram[Buf(image, j)] \in CameIn
    /\ IdxKept => \A k \in DOMAIN took : took[k] \in CameIn

\* The slots of an image.
LEMMA SlotFacts ==
    ASSUME NEW img \in Image, NEW j \in 0 .. N - 1
    PROVE  /\ Buf(img, j) \in Ram /\ Buf(img, j) \in Bss(img)
           /\ Buf(img, j) # Idx(img) /\ Buf(img, j) # Num(img)
           /\ Buf(img, j) # Layout[img].rx
<1>1. /\ N \in Nat \ {0} /\ Layout[img].ring \in Nat /\ Bss(img) \subseteq Ram
      /\ Layout[img].rx \notin Idx(img) .. Buf(img, N - 1)
  BY HandoverAssumption
<1>2. /\ Buf(img, j) \in Idx(img) .. Buf(img, N - 1)
      /\ Buf(img, j) # Idx(img) /\ Buf(img, j) # Num(img)
  BY SMT, <1>1 DEF Idx, Num, Buf
<1>3. QED
  BY <1>1, <1>2 DEF Bss

\* What came in stays among what came in until the next reset.
LEMMA CameInGrows ==
    ASSUME HandoverInv, typed' = typed \/ \E b \in Bytes : typed' = Append(typed, b),
           passed' = passed \/ \E b \in Nat : passed' = Append(passed, b),
           early \subseteq early'
    PROVE  CameIn \subseteq CameIn'
<1>1. /\ typed \in Seq(Nat) /\ passed \in Seq(Nat) /\ Bytes \subseteq Nat
  BY HandoverAssumption DEF HandoverInv, HandoverTypeOK
<1>2. \A k \in DOMAIN typed : k \in DOMAIN typed' /\ typed'[k] = typed[k]
  <2>1. CASE typed' = typed
    BY <2>1
  <2>2. CASE \E b \in Bytes : typed' = Append(typed, b)
    <3>1. PICK b \in Bytes : typed' = Append(typed, b)
      BY <2>2
    <3>2. b \in Nat
      BY <1>1
    <3>3. QED
      BY <1>1, <3>1, <3>2
  <2>3. QED
    BY <2>1, <2>2
<1>3. \A k \in DOMAIN passed : k \in DOMAIN passed' /\ passed'[k] = passed[k]
  <2>1. CASE passed' = passed
    BY <2>1
  <2>2. CASE \E b \in Nat : passed' = Append(passed, b)
    BY <1>1, <2>2
  <2>3. QED
    BY <2>1, <2>2
<1>4. QED
  BY <1>2, <1>3 DEF CameIn

\* Whatever the handler passes on is counted as having come in.
LEMMA PassedCameIn == HandoverInv => \A k \in DOMAIN passed : passed[k] \in CameIn
<1> SUFFICES ASSUME HandoverInv, NEW k \in DOMAIN passed PROVE passed[k] \in CameIn
  OBVIOUS
<1>1. CASE k \in early
  BY <1>1 DEF CameIn
<1>2. CASE k \notin early
  <2>1. passed[k] = typed[k]
    BY <1>2 DEF HandoverInv, PassedInv
  <2>2. k \in DOMAIN typed
    <3>1. /\ typed \in Seq(Nat) /\ passed \in Seq(Nat)
          /\ Len(typed) = IF endrx THEN Len(passed) + 1 ELSE Len(passed)
      BY DEF HandoverInv, HandoverTypeOK, PassedInv
    <3>2. QED
      BY <3>1
  <2>3. QED
    BY <2>1, <2>2 DEF CameIn
<1>3. QED
  BY <1>1, <1>2

\* The same of the state after a step.
LEMMA PassedCameInNext ==
    HandoverInv' => \A k \in DOMAIN passed' : passed'[k] \in CameIn'
<1>1. HandoverInv' => (\A k \in DOMAIN passed : passed[k] \in CameIn)'
  BY PassedCameIn, PTL
<1>2. QED
  BY <1>1

\* A step that leaves what was taken, and each slot with what it held or with
\* something that came in, keeps the invariant.
LEMMA ContentKept ==
    ASSUME ContentInv, CameIn \subseteq CameIn', IdxKept' => IdxKept, took' = took,
           \A j \in 0 .. N - 1 : Buf(image', j) \in cleared' =>
               \/ image' = image /\ Buf(image, j) \in cleared
                    /\ ram'[Buf(image, j)] = ram[Buf(image, j)]
               \/ ram'[Buf(image', j)] \in CameIn'
    PROVE  ContentInv'
<1>1. ASSUME NEW j \in 0 .. N - 1, Buf(image', j) \in cleared'
      PROVE  ram'[Buf(image', j)] \in CameIn'
  BY <1>1 DEF ContentInv
<1>2. QED
  BY <1>1 DEF ContentInv, Buf

\* The DMA and the handler write what came in, prv_cinit and uart_boot zeroes,
\* and the console takes it from a slot of the ring.
LEMMA ContentStep ==
    ASSUME HandoverInv, HandoverInv', ContentInv, [Next]_vars
    PROVE  ContentInv'
<1>0. /\ image \in Image /\ ram \in [Ram -> Nat] /\ took \in Seq(Nat)
      /\ typed \in Seq(Nat) /\ passed \in Seq(Nat) /\ 0 \in CameIn'
  BY DEF HandoverInv, HandoverTypeOK, CameIn
<1>1. CASE UNCHANGED vars
  BY <1>1 DEF vars, ContentInv, CameIn, IdxKept, Idx, Buf
<1>2. CASE prv_cinit
  <2>1. PICK a \in BssRange(image) \ cleared :
          ram' = [ram EXCEPT ![a] = 0] /\ cleared' = cleared \cup {a}
    BY <1>2 DEF prv_cinit
  <2>2. /\ image' = image /\ typed' = typed /\ passed' = passed /\ early' = early
        /\ took' = took
    BY <1>2 DEF prv_cinit, history
  <2>3. CameIn' = CameIn /\ (IdxKept' <=> IdxKept)
    BY <2>2 DEF CameIn, IdxKept, Idx
  <2>4. ASSUME NEW j \in 0 .. N - 1, Buf(image', j) \in cleared'
        PROVE  \/ image' = image /\ Buf(image, j) \in cleared
                    /\ ram'[Buf(image, j)] = ram[Buf(image, j)]
               \/ ram'[Buf(image', j)] \in CameIn'
    <3>1. Buf(image, j) \in Ram /\ Buf(image', j) = Buf(image, j)
      BY <1>0, <2>2, SlotFacts
    <3>2. CASE Buf(image, j) = a
      BY <1>0, <2>1, <3>1, <3>2
    <3>3. CASE Buf(image, j) # a
      BY <1>0, <2>1, <2>2, <2>4, <3>1, <3>3
    <3>4. QED
      BY <3>2, <3>3
  <2>5. QED
    BY <2>2, <2>3, <2>4, ContentKept
<1>3. CASE CallMain \/ boot_go
  <2>1. UNCHANGED <<image, ram, cleared, typed, passed, early, took>>
    BY <1>3 DEF CallMain, boot_go, history
  <2>2. QED
    BY <2>1 DEF ContentInv, CameIn, IdxKept, Idx, Buf
<1>4. CASE uart_boot
  <2>1. /\ ram' = [ram EXCEPT ![Layout[image].rx] = 0]
        /\ UNCHANGED <<image, cleared, typed, passed, early, took>>
    BY <1>4 DEF uart_boot, history
  <2>2. \A j \in 0 .. N - 1 : ram'[Buf(image, j)] = ram[Buf(image, j)]
    BY <1>0, <2>1, SlotFacts
  <2>3. QED
    BY <2>1, <2>2 DEF ContentInv, CameIn, IdxKept, Idx, Buf
<1>5. CASE do_boot \/ prv_reboot
  <2>2. CASE do_boot
    BY <2>2 DEF ContentInv, do_boot, history, CameIn, IdxKept, Idx, Buf
  <2>3. CASE prv_reboot
    BY <2>3 DEF ContentInv, prv_reboot
  <2>4. QED
    BY <1>5, <2>2, <2>3
<1>6. CASE \E b \in Bytes : TerminalSend(b)
  <2>1. PICK b \in Bytes : TerminalSend(b)
    BY <1>6
  <2>2. /\ ram' = [ram EXCEPT ![ptr] = b] /\ typed' = Append(typed, b)
        /\ early \subseteq early' /\ UNCHANGED <<image, cleared, passed, took>>
    BY <2>1 DEF TerminalSend
  <2>3. CameIn \subseteq CameIn'
    BY <2>2, CameInGrows
  <2>4. b \in CameIn'
    <3>1. b \in Nat
      BY HandoverAssumption
    <3>2. Len(typed) + 1 \in DOMAIN typed' /\ typed'[Len(typed) + 1] = b
      BY <1>0, <2>2, <3>1
    <3>3. QED
      BY <3>2 DEF CameIn
  <2>5. IdxKept' => IdxKept
    BY <2>2 DEF IdxKept, Idx
  <2>6. ASSUME NEW j \in 0 .. N - 1, Buf(image', j) \in cleared'
        PROVE  \/ image' = image /\ Buf(image, j) \in cleared
                    /\ ram'[Buf(image, j)] = ram[Buf(image, j)]
               \/ ram'[Buf(image', j)] \in CameIn'
    <3>1. Buf(image, j) \in Ram /\ Buf(image', j) = Buf(image, j)
      BY <1>0, <2>2, SlotFacts
    <3>2. ram'[Buf(image, j)] = IF Buf(image, j) = ptr THEN b ELSE ram[Buf(image, j)]
      BY <1>0, <2>2, <3>1
    <3>3. QED
      BY <2>2, <2>4, <2>6, <3>1, <3>2
  <2>7. QED
    BY <2>2, <2>3, <2>5, <2>6, ContentKept
<1>7. CASE Irq2_Handler
  <2> DEFINE byte == ram[Layout[image].rx]
             slot == Buf(image, ram[Idx(image)])
             stored == [a \in Ram |-> IF a = slot THEN byte ELSE ram[a]]
  <2>1. /\ passed' = Append(passed, byte) /\ UNCHANGED <<image, cleared, typed, early, took>>
        /\ ram' = IF ram[Num(image)] >= N THEN ram
                  ELSE [stored EXCEPT ![Num(image)] = @ + 1]
    BY <1>7 DEF Irq2_Handler
  <2>2. byte \in Nat
    BY <1>0, LayoutFacts
  <2> HIDE DEF byte, slot
  <2>3. CameIn \subseteq CameIn' /\ (IdxKept' <=> IdxKept)
    BY <2>1, <2>2, CameInGrows DEF IdxKept, Idx
  <2>4. byte \in CameIn'
    <3>1. Len(passed) + 1 \in DOMAIN passed' /\ passed'[Len(passed) + 1] = byte
      BY <1>0, <2>1, <2>2
    <3>2. QED
      BY <3>1, PassedCameInNext
  <2>5. ASSUME NEW j \in 0 .. N - 1, Buf(image', j) \in cleared'
        PROVE  \/ image' = image /\ Buf(image, j) \in cleared
                    /\ ram'[Buf(image, j)] = ram[Buf(image, j)]
               \/ ram'[Buf(image', j)] \in CameIn'
    <3>1. /\ Buf(image, j) \in Ram /\ Buf(image, j) # Num(image)
          /\ Buf(image', j) = Buf(image, j) /\ Buf(image, j) \in cleared
      BY <1>0, <2>1, <2>5, SlotFacts
    <3>2. CASE ram[Num(image)] >= N
      BY <2>1, <3>1, <3>2
    <3>3. CASE ~(ram[Num(image)] >= N)
      <4>1. ram'[Buf(image, j)] = stored[Buf(image, j)]
        BY <2>1, <3>1, <3>3
      <4>2. stored[Buf(image, j)] = IF Buf(image, j) = slot THEN byte ELSE ram[Buf(image, j)]
        BY <3>1
      <4>3. QED
        BY <2>1, <2>4, <3>1, <4>1, <4>2
    <3>4. QED
      BY <3>2, <3>3
  <2>6. QED
    BY <2>1, <2>3, <2>5, ContentKept
<1>8. CASE shell_port_getchar
  <2>1. /\ ram' = [ram EXCEPT ![Num(image)] = @ - 1, ![Idx(image)] = (@ + 1) % N]
        /\ pc = "console" /\ UNCHANGED <<image, cleared, typed, passed, early>>
    BY <1>8 DEF shell_port_getchar, Step
  <2>2. \A j \in 0 .. N - 1 : ram'[Buf(image, j)] = ram[Buf(image, j)]
    BY <1>0, <2>1, SlotFacts
  <2>3. CameIn' = CameIn /\ (IdxKept' <=> IdxKept)
    BY <2>1 DEF CameIn, IdxKept, Idx
  <2>4. PICK x \in CharRead : took' = Append(took, x)
    BY <1>8 DEF shell_port_getchar
  <2>5. ASSUME IdxKept PROVE x \in CameIn
    <3>1. Bss(image) \subseteq cleared
      BY <2>1 DEF HandoverInv, RingInv
    <3>2. ram[Idx(image)] < N /\ ram[Idx(image)] \in Nat /\ N \in Nat
      BY <1>0, <2>5, <3>1, LayoutFacts, HandoverAssumption DEF HandoverInv, RingInv
    <3>3. PICK j \in 0 .. N - 1 : j = ram[Idx(image)]
      BY SMT, <3>2
    <3>4. Buf(image, j) \in Ram /\ Buf(image, j) \in cleared
      BY <1>0, <3>1, SlotFacts
    <3>5. x = ram[Buf(image, j)]
      BY <2>4, <3>3, <3>4 DEF CharRead
    <3>6. QED
      BY <3>4, <3>5 DEF ContentInv
  <2>6. ASSUME IdxKept, NEW k \in DOMAIN took' PROVE took'[k] \in CameIn
    <3>1. x \in CameIn
      BY <2>5, <2>6
    <3>2. \A l \in DOMAIN took : took[l] \in CameIn
      BY <2>6 DEF ContentInv
    <3>3. x \in Nat
      <4>1. Value \subseteq Nat
        BY HandoverAssumption DEF Value
      <4>2. QED
        BY <1>0, <4>1 DEF CharRead
    <3>4. took'[k] = x \/ (k \in DOMAIN took /\ took'[k] = took[k])
      <4>1. /\ Len(took) \in Nat /\ DOMAIN took = 1 .. Len(took)
            /\ DOMAIN took' = 1 .. Len(took) + 1 /\ took'[Len(took) + 1] = x
            /\ \A l \in 1 .. Len(took) : took'[l] = took[l]
        BY <1>0, <2>4, <3>3
      <4>2. k = Len(took) + 1 \/ k \in 1 .. Len(took)
        BY <2>6, <4>1
      <4>3. QED
        BY <4>1, <4>2
    <3>5. QED
      BY <3>1, <3>2, <3>4
  <2>7. IdxKept' => \A k \in DOMAIN took' : took'[k] \in CameIn'
    BY <2>3, <2>6
  <2>8. \A j \in 0 .. N - 1 : Buf(image, j)' \in cleared' => ram'[Buf(image, j)'] \in CameIn'
    <3> SUFFICES ASSUME NEW j \in 0 .. N - 1, Buf(image', j) \in cleared'
                 PROVE  ram'[Buf(image', j)] \in CameIn'
      BY DEF Buf
    <3>1. Buf(image', j) = Buf(image, j) /\ ram'[Buf(image, j)] = ram[Buf(image, j)]
      BY <2>1, <2>2
    <3>2. Buf(image, j) \in cleared => ram[Buf(image, j)] \in CameIn
      BY DEF ContentInv
    <3>3. QED
      BY <2>1, <2>3, <3>1, <3>2
  <2>9. QED
    BY <2>7, <2>8 DEF ContentInv
<1>9. QED
  BY <1>1, <1>2, <1>3, <1>4, <1>5, <1>6, <1>7, <1>8 DEF Next, Main

-----------------------------------------------------------------------------
(* The results.                                                            *)

\* However the images overlap, every byte is passed on in order, and as it was
\* typed unless it came between the jump and the application's uart_boot
\* (bootloader main.c:60-62, minimal_nrf52_uart.c:98, 122).
THEOREM HandoverPassesBytes == Spec => []PassedIsTyped
<1>1. HandoverInv => PassedIsTyped
  <2> SUFFICES ASSUME HandoverInv PROVE PassedIsTyped
    OBVIOUS
  <2>1. passed \in Seq(Nat) /\ Len(typed) = IF endrx THEN Len(passed) + 1 ELSE Len(passed)
    BY DEF HandoverInv, HandoverTypeOK, PassedInv
  <2>2. Len(passed) <= Len(typed)
    BY <2>1
  <2>3. QED
    BY <2>2 DEF HandoverInv, PassedInv, PassedIsTyped
<1>2. QED
  BY <1>1, HandoverInvariant, PTL

\* The handler's store stays inside its ring, whatever RAM held at power-on,
\* provided the bootloader's receive buffer is not the application's read_idx
\* (startup.c:33-35, shell_port.c:22-29, 39).
THEOREM HandoverStaysInRing ==
    ASSUME Layout["bootloader"].rx # Idx("application")
    PROVE  Spec => []HandlerStaysInRing
<1>1. HandoverInv => HandlerStaysInRing
  <2> SUFFICES ASSUME HandoverInv, endrx, nvic, ~(image = "application" /\ pc = "cinit")
               PROVE  ram[Idx(image)] < N
    BY DEF HandlerStaysInRing
  <2>1. image \in Image /\ ~Silent
    BY DEF HandoverInv, HandoverTypeOK, ReceiverInv
  <2>2. pc # "cinit"
    BY <2>1 DEF Silent, Image
  <2>3. Idx(image) \in cleared
    BY <2>1, <2>2, LayoutFacts DEF HandoverInv, RingInv
  <2>4. QED
    BY <2>3 DEF HandoverInv, RingInv, IdxKept
<1>2. QED
  BY <1>1, HandoverInvariant, PTL

\* However the images overlap and whatever RAM held, a console takes no more
\* than was passed on since the reset and nothing but what came in since, unless
\* something was typed in the window AND the DMA stored it over the
\* application's ring variables (startup.c:28-35, shell_port.c:22-41,
\* minimal_nrf52_uart.c:122).
THEOREM HandoverNoPhantomInput == Spec => []NoPhantomInput
<1>1. HandoverInv /\ ContentInv => NoPhantomInput
  <2> SUFFICES ASSUME HandoverInv, ContentInv, pc = "console", WindowHarmless
               PROVE  /\ Len(took) + ram[Num(image)] <= Len(passed)
                      /\ \A k \in DOMAIN took : took[k] \in CameIn
    BY DEF NoPhantomInput
  <2>1. image \in Image /\ IdxKept /\ NumKept
    BY DEF HandoverInv, HandoverTypeOK, WindowHarmless, IdxKept, NumKept
  <2>2. Num(image) \in cleared
    BY <2>1, LayoutFacts DEF HandoverInv, RingInv
  <2>3. QED
    BY <2>1, <2>2 DEF HandoverInv, RingInv, ContentInv
<1>2. Init => ContentInv
  BY DEF Init, ContentInv
<1>3. QED
  BY <1>1, <1>2, ContentStep, HandoverInvariant, PTL DEF Spec
=============================================================================
