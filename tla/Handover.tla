------------------------------ MODULE Handover ------------------------------
(***************************************************************************)
(* The way from reset through the bootloader into the application, seen    *)
(* from RAM and the UART.  Both images link the same driver, each at its   *)
(* own addresses in the same RAM, and the bootloader jumps with its        *)
(* receiver armed and its interrupt enabled.                               *)
(* Sources: bootloader/src/main.c, application/src/main.c,                 *)
(* common/src/startup.c, and minimal_nrf52_uart.c, shell_port.c.           *)
(*                                                                         *)
(* A pending interrupt runs before the next instruction of the main        *)
(* program.  One RAM cell stands for one variable or buffer element.       *)
(***************************************************************************)
EXTENDS Naturals, Sequences

CONSTANTS
    N,         \* sizeof(s_uart_buffer.buf)
    Ram,       \* the cells of RAM
    Layout,    \* where each image keeps s_rx_recv_buf ("rx") and s_uart_buffer ("ring")
    Bytes,     \* what the terminal can send
    MaxBytes   \* bound: bytes sent between two resets

Image == {"bootloader", "application"}

\* s_uart_buffer: read_idx, num_bytes and buf, one after the other.
Idx(img) == Layout[img].ring
Num(img) == Layout[img].ring + 1
Buf(img, k) == Layout[img].ring + 2 + k

Bss(img) == {Layout[img].rx} \cup (Idx(img) .. Buf(img, N - 1))
Value == 0 .. N \cup Bytes

\* Two objects of one image do not overlap; those of different images may.
ASSUME HandoverAssumption ==
    /\ N \in Nat \ {0} /\ Ram \subseteq Nat /\ MaxBytes \in Nat
    /\ Bytes \subseteq Nat \ {0}
    /\ \A img \in Image :
           /\ Layout[img].ring \in Nat /\ Bss(img) \subseteq Ram
           /\ Layout[img].rx \notin Idx(img) .. Buf(img, N - 1)

VARIABLES
    image,    \* whose code runs, and whose vector table VTOR points to
    pc,       \* "cinit", "main", "boot_go", "do_boot" or "console"
    ram,
    cleared,  \* the cells prv_cinit has zeroed
    ptr,      \* UARTE->RXD.PTR
    armed, endrx, nvic,
    typed,    \* history: bytes received since the reset
    passed,   \* history: bytes handed to the receive callback
    early,    \* history: the positions of those typed before the application's uart_boot
    took      \* history: what the consoles took out of their rings

vars == <<image, pc, ram, cleared, ptr, armed, endrx, nvic, typed, passed, early, took>>
uartVars == <<ptr, armed, endrx, nvic>>
history == <<typed, passed, early, took>>

\* Power-on: RAM holds anything.
Init ==
    /\ ram \in [Ram -> Value]
    /\ image = "bootloader" /\ pc = "cinit" /\ cleared = {}
    /\ ptr = 0 /\ armed = FALSE /\ endrx = FALSE /\ nvic = FALSE
    /\ typed = <<>> /\ passed = <<>> /\ early = {} /\ took = <<>>

\* prv_reboot from either image's shell: peripherals and interrupt controller
\* start over, RAM keeps what it held.
prv_reboot ==
    /\ pc = "console" /\ ~(endrx /\ nvic)
    /\ image' = "bootloader" /\ pc' = "cinit" /\ cleared' = {}
    /\ ptr' = 0 /\ armed' = FALSE /\ endrx' = FALSE /\ nvic' = FALSE
    /\ typed' = <<>> /\ passed' = <<>> /\ early' = {} /\ took' = <<>>
    /\ UNCHANGED ram

-----------------------------------------------------------------------------
(* The UARTE and the interrupt.                                            *)

\* From the jump to the application's uart_boot the receiver still fills the
\* bootloader's s_rx_recv_buf.
InWindow == image = "application" /\ pc \in {"cinit", "main"}

TerminalSend(b) ==
    /\ armed /\ Len(typed) < MaxBytes
    /\ ram' = [ram EXCEPT ![ptr] = b]
    /\ endrx' = TRUE /\ armed' = FALSE
    /\ typed' = Append(typed, b)
    /\ early' = IF InWindow THEN early \cup {Len(typed')} ELSE early
    /\ UNCHANGED <<image, pc, cleared, ptr, nvic, passed, took>>

\* Irq2_Handler and uart_byte_received_from_isr_cb of the image VTOR points to.
\* A write past the end of the modelled RAM leaves it as it is.
Irq2_Handler ==
    LET byte == ram[Layout[image].rx]
        slot == Buf(image, ram[Idx(image)])
        stored == [a \in Ram |-> IF a = slot THEN byte ELSE ram[a]]
    IN  /\ endrx /\ nvic
        /\ endrx' = FALSE /\ armed' = TRUE
        /\ passed' = Append(passed, byte)
        /\ ram' = IF ram[Num(image)] >= N THEN ram
                  ELSE [stored EXCEPT ![Num(image)] = @ + 1]
        /\ UNCHANGED <<image, pc, cleared, ptr, nvic, typed, early, took>>

-----------------------------------------------------------------------------
(* The main program.                                                       *)

Step(from, to) == pc = from /\ pc' = to /\ ~(endrx /\ nvic)

\* Mutant: dst is advanced before the store, and _sbss itself is left out.
BssAboveStart(img) == {a \in Bss(img) : \E b \in Bss(img) : b < a}

\* What prv_cinit zeroes.
BssRange(img) == Bss(img)

\* Reset_Handler, prv_cinit: one cell at a time, upwards.
prv_cinit ==
    /\ Step("cinit", "cinit")
    /\ \E a \in BssRange(image) \ cleared :
         /\ \A b \in BssRange(image) \ cleared : a <= b
         /\ ram' = [ram EXCEPT ![a] = 0]
         /\ cleared' = cleared \cup {a}
    /\ UNCHANGED <<image, uartVars, history>>

CallMain ==
    /\ Step("cinit", "main") /\ BssRange(image) \subseteq cleared
    /\ UNCHANGED <<image, ram, cleared, uartVars, history>>

\* Mutant: the receive buffer is not given to the peripheral again.
uart_boot_keeping_ptr ==
    /\ Step("main", IF image = "bootloader" THEN "boot_go" ELSE "console")
    /\ ram' = [ram EXCEPT ![Layout[image].rx] = 0]
    /\ ptr' = IF ptr = 0 THEN Layout[image].rx ELSE ptr
    /\ nvic' = TRUE /\ armed' = TRUE
    /\ UNCHANGED <<image, cleared, endrx, history>>

\* main of either image: uart_boot.  The application confirms itself and goes
\* on to its console, neither of which touches this state.
uart_boot ==
    /\ Step("main", IF image = "bootloader" THEN "boot_go" ELSE "console")
    /\ ram' = [ram EXCEPT ![Layout[image].rx] = 0]
    /\ ptr' = Layout[image].rx
    /\ nvic' = TRUE /\ armed' = TRUE
    /\ UNCHANGED <<image, cleared, endrx, history>>

\* boot_go finds an image to start or not; without one the bootloader runs its
\* own console.
boot_go ==
    /\ \/ Step("boot_go", "do_boot")
       \/ Step("boot_go", "console")
    /\ UNCHANGED <<image, ram, cleared, uartVars, history>>

\* do_boot and start_app: VTOR, stack pointer and program counter now belong to
\* the application.
do_boot ==
    /\ Step("do_boot", "cinit")
    /\ image' = "application" /\ cleared' = {}
    /\ UNCHANGED <<ram, uartVars, history>>

\* What shell_port_getchar reads: the slot at the index, or anything when the
\* index points past the modelled RAM.
CharRead ==
    LET slot == Buf(image, ram[Idx(image)])
    IN  IF slot \in Ram THEN {ram[slot]} ELSE Value

\* Mutant: the count of buffered bytes is left as it is.
shell_port_getchar_keeping_count ==
    /\ Step("console", "console") /\ ram[Num(image)] > 0
    /\ \E x \in CharRead : took' = Append(took, x)
    /\ ram' = [ram EXCEPT ![Idx(image)] = (@ + 1) % N]
    /\ UNCHANGED <<image, cleared, uartVars, typed, passed, early>>

\* shell_port_getchar at the console takes a byte out of the ring.
shell_port_getchar ==
    /\ Step("console", "console") /\ ram[Num(image)] > 0
    /\ \E x \in CharRead : took' = Append(took, x)
    /\ ram' = [ram EXCEPT ![Num(image)] = @ - 1, ![Idx(image)] = (@ + 1) % N]
    /\ UNCHANGED <<image, cleared, uartVars, typed, passed, early>>

Main == prv_cinit \/ CallMain \/ uart_boot \/ boot_go \/ do_boot \/ shell_port_getchar

Next == Main \/ prv_reboot \/ Irq2_Handler \/ \E b \in Bytes : TerminalSend(b)

Spec == Init /\ [][Next]_vars

-----------------------------------------------------------------------------
(* Properties.                                                             *)

\* The handler passes on every byte, in order, and each as it was typed unless
\* it came between the jump and the application's uart_boot, when the receiver
\* fills one image's buffer and the handler reads the other's
\* (bootloader main.c:60-62, minimal_nrf52_uart.c:98, 122).
PassedIsTyped ==
    /\ Len(passed) <= Len(typed)
    /\ \A k \in DOMAIN passed \ early : passed[k] = typed[k]

\* When the handler is about to run and counts a free place, the index it
\* stores at lies inside its image's ring, whatever RAM held before; only while
\* the application's .bss is being cleared it need not
\* (startup.c:33-35, shell_port.c:22-29, 39).
HandlerStaysInRing ==
    endrx /\ nvic /\ ram[Num(image)] < N /\ ~(image = "application" /\ pc = "cinit") =>
        ram[Idx(image)] < N

\* Nobody typed in the window, or the images are linked so that what the DMA
\* stored then is neither of the application's ring variables.
WindowHarmless ==
    early = {} \/ Layout["bootloader"].rx \notin {Idx("application"), Num("application")}

\* What came in since the reset: a byte typed, the zero of a cleared slot, and,
\* for a byte typed in the window, what the handler found in its place.
CameIn ==
    {0} \cup {typed[k] : k \in DOMAIN typed} \cup {passed[k] : k \in early \cap DOMAIN passed}

\* The console takes no more than was passed on since the reset, and nothing
\* but what came in since: what an earlier run or the other image left in RAM
\* is taken for input only in the place of a byte typed in the window
\* (startup.c:28-35, shell_port.c:22-41, minimal_nrf52_uart.c:122).
NoPhantomInput ==
    pc = "console" /\ WindowHarmless =>
        /\ Len(took) + ram[Num(image)] <= Len(passed)
        /\ \A k \in DOMAIN took : took[k] \in CameIn
=============================================================================
