-------------------------- MODULE BreakpointTable ---------------------------
(***************************************************************************)
(* What common/src/fpb.c promises its caller: a table of breakpoints, each *)
(* at one halfword of the code region, and a switch for all of them.       *)
(***************************************************************************)
EXTENDS Naturals

CONSTANTS NumCode, CodeLimit, Ids, Addresses, None

VARIABLES table, on, result

vars == <<table, on, result>>

Init == table = [id \in 0 .. NumCode - 1 |-> None] /\ on = FALSE /\ result = None

Switch(b) == on' = b /\ UNCHANGED <<table, result>>

\* Setting a breakpoint also turns the unit on.
Set(id, addr) ==
    /\ id < NumCode /\ addr < CodeLimit
    /\ table' = [table EXCEPT ![id] = addr - (addr % 2)]
    /\ on' = TRUE /\ result' = <<id, addr, TRUE>>

Refuse(id, addr) ==
    /\ id >= NumCode \/ addr >= CodeLimit
    /\ result' = <<id, addr, FALSE>>
    /\ UNCHANGED <<table, on>>

Next ==
    \/ \E b \in BOOLEAN : Switch(b)
    \/ \E id \in Ids, addr \in Addresses : Set(id, addr) \/ Refuse(id, addr)

Spec == Init /\ [][Next]_vars
=============================================================================
