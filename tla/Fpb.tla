-------------------------------- MODULE Fpb ---------------------------------
(***************************************************************************)
(* The driver of the flash patch and breakpoint unit, common/src/fpb.c:    *)
(* register words put together and taken apart bit by bit.                 *)
(*                                                                         *)
(* Words are natural numbers.                                    *)
(***************************************************************************)
EXTENDS Naturals

CONSTANTS
    NumCode, NumLit, Revision,  \* what this unit implements
    Ids, Addresses,             \* the arguments of the calls
    None

CodeLimit == 536870912   \* 0x20000000, the first address behind the code region
REV == 268435456         \* the weight of bit 28, the lowest of FP_CTRL's revision
REPLACE == 1073741824    \* the weight of bit 30, the lowest of FP_COMP's replace

\* The fields of FP_CTRL hold 7, 4 and 4 bits.
UnitAssumption ==
    /\ NumCode \in 0 .. 127 /\ NumLit \in 0 .. 15 /\ Revision \in 0 .. 15
    /\ Ids \subseteq Nat /\ Addresses \subseteq Nat

VARIABLES
    FP_CTRL, FP_COMP,
    result   \* the last call of fpb_set_breakpoint and what it returned

vars == <<FP_CTRL, FP_COMP, result>>

-----------------------------------------------------------------------------
(* The unit.                                                               *)

\* KEY, bit 1, reads as zero and must be written as one for ENABLE to change.
WriteCtrl(w) ==
    FP_CTRL' = IF (w \div 2) % 2 = 1 THEN FP_CTRL - (FP_CTRL % 2) + (w % 2) ELSE FP_CTRL

\* FP_CTRL with ENABLE off.
Implemented ==
    Revision * REV + (NumCode \div 16) * 4096 + NumLit * 256 + (NumCode % 16) * 16

Comparators == 0 .. NumCode + NumLit - 1

\* Out of reset every comparator is off and the rest of its word unknown.
Init ==
    /\ FP_CTRL = Implemented
    /\ FP_COMP \in [Comparators -> {w \in Nat : w % 2 = 0}]
    /\ result = None

\* The halfwords a word of FP_COMP stops at: the lower one, the upper, both.
Stops(w) ==
    LET base == (w % CodeLimit) - (w % 4) IN
    IF w % 2 = 0 THEN {}
    ELSE CASE w \div REPLACE = 1 -> {base}
           [] w \div REPLACE = 2 -> {base + 2}
           [] w \div REPLACE = 3 -> {base, base + 2}
           [] OTHER -> {}

-----------------------------------------------------------------------------
(* The driver.                                                             *)

fpb_get_config ==
    [enabled  |-> FP_CTRL % 2 # 0,
     revision |-> (FP_CTRL \div REV) % 16,
     num_code_comparators    |-> ((FP_CTRL \div 4096) % 8) * 16 + ((FP_CTRL \div 16) % 16),
     num_literal_comparators |-> (FP_CTRL \div 256) % 16]

\* (FP_CTRL & ~3) | 2 and FP_CTRL | 3
fpb_disable == WriteCtrl(FP_CTRL - (FP_CTRL % 4) + 2) /\ UNCHANGED <<FP_COMP, result>>
fpb_enable == WriteCtrl(FP_CTRL - (FP_CTRL % 4) + 3) /\ UNCHANGED <<FP_COMP, result>>

Refuse(id, addr) ==
    result' = <<id, addr, FALSE>> /\ UNCHANGED <<FP_CTRL, FP_COMP>>

\* The word for a breakpoint at addr.
CompWord(addr) ==
    addr - (addr % 4) + 1 + (IF (addr \div 2) % 2 = 0 THEN 1 ELSE 2) * REPLACE

fpb_set_breakpoint(id, addr) ==
    LET config == fpb_get_config IN
    IF config.revision # 0 \/ id >= config.num_code_comparators \/ addr >= CodeLimit
    THEN Refuse(id, addr)
    ELSE /\ IF config.enabled THEN UNCHANGED FP_CTRL
            ELSE WriteCtrl(FP_CTRL - (FP_CTRL % 4) + 3)
         /\ FP_COMP' = [FP_COMP EXCEPT ![id] = CompWord(addr)]
         /\ result' = <<id, addr, TRUE>>

fpb_get_comp_config(id) ==
    LET w == FP_COMP[id]
        word == (w % CodeLimit) - (w % 4)
    IN  [enabled |-> w % 2 # 0, replace |-> w \div REPLACE,
         address |-> IF w \div REPLACE = 2 THEN word + 2 ELSE word]

\* What it prints of every code comparator, whatever the revision.
fpb_dump_breakpoint_config ==
    [id \in 0 .. fpb_get_config.num_code_comparators - 1 |-> fpb_get_comp_config(id)]

\* The early returns of fpb_get_comp_config.
IsReadable(id) ==
    /\ fpb_get_config.revision = 0
    /\ id < fpb_get_config.num_code_comparators + fpb_get_config.num_literal_comparators

Next ==
    \/ fpb_enable \/ fpb_disable
    \/ \E id \in Ids, addr \in Addresses : fpb_set_breakpoint(id, addr)

Spec == Init /\ [][Next]_vars

-----------------------------------------------------------------------------
(* Properties.                                                             *)

\* A comparator's report is true: enabled, it stops the processor at the
\* address reported and nowhere else; otherwise nowhere.
IsTrue(report, id) == Stops(FP_COMP[id]) = IF report.enabled THEN {report.address} ELSE {}

\* What the driver reports and prints is what the unit does, for code and
\* literal comparators and after any calls; every breakpoint is printed
\* (fpb.c:27-35, 93-94, 113-120).
ReportIsTrue ==
    /\ \A id \in Ids : IsReadable(id) => IsTrue(fpb_get_comp_config(id), id)
    /\ \A id \in DOMAIN FP_COMP : Stops(FP_COMP[id]) # {} =>
           id \in DOMAIN fpb_dump_breakpoint_config /\ IsTrue(fpb_dump_breakpoint_config[id], id)

\* Where a comparator stops the processor.
Where(w) == IF Stops(w) = {} THEN None ELSE CHOOSE a \in Stops(w) : TRUE

\* The comparators the driver can set: a unit of another revision has none.
Settable == IF Revision = 0 THEN NumCode ELSE 0

Table == INSTANCE BreakpointTable WITH
    NumCode <- Settable,
    table <- [id \in 0 .. Settable - 1 |-> Where(FP_COMP[id])],
    on <- FP_CTRL % 2 = 1

\* The registers are a table of breakpoints: a call that succeeds moves one
\* breakpoint and turns the unit on, one that fails changes nothing, and no
\* call disturbs another comparator or what the unit implements (fpb.c:43-97).
TableSpec == Table!Spec
=============================================================================
