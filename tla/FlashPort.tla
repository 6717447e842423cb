------------------------------ MODULE FlashPort ------------------------------
(***************************************************************************)
(* The flash map MCUboot works on and the NVMC driver below it: slots to   *)
(* areas, bounds and alignment checks, byte-wise programming, page erase   *)
(* and the read-back that asserts.  Sources: common/src/mcuboot_port.c and *)
(* common/src/minimal_nrf52_flash.c.                                       *)
(*                                                                         *)
(* A byte is the set of its one-bits: erasing sets every bit, programming  *)
(* can only clear bits.  Every register access of the driver is a step, so *)
(* a power loss can fall between any two, and into a running operation.    *)
(***************************************************************************)
EXTENDS Integers

CONSTANTS
    Bits,             \* the bits of a byte
    WORD,             \* bytes per flash word, 4 in the code
    SECTOR,           \* FLASH_SECTOR_SIZE, 4096 in the code
    BOOTLOADER_SIZE,  \* 32 KiB in the code
    APPLICATION_SIZE, \* 128 KiB in the code
    FLASH_SIZE,       \* of the device, 1 MiB on the nRF52840
    WIDTH,            \* 2^32, the range of uint32_t
    MaxOff,           \* bound: the offsets callers pass
    MaxWrite, MaxErase  \* bounds: the lengths they pass

\* The memory map of mcuboot_port.c:15-20, and callers whose offset and
\* length do not lead out of the device.
ASSUME FlashAssumption ==
    /\ WORD \in Nat \ {0} /\ SECTOR \in Nat \ {0} /\ SECTOR % WORD = 0
    /\ BOOTLOADER_SIZE \in Nat /\ BOOTLOADER_SIZE % SECTOR = 0
    /\ APPLICATION_SIZE \in Nat /\ APPLICATION_SIZE % SECTOR = 0
    /\ MaxOff \in Nat /\ MaxWrite \in Nat /\ MaxErase \in Nat
    /\ FLASH_SIZE \in Nat /\ WIDTH \in Nat /\ FLASH_SIZE < WIDTH
    /\ BOOTLOADER_SIZE + 2 * APPLICATION_SIZE <= FLASH_SIZE
    /\ MaxOff + MaxWrite < WIDTH
    /\ BOOTLOADER_SIZE + APPLICATION_SIZE + MaxOff + MaxErase <= FLASH_SIZE

VARIABLES
    flash,    \* the memory
    config,   \* NVMC CONFIG: "Ren", "Wen" or "Een"
    busy,     \* what NVMC is doing: "no", "program" or "erase"
    pc,       \* where the driver is
    op,       \* the operation: kind, slot, area offset, offset, length, data
    k,        \* the driver's loop index
    before    \* history: the memory when the operation began

vars == <<flash, config, busy, pc, op, k, before>>

Addr == 0 .. FLASH_SIZE - 1
Byte == SUBSET Bits
Erased == Bits
NoOp == [kind |-> "none", slot |-> 0, off |-> 0, len |-> 0, src |-> <<>>, addr |-> 0]

-----------------------------------------------------------------------------
(* Slots, areas and checks.                                                *)

FLASH_AREA_BOOTLOADER == 0

\* Mutant: an unknown slot yields the identifier of the bootloader's area.
SlotIdDefaultZero(image_index, slot) ==
    CASE image_index = 0 /\ slot = 0 -> 1
      [] image_index = 0 /\ slot = 1 -> 2
      [] OTHER -> 0

\* 255 names no area; -1 becomes 255 when it is passed on as a uint8_t.
flash_area_id_from_multi_image_slot(image_index, slot) ==
    CASE slot = 0 -> IF image_index = 0 THEN 1 ELSE 255
      [] slot = 1 -> IF image_index = 0 THEN 2 ELSE 255
      [] OTHER -> -1

flash_areas ==
    {[fa_id |-> FLASH_AREA_BOOTLOADER, fa_off |-> 0, fa_size |-> BOOTLOADER_SIZE],
     [fa_id |-> 1, fa_off |-> BOOTLOADER_SIZE, fa_size |-> APPLICATION_SIZE],
     [fa_id |-> 2, fa_off |-> BOOTLOADER_SIZE + APPLICATION_SIZE, fa_size |-> APPLICATION_SIZE]}

\* The areas flash_area_open finds for the slot: one or none.
flash_area_open(image_index, slot) ==
    {a \in flash_areas :
        a.fa_id = flash_area_id_from_multi_image_slot(image_index, slot) % 256}

InBounds(fa, off, len) == (off + len) % WIDTH <= fa.fa_size

\* Mutant: the length is not checked.
StartAligned(off, len) == off % SECTOR = 0

Aligned(off, len) == len % SECTOR = 0 /\ off % SECTOR = 0

-----------------------------------------------------------------------------
(* The NVMC and the memory.                                                *)

WordOf(a) == {x \in Addr : x \div WORD = a \div WORD}
PageOf(a) == {x \in Addr : x \div SECTOR = a \div SECTOR}

\* Mutant: the other bytes of the word are taken as zero.
ByteInZeroWord(a, v, x) == IF x = a THEN v ELSE {}

\* value32 of prv_write_byte, byte by byte: the word with one byte replaced.
value32(a, v, x) == IF x = a THEN v ELSE flash[x]

\* The byte the driver is at.
Here == op.addr + k

ProgramDone ==
    /\ busy = "program"
    /\ flash' = [x \in Addr |-> IF x \in WordOf(Here)
                                THEN flash[x] \cap value32(Here, op.src[k], x)
                                ELSE flash[x]]
    /\ busy' = "no"
    /\ UNCHANGED <<config, pc, op, k, before>>

EraseDone ==
    /\ busy = "erase"
    /\ flash' = [x \in Addr |-> IF x \in PageOf(Here) THEN Erased ELSE flash[x]]
    /\ busy' = "no"
    /\ UNCHANGED <<config, pc, op, k, before>>

\* Power is lost: a word being programmed keeps any part of its one-bits, a
\* page being erased holds anything, and the driver's state is gone.
PowerLoss ==
    /\ CASE busy = "program" ->
              \E f \in [WordOf(Here) -> Byte] :
                  /\ \A x \in WordOf(Here) : f[x] \subseteq flash[x]
                  /\ flash' = [x \in Addr |-> IF x \in WordOf(Here) THEN f[x] ELSE flash[x]]
         [] busy = "erase" ->
              \E f \in [PageOf(Here) -> Byte] :
                  flash' = [x \in Addr |-> IF x \in PageOf(Here) THEN f[x] ELSE flash[x]]
         [] OTHER -> UNCHANGED flash
    /\ config' = "Ren" /\ busy' = "no" /\ pc' = "idle" /\ op' = NoOp /\ k' = 0
    /\ before' = flash'

Init ==
    /\ flash = [x \in Addr |-> IF x < BOOTLOADER_SIZE THEN {} ELSE Erased]
    /\ config = "Ren" /\ busy = "no" /\ pc = "idle" /\ op = NoOp /\ k = 0
    /\ before = flash

-----------------------------------------------------------------------------
(* flash_area_write, example_internal_flash_write, prv_write_byte.         *)

Begin(kind, slot, fa, off, len, src) ==
    /\ op' = [kind |-> kind, slot |-> slot, off |-> off, len |-> len, src |-> src,
              addr |-> (fa.fa_off + off) % WIDTH]
    /\ k' = 0
    /\ before' = flash
    /\ pc' = kind
    /\ UNCHANGED <<flash, config, busy>>

flash_area_write(image_index, slot, off, len, src) ==
    /\ pc = "idle"
    /\ \E fa \in flash_area_open(image_index, slot) :
           InBounds(fa, off, len) /\ Begin("write", slot, fa, off, len, src)

\* Enable writing for the next byte.
WriteEnable ==
    /\ pc = "write" /\ k < op.len
    /\ config' = "Wen"
    /\ pc' = "store"
    /\ UNCHANGED <<flash, busy, op, k, before>>

StoreWord ==
    /\ pc = "store"
    /\ busy' = "program"
    /\ pc' = "wait"
    /\ UNCHANGED <<flash, config, op, k, before>>

\* The read-back compares the memory with the source; a difference asserts.
VerifyWrite ==
    /\ pc = "write" /\ k >= op.len
    /\ IF \A j \in 0 .. op.len - 1 : flash[op.addr + j] = op.src[j]
       THEN pc' = "idle" /\ op' = NoOp /\ k' = 0 /\ before' = flash
       ELSE pc' = "trap" /\ UNCHANGED <<op, k, before>>
    /\ UNCHANGED <<flash, config, busy>>

-----------------------------------------------------------------------------
(* flash_area_erase, example_internal_flash_erase_sector.                  *)

\* The code checks the alignment, and not whether the area ends before the
\* sectors do.
flash_area_erase(image_index, slot, off, len) ==
    /\ pc = "idle"
    /\ Aligned(off, len)
    /\ \E fa \in flash_area_open(image_index, slot) :
           Begin("erase", slot, fa, off, len, <<>>)

EraseEnable ==
    /\ pc = "erase" /\ k < op.len
    /\ config' = "Een"
    /\ pc' = "page"
    /\ UNCHANGED <<flash, busy, op, k, before>>

ErasePage ==
    /\ pc = "page"
    /\ busy' = "erase"
    /\ pc' = "wait"
    /\ UNCHANGED <<flash, config, op, k, before>>

VerifyErase ==
    /\ pc = "erase" /\ k >= op.len
    /\ IF \A j \in 0 .. op.len - 1 : flash[op.addr + j] = Erased
       THEN pc' = "idle" /\ op' = NoOp /\ k' = 0 /\ before' = flash
       ELSE pc' = "trap" /\ UNCHANGED <<op, k, before>>
    /\ UNCHANGED <<flash, config, busy>>

\* Mutant: the erase loop skips every other page.
StrideOfTwoPages == IF op.kind = "write" THEN 1 ELSE 2 * SECTOR

\* What the loops add to their index.
Stride == IF op.kind = "write" THEN 1 ELSE SECTOR

\* Mutant: read-only mode is restored without waiting for READY.
RestoreWithoutWaiting ==
    /\ pc = "wait"
    /\ config' = "Ren"
    /\ k' = k + Stride
    /\ pc' = op.kind
    /\ UNCHANGED <<flash, busy, op, before>>

\* Mutant: the index is not advanced.
WaitReadyAgain ==
    /\ pc = "wait" /\ busy = "no"
    /\ config' = "Ren"
    /\ pc' = op.kind
    /\ UNCHANGED <<flash, busy, op, k, before>>

\* prv_wait_for_flash_read, then back to read-only mode and the next round.
WaitReady ==
    /\ pc = "wait" /\ busy = "no"
    /\ config' = "Ren"
    /\ k' = k + Stride
    /\ pc' = op.kind
    /\ UNCHANGED <<flash, busy, op, before>>

-----------------------------------------------------------------------------
\* MCUboot asks for any operation, also for one that is refused.
Request ==
    \E image_index \in {0, 1}, slot \in {0, 1, 2}, off \in 0 .. MaxOff :
        \/ \E len \in 0 .. MaxWrite : \E src \in [0 .. len - 1 -> Byte] :
             flash_area_write(image_index, slot, off, len, src)
        \/ \E len \in 0 .. MaxErase : flash_area_erase(image_index, slot, off, len)

Driver ==
    \/ WriteEnable \/ StoreWord \/ VerifyWrite
    \/ EraseEnable \/ ErasePage \/ VerifyErase \/ WaitReady

Next == Request \/ Driver \/ ProgramDone \/ EraseDone \/ PowerLoss

Spec == Init /\ [][Next]_vars

\* The processor runs and the controller finishes what it started.
FairSpec == Spec /\ WF_vars(Driver) /\ WF_vars(ProgramDone) /\ WF_vars(EraseDone)

-----------------------------------------------------------------------------
(* Properties.                                                             *)

\* Type invariant: an operation lies inside the memory and the driver's index
\* inside the operation (mcuboot_port.c:154-161, 186-192).
TypeOK ==
    /\ flash \in [Addr -> Byte] /\ before \in [Addr -> Byte]
    /\ config \in {"Ren", "Wen", "Een"} /\ busy \in {"no", "program", "erase"}
    /\ pc \in {"idle", "write", "store", "erase", "page", "wait", "trap"}
    /\ op.addr \in Nat /\ op.len \in Nat
    /\ op.addr .. op.addr + op.len - 1 \subseteq Addr
    /\ k \in 0 .. op.len

\* The memory of an image slot.
SlotBytes(slot) ==
    {x \in Addr : /\ x >= BOOTLOADER_SIZE + slot * APPLICATION_SIZE
                  /\ x < BOOTLOADER_SIZE + (slot + 1) * APPLICATION_SIZE}

\* An erase whose sectors lead out of its slot: no check refuses it.
LeavesSlot == op.kind = "erase" /\ op.off + op.len > APPLICATION_SIZE

\* A step, a power loss in the middle of an operation included, changes only
\* the slot the operation was asked for, never the other slot and never the
\* bootloader; an erase that leads out of its slot changes no byte but those it
\* names, and these are not the bootloader's either
\* (mcuboot_port.c:49-75, 154-159, 180-193).
SlotIsolation ==
    [][\A x \in Addr : flash'[x] # flash[x] =>
          \/ op.kind # "none" /\ x \in SlotBytes(op.slot)
          \/ /\ LeavesSlot /\ x \in op.addr .. op.addr + op.len - 1
             /\ x >= BOOTLOADER_SIZE]_vars

\* How many bytes of a write are in the memory.
Written == IF pc = "wait" /\ busy = "no" THEN k + 1 ELSE k

\* At every step of a write the memory is what it was before, with exactly
\* the bytes written so far programmed over it: the neighbours that share a
\* word with them are as they were (minimal_nrf52_flash.c:55-72).
WriteProgress ==
    op.kind = "write" =>
        \A x \in Addr :
            flash[x] = IF x \in op.addr .. op.addr + Written - 1
                       THEN before[x] \cap op.src[x - op.addr]
                       ELSE before[x]

\* The read-back asserts only if a write asked for a one-bit where the memory
\* had a zero-bit, that is, where it was not erased; an erase never asserts
\* (mcuboot_port.c:165-170, 195-203).
TrapOnlyOnDirty ==
    pc = "trap" =>
        /\ op.kind = "write"
        /\ \E j \in 0 .. op.len - 1 : ~(op.src[j] \subseteq before[op.addr + j])

\* The controller works only in the mode the operation needs, and is back in
\* read-only mode whenever the driver is not (minimal_nrf52_flash.c:61-71,
\* 86-100).
ModeMatches ==
    /\ busy = "program" => config = "Wen"
    /\ busy = "erase" => config = "Een"
    /\ pc \in {"idle", "trap"} => config = "Ren" /\ busy = "no"

\* Every operation returns, asserts or is cut short by a power loss.
OperationEnds == pc \notin {"idle", "trap"} ~> pc \in {"idle", "trap"}
=============================================================================
