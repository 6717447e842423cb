-------------------------- MODULE FlashPortProofs ---------------------------
(***************************************************************************)
(* Proofs about the flash map and the NVMC driver, for every memory map,   *)
(* word and sector size and every byte width.                              *)
(***************************************************************************)
EXTENDS FlashPort, TLAPS

-----------------------------------------------------------------------------
(* Words, sectors and slots.                                               *)

\* Division with remainder.
LEMMA DivMod ==
    ASSUME NEW m \in Nat \ {0}, NEW a \in Nat
    PROVE  /\ a \div m \in Nat /\ a % m \in 0 .. m - 1
           /\ a = m * (a \div m) + (a % m)
  BY SMT

\* A product is a multiple.
LEMMA MultipleOf ==
    ASSUME NEW m \in Nat \ {0}, NEW c \in Nat
    PROVE  m * c \in Nat /\ (m * c) % m = 0 /\ (m * c) \div m = c
  BY SMT

\* Multiples add up to multiples, and different ones are at least m apart.
LEMMA Multiples ==
    ASSUME NEW m \in Nat \ {0}, NEW a \in Nat, a % m = 0, NEW b \in Nat, b % m = 0
    PROVE  (a + b) % m = 0 /\ (a < b => a + m <= b)
<1> DEFINE c == a \div m
           d == b \div m
<1>1. c \in Nat /\ d \in Nat /\ a = m * c /\ b = m * d
  BY SMT, DivMod
<1> HIDE DEF c, d
<1>2. a + b = m * (c + d) /\ c + d \in Nat
  BY SMT, <1>1
<1>3. (a + b) % m = 0
  BY <1>2, MultipleOf
<1>4. ASSUME a < b PROVE a + m <= b
  <2>1. c + 1 <= d
    <3> SUFFICES ASSUME d <= c PROVE FALSE
      BY SMT, <1>1
    <3>1. m * d <= m * c
      BY SMT, <1>1
    <3>2. QED
      BY SMT, <3>1, <1>1, <1>4
  <2>2. m * (c + 1) <= m * d
    BY SMT, <2>1, <1>1
  <2>3. m * (c + 1) = a + m
    BY SMT, <1>1
  <2>4. QED
    BY <2>2, <2>3, <1>1
<1>5. QED
  BY <1>3, <1>4

\* A multiple of a multiple.
LEMMA MultipleTransitive ==
    ASSUME NEW m \in Nat \ {0}, NEW n \in Nat \ {0}, n % m = 0, NEW a \in Nat, a % n = 0
    PROVE  a % m = 0
<1> DEFINE c == n \div m
           d == a \div n
<1>1. c \in Nat /\ d \in Nat /\ n = m * c /\ a = n * d
  BY SMT, DivMod
<1> HIDE DEF c, d
<1>2. a = m * (c * d) /\ c * d \in Nat
  BY SMT, <1>1
<1>3. QED
  BY <1>2, MultipleOf

\* No word or sector lies across a boundary that is a multiple of its size.
LEMMA SameBlock ==
    ASSUME NEW m \in Nat \ {0}, NEW b \in Nat, b % m = 0,
           NEW x \in Nat, NEW y \in Nat, x \div m = y \div m, x >= b
    PROVE  y >= b
<1> DEFINE c == b \div m
           q == x \div m
<1>1. c \in Nat /\ b = m * c
  BY SMT, DivMod
<1>2. /\ q \in Nat /\ x = m * q + (x % m) /\ x % m \in 0 .. m - 1
      /\ y = m * q + (y % m) /\ y % m \in 0 .. m - 1
  BY DivMod
<1> HIDE DEF c, q
<1>3. q >= c
  <2> SUFFICES ASSUME q + 1 <= c PROVE FALSE
    BY SMT, <1>1, <1>2
  <2>1. m * (q + 1) <= m * c
    BY SMT, <1>1, <1>2
  <2>2. m * (q + 1) = m * q + m
    BY SMT, <1>2
  <2>3. QED
    BY SMT, <2>1, <2>2, <1>1, <1>2
<1>4. m * q >= m * c
  BY SMT, <1>1, <1>2, <1>3
<1>5. QED
  BY SMT, <1>1, <1>2, <1>4

\* A sector starts at a multiple and has its size.
LEMMA BlockOf ==
    ASSUME NEW m \in Nat \ {0}, NEW a \in Nat, a % m = 0, NEW x \in Nat
    PROVE  x \div m = a \div m <=> a <= x /\ x < a + m
  BY SMT

\* Where a slot begins.
SlotStart(s) == BOOTLOADER_SIZE + s * APPLICATION_SIZE

\* A slot is APPLICATION_SIZE bytes of the memory, and its ends are boundaries
\* of words and sectors (mcuboot_port.c:15-20).
LEMMA SlotBounds ==
    ASSUME NEW s \in {0, 1}
    PROVE  /\ SlotStart(s) \in Nat /\ SlotStart(s) + APPLICATION_SIZE \in Nat
           /\ SlotStart(s) % SECTOR = 0 /\ (SlotStart(s) + APPLICATION_SIZE) % SECTOR = 0
           /\ SlotStart(s) % WORD = 0 /\ (SlotStart(s) + APPLICATION_SIZE) % WORD = 0
           /\ SlotBytes(s) = {x \in Nat : x >= SlotStart(s)
                                          /\ x < SlotStart(s) + APPLICATION_SIZE}
           /\ SlotBytes(s) \subseteq Addr
<1>1. /\ BOOTLOADER_SIZE \in Nat /\ BOOTLOADER_SIZE % SECTOR = 0
      /\ APPLICATION_SIZE \in Nat /\ APPLICATION_SIZE % SECTOR = 0
      /\ SECTOR \in Nat \ {0} /\ WORD \in Nat \ {0} /\ SECTOR % WORD = 0
      /\ FLASH_SIZE \in Nat /\ BOOTLOADER_SIZE + 2 * APPLICATION_SIZE <= FLASH_SIZE
  BY FlashAssumption
<1>2. /\ SlotStart(s) \in Nat
      /\ SlotStart(s) = IF s = 0 THEN BOOTLOADER_SIZE ELSE BOOTLOADER_SIZE + APPLICATION_SIZE
  BY SMT, <1>1 DEF SlotStart
<1>3. SlotStart(s) % SECTOR = 0
  <2>1. (BOOTLOADER_SIZE + APPLICATION_SIZE) % SECTOR = 0
    BY <1>1, Multiples
  <2>2. QED
    BY <2>1, <1>1, <1>2
<1>4. SlotStart(s) + APPLICATION_SIZE \in Nat /\ (SlotStart(s) + APPLICATION_SIZE) % SECTOR = 0
  <2>1. SlotStart(s) + APPLICATION_SIZE \in Nat
    BY SMT, <1>1, <1>2
  <2>2. QED
    BY <2>1, <1>1, <1>2, <1>3, Multiples
<1>5. SlotStart(s) % WORD = 0 /\ (SlotStart(s) + APPLICATION_SIZE) % WORD = 0
  BY <1>1, <1>2, <1>3, <1>4, MultipleTransitive
<1>6. /\ SlotBytes(s) = {x \in Nat : x >= SlotStart(s) /\ x < SlotStart(s) + APPLICATION_SIZE}
      /\ SlotBytes(s) \subseteq Addr
  BY SMT, <1>1 DEF SlotBytes, SlotStart, Addr
<1>7. QED
  BY <1>2, <1>3, <1>4, <1>5, <1>6

\* The word of a byte of a slot lies in the slot.
LEMMA WordInSlot ==
    ASSUME NEW s \in {0, 1}, NEW a \in SlotBytes(s)
    PROVE  WordOf(a) \subseteq SlotBytes(s)
<1> DEFINE low == SlotStart(s)
           high == SlotStart(s) + APPLICATION_SIZE
<1>1. /\ low \in Nat /\ low % WORD = 0 /\ high \in Nat /\ high % WORD = 0
      /\ SlotBytes(s) = {x \in Nat : x >= low /\ x < high} /\ WORD \in Nat \ {0}
  BY SlotBounds, FlashAssumption
<1>2. a \in Nat /\ a >= low /\ a < high /\ Addr \subseteq Nat
  BY <1>1 DEF Addr
<1> HIDE DEF low, high
<1>3. ASSUME NEW x \in Nat, x \div WORD = a \div WORD
      PROVE  x >= low /\ x < high
  <2>1. x >= low
    BY <1>1, <1>2, <1>3, SameBlock
  <2>2. x >= high => a >= high
    BY <1>1, <1>2, <1>3, SameBlock
  <2>3. QED
    BY SMT, <2>1, <2>2, <1>1, <1>2
<1>4. QED
  BY <1>1, <1>2, <1>3 DEF WordOf

-----------------------------------------------------------------------------
(* The inductive invariant.                                                *)

\* A write lies inside its slot; an erase is made of whole sectors, begins at
\* its offset in its slot and ends inside the memory.
OpOK ==
    /\ op.kind \in {"none", "write", "erase"} /\ op.addr \in Nat /\ op.len \in Nat
    /\ op.kind = "none" <=> pc = "idle"
    /\ op.kind = "none" => op.len = 0
    /\ op.kind # "none" => op.slot \in {0, 1}
    /\ op.kind = "write" => /\ op.addr .. op.addr + op.len - 1 \subseteq SlotBytes(op.slot)
                           /\ op.src \in [0 .. op.len - 1 -> Byte]
    /\ op.kind = "erase" => /\ op.off \in Nat /\ op.addr = SlotStart(op.slot) + op.off
                           /\ op.addr % SECTOR = 0 /\ op.len % SECTOR = 0 /\ k % SECTOR = 0

\* Where the driver is says which operation it performs, what the controller
\* may be doing and which mode it is in.
DriverOK ==
    /\ pc \in {"write", "store"} => op.kind = "write"
    /\ pc \in {"erase", "page"} => op.kind = "erase"
    /\ pc \in {"store", "page", "wait"} => k < op.len
    /\ busy = "program" => pc = "wait" /\ op.kind = "write"
    /\ busy = "erase" => pc = "wait" /\ op.kind = "erase"
    /\ config = IF pc = "store" \/ (pc = "wait" /\ op.kind = "write") THEN "Wen"
                ELSE IF pc = "page" \/ (pc = "wait" /\ op.kind = "erase") THEN "Een"
                ELSE "Ren"

\* How many bytes of an erase are done.
Cleared == IF pc = "wait" /\ busy = "no" THEN k + SECTOR ELSE k

\* At every step of an erase the pages done are erased and the rest of the
\* memory is as it was.
EraseProgress ==
    op.kind = "erase" =>
        \A x \in Addr :
            flash[x] = IF x \in op.addr .. op.addr + Cleared - 1 THEN Erased ELSE before[x]

\* The inductive invariant.
FlashInv ==
    /\ TypeOK /\ OpOK /\ DriverOK
    /\ WriteProgress /\ EraseProgress /\ TrapOnlyOnDirty

-----------------------------------------------------------------------------
(* What a request starts.                                                  *)

\* Only the two slots of image 0 have an area (mcuboot_port.c:49-75, 113-118).
LEMMA OpenArea ==
    ASSUME NEW image_index \in {0, 1}, NEW slot \in {0, 1, 2},
           NEW fa \in flash_area_open(image_index, slot)
    PROVE  slot \in {0, 1} /\ fa.fa_off = SlotStart(slot) /\ fa.fa_size = APPLICATION_SIZE
<1>1. BOOTLOADER_SIZE \in Nat /\ APPLICATION_SIZE \in Nat
  BY FlashAssumption
<1>2. fa \in flash_areas /\ fa.fa_id = flash_area_id_from_multi_image_slot(image_index, slot) % 256
  BY DEF flash_area_open
<1>3. fa.fa_id \in {0, 1, 2}
  BY <1>2 DEF flash_areas, FLASH_AREA_BOOTLOADER
<1>4. /\ slot = 0 => fa.fa_id = 1
      /\ slot = 1 => fa.fa_id = 2
      /\ slot # 2
  BY SMT, <1>2, <1>3 DEF flash_area_id_from_multi_image_slot
<1>5. /\ fa.fa_id = 1 => fa.fa_off = BOOTLOADER_SIZE /\ fa.fa_size = APPLICATION_SIZE
      /\ fa.fa_id = 2 => /\ fa.fa_off = BOOTLOADER_SIZE + APPLICATION_SIZE
                         /\ fa.fa_size = APPLICATION_SIZE
  BY SMT, <1>2 DEF flash_areas, FLASH_AREA_BOOTLOADER
<1>6. SlotStart(0) = BOOTLOADER_SIZE /\ SlotStart(1) = BOOTLOADER_SIZE + APPLICATION_SIZE
  BY SMT, <1>1 DEF SlotStart
<1>7. QED
  BY <1>4, <1>5, <1>6

\* Below 2^32 nothing wraps around.
LEMMA NoWrap ==
    ASSUME NEW slot \in {0, 1}, NEW off \in 0 .. MaxOff
    PROVE  /\ \A len \in 0 .. MaxWrite : (off + len) % WIDTH = off + len
           /\ (SlotStart(slot) + off) % WIDTH = SlotStart(slot) + off
<1>1. /\ BOOTLOADER_SIZE \in Nat /\ APPLICATION_SIZE \in Nat /\ MaxOff \in Nat
      /\ MaxWrite \in Nat /\ MaxErase \in Nat /\ FLASH_SIZE \in Nat /\ WIDTH \in Nat
      /\ MaxOff + MaxWrite < WIDTH /\ FLASH_SIZE < WIDTH
      /\ BOOTLOADER_SIZE + APPLICATION_SIZE + MaxOff + MaxErase <= FLASH_SIZE
  BY FlashAssumption
<1>2. \A y \in Nat : y < WIDTH => y % WIDTH = y
  BY SMT, <1>1
<1>3. /\ \A len \in 0 .. MaxWrite : off + len \in Nat /\ off + len < WIDTH
      /\ SlotStart(slot) + off \in Nat /\ SlotStart(slot) + off < WIDTH
  BY SMT, <1>1 DEF SlotStart
<1>4. QED
  BY <1>2, <1>3

\* Bytes that end before their slot does lie inside it.
LEMMA RangeInSlot ==
    ASSUME NEW slot \in {0, 1}, NEW off \in Nat, NEW len \in Nat,
           off + len <= APPLICATION_SIZE
    PROVE  SlotStart(slot) + off .. SlotStart(slot) + off + len - 1 \subseteq SlotBytes(slot)
<1>1. /\ APPLICATION_SIZE \in Nat /\ SlotStart(slot) \in Nat
      /\ SlotBytes(slot) = {x \in Nat : x >= SlotStart(slot)
                                        /\ x < SlotStart(slot) + APPLICATION_SIZE}
  BY FlashAssumption, SlotBounds
<1>2. QED
  BY SMT, <1>1

\* An erase stays inside the memory, and starts behind the bootloader.
LEMMA EraseInFlash ==
    ASSUME NEW slot \in {0, 1}, NEW off \in 0 .. MaxOff, NEW len \in 0 .. MaxErase
    PROVE  SlotStart(slot) + off .. SlotStart(slot) + off + len - 1 \subseteq Addr
<1>1. /\ BOOTLOADER_SIZE \in Nat /\ APPLICATION_SIZE \in Nat /\ MaxOff \in Nat
      /\ MaxErase \in Nat /\ FLASH_SIZE \in Nat
      /\ BOOTLOADER_SIZE + APPLICATION_SIZE + MaxOff + MaxErase <= FLASH_SIZE
  BY FlashAssumption
<1>2. /\ SlotStart(slot) \in Nat /\ SlotStart(slot) >= BOOTLOADER_SIZE
      /\ SlotStart(slot) <= BOOTLOADER_SIZE + APPLICATION_SIZE
  BY SMT, <1>1 DEF SlotStart
<1>3. QED
  BY SMT, <1>1, <1>2 DEF Addr

-----------------------------------------------------------------------------
(* What a running operation touches.                                       *)

\* The driver is at a byte of its operation, and when it writes of its slot.
LEMMA HereInOp ==
    ASSUME FlashInv, pc = "wait"
    PROVE  /\ op.kind \in {"write", "erase"} /\ op.slot \in {0, 1} /\ k \in Nat /\ k < op.len
           /\ Here \in Addr /\ (op.kind = "write" => Here \in SlotBytes(op.slot))
<1>1. /\ op.kind \in {"write", "erase"} /\ op.slot \in {0, 1} /\ k < op.len /\ k \in 0 .. op.len
      /\ op.addr \in Nat /\ op.len \in Nat
      /\ op.addr .. op.addr + op.len - 1 \subseteq Addr
      /\ op.kind = "write" => op.addr .. op.addr + op.len - 1 \subseteq SlotBytes(op.slot)
  BY DEF FlashInv, TypeOK, OpOK, DriverOK
<1>2. Here \in op.addr .. op.addr + op.len - 1
  BY SMT, <1>1 DEF Here
<1>3. QED
  BY <1>1, <1>2

\* While an erase runs the page at hand is the driver's next SECTOR bytes, and
\* they are part of the operation.
LEMMA PageHere ==
    ASSUME FlashInv, pc = "wait", op.kind = "erase"
    PROVE  /\ k + SECTOR \in 0 .. op.len /\ (k + SECTOR) % SECTOR = 0
           /\ PageOf(Here) = {x \in Addr : x \in op.addr + k .. op.addr + k + SECTOR - 1}
<1>1. /\ op.addr \in Nat /\ op.len \in Nat /\ op.addr % SECTOR = 0 /\ op.len % SECTOR = 0
      /\ k % SECTOR = 0 /\ k \in Nat /\ k < op.len /\ SECTOR \in Nat \ {0} /\ Addr \subseteq Nat
  BY HereInOp, FlashAssumption DEF FlashInv, OpOK, Addr
<1>2. k + SECTOR <= op.len
  BY <1>1, Multiples
<1>3. SECTOR % SECTOR = 0
  BY SMT, <1>1
<1>4. (k + SECTOR) % SECTOR = 0
  BY <1>1, <1>3, Multiples
<1>5. Here \in Nat /\ Here % SECTOR = 0
  BY <1>1, Multiples DEF Here
<1>6. \A x \in Addr : x \div SECTOR = Here \div SECTOR <=> Here <= x /\ x < Here + SECTOR
  BY <1>1, <1>5, BlockOf
<1>7. \A x \in Addr : Here <= x /\ x < Here + SECTOR
                      <=> x \in op.addr + k .. op.addr + k + SECTOR - 1
  BY SMT, <1>1 DEF Here
<1>8. PageOf(Here) = {x \in Addr : x \in op.addr + k .. op.addr + k + SECTOR - 1}
  BY <1>6, <1>7 DEF PageOf
<1>9. QED
  BY SMT, <1>1, <1>2, <1>4, <1>8

-----------------------------------------------------------------------------
(* The invariant is inductive.                                             *)

\* No operation is under way.
Idle ==
    /\ flash \in [Addr -> Byte] /\ before = flash /\ config = "Ren" /\ busy = "no"
    /\ pc = "idle" /\ op = NoOp /\ k = 0

\* With no operation under way the invariant is about the memory alone.
LEMMA IdleInv == Idle => FlashInv
<1> SUFFICES ASSUME Idle PROVE FlashInv
  OBVIOUS
<1> USE DEF Idle
<1>1. op.kind = "none" /\ op.addr = 0 /\ op.len = 0
  BY DEF NoOp
<1>2. 0 .. 0 + 0 - 1 \subseteq Addr /\ 0 \in 0 .. 0
  BY SMT
<1>3. TypeOK
  BY <1>1, <1>2 DEF TypeOK
<1>4. OpOK /\ DriverOK
  BY <1>1 DEF OpOK, DriverOK
<1>5. QED
  BY <1>1, <1>3, <1>4 DEF FlashInv, WriteProgress, EraseProgress, TrapOnlyOnDirty

\* The same of the state after a step.
LEMMA IdleInvNext == Idle' => FlashInv'
  BY IdleInv, PTL

\* A request starts a write inside its slot or an erase inside the memory.
LEMMA RequestInv ==
    ASSUME FlashInv, Request
    PROVE  FlashInv'
<1>1. PICK image_index \in {0, 1}, slot \in {0, 1, 2}, off \in 0 .. MaxOff :
        \/ \E len \in 0 .. MaxWrite : \E src \in [0 .. len - 1 -> Byte] :
             flash_area_write(image_index, slot, off, len, src)
        \/ \E len \in 0 .. MaxErase : flash_area_erase(image_index, slot, off, len)
  BY DEF Request
<1> DEFINE addr == SlotStart(slot) + off
<1>2. PICK kind, fa, len, src :
        /\ kind \in {"write", "erase"} /\ fa \in flash_area_open(image_index, slot)
        /\ pc = "idle" /\ Begin(kind, slot, fa, off, len, src)
        /\ kind = "write" => /\ len \in 0 .. MaxWrite /\ InBounds(fa, off, len)
                             /\ src \in [0 .. len - 1 -> Byte]
        /\ kind = "erase" => len \in 0 .. MaxErase /\ Aligned(off, len)
  <2>1. CASE \E len \in 0 .. MaxWrite : \E src \in [0 .. len - 1 -> Byte] :
               flash_area_write(image_index, slot, off, len, src)
    BY <2>1 DEF flash_area_write
  <2>2. CASE \E len \in 0 .. MaxErase : flash_area_erase(image_index, slot, off, len)
    BY <2>2 DEF flash_area_erase
  <2>3. QED
    BY <1>1, <2>1, <2>2
<1>3. /\ slot \in {0, 1} /\ fa.fa_off = SlotStart(slot) /\ fa.fa_size = APPLICATION_SIZE
  BY <1>2, OpenArea
<1>4. /\ (fa.fa_off + off) % WIDTH = addr
      /\ kind = "write" => (off + len) % WIDTH = off + len
  BY <1>2, <1>3, NoWrap
<1>6. addr \in Nat /\ len \in Nat /\ off \in Nat /\ 0 \in 0 .. len
  <2>1. SlotStart(slot) \in Nat /\ MaxOff \in Nat /\ MaxWrite \in Nat /\ MaxErase \in Nat
    BY <1>3, SlotBounds, FlashAssumption
  <2>2. len \in Nat
    BY <1>2, <2>1
  <2>3. QED
    BY SMT, <2>1, <2>2
<1>5. kind = "write" => addr .. addr + len - 1 \subseteq SlotBytes(slot)
  BY <1>2, <1>3, <1>4, <1>6, RangeInSlot DEF InBounds
<1>7. kind = "erase" => addr % SECTOR = 0 /\ len % SECTOR = 0 /\ 0 % SECTOR = 0
  <2>1. SECTOR \in Nat \ {0} /\ SlotStart(slot) % SECTOR = 0 /\ SlotStart(slot) \in Nat
    BY <1>3, SlotBounds, FlashAssumption
  <2>2. 0 % SECTOR = 0
    BY SMT, <2>1
  <2>3. QED
    BY <1>2, <1>6, <2>1, <2>2, Multiples DEF Aligned
<1> HIDE DEF addr
<1>8. /\ op' = [kind |-> kind, slot |-> slot, off |-> off, len |-> len, src |-> src, addr |-> addr]
      /\ k' = 0 /\ before' = flash /\ pc' = kind /\ pc = "idle"
      /\ flash' = flash /\ config' = config /\ busy' = busy
  BY <1>2, <1>4 DEF Begin
<1>9. /\ op'.kind = kind /\ op'.slot = slot /\ op'.off = off /\ op'.len = len /\ op'.src = src /\ op'.addr = addr
  BY <1>8
<1>10. /\ flash \in [Addr -> Byte] /\ config = "Ren" /\ busy = "no"
  BY <1>8 DEF FlashInv, TypeOK, DriverOK
<1>11. TypeOK'
  <2>1. addr .. addr + len - 1 \subseteq Addr
    BY <1>2, <1>3, <1>5, SlotBounds, EraseInFlash DEF addr
  <2>2. QED
    BY <1>2, <1>6, <1>8, <1>9, <1>10, <2>1 DEF TypeOK
<1>12. OpOK'
  BY <1>2, <1>3, <1>5, <1>6, <1>7, <1>8, <1>9 DEF OpOK, addr
<1>13. DriverOK'
  BY <1>2, <1>8, <1>9, <1>10 DEF DriverOK
<1>14. WriteProgress' /\ EraseProgress'
  <2>1. addr .. addr + 0 - 1 = {}
    BY SMT, <1>6
  <2>2. Written' = 0 /\ Cleared' = 0
    BY <1>2, <1>8 DEF Written, Cleared
  <2>3. QED
    BY <1>8, <1>9, <2>1, <2>2 DEF WriteProgress, EraseProgress
<1>15. TrapOnlyOnDirty'
  BY <1>2, <1>8 DEF TrapOnlyOnDirty
<1>16. QED
  BY <1>11, <1>12, <1>13, <1>14, <1>15 DEF FlashInv

\* Enabling a mode and starting the controller leave memory and index alone.
LEMMA StartInv ==
    ASSUME FlashInv, WriteEnable \/ StoreWord \/ EraseEnable \/ ErasePage
    PROVE  FlashInv'
<1>1. /\ flash' = flash /\ op' = op /\ k' = k /\ before' = before
      /\ pc # "idle" /\ pc' # "idle" /\ pc' # "trap" /\ pc # "wait"
      /\ k < op.len /\ busy = "no"
      /\ \/ pc' = "store" /\ config' = "Wen" /\ busy' = "no" /\ op.kind = "write"
         \/ pc' = "wait" /\ config' = "Wen" /\ busy' = "program" /\ op.kind = "write"
         \/ pc' = "page" /\ config' = "Een" /\ busy' = "no" /\ op.kind = "erase"
         \/ pc' = "wait" /\ config' = "Een" /\ busy' = "erase" /\ op.kind = "erase"
  BY DEF FlashInv, TypeOK, DriverOK, WriteEnable, StoreWord, EraseEnable, ErasePage
<1>2. TypeOK' /\ OpOK' /\ DriverOK'
  <2>1. TypeOK'
    BY <1>1 DEF FlashInv, TypeOK
  <2>2. OpOK'
    BY <1>1 DEF FlashInv, OpOK
  <2>3. DriverOK'
    BY <1>1 DEF DriverOK
  <2>4. QED
    BY <2>1, <2>2, <2>3
<1>3. Written' = Written /\ Cleared' = Cleared
  BY <1>1 DEF Written, Cleared
<1>4. QED
  BY <1>1, <1>2, <1>3 DEF FlashInv, WriteProgress, EraseProgress, TrapOnlyOnDirty

\* Programming a word changes one byte: the others are programmed with what
\* they hold (minimal_nrf52_flash.c:55-72).
LEMMA ProgramOneByte ==
    ASSUME FlashInv, ProgramDone
    PROVE  flash' = [x \in Addr |-> IF x = Here THEN flash[x] \cap op.src[k] ELSE flash[x]]
<1>1. pc = "wait"
  BY DEF FlashInv, DriverOK, ProgramDone
<1>2. Here \in WordOf(Here)
  BY <1>1, HereInOp DEF WordOf
<1>3. \A x \in Addr :
        (IF x \in WordOf(Here) THEN flash[x] \cap value32(Here, op.src[k], x) ELSE flash[x])
          = IF x = Here THEN flash[x] \cap op.src[k] ELSE flash[x]
  BY <1>2 DEF value32
<1>4. QED
  BY <1>3 DEF ProgramDone

\* The word is programmed: the write is one byte further.
LEMMA ProgramInv ==
    ASSUME FlashInv, ProgramDone
    PROVE  FlashInv'
<1>1. /\ busy = "program" /\ busy' = "no" /\ config' = config /\ pc' = pc /\ op' = op /\ k' = k
      /\ before' = before /\ pc = "wait" /\ op.kind = "write" /\ config = "Wen"
  BY DEF FlashInv, DriverOK, ProgramDone
<1>2. flash' = [x \in Addr |-> IF x = Here THEN flash[x] \cap op.src[k] ELSE flash[x]]
  BY ProgramOneByte
<1>3. flash' \in [Addr -> Byte]
  <2>1. \A x \in Addr : flash[x] \in SUBSET Bits
    BY DEF FlashInv, TypeOK, Byte
  <2>2. QED
    BY <1>2, <2>1 DEF Byte
<1>4. TypeOK' /\ OpOK' /\ DriverOK'
  <2>1. TypeOK'
    BY <1>1, <1>3 DEF FlashInv, TypeOK
  <2>2. OpOK'
    BY <1>1 DEF FlashInv, OpOK
  <2>3. DriverOK'
    BY <1>1 DEF FlashInv, DriverOK
  <2>4. QED
    BY <2>1, <2>2, <2>3
<1>5. WriteProgress'
  <2>1. op.addr \in Nat /\ k \in Nat /\ Written = k /\ Written' = k + 1 /\ Addr \subseteq Nat
    BY <1>1, HereInOp DEF FlashInv, TypeOK, Written, Addr
  <2>2. \A x \in Addr : flash[x] = IF x \in op.addr .. op.addr + k - 1
                                   THEN before[x] \cap op.src[x - op.addr]
                                   ELSE before[x]
    BY <1>1, <2>1 DEF FlashInv, WriteProgress
  <2>3. SUFFICES ASSUME NEW x \in Addr
                 PROVE  flash'[x] = IF x \in op.addr .. op.addr + (k + 1) - 1
                                    THEN before[x] \cap op.src[x - op.addr]
                                    ELSE before[x]
    BY <1>1, <2>1 DEF WriteProgress
  <2>4. CASE x = Here
    <3>1. /\ x \notin op.addr .. op.addr + k - 1
          /\ x \in op.addr .. op.addr + (k + 1) - 1 /\ x - op.addr = k
      BY SMT, <2>1, <2>4 DEF Here
    <3>2. flash'[x] = flash[x] \cap op.src[k] /\ flash[x] = before[x]
      BY <1>2, <2>2, <2>4, <3>1
    <3>3. QED
      BY <3>1, <3>2
  <2>5. CASE x # Here
    <3>1. x \in op.addr .. op.addr + k - 1 <=> x \in op.addr .. op.addr + (k + 1) - 1
      BY SMT, <2>1, <2>5 DEF Here
    <3>2. flash'[x] = flash[x]
      BY <1>2, <2>5
    <3>3. QED
      BY <3>1, <3>2, <2>2
  <2>6. QED
    BY <2>4, <2>5
<1>6. EraseProgress' /\ TrapOnlyOnDirty'
  BY <1>1 DEF EraseProgress, TrapOnlyOnDirty
<1>7. QED
  BY <1>4, <1>5, <1>6 DEF FlashInv

\* The page is erased: the erase is one sector further.
LEMMA EraseDoneInv ==
    ASSUME FlashInv, EraseDone
    PROVE  FlashInv'
<1>1. /\ busy = "erase" /\ busy' = "no" /\ config' = config /\ pc' = pc /\ op' = op /\ k' = k
      /\ before' = before /\ pc = "wait" /\ op.kind = "erase" /\ config = "Een"
      /\ flash' = [x \in Addr |-> IF x \in PageOf(Here) THEN Erased ELSE flash[x]]
  BY DEF FlashInv, DriverOK, EraseDone
<1>2. flash' \in [Addr -> Byte]
  <2>1. Erased \in Byte /\ \A x \in Addr : flash[x] \in Byte
    BY DEF FlashInv, TypeOK, Byte, Erased
  <2>2. QED
    BY <1>1, <2>1
<1>3. TypeOK' /\ OpOK' /\ DriverOK'
  <2>1. TypeOK'
    BY <1>1, <1>2 DEF FlashInv, TypeOK
  <2>2. OpOK'
    BY <1>1 DEF FlashInv, OpOK
  <2>3. DriverOK'
    BY <1>1 DEF FlashInv, DriverOK
  <2>4. QED
    BY <2>1, <2>2, <2>3
<1>4. EraseProgress'
  <2>1. /\ op.addr \in Nat /\ k \in Nat /\ Cleared = k /\ Cleared' = k + SECTOR
        /\ Addr \subseteq Nat /\ SECTOR \in Nat \ {0}
    BY <1>1, HereInOp, FlashAssumption DEF FlashInv, TypeOK, Cleared, Addr
  <2>2. \A x \in Addr : flash[x] = IF x \in op.addr .. op.addr + k - 1 THEN Erased ELSE before[x]
    BY <1>1, <2>1 DEF FlashInv, EraseProgress
  <2>3. SUFFICES ASSUME NEW x \in Addr
                 PROVE  flash'[x] = IF x \in op.addr .. op.addr + (k + SECTOR) - 1
                                    THEN Erased ELSE before[x]
    BY <1>1, <2>1 DEF EraseProgress
  <2>4. x \in PageOf(Here) <=> x \in op.addr + k .. op.addr + k + SECTOR - 1
    BY <1>1, PageHere
  <2>5. x \in op.addr .. op.addr + (k + SECTOR) - 1
          <=> \/ x \in op.addr .. op.addr + k - 1
              \/ x \in op.addr + k .. op.addr + k + SECTOR - 1
    BY SMT, <2>1
  <2>6. flash'[x] = IF x \in PageOf(Here) THEN Erased ELSE flash[x]
    BY <1>1
  <2>7. QED
    BY <2>2, <2>4, <2>5, <2>6
<1>5. WriteProgress' /\ TrapOnlyOnDirty'
  BY <1>1 DEF WriteProgress, TrapOnlyOnDirty
<1>6. QED
  BY <1>3, <1>4, <1>5 DEF FlashInv

\* The driver returns to read-only mode and to the head of its loop.
LEMMA WaitReadyInv ==
    ASSUME FlashInv, WaitReady
    PROVE  FlashInv'
<1>1. /\ pc = "wait" /\ busy = "no" /\ config' = "Ren" /\ k' = k + Stride /\ pc' = op.kind
      /\ flash' = flash /\ busy' = busy /\ op' = op /\ before' = before
  BY DEF WaitReady
<1>2. /\ op.kind \in {"write", "erase"} /\ k \in Nat /\ k < op.len /\ op.len \in Nat
  BY <1>1, HereInOp DEF FlashInv, TypeOK
<1>3. k' \in 0 .. op.len
  <2>1. CASE op.kind = "write"
    BY SMT, <1>1, <1>2, <2>1 DEF Stride
  <2>2. CASE op.kind = "erase"
    BY <1>1, <2>2, PageHere DEF Stride
  <2>3. QED
    BY <1>2, <2>1, <2>2
<1>4. op.kind = "erase" => k' % SECTOR = 0
  BY <1>1, PageHere DEF Stride
<1>5. TypeOK'
  BY <1>1, <1>2, <1>3 DEF FlashInv, TypeOK
<1>6. OpOK' /\ DriverOK'
  <2>1. OpOK'
    BY <1>1, <1>2, <1>4 DEF FlashInv, OpOK
  <2>2. DriverOK'
    BY <1>1, <1>2 DEF DriverOK
  <2>3. QED
    BY <2>1, <2>2
<1>7. WriteProgress' /\ EraseProgress'
  <2>1. op.kind = "write" => Written' = Written
    BY <1>1 DEF Written, Stride
  <2>2. op.kind = "erase" => Cleared' = Cleared
    BY <1>1 DEF Cleared, Stride
  <2>3. QED
    BY <1>1, <1>2, <2>1, <2>2 DEF FlashInv, WriteProgress, EraseProgress
<1>8. TrapOnlyOnDirty'
  BY <1>1, <1>2 DEF TrapOnlyOnDirty
<1>9. QED
  BY <1>5, <1>6, <1>7, <1>8 DEF FlashInv

\* A read-back that asserts has met a bit that could not be programmed.
LEMMA VerifyWriteInv ==
    ASSUME FlashInv, VerifyWrite
    PROVE  FlashInv'
<1>1. /\ pc = "write" /\ k >= op.len /\ flash' = flash /\ config' = config /\ busy' = busy
      /\ op.kind = "write" /\ busy = "no" /\ config = "Ren" /\ flash \in [Addr -> Byte]
  BY DEF FlashInv, TypeOK, DriverOK, VerifyWrite
<1>2. CASE \A j \in 0 .. op.len - 1 : flash[op.addr + j] = op.src[j]
  <2>1. pc' = "idle" /\ op' = NoOp /\ k' = 0 /\ before' = flash'
    BY <1>1, <1>2 DEF VerifyWrite
  <2>2. Idle'
    BY <1>1, <2>1 DEF Idle
  <2>3. QED
    BY <2>2, IdleInvNext
<1>3. CASE ~\A j \in 0 .. op.len - 1 : flash[op.addr + j] = op.src[j]
  <2>1. pc' = "trap" /\ op' = op /\ k' = k /\ before' = before
    BY <1>1, <1>3 DEF VerifyWrite
  <2>2. TypeOK'
    BY <1>1, <2>1 DEF FlashInv, TypeOK
  <2>3. OpOK' /\ DriverOK'
    BY <1>1, <2>1 DEF FlashInv, OpOK, DriverOK
  <2>4. /\ k = op.len /\ Written = op.len /\ op.len \in Nat /\ op.addr \in Nat
        /\ op.addr .. op.addr + op.len - 1 \subseteq Addr
    <3>1. k \in 0 .. op.len /\ op.len \in Nat /\ op.addr \in Nat
          /\ op.addr .. op.addr + op.len - 1 \subseteq Addr
      BY DEF FlashInv, TypeOK
    <3>2. k = op.len
      BY SMT, <1>1, <3>1
    <3>3. QED
      BY <1>1, <3>1, <3>2 DEF Written
  <2>5. WriteProgress' /\ EraseProgress'
    <3>1. Written' = Written
      BY <1>1, <2>1 DEF Written
    <3>2. QED
      BY <1>1, <2>1, <3>1 DEF FlashInv, WriteProgress, EraseProgress
  <2>6. TrapOnlyOnDirty'
    <3>1. PICK j \in 0 .. op.len - 1 : flash[op.addr + j] # op.src[j]
      BY <1>3
    <3>2. /\ op.addr + j \in op.addr .. op.addr + op.len - 1
          /\ (op.addr + j) - op.addr = j
      BY SMT, <2>4
    <3>3. flash[op.addr + j] = before[op.addr + j] \cap op.src[j]
      BY <1>1, <2>4, <3>2 DEF FlashInv, WriteProgress
    <3>4. ~(op.src[j] \subseteq before[op.addr + j])
      BY <3>1, <3>3
    <3>5. QED
      BY <1>1, <2>1, <3>4 DEF TrapOnlyOnDirty
  <2>7. QED
    BY <2>2, <2>3, <2>5, <2>6 DEF FlashInv
<1>4. QED
  BY <1>2, <1>3

\* An erase that has run to its end finds every byte erased.
LEMMA VerifyEraseInv ==
    ASSUME FlashInv, VerifyErase
    PROVE  FlashInv'
<1>1. /\ pc = "erase" /\ k >= op.len /\ flash' = flash /\ config' = config /\ busy' = busy
      /\ op.kind = "erase" /\ busy = "no" /\ config = "Ren" /\ flash \in [Addr -> Byte]
      /\ k \in 0 .. op.len /\ op.len \in Nat /\ op.addr \in Nat
      /\ op.addr .. op.addr + op.len - 1 \subseteq Addr
  BY DEF FlashInv, TypeOK, DriverOK, VerifyErase
<1>2. k = op.len
  BY SMT, <1>1
<1>3. Cleared = op.len
  BY <1>1, <1>2 DEF Cleared
<1>4. \A x \in op.addr .. op.addr + op.len - 1 : flash[x] = Erased
  BY <1>1, <1>3 DEF FlashInv, EraseProgress
<1>5. \A j \in 0 .. op.len - 1 : op.addr + j \in op.addr .. op.addr + op.len - 1
  BY SMT, <1>1
<1>6. pc' = "idle" /\ op' = NoOp /\ k' = 0 /\ before' = flash'
  BY <1>1, <1>4, <1>5 DEF VerifyErase
<1>7. Idle'
  BY <1>1, <1>6 DEF Idle
<1>8. QED
  BY <1>7, IdleInvNext

\* A power loss leaves a memory, and no operation.
LEMMA PowerLossInv ==
    ASSUME FlashInv, PowerLoss
    PROVE  FlashInv'
<1>1. flash' \in [Addr -> Byte]
  <2>1. flash \in [Addr -> Byte]
    BY DEF FlashInv, TypeOK
  <2>2. CASE busy = "program"
    BY <2>1, <2>2 DEF PowerLoss
  <2>3. CASE busy = "erase"
    BY <2>1, <2>3 DEF PowerLoss
  <2>4. CASE busy # "program" /\ busy # "erase"
    BY <2>1, <2>4 DEF PowerLoss
  <2>5. QED
    BY <2>2, <2>3, <2>4
<1>2. Idle'
  BY <1>1 DEF PowerLoss, Idle
<1>3. QED
  BY <1>2, IdleInvNext

\* The invariant holds in every reachable state.
LEMMA FlashInvariant == Spec => []FlashInv
<1>1. Init => FlashInv
  <2> SUFFICES ASSUME Init PROVE FlashInv
    OBVIOUS
  <2>1. flash \in [Addr -> Byte]
    BY DEF Init, Byte, Erased
  <2>2. QED
    BY <2>1, IdleInv DEF Init, Idle
<1>2. FlashInv /\ [Next]_vars => FlashInv'
  <2> SUFFICES ASSUME FlashInv, [Next]_vars PROVE FlashInv'
    OBVIOUS
  <2>1. CASE Request
    BY <2>1, RequestInv
  <2>2. CASE WriteEnable \/ StoreWord \/ EraseEnable \/ ErasePage
    BY <2>2, StartInv
  <2>3. CASE VerifyWrite
    BY <2>3, VerifyWriteInv
  <2>4. CASE VerifyErase
    BY <2>4, VerifyEraseInv
  <2>5. CASE WaitReady
    BY <2>5, WaitReadyInv
  <2>6. CASE ProgramDone
    BY <2>6, ProgramInv
  <2>7. CASE EraseDone
    BY <2>7, EraseDoneInv
  <2>8. CASE PowerLoss
    BY <2>8, PowerLossInv
  <2>9. CASE UNCHANGED vars
    <3>1. /\ flash' = flash /\ config' = config /\ busy' = busy /\ pc' = pc /\ op' = op
          /\ k' = k /\ before' = before
      BY <2>9 DEF vars
    <3>2. TypeOK' /\ OpOK' /\ DriverOK'
      BY <3>1 DEF FlashInv, TypeOK, OpOK, DriverOK
    <3>3. QED
      BY <3>1, <3>2
      DEF FlashInv, WriteProgress, EraseProgress, TrapOnlyOnDirty, Written, Cleared
  <2>10. QED
    BY <2>1, <2>2, <2>3, <2>4, <2>5, <2>6, <2>7, <2>8, <2>9 DEF Next, Driver
<1>3. QED
  BY <1>1, <1>2, PTL DEF Spec

-----------------------------------------------------------------------------
(* The results.                                                            *)

\* For every memory map and every request the port accepts, the operation lies
\* inside the memory and the driver's index inside the operation
\* (mcuboot_port.c:154-161, 186-192).
THEOREM FlashTypeCorrect == Spec => []TypeOK
<1>1. FlashInv => TypeOK
  BY DEF FlashInv
<1>2. QED
  BY <1>1, FlashInvariant, PTL

\* The controller programs or erases only in the mode for it, and the driver
\* never returns or asserts with the memory writable
\* (minimal_nrf52_flash.c:61-71, 86-100).
THEOREM FlashModeMatches == Spec => []ModeMatches
<1>1. FlashInv => ModeMatches
  BY DEF FlashInv, TypeOK, DriverOK, ModeMatches
<1>2. QED
  BY <1>1, FlashInvariant, PTL

\* A byte-wise write disturbs no neighbour, however bytes, words and the
\* operation's ends are aligned (minimal_nrf52_flash.c:55-72).
THEOREM FlashWriteProgress == Spec => []WriteProgress
<1>1. FlashInv => WriteProgress
  BY DEF FlashInv
<1>2. QED
  BY <1>1, FlashInvariant, PTL

\* The read-back asserts only for a write onto memory that was not erased, and
\* never for an erase (mcuboot_port.c:165-170, 195-203).
THEOREM FlashTrapOnlyOnDirty == Spec => []TrapOnlyOnDirty
<1>1. FlashInv => TrapOnlyOnDirty
  BY DEF FlashInv
<1>2. QED
  BY <1>1, FlashInvariant, PTL

\* A step that changes the memory changes only the slot of its operation, or
\* what an erase names behind it.
LEMMA StepInSlot ==
    ASSUME FlashInv, [Next]_vars, NEW x \in Addr, flash'[x] # flash[x]
    PROVE  \/ op.kind # "none" /\ x \in SlotBytes(op.slot)
           \/ /\ LeavesSlot /\ x \in op.addr .. op.addr + op.len - 1
              /\ x >= BOOTLOADER_SIZE
<1>1. /\ flash' # flash /\ flash \in [Addr -> Byte]
  BY DEF FlashInv, TypeOK
<1>2. ProgramDone \/ EraseDone \/ PowerLoss
  <2>1. ~Request
    BY <1>1 DEF Request, flash_area_write, flash_area_erase, Begin
  <2>2. ~Driver
    BY <1>1 DEF Driver, WriteEnable, StoreWord, VerifyWrite, EraseEnable, ErasePage, VerifyErase,
                WaitReady
  <2>3. ~UNCHANGED vars
    BY <1>1 DEF vars
  <2>4. QED
    BY <2>1, <2>2, <2>3 DEF Next
<1>3. /\ pc = "wait"
      /\ \/ op.kind = "write" /\ x \in WordOf(Here)
         \/ op.kind = "erase" /\ x \in PageOf(Here)
  <2>1. CASE ProgramDone
    BY <2>1 DEF FlashInv, DriverOK, ProgramDone
  <2>2. CASE EraseDone
    BY <2>2 DEF FlashInv, DriverOK, EraseDone
  <2>3. CASE PowerLoss
    <3>1. CASE busy = "program"
      BY <2>3, <3>1 DEF FlashInv, DriverOK, PowerLoss
    <3>2. CASE busy = "erase"
      BY <2>3, <3>2 DEF FlashInv, DriverOK, PowerLoss
    <3>3. CASE busy # "program" /\ busy # "erase"
      BY <2>3, <3>3, <1>1 DEF PowerLoss
    <3>4. QED
      BY <3>1, <3>2, <3>3
  <2>4. QED
    BY <1>2, <2>1, <2>2, <2>3
<1>4. CASE op.kind = "write"
  BY <1>3, <1>4, HereInOp, WordInSlot
<1>5. CASE op.kind = "erase"
  <2>1. /\ k \in Nat /\ op.len \in Nat /\ k + SECTOR \in 0 .. op.len /\ SECTOR \in Nat
        /\ x \in op.addr + k .. op.addr + k + SECTOR - 1
    BY <1>3, <1>5, HereInOp, PageHere, FlashAssumption DEF FlashInv, OpOK
  <2>2. /\ op.addr \in Nat /\ op.off \in Nat /\ op.addr = SlotStart(op.slot) + op.off
        /\ op.slot \in {0, 1}
    BY <1>5 DEF FlashInv, OpOK
  <2>3. x \in op.addr .. op.addr + op.len - 1 /\ x \in Nat
    BY SMT, <2>1, <2>2
  <2>4. CASE op.off + op.len <= APPLICATION_SIZE
    <3>1. SlotStart(op.slot) + op.off .. SlotStart(op.slot) + op.off + op.len - 1
            \subseteq SlotBytes(op.slot)
      BY <2>1, <2>2, <2>4, RangeInSlot
    <3>2. QED
      BY <1>5, <2>2, <2>3, <3>1
  <2>5. CASE ~(op.off + op.len <= APPLICATION_SIZE)
    <3>1. BOOTLOADER_SIZE \in Nat /\ APPLICATION_SIZE \in Nat
      BY FlashAssumption
    <3>2. SlotStart(op.slot) \in Nat /\ SlotStart(op.slot) >= BOOTLOADER_SIZE
      BY SMT, <2>2, <3>1 DEF SlotStart
    <3>3. x >= BOOTLOADER_SIZE
      BY SMT, <2>1, <2>2, <2>3, <3>1, <3>2
    <3>4. LeavesSlot
      BY SMT, <1>5, <2>1, <2>2, <2>5, <3>1 DEF LeavesSlot
    <3>5. QED
      BY <2>3, <3>3, <3>4
  <2>6. QED
    BY <2>4, <2>5
<1>6. QED
  BY <1>3, <1>4, <1>5

\* Whatever is requested and whenever power fails, only the slot asked for
\* changes and never the bootloader; only an erase that leads out of its slot
\* changes more, and no byte it does not name
\* (mcuboot_port.c:49-75, 154-159, 180-193).
THEOREM FlashSlotIsolation == Spec => SlotIsolation
<1>1. FlashInv /\ [Next]_vars =>
        [\A x \in Addr : flash'[x] # flash[x] =>
            \/ op.kind # "none" /\ x \in SlotBytes(op.slot)
            \/ /\ LeavesSlot /\ x \in op.addr .. op.addr + op.len - 1
               /\ x >= BOOTLOADER_SIZE]_vars
  BY StepInSlot
<1>2. QED
  BY <1>1, FlashInvariant, PTL DEF Spec, SlotIsolation

=============================================================================
