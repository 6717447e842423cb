# A TLA+ verification project for maskset-examples

The repository is a collection of small projects. Those with program logic of
their own are the nRF52840 firmware under `renode-bootloader/project` (a
bootloader and an application on top of MCUboot, sharing `common/src`), the
War card game simulator under `war-card-game-monte-carlo`, and a few short
examples (a button loop, a thermistor table, a Modbus server). The rest is
platform descriptions, waveforms, diagrams, container files and notes.

## Inventory

| Part | State | Operations | Hard behaviour | Correct when |
| --- | --- | --- | --- | --- |
| Console input path (`minimal_nrf52_uart.c`, `shell_port.c`) | one-byte DMA buffer, ENDRX event, ring `read_idx`/`num_bytes`/`buf`, interrupt mask | `uart_boot`, `Irq2_Handler`, receive callback, `shell_port_getchar`, `uart_tx_blocking` | the interrupt preempts the polling loop at any memory access; ring at its limit; re-arming order | counter exact, indices in bounds, no byte overwritten in the DMA buffer, stream delivered in order, nothing delivered that was not sent, never deaf |
| Command shell (`shell.c`, `shell_commands.c`, `log_port.c`) | `rx_buffer`, `rx_size`, tokeniser locals | `shell_boot`, `shell_receive_char`, `prv_process`, the handlers | full buffer, maximal argument count, in-place termination, NUL bytes, restarts | argv is the words of the line and terminated in the buffer; never stuck; screen equals buffer; restart only on command |
| Flash map and NVMC driver (`mcuboot_port.c`, `minimal_nrf52_flash.c`) | memory, NVMC mode and READY | open, write, erase, read-back assertion | power loss at any register access, read-modify-write of words, mode switching | slots and bootloader isolated, exact progress, assertions only on dirty targets, read-only when idle |
| War game engine (`war-simulator.hpp`) | hands, piles, recursion stack, `GameResult` | `make_players`, strategies, `play_hand`, `simulate` | nested wars, a player running out inside a war, NaN comparisons, round limit | cards conserved, assertions hold, accounts balance, the winner owns the deck |
| War runner (`main.cpp`) | futures, results, the shared generator | parallel tournaments | tasks end in any order, a thread may fail to start, unlocked generator | results complete and in order |
| War result formatter (`make_md.py`) | the data frame | read, sort, write | the sort fails half way | rows kept with their games, ordered as documented, aligned |
| Boot flow (`bootloader/src/main.c`, `application/src/main.c`, `startup.c`) | slots and trailers, vector table, RAM, UART, heap index | `boot_go`, `do_boot`, confirming, `prv_cinit`, `_sbrk` | UART armed across the jump, power loss in a swap, an image that hangs | an image that works is never lost; the console is the last resort; old RAM is not input |
| Breakpoint unit driver (`fpb.c`) | FP_CTRL, FP_COMP | enable, disable, set, read back | packed fields | registers behave as a table of breakpoints |
| Modbus server (`native-modbus/app/src/main.c`) | coils in one byte, registers | four callbacks, start-up | a request refused in the middle | reads give the last writes |
| Thermistor table (`thermistor_lut_example.cpp`) | none | `interpolate` | unsigned wrap-around, clamping | monotone, close to the reading |
| Button example (`renode-example.c`) | flag, counter | sampling loop | pin moves at any time | one line per press |

Interactions: the interrupt handler calls into `shell_port.c`; the polling loop
hands bytes to `shell.c`; the shell's handlers call MCUboot
(`boot_set_pending`), the logger and the reset register; the logger and the
shell's echo end in `uart_tx_blocking`; MCUboot calls the flash map, which calls
the NVMC driver. Bootloader and application link the same driver and share RAM
and the UART; each is started by `startup.c`. The War runner's table is what the
formatter reads. The other examples stand alone.

## Modules

| Module | What it is |
| --- | --- |
| `UartConsole` | the console input path: terminal, interrupt handler and polling loop as three interleaving actors |
| `InputBuffer` | abstract: what the console input buffer gives its reader, however fast the terminal sends |
| `UartConsoleProofs` | theorems about `UartConsole` |
| `Shell` | line editing, tokeniser (one action per loop iteration), dispatch, a terminal |
| `ShellProofs` | theorems about `Shell` and `Console` |
| `FlashPort` | slots, areas and checks; NVMC driver, one action per register access; power loss |
| `FlashPortProofs` | theorems about `FlashPort` |
| `WarGame` | one game between two strategies, the recursion of `play_hand` as a stack of frames |
| `WarProofs` | theorems about `WarGame` |
| `WarRunner` | the tournament: arguments, one asynchronous task per pair of strategies, collection, accounts |
| `Console` | `UartConsole` and `Shell` composed as `shell_processing_loop` composes them |
| `BootFlow` | slots, trailers, swap, trial and confirmation over resets; MCUboot's part is external |
| `BootFlowProofs` | theorems about `BootFlow` |
| `Handover` | RAM, vector table and UART from reset through the bootloader into the application |
| `HandoverProofs` | theorems about `Handover` |
| `BreakpointTable` | abstract: a table of breakpoints and a switch |
| `Fpb` | the breakpoint unit driver, with the unit's own reading of its registers |
| `ModbusServer` | start-up and callbacks under Zephyr's server |
| `ThermistorLut` | the lookup as a pure algorithm over every reading |
| `ButtonExample` | the sampling loop and the user |
| `ExampleProofs` | theorems about the parts that stand alone: `ModbusServer`, `ThermistorLut`, `ButtonExample`, `Fpb` |
| `ResultTable` | the result formatter |
| `WarReport` | `WarRunner` and `ResultTable` composed: the formatter reads what the tournament printed |
| `WarReportProofs` | theorems about the tournament, the formatter and the table they publish together |
| `MC...` | constants for TLC, one module per component that is run |

How state and actions correspond to the code is listed definition by definition
in `PROJECT.json` under `map`. The main choices:

* `UartConsole`: the handler is three steps (event cleared, callback, re-armed)
  during which the main loop stands still; the main loop is one step per memory
  access, `num_bytes--` being a load and a store. Hardware flow control keeps
  the terminal quiet while the receiver is not armed. Handling a byte transmits
  0 to `MaxEcho` bytes through the busy wait of `uart_tx_blocking`. `received`,
  `offered`, `accepted` and `taken` record the bytes at the DMA buffer, the
  callback, the ring and the shell.
* `Shell`: `rx_buffer` is an array and `argv` holds indices into it, so
  termination and aliasing are visible. Texts are one cell. A terminal with a
  row and a cursor interprets what is echoed; the logger's newline carries no
  carriage return, as in `prv_log`. `line` remembers the buffer before the
  tokeniser overwrites it. Commands are classified by what they do: print, log,
  restart, or try to swap (`boot_set_pending` succeeds or fails at will).
* `FlashPort`: a byte is the set of its one-bits; programming intersects, erasing
  fills. The memory is the whole flash of the device. Requests go through image
  index and slot as MCUboot's do, and an erase may name sectors beyond its slot,
  since the code does not check. Requests the
  code rejects leave no trace and are not steps. A power loss during programming
  leaves any part of the word's one-bits, during an erase anything in the page.
* `WarGame`: a shuffle is any arrangement of the same cards; a comparison with
  0/0 is either Boolean. `mark` remembers the accounts at the start of the round.
* `WarRunner`: what a game reports is a free choice, so the unlocked generator all
  tasks share cannot matter to what is checked. An average is kept as its sum and
  its count, since 0/0 is possible. A thread that cannot be started ends the
  program, as nothing catches the exception. Wins and ties are counted in `uint32_t`,
  whose number of values is the constant `Uint32`. `played` records each task's games.
* `Console`: extends `Shell` and has the input path as an INSTANCE of `UartConsole`,
  whose free choice of bytes becomes the keys and whose `pc` is the main loop's `mpc`.
  Inside `shell_receive_char` the input path is at its transmit steps, so the interrupt goes on filling the ring while
  the shell edits, tokenises and runs a command. A restart resets both.
* `BootFlow`: a slot holds an image or nothing; the trailers are the fields
  MCUboot keeps there, the swap under way included, so a power loss forgets only
  the program counter. `Valid` images verify, `Healthy` ones get through their
  initialisation. `boot_set_pending` and `boot_set_confirmed` may fail. What
  `boot_go` does is external, taken from `mcuboot_config.h` and the calls. A system
  that hangs in its initialisation may be reset by somebody (`ResetHung`) or not.
* `Handover`: RAM is an array of cells with any contents at power-on, and each
  image keeps its driver's variables at its own cells of it, the fields of
  `s_uart_buffer` in the order of the struct. `prv_cinit` clears one cell
  per step. A pending interrupt runs before the next step, with the handler of
  the image the vector table belongs to. A write past the modelled RAM is lost.
  The terminal types at any time; `early` records which bytes came between the
  jump and the application's `uart_boot`, and `took` the values the consoles took.
* `Fpb`: words are numbers and fields are quotients and remainders. `Stops` is the
  unit's own reading of a comparator, independent of the driver's.
* `ModbusServer`: the external server calls one callback per item and gives up at
  the first refusal. `wrote` records the last value written to each item. Of the two
  builds of `main`, the one for a CDC ACM port first waits for DTR.
* `ThermistorLut`: the modulus and the table are constants; `FallingTable` says that
  the table falls by more than one step per entry, as the Q16 temperatures of the
  code's table do.
* `ButtonExample`: the flag decides which condition reads the pin, so one sample
  is one step. Presses and lines are counted without bound.
* `ResultTable`: cells are numbers or texts with a printed width. `sort_values` is a
  method of pandas: that it permutes the rows into an order by its key is taken from
  the library, not checked. `WarReport` also gives the formatter files that some other
  hand made.

## Runs

| Run | Bounds | Shows |
| --- | --- | --- |
| `uart_console` | ring of 3, 5 bytes of 2 values, free-running terminal | `TypeOK` (ring bounds), `CountExact`, `NoByteOverwritten`, `BufferSpec` (the path implements `InputBuffer`), `KeepsListening`, `DrainsEventually` |
| `uart_order` | ring of 3, 3 bytes | violated: `TakenInOrder` |
| `shell` | buffer of 6, 2 arguments, 2 letters, all control characters and NUL, 4 commands | `TypeOK`, `NeverStuckFull`, `ArgvTerminated`, `ArgvIsWords`, `RestartOnlyOnCommand`, `BackToPrompt` |
| `flash_port` | one-bit bytes, words and pages of 2 bytes, bootloader of 1 page, slots of 2 pages, one page behind them, offsets to 2, writes of up to 3 bytes, erases of up to 4 | `TypeOK`, `WriteProgress`, `TrapOnlyOnDirty`, `ModeMatches`, `SlotIsolation`, `OperationEnds` |
| `war_game` | 8 cards of 2 values, wars of 2 cards, 6 rounds, all 81 pairs of strategies | `CardsConserved`, `NoAssertFails`, `RoundLedger`, `WinnerOwnsDeck` |
| `war_last_round` | 6 cards, 3 rounds, strategy 2 | violated: `FinishedGameHasWinner` |
| `console` | ring of 2, buffer of 3, 5 bytes, paced, commands `help` and `reboot` | `LineIsTyped`, `CommandIsTyped`, `ScreenMatchesBuffer`, `PromptReturns` |
| `boot_flow` | 4 images (two work, one hangs, one does not verify), 3 power losses | `CliIsLastResort`, `TrialOnlyOnRequest`, `ComesBack` |
| `handover` | ring of 2, two images laid over each other, 3 bytes between resets, typed at any time | `PassedIsTyped`, `NoPhantomInput`, `HandlerStaysInRing` |
| `modbus_server` | 3 coils, 2 registers, requests of up to 2 items, up to and past the end | `ReadsLastWrites`, `AnswerMatchesRange` |
| `war_report` | 2 strategies, up to 4 tasks of up to 3 games, 3 kinds of game result, counters that wrap at 3, 7 command lines; other files of up to 3 rows | `RowsInOrder`, `RowsMatchGames`, `Aligned`, `ReportIsTournament`, `Terminates` |
| `report_sort_key` | the same | violated: `SortedByS1` |

Why the bounds are enough: with five bytes and a ring of three the ring fills,
drops, wraps and drains while the interrupt hits every step, and a byte waits at the
head, in the middle and at the end of the queue. A six-cell buffer
holds three words with their separators, overflows with and without a newline,
and so has room for more words than two arguments, and for a command whose next letter
is the last of the buffer. Writes of up to 3 bytes at offsets to 2 lie inside a word,
cross words and pages, end with the slot and go beyond it, where they are refused;
erases of two pages cover a slot or reach into the next one, which is not refused. Eight cards of two values nest wars until
a player runs out. Four tasks finish in every order, three games make a
counter wrap, and the command lines take every branch of the argument parser; `war_report` stops when the program does, so
it does not check for deadlock: `Terminates` does.

Three cells of shell buffer hold a one-letter command with its newline, an
overflow and an erased character, and five bytes a whole line and a second one
begun. The four images are an old and a new one that work, one that hangs and one
that does not verify, in every arrangement of two slots; three power losses cut a swap, the
trial and the return. Three
bytes between resets reach both images' handlers and fill the ring.

The NUL byte is left out of `console` because a terminal shows nothing for
it, so screen and buffer cannot agree on it; `shell` has it.

Three runs end in a violation on purpose:

* `uart_order`: the callback stores at `buf[read_idx]` whatever number of bytes
  waits (`shell_port.c:27`), so two bytes in quick succession overwrite each other
  and the reader then gets a stale slot. `shell_port.h:5` promises "the next
  available char on the input stream".
* `war_last_round`: `simulate` looks for an empty player only at the top of its
  loop, so a game decided in round `kMaxRounds` is reported as a tie; the tests
  expect a winner of every simulated game (`test_main.cpp:306`).
* `report_sort_key`: the formatter sorts by S2 and then P2, as its option's help says
  (`make_md.py:19`), while the docstring that is the program's help text says "Optionally
  sorts by S1 then P1." (`make_md.py:27`), and the message at line 44 names S1 and P1.

## Observations

Other places where the code does not do what it or its documents say. They need no
history of steps to be seen, or are stated as what the properties leave out:

* Between the jump and the application's `uart_boot` the receiver still fills the
  bootloader's buffer while the application's handler reads its own (bootloader
  `main.c:60-62`), so a byte typed there reaches the callback, and then the shell, as
  whatever that cell holds: RAM an earlier run left. `PassedIsTyped` excepts the positions
  in `early`, and `CameIn` in `NoPhantomInput` counts that value as come in. While the
  application's `.bss` is half cleared the handler may also store outside its ring, which
  `HandlerStaysInRing` excepts. If in addition the bootloader's receive buffer lay where
  the application keeps `num_bytes` or `read_idx`, a byte typed in this window would be
  its counter or its index, and the console would take what nobody sent: `WindowHarmless`
  in `NoPhantomInput` excepts such a byte on such a layout, and TLC finds the
  counterexample without it. Nothing in the linker scripts rules the layout out.
* A word one character longer than a command runs the command if that character is the
  last of a line that fills the buffer: `prv_process` takes the last cell for a separator
  whatever it holds (`shell.c:94`), so `rebootX` there restarts the system. A NUL typed
  after the name has the same effect. `RestartOnlyOnCommand` names both cases
  (`LosesLastCharacter`, `CutByNul`).
* `flash_area_erase` checks the alignment of its range and not that it lies in the area
  (`mcuboot_port.c:180-193`), so an erase of slot 0 can reach into slot 1 and one of slot 1
  past it: `LeavesSlot` in `SlotIsolation`. `flash_area_get_sectors` follows the pointer
  `prv_lookup_flash_area` returned without a check, and it is NULL for an unknown id
  (`mcuboot_port.c:105-106`).
* An image that hangs in its initialisation stays there until somebody resets it: neither
  image starts a watchdog. `ComesBack` speaks of a system that was reset.
* The wins and ties of a tournament are `uint32_t` and the games `uint64_t`
  (`war-simulator.hpp:237-243`), so a row's counts are exact modulo 2^32 only.
* `_sbrk` refuses what fits and grants what does not (bootloader `main.c:22`, application
  `main.c:21`).
* `x0 = x1 + step` and unsigned division make the thermistor's slope zero, so the
  result is always a table entry (`thermistor_lut_example.cpp:40`; theorem
  `LookupIsEntry`), while the notebook describes linear interpolation.
* The button example prints its counter every 100000 iterations
  (`renode-example.c:91`), while `test-button.robot:19, 21` expect silence.
* A missing column makes the formatter
  raise KeyError, which the handler with the message for it does not catch
  (`make_md.py:43`).

## Fairness

`UartConsole`: weak fairness of the handler, of the main loop and of the end of a
transmission: the processor runs, and the transmitter finishes what it started.
The terminal owes nothing. With finitely many bytes (`MaxBytes`) the handler
cannot starve the loop. `Shell`: weak fairness of `prv_process`, a plain loop, and
of booting. `FlashPort`: weak fairness of the driver and of the controller
reaching READY. `WarRunner`: weak fairness of main and of the
tasks as a whole; some thread that can run does; `WarReport` keeps it, and the
formatter owes nothing. `Console`: the same as its two
parts. `BootFlow`: weak fairness of the boot sequence alone: the processor
runs. Nobody has to reboot, to ask for a swap or to reset a system that hangs; the code
starts no watchdog.
Safety runs and proofs assume no fairness.

## Proofs

`UartConsoleProofs` proves, for every ring size `N >= 1`, byte set and bound:

* `ConsoleTypeCorrect`, `ConsoleCountExact`, `ConsoleNoByteOverwritten`. None is
  inductive alone. The invariant adds who may act when: interrupts are masked
  exactly in the steps between `__disable_irq` and `__enable_irq` (`MaskInv`); from a
  successful poll to the store the ring is non-empty and the loaded counter is
  still the counter (`HoldsByte`); receiver, event and handler take turns
  (`RxTurns`); the histories differ by the one byte in the DMA buffer
  (`RxHistory`).
* `ConsoleIsInputBuffer`: the path implements `InputBuffer` for a terminal of any speed. The
  callback stores at the reader's slot, so `InputBuffer` promises a queue that is exact
  in its length and, for a byte that waits alone, in its content; a byte put behind
  others may replace the head, and what is delivered in its place is an older byte. The
  abstract queue is read off the ring: `Waiting(k)` allows for the byte already loaded
  and for the index being ahead of the counter between their updates. `SlotInv` adds that
  every slot holds NUL or a byte that was put; that a store and a step of the index move
  the places of the others as the queue says is arithmetic modulo `N` (`SlotStep`, `ModN`).
* `PacedInv`, for a terminal that waits, says that at most one byte is between the
  callback and the shell and where it is; the theorems about the console use it.

`ShellProofs` proves, for every buffer size, argument limit, alphabet and command
table:

* `ShellNeverStuckFull` and `ShellArgvTerminated`. The invariant says that every
  argument found so far has a terminator behind it and that a pending word starts
  before the loop index; the tokeniser only ever adds terminators.
* `ShellArgvIsWords` and `ShellRestartOnlyOnCommand`, from `TokenInv`: the buffer is the
  line with the separators passed so far overwritten, the pending word is the one the
  index is in, and `argv` is in order the set of the other words passed. That the n-th
  of an increasing enumeration has n - 1 words before it (`NthStart`) and that the name
  found is the first word, or what is left of it (`FoundIsFirstWord`), are lemmas.
* `ShellTypeCorrect`, which also needs the terminal's row and cursor (`TermInv`).
* `ShellScreen`: between two keys the screen shows the prompt and the line. `ScreenInv`
  follows the row through every echo: nothing but blanks stands right of the cursor
  (`CleanTerm`), and left of it the prompt and what the buffer holds, whenever the
  shell is idle (`PromptAndLine`).

and about the console as a whole, for a paced terminal, every ring and every line
buffer:

* `ConsoleImplementsShell`: the console implements `Shell`. The step that needs it is the
  call of `shell_receive_char`, whose argument must be a key: `InputInv`, the invariant
  of the input path, says what the ring hands over. `UartConsoleProofs` is
  instantiated, so its theorems about one step are used as they stand; a step that
  leaves the input path alone, or restarts it, keeps it as well (`InputPathSteps`).
* `ConsoleScreenMatchesBuffer`, by `ShellScreen` and the refinement.
* `ConsoleLineIsTyped` and `ConsoleCommandIsTyped`. `SyncInv` says where the main loop is
  when the shell is idle, busy or not booted; `EditInv` that the line the shell holds is
  what the reference makes of the keys taken so far, and that a line being run was
  completed by the last of them. `Typed` is recursive: that one more key is one more
  step of it (`TypedAppend`) is an induction over the length of the input, carried out
  as an argument about the least counterexample.

`FlashPortProofs` proves, for every page, word and slot size and every request,
`FlashTypeCorrect`, `FlashModeMatches`, `FlashWriteProgress`, `FlashTrapOnlyOnDirty` and
`FlashSlotIsolation`. One invariant, `FlashInv`, carries all five: a write under way
lies inside its slot and an erase is in whole sectors of the memory behind the bootloader
(`OpOK`), the program counter says what
the controller may be doing and in which mode (`DriverOK`), and the memory is the old
one with exactly the bytes done so far changed, for writes and for erases
(`EraseProgress`). The driver rounds addresses to words and pages; that this never
crosses the border of a slot, or leaves the sectors an erase names, is arithmetic of
multiples (`WordInSlot`, `PageHere`).

`BootFlowProofs` proves `BootCliIsLastResort` and `BootTrialOnlyOnRequest`, for any images
and any number of power losses. A power loss in the middle of a swap forgets what the
swap was for, so `BootInv` says where a proven image is for every state of the trailer:
a test swap has it in the primary slot, a return in the secondary, an image on trial
has it beside it.

`HandoverProofs` proves `HandoverPassesBytes`, `HandoverStaysInRing` and
`HandoverNoPhantomInput`, for any contents of RAM and any overlap of the images.
`HandoverInv` says whose buffer the receiver fills, that the handler is at most one byte
behind, and that a ring whose two variables are cleared stays consistent through the
rest of the clearing; `ContentStep` adds that a slot which counts as filled holds a value
that came in since the reset. `HandoverStaysInRing` has a hypothesis about the link
(the bootloader's receive buffer is not the application's `read_idx`);
`HandoverNoPhantomInput` has none, the property itself says which bytes it excepts.

`WarProofs` proves, for every deck, war size, round limit and pair of strategies,
`WarCardsConserved`, `WarNoAssertFails`, `WarRoundLedger` and `WarWinnerOwnsDeck`. The
properties speak of whole rounds; `WarInv` follows the cards and the accounts through
the suspended calls of `play_hand`: on the way into the wars each player has given one
card per call and the cards of its dumps (`PlayInv`), on the way out the loser's account
is settled as if all calls had returned (`UnwindInv`). A sum over the stack would be a
fold, which needs induction; cards are counted by their places instead, so that such
a sum is the size of one set and changes by one level at a time (`PushFrame`,
`PopFrame`).

`WarReportProofs` proves, for every number of strategies, command line, result of a game
and input file, `RunnerRowsInOrder`, `RunnerRowsMatchGames`, `FormatterAligned`
and `TableIsTournament`. Tasks finish in any order; `RunInv` ties each
to its place: the k-th plays the k-th pair of the nested loops, and a row collected is
that of the task in its place, which has no game left and so stands still. `FormatInv`
says that the formatter's rows are its input under a bijection, and that a tournament's
cells are numbers it can sort by. `TableIsTournament` puts the two together: each row
published belongs to one place of the nested loops and has the wins of the games played
there. That a finite set of widths has a largest one (`FiniteHasMax`) follows
from the well-foundedness of strict inclusion. `RunnerRowsMatchGames` also
compares a row's averages, which the code keeps up game by game, with sums over the
task's games: `SumsMatch` says that they agree after each game, and that a game more
adds its own numbers to the sums (`TotalOfMore`) is again shown with a least
counterexample.

`ExampleProofs` proves about the thermistor table, for every reading of the ADC and
every falling table, `LookupIsEntry`, `LookupMonotone` and `LookupNearReading` from one
lemma on the index; and about the button `ButtonOnePressOneLine`, for any number of
presses. `OnePressOneLine` is not inductive: a press may come while the line for the
one before is being sent, so `PressInv` also counts the press that is not sampled yet
(`Unseen`). About the Modbus server it proves, for every number of coils and registers,
`ModbusAnswerMatchesRange` (while a request is served, the items before the next one
lie on the device, `AnswerInv`) and `ModbusReadsLastWrites` (the device holds what was
last written item by item, and the items read so far are still what it holds,
`ReadInv`). The coils share one byte; that writing one bit of a number leaves the
others and stays within its width (`BitsAreIndependent`) is proved for any number of
bits. Powers of two are `BIT`, a recursive function, since the provers know nothing of
`^`; a number is taken apart at the bit written, a higher bit sees only what is above it
and a lower one a change by an even number (`HigherBit`, `LowerBit`).

About the breakpoint driver it proves, for every number of comparators and revision
the fields of FP_CTRL can hold, every comparator and every address:

* `DriverIsTable`: the driver implements `BreakpointTable`. The core is
  `StopsAtAddress`: the word put together for an address stops the processor at that
  halfword and nowhere else; `ConfigOfUnit` takes FP_CTRL apart again.
* `ReportTrue`: what the driver reports and prints is what the unit does.

Both need `UnitInv`: FP_CTRL never loses what the unit implements, and a comparator
that is on is a code comparator that `fpb_set_breakpoint` wrote.

`Fpb`, `ThermistorLut` and `ButtonExample` have no run: what is said of them is proved for
every value, their constants being the code's own (bit 30, 4095, 100000), which
are no small instance.

Assumptions: the named `ASSUME`s of the modules, evaluated by TLC in every run (sizes
are positive; the control characters are not letters and command names are made of
letters; NUL is not a mark the shell prints; the objects of an image lie in RAM and its receive buffer outside its ring;
every number a tournament can print has a width), and the hypotheses theorems name:
`UnitAssumption`, `FallingTable`, the one about the link, `Paced` for the composed console
(the terminal sends a byte when the last one is handled; without it `uart_order` is
violated) and, for the screen, that NUL is not typed. `FlashAssumption` also says that no
request leads out of the device or wraps around 32 bits.

Only model-checked is liveness, which needs fairness: `KeepsListening`,
`DrainsEventually`, `BackToPrompt`, `OperationEnds`, `PromptReturns`, `ComesBack`,
`Terminates`. The prover does not reason about ENABLED.

## Plan

Done: every component of the inventory has its module, the components that
interact are composed (`Console`, `Handover`, `WarReport`), and every safety property
that a run checks and that holds is proved for every value of the constants, the
refinements `ConsoleIsInputBuffer` and `ConsoleImplementsShell` included.

Left is what this method does not reach: proofs of the liveness properties, and the
parts listed next.

## Not modelled

MCUboot itself (its submodule is empty in this repository; `BootFlow` and `FlashPort`
hold what this code sees of it as external actions), the newlib stubs and the
port template (constant returns, not built), the Zephyr project template (a print
loop), the Renode platform files and all data and documents. The generation of the
thermistor table computes in floating point at compile time and is taken as a
constant. `_sbrk` is left out, see Observations. `flash_area_read`, `flash_area_align`
and `flash_area_get_sectors` change no state. Callers whose offset plus length wraps around
32 bits or leads out of the device are excluded by assumption: the code checks neither and
the only caller is MCUboot. The error path of the button example's `_write` is for files
`printf` does not write to. The width of the terminal and the length of log
messages are not modelled.
