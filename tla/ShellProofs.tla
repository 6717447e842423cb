----------------------------- MODULE ShellProofs -----------------------------
(***************************************************************************)
(* Proofs about the shell and about the console it is part of, for every   *)
(* buffer and ring size, argument limit, alphabet and command table: array *)
(* bounds, the shell is never stuck with a full buffer, arguments are the  *)
(* words of the line, the screen shows the line, and the line is the one   *)
(* typed.                                                                  *)
(***************************************************************************)
EXTENDS Console, SequenceTheorems, WellFoundedInduction, TLAPS

\* The part of the type invariant that is about the shell's own variables.
ShellType ==
    /\ booted \in BOOLEAN
    /\ rx_size \in 0 .. RX_SIZE /\ rx_buffer \in [Cells -> Chars]
    /\ pc \in {"idle", "scan", "dispatch"}
    /\ i \in 0 .. RX_SIZE /\ next_arg \in Cells \cup {NULL}
    /\ argv \in Seq(Cells) /\ argc <= MAX_ARGS

\* Every argument found so far has its terminator behind it, and a pending
\* word starts before the index.
ScanInv ==
    /\ \A k \in 1 .. argc : \E j \in Cells : j > argv[k] /\ rx_buffer[j] = NUL
    /\ next_arg # NULL => next_arg < i
    /\ pc = "idle" => argv = <<>>

IInv == ShellType /\ NeverStuckFull /\ ScanInv

\* The cells of the line buffer are numbers, NULL is none of them, and the
\* buffer of zeros is typed.
LEMMA CellsFacts ==
  /\ Cells \subseteq Nat /\ NULL \notin Cells /\ NUL \in Chars
  /\ Empty \in [Cells -> Chars]
  BY ShellAssumption DEF Cells, NULL, Chars, Empty

\* The buffer invariant holds at the start.
LEMMA InitIInv == Init => IInv
<1> SUFFICES ASSUME Init PROVE IInv
  OBVIOUS
<1>1. booted \in BOOLEAN
  BY DEF Init
<1>2. /\ rx_size = 0 /\ rx_buffer \in [Cells -> Chars] /\ pc = "idle"
      /\ i = 0 /\ next_arg = NULL /\ argv = <<>>
  BY CellsFacts DEF Init
<1> QED BY <1>1, <1>2, ShellAssumption
        DEF IInv, ShellType, NeverStuckFull, ScanInv, prv_is_rx_buffer_full, argc

\* The stored character is one the buffer can hold.
LEMMA StoredChar ==
  ASSUME NEW ch \in Input, ch \notin {Return, Backspace} PROVE ch \in Chars
  BY ShellAssumption DEF Chars

\* Every character, every step of the scan and every command keeps it.
LEMMA StepIInv == IInv /\ [Next]_vars => IInv'
<1> SUFFICES ASSUME IInv, [Next]_vars PROVE IInv'
  OBVIOUS
<1> USE ShellAssumption, CellsFacts
        DEF IInv, ShellType, NeverStuckFull, ScanInv, prv_is_rx_buffer_full, argc
<1>1. CASE shell_boot
  <2>1. booted' \in BOOLEAN
    BY <1>1 DEF shell_boot
  <2>2. rx_size' = 0 /\ rx_buffer' \in [Cells -> Chars] /\ UNCHANGED <<pc, i, next_arg, argv>>
    BY <1>1 DEF shell_boot, prv_reset_rx_buffer, scanVars
  <2>3. \A k \in 1 .. Len(argv') : \E j \in Cells : j > argv'[k] /\ rx_buffer'[j] = NUL
    <3> TAKE k \in 1 .. Len(argv')
    <3>1. PICK j \in Cells : j > argv[k]
      BY <2>2
    <3> QED BY <1>1, <2>2, <3>1 DEF shell_boot, prv_reset_rx_buffer, Empty
  <2> QED BY <2>1, <2>2, <2>3
<1>2. CASE shell_receive_char
  <2>1. PICK ch \in Input :
          IgnoreChar(ch) \/ (ch = Backspace /\ EraseChar) \/ StoreChar(ch)
    BY <1>2 DEF shell_receive_char
  <2>2. CASE IgnoreChar(ch)
    BY <2>2 DEF IgnoreChar, vars, editVars, scanVars
  <2>3. CASE EraseChar
    <3>1. rx_buffer' \in [Cells -> Chars] /\ rx_size' \in 0 .. RX_SIZE /\ rx_size' < RX_SIZE
      BY <2>3 DEF EraseChar, Cells
    <3>2. UNCHANGED <<booted, pc, i, next_arg, argv>> /\ pc = "idle"
      BY <2>3 DEF EraseChar, scanVars
    <3> QED BY <3>1, <3>2
  <2>4. CASE StoreChar(ch)
    <3>1. ch \in Chars
      BY <2>4, StoredChar DEF StoreChar
    <3>2. rx_buffer' \in [Cells -> Chars] /\ rx_size' \in 0 .. RX_SIZE
      BY <2>4, <3>1 DEF StoreChar, Cells
    <3>3. CASE LineComplete(ch)
      <4>1. pc' = "scan" /\ i' = 0 /\ next_arg' = NULL /\ argv' = <<>> /\ booted' = booted
        BY <2>4, <3>3 DEF StoreChar
      <4> QED BY <3>2, <4>1
    <3>4. CASE ~LineComplete(ch)
      <4>1. pc' = pc /\ i' = i /\ next_arg' = next_arg /\ argv' = argv /\ booted' = booted
        BY <2>4, <3>4 DEF StoreChar, scanVars
      <4>2. rx_size' < RX_SIZE /\ pc = "idle"
        BY <2>4, <3>4 DEF StoreChar, LineComplete
      <4> QED BY <3>2, <4>1, <4>2
    <3> QED BY <3>3, <3>4
  <2> QED BY <2>1, <2>2, <2>3, <2>4
<1>3. CASE ScanSeparator
  <2>1. /\ pc = "scan" /\ pc' = pc /\ i < rx_size /\ i \in Cells /\ i' = i + 1
        /\ Len(argv) < MAX_ARGS /\ next_arg' = NULL
        /\ rx_buffer' = [rx_buffer EXCEPT ![i] = NUL] /\ UNCHANGED <<booted, rx_size>>
    BY <1>3 DEF ScanSeparator, Scanning, Cells
  <2>2. rx_buffer' \in [Cells -> Chars] /\ i' \in 0 .. RX_SIZE
    BY <2>1 DEF Cells
  <2>3. \A j \in Cells : rx_buffer[j] = NUL => rx_buffer'[j] = NUL
    BY <2>1
  <2>4. rx_buffer'[i] = NUL
    BY <2>1
  <2>5. CASE next_arg = NULL
    <3>1. argv' = argv
      BY <1>3, <2>5 DEF ScanSeparator
    <3> QED BY <2>1, <2>2, <2>3, <3>1
  <2>6. CASE next_arg # NULL
    <3>1. argv' = Append(argv, next_arg) /\ next_arg \in Cells
      BY <1>3, <2>6 DEF ScanSeparator
    <3>2. argv' \in Seq(Cells) /\ Len(argv') = Len(argv) + 1
      BY <3>1
    <3>3. \A k \in 1 .. Len(argv') : \E j \in Cells : j > argv'[k] /\ rx_buffer'[j] = NUL
      <4> TAKE k \in 1 .. Len(argv')
      <4>1. CASE k \in 1 .. Len(argv)
        <5>1. argv'[k] = argv[k] BY <3>1, <4>1
        <5> QED BY <2>3, <4>1, <5>1
      <4>2. CASE k = Len(argv) + 1
        <5>1. argv'[k] = next_arg BY <3>1, <4>2
        <5> QED BY <2>1, <2>4, <2>6, <5>1
      <4> QED BY <3>2, <4>1, <4>2
    <3> QED BY <2>1, <2>2, <3>2, <3>3
  <2> QED BY <2>5, <2>6
<1>4. CASE ScanLetter
  <2>1. /\ pc = "scan" /\ pc' = pc /\ i < rx_size /\ i' = i + 1 /\ i \in Cells
        /\ next_arg' = IF next_arg = NULL THEN i ELSE next_arg
        /\ UNCHANGED <<booted, rx_size, rx_buffer, argv>>
    BY <1>4 DEF ScanLetter, Scanning, editVars, Cells
  <2> QED BY <2>1
<1>5. CASE ScanDone
  BY <1>5 DEF ScanDone, editVars, scanVars
<1>6. ASSUME NEW t, FinishLine(t) PROVE IInv'
  BY <1>6 DEF FinishLine, ForgetLocals, prv_reset_rx_buffer
<1>7. ASSUME NEW name \in DOMAIN Commands, RunReboot(name) PROVE IInv'
  <2>1. booted' \in BOOLEAN
    BY <1>7 DEF RunReboot
  <2>2. /\ rx_size' = 0 /\ rx_buffer' \in [Cells -> Chars] /\ pc' = "idle"
        /\ i' = 0 /\ next_arg' = NULL /\ argv' = <<>>
    BY <1>7 DEF RunReboot, ForgetLocals
  <2> QED BY <2>1, <2>2
<1>8. CASE prv_process
  BY <1>3, <1>4, <1>5, <1>6, <1>7, <1>8
  DEF prv_process, RunNothing, RunUnknown, RunHelp, RunLog
<1>9. CASE UNCHANGED vars
  BY <1>9 DEF vars, editVars, scanVars
<1> QED BY <1>1, <1>2, <1>8, <1>9 DEF Next

\* The inductive invariant of line editing and tokenising.
THEOREM ShellInvariant == Spec => []IInv
  BY InitIInv, StepIInv, PTL DEF Spec

\* The shell never waits for input with a full buffer: shell_receive_char's
\* test for a full buffer can never make it deaf.
THEOREM ShellNeverStuckFull == Spec => []NeverStuckFull
<1>1. IInv => NeverStuckFull BY DEF IInv
<1> QED BY ShellInvariant, <1>1, PTL

\* Every string given to strcmp or to a handler ends inside rx_buffer.
THEOREM ShellArgvTerminated == Spec => []ArgvTerminated
<1>1. IInv => ArgvTerminated BY DEF IInv, ScanInv, ArgvTerminated
<1> QED BY ShellInvariant, <1>1, PTL

-----------------------------------------------------------------------------
(* The tokeniser finds the words of the line.                              *)

\* The buffer is the line, with the separators passed so far overwritten.
LineInv ==
    /\ line \in Seq(Chars) /\ Len(line) = rx_size /\ i <= rx_size
    /\ \A x \in 0 .. rx_size - 1 :
           rx_buffer[x] = IF x < i /\ LineSeparator(x) THEN NUL ELSE line[x + 1]

\* The pending word is the one the index is in.
PendingInv ==
    /\ next_arg = NULL <=> i = 0 \/ LineSeparator(i - 1)
    /\ next_arg # NULL => /\ next_arg \in WordStarts /\ next_arg < i
                          /\ \A w \in WordStarts : w < i => w <= next_arg

\* argv holds the words passed so far, in order and each followed by a
\* separator.
WordsInv ==
    /\ \A a, b \in 1 .. argc : a < b => argv[a] < argv[b]
    /\ {argv[n] : n \in 1 .. argc} = {w \in WordStarts : w < i /\ w # next_arg}
    /\ \A n \in 1 .. argc : \E x \in 0 .. i - 1 : x > argv[n] /\ LineSeparator(x)

\* While prv_process runs; the loop ends for want of characters or of room.
TokenInv ==
    pc # "idle" =>
        /\ booted /\ LineInv /\ PendingInv /\ WordsInv
        /\ pc = "dispatch" => i = rx_size \/ argc = MAX_ARGS

\* What the words are depends on the line alone; the facts about them used below.
LEMMA StartFacts ==
  ASSUME line \in Seq(Chars), NEW w \in WordStarts
  PROVE  w \in Nat /\ w < Len(line) /\ ~LineSeparator(w) /\ w # NULL
  BY DEF WordStarts, NULL

\* The index meets a separator of the buffer exactly where the line has one.
LEMMA SeparatorHere ==
  ASSUME IInv, TokenInv, Scanning
  PROVE  /\ i \in 0 .. rx_size - 1 /\ i \in Nat /\ rx_size \in Nat
         /\ IsSeparator(i) <=> LineSeparator(i)
<1>1. pc = "scan" /\ i < rx_size /\ i \in Nat /\ rx_size \in Nat
  BY ShellAssumption DEF Scanning, IInv, ShellType
<1>2. LineInv
  BY <1>1 DEF TokenInv
<1>3. i \in 0 .. rx_size - 1
  BY SMT, <1>1
<1>4. rx_buffer[i] = line[i + 1] /\ Len(line) = rx_size
  <2>1. rx_buffer[i] = IF i < i /\ LineSeparator(i) THEN NUL ELSE line[i + 1]
    BY <1>2, <1>3 DEF LineInv
  <2>2. ~(i < i)
    BY <1>1
  <2>3. QED
    BY <1>2, <2>1, <2>2 DEF LineInv
<1>5. QED
  BY <1>1, <1>3, <1>4 DEF IsSeparator, LineSeparator

\* A separator ends the pending word.
LEMMA SeparatorStep ==
  ASSUME IInv, TokenInv, ScanSeparator
  PROVE  TokenInv'
<1>1. /\ pc = "scan" /\ pc' = pc /\ i' = i + 1 /\ next_arg' = NULL /\ Scanning
      /\ rx_buffer' = [rx_buffer EXCEPT ![i] = NUL]
      /\ argv' = IF next_arg # NULL THEN Append(argv, next_arg) ELSE argv
      /\ booted' = booted /\ rx_size' = rx_size /\ line' = line
  BY DEF ScanSeparator, Scanning
<1>2. /\ i \in 0 .. rx_size - 1 /\ i \in Nat /\ rx_size \in Nat /\ LineSeparator(i)
  BY <1>1, SeparatorHere DEF ScanSeparator
<1>3. booted /\ LineInv /\ PendingInv /\ WordsInv
  BY <1>1 DEF TokenInv
<1>4. /\ line \in Seq(Chars) /\ Len(line) = rx_size /\ argv \in Seq(Cells)
      /\ rx_buffer \in [Cells -> Chars] /\ Cells \subseteq Nat /\ Cells = 0 .. RX_SIZE - 1
      /\ rx_size \in 0 .. RX_SIZE /\ RX_SIZE \in Nat /\ next_arg \in Cells \cup {NULL}
  BY <1>3, CellsFacts, ShellAssumption DEF IInv, ShellType, LineInv, Cells
<1>5. WordStarts' = WordStarts /\ \A x : LineSeparator(x)' <=> LineSeparator(x)
  BY <1>1 DEF WordStarts, LineSeparator
<1>6. LineInv'
  <2>1. i + 1 <= rx_size
    BY SMT, <1>2
  <2>2. ASSUME NEW x \in 0 .. rx_size - 1
        PROVE  rx_buffer'[x] = IF x < i + 1 /\ LineSeparator(x) THEN NUL ELSE line[x + 1]
    <3>1. x \in Cells /\ x \in Nat
      BY SMT, <1>4
    <3>2. CASE x = i
      <4>1. rx_buffer'[x] = NUL /\ x < i + 1
        BY <1>1, <1>2, <1>4, <3>1, <3>2
      <4>2. QED
        BY <1>2, <3>2, <4>1
    <3>3. CASE x # i
      <4>1. rx_buffer'[x] = rx_buffer[x]
        BY <1>1, <1>4, <3>1, <3>3
      <4>2. x < i + 1 <=> x < i
        BY SMT, <1>2, <3>1, <3>3
      <4>3. QED
        BY <1>3, <4>1, <4>2 DEF LineInv
    <3>4. QED
      BY <3>2, <3>3
  <2>3. QED
    BY <1>1, <1>4, <1>5, <2>1, <2>2 DEF LineInv
<1>7. PendingInv'
  <2>1. i' # 0 /\ i' - 1 = i
    BY <1>1, <1>2
  <2>2. QED
    BY <1>1, <1>2, <1>5, <2>1 DEF PendingInv
<1>8. \A w \in WordStarts : w < i + 1 <=> w < i
  <2>1. \A w \in WordStarts : w \in Nat /\ w # i
    BY <1>2, <1>4, StartFacts
  <2>2. QED
    BY SMT, <1>2, <2>1
<1>9. WordsInv'
  <2>1. CASE next_arg = NULL
    <3>1. argv' = argv
      BY <1>1, <2>1
    <3>2. {w \in WordStarts : w < i + 1 /\ w # NULL} = {w \in WordStarts : w < i /\ w # next_arg}
      BY <1>8, <2>1
    <3>3. \A n \in 1 .. argc : \E x \in 0 .. i : x > argv[n] /\ LineSeparator(x)
      <4>1. 0 .. i - 1 \subseteq 0 .. i
        BY SMT, <1>2
      <4>2. QED
        BY <1>3, <4>1 DEF WordsInv
    <3>4. i' - 1 = i
      BY <1>1, <1>2
    <3>5. QED
      BY <1>1, <1>3, <1>5, <3>1, <3>2, <3>3, <3>4 DEF WordsInv, argc
  <2>2. CASE next_arg # NULL
    <3>1. argv' = Append(argv, next_arg) /\ next_arg \in Cells
      BY <1>1, <1>4, <2>2
    <3>2. /\ Len(argv') = Len(argv) + 1 /\ argv'[Len(argv) + 1] = next_arg /\ Len(argv) \in Nat
          /\ \A n \in 1 .. Len(argv) : argv'[n] = argv[n]
      BY <1>4, <3>1
    <3>3. 1 .. Len(argv') = (1 .. Len(argv)) \cup {Len(argv) + 1}
      BY SMT, <3>2
    <3>4. /\ next_arg \in WordStarts /\ next_arg < i
          /\ \A w \in WordStarts : w < i => w <= next_arg
      BY <1>3, <2>2 DEF PendingInv
    <3>5. {argv[n] : n \in 1 .. Len(argv)} = {w \in WordStarts : w < i /\ w # next_arg}
      BY <1>3 DEF WordsInv, argc
    <3>6. \A n \in 1 .. Len(argv) : argv[n] < next_arg
      <4>1. ASSUME NEW n \in 1 .. Len(argv) PROVE argv[n] < next_arg
        <5>1. argv[n] \in WordStarts /\ argv[n] < i /\ argv[n] # next_arg
          BY <3>5
        <5>2. argv[n] <= next_arg /\ argv[n] \in Nat /\ next_arg \in Nat
          BY <1>4, <3>4, <5>1, StartFacts
        <5>3. QED
          BY SMT, <5>1, <5>2
      <4>2. QED
        BY <4>1
    <3>7. \A a, b \in 1 .. Len(argv') : a < b => argv'[a] < argv'[b]
      <4>1. SUFFICES ASSUME NEW a \in 1 .. Len(argv'), NEW b \in 1 .. Len(argv'), a < b
                     PROVE  argv'[a] < argv'[b]
        OBVIOUS
      <4>2. a \in 1 .. Len(argv)
        BY SMT, <3>2, <4>1
      <4>3. CASE b \in 1 .. Len(argv)
        BY <1>3, <3>2, <4>1, <4>2, <4>3 DEF WordsInv, argc
      <4>4. CASE b = Len(argv) + 1
        BY <3>2, <3>6, <4>2, <4>4
      <4>5. QED
        BY <3>3, <4>3, <4>4
    <3>8. {argv'[n] : n \in 1 .. Len(argv')} = {argv[n] : n \in 1 .. Len(argv)} \cup {next_arg}
      BY <3>2, <3>3
    <3>9. {argv'[n] : n \in 1 .. Len(argv')} = {w \in WordStarts : w < i + 1 /\ w # NULL}
      <4>1. \A w \in WordStarts : w # NULL
        BY <1>4, StartFacts
      <4>2. QED
        BY <1>8, <3>4, <3>5, <3>8, <4>1
    <3>10. \A n \in 1 .. Len(argv') : \E x \in 0 .. i : x > argv'[n] /\ LineSeparator(x)
      <4>1. 0 .. i - 1 \subseteq 0 .. i /\ i \in 0 .. i /\ i > next_arg
        <5>1. 0 .. i - 1 \subseteq 0 .. i /\ i \in 0 .. i
          BY SMT, <1>2
        <5>2. next_arg \in Nat
          BY <3>1, <1>4
        <5>3. i > next_arg
          BY SMT, <1>2, <3>4, <5>2
        <5>4. QED
          BY <5>1, <5>3
      <4>2. ASSUME NEW n \in 1 .. Len(argv)
            PROVE  \E x \in 0 .. i : x > argv'[n] /\ LineSeparator(x)
        BY <1>3, <3>2, <4>1 DEF WordsInv, argc
      <4>3. \E x \in 0 .. i : x > argv'[Len(argv) + 1] /\ LineSeparator(x)
        BY <1>2, <3>2, <4>1
      <4>4. QED
        BY <3>3, <4>2, <4>3
    <3>11. i' - 1 = i
      BY <1>1, <1>2
    <3>12. QED
      BY <1>1, <1>5, <3>7, <3>9, <3>10, <3>11 DEF WordsInv, argc
  <2>3. QED
    BY <2>1, <2>2
<1>10. QED
  BY <1>1, <1>3, <1>6, <1>7, <1>9 DEF TokenInv

\* Another character starts a word or continues the pending one.
LEMMA LetterStep ==
  ASSUME IInv, TokenInv, ScanLetter
  PROVE  TokenInv'
<1>1. /\ pc = "scan" /\ pc' = pc /\ i' = i + 1 /\ Scanning
      /\ next_arg' = IF next_arg = NULL THEN i ELSE next_arg
      /\ rx_buffer' = rx_buffer /\ argv' = argv
      /\ booted' = booted /\ rx_size' = rx_size /\ line' = line
  BY DEF ScanLetter, Scanning, editVars
<1>2. i \in 0 .. rx_size - 1 /\ i \in Nat /\ rx_size \in Nat /\ ~LineSeparator(i)
  BY <1>1, SeparatorHere DEF ScanLetter
<1>3. booted /\ LineInv /\ PendingInv /\ WordsInv
  BY <1>1 DEF TokenInv
<1>4. line \in Seq(Chars) /\ Len(line) = rx_size
  BY <1>3 DEF LineInv
<1>5. WordStarts' = WordStarts /\ \A x : LineSeparator(x)' <=> LineSeparator(x)
  BY <1>1 DEF WordStarts, LineSeparator
<1>6. LineInv'
  <2>1. i + 1 <= rx_size
    BY SMT, <1>2
  <2>2. \A x \in 0 .. rx_size - 1 : x < i + 1 /\ LineSeparator(x) <=> x < i /\ LineSeparator(x)
    <3>1. \A x \in 0 .. rx_size - 1 : x # i => (x < i + 1 <=> x < i)
      BY SMT, <1>2
    <3>2. \A x \in 0 .. rx_size - 1 : x < i => x < i + 1
      BY SMT, <1>2
    <3>3. QED
      BY <1>2, <3>1, <3>2
  <2>3. QED
    BY <1>1, <1>3, <1>4, <1>5, <2>1, <2>2 DEF LineInv
<1>7. \A w \in WordStarts : w \in Nat /\ (w < i + 1 <=> w < i \/ w = i)
  <2>1. \A w \in WordStarts : w \in Nat
    BY <1>4, StartFacts
  <2>2. QED
    BY SMT, <1>2, <2>1
<1>8. i' # 0 /\ i' - 1 = i /\ i # NULL
  BY <1>1, <1>2 DEF NULL
<1>9. i \in WordStarts <=> next_arg = NULL
  <2>1. i \in 0 .. Len(line) - 1
    BY <1>2, <1>4
  <2>2. QED
    BY <1>2, <1>3, <2>1 DEF WordStarts, PendingInv
<1>10. next_arg' # NULL /\ next_arg' \in WordStarts /\ next_arg' < i + 1
      /\ \A w \in WordStarts : w < i + 1 => w <= next_arg'
  <2>1. CASE next_arg = NULL
    <3>1. next_arg' = i /\ i \in WordStarts
      BY <1>1, <1>9, <2>1
    <3>2. \A w \in WordStarts : w < i + 1 => w <= i
      BY SMT, <1>2, <1>7
    <3>3. i < i + 1
      BY <1>2
    <3>4. QED
      BY <1>8, <3>1, <3>2, <3>3
  <2>2. CASE next_arg # NULL
    <3>1. /\ next_arg' = next_arg /\ next_arg \in WordStarts /\ next_arg < i
          /\ \A w \in WordStarts : w < i => w <= next_arg
      BY <1>1, <1>3, <2>2 DEF PendingInv
    <3>2. \A w \in WordStarts : w # i
      BY <1>9, <2>2
    <3>3. QED
      BY <1>7, <2>2, <3>1, <3>2
  <2>3. QED
    BY <2>1, <2>2
<1>11. PendingInv'
  BY <1>1, <1>2, <1>5, <1>8, <1>10 DEF PendingInv
<1>12. {w \in WordStarts : w < i + 1 /\ w # next_arg'} = {w \in WordStarts : w < i /\ w # next_arg}
  <2>1. CASE next_arg = NULL
    <3>1. next_arg' = i
      BY <1>1, <2>1
    <3>2. \A w \in WordStarts : w # NULL /\ (w < i => w # i)
      BY <1>4, <1>2, StartFacts
    <3>3. QED
      BY <1>7, <2>1, <3>1, <3>2
  <2>2. CASE next_arg # NULL
    <3>1. next_arg' = next_arg
      BY <1>1, <2>2
    <3>2. \A w \in WordStarts : w # i
      BY <1>9, <2>2
    <3>3. QED
      BY <1>7, <3>1, <3>2
  <2>3. QED
    BY <2>1, <2>2
<1>13. WordsInv'
  <2>1. 0 .. i - 1 \subseteq 0 .. i
    BY SMT, <1>2
  <2>2. \A n \in 1 .. argc : \E x \in 0 .. i : x > argv[n] /\ LineSeparator(x)
    BY <1>3, <2>1 DEF WordsInv
  <2>3. QED
    BY <1>1, <1>3, <1>5, <1>8, <1>12, <2>2 DEF WordsInv, argc
<1>14. QED
  BY <1>1, <1>3, <1>6, <1>11, <1>13 DEF TokenInv

\* prv_process enters its loop with the line before it and no word found.
LEMMA StoreStep ==
  ASSUME IInv, TokenInv, NEW ch \in Input, StoreChar(ch)
  PROVE  TokenInv'
<1>1. CASE ~LineComplete(ch)
  BY <1>1 DEF StoreChar, TokenInv
<1>2. CASE LineComplete(ch)
  <2>1. /\ pc' = "scan" /\ i' = 0 /\ next_arg' = NULL /\ argv' = <<>> /\ booted' = booted
        /\ booted /\ rx_size' = rx_size + 1 /\ rx_buffer' = [rx_buffer EXCEPT ![rx_size] = ch]
        /\ line' = [k \in 1 .. rx_size + 1 |-> rx_buffer'[k - 1]]
    BY <1>2 DEF StoreChar
  <2>2. /\ rx_size \in Nat /\ rx_size < RX_SIZE /\ RX_SIZE \in Nat
        /\ rx_buffer' \in [Cells -> Chars]
    <3>1. ch \in Chars
      BY StoredChar DEF StoreChar
    <3>2. rx_size \in Nat /\ RX_SIZE \in Nat /\ rx_buffer \in [Cells -> Chars]
      BY ShellAssumption DEF IInv, ShellType
    <3>3. ~(rx_size >= RX_SIZE)
      BY DEF StoreChar, prv_is_rx_buffer_full
    <3>4. rx_size < RX_SIZE
      BY SMT, <3>2, <3>3
    <3>5. QED
      BY <2>1, <3>1, <3>2, <3>4
  <2>3. line' \in Seq(Chars) /\ Len(line') = rx_size + 1
    <3>1. \A k \in 1 .. rx_size + 1 : k - 1 \in Cells
      BY SMT, <2>2 DEF Cells
    <3>2. \A k \in 1 .. rx_size + 1 : rx_buffer'[k - 1] \in Chars
      BY <2>2, <3>1
    <3>3. QED
      BY <2>1, <2>2, <3>2
  <2>4. \A x \in 0 .. rx_size : ~(x < 0) /\ rx_buffer'[x] = line'[x + 1]
    <3>1. \A x \in 0 .. rx_size : x + 1 \in 1 .. rx_size + 1 /\ (x + 1) - 1 = x /\ ~(x < 0)
      BY SMT, <2>2
    <3>2. QED
      BY <2>1, <3>1
  <2>5. LineInv'
    <3>1. rx_size' - 1 = rx_size /\ 0 <= rx_size'
      BY <2>1, <2>2
    <3>2. QED
      BY <2>1, <2>3, <2>4, <3>1 DEF LineInv
  <2>6. PendingInv'
    BY <2>1 DEF PendingInv
  <2>7. WordsInv'
    <3>1. 1 .. Len(argv') = {}
      BY <2>1
    <3>2. WordStarts' \subseteq Nat
      BY DEF WordStarts
    <3>3. \A w \in WordStarts' : ~(w < 0)
      BY <3>2
    <3>4. QED
      BY <2>1, <3>1, <3>3 DEF WordsInv, argc
  <2>8. QED
    BY <2>1, <2>5, <2>6, <2>7 DEF TokenInv
<1>3. QED
  BY <1>1, <1>2

\* The words recorded so far stay those of the line while the scan cuts it.
LEMMA TokenStep == IInv /\ TokenInv /\ [Next]_vars => TokenInv'
<1> SUFFICES ASSUME IInv, TokenInv, [Next]_vars PROVE TokenInv'
  OBVIOUS
<1>1. CASE shell_boot
  <2>1. pc = "idle" /\ pc' = pc
    BY <1>1 DEF shell_boot, TokenInv
  <2>2. QED
    BY <2>1 DEF TokenInv
<1>2. CASE shell_receive_char
  <2>1. PICK ch \in Input :
          IgnoreChar(ch) \/ (ch = Backspace /\ EraseChar) \/ StoreChar(ch)
    BY <1>2 DEF shell_receive_char
  <2>2. CASE IgnoreChar(ch) \/ EraseChar
    <3>1. pc' = "idle"
      BY <2>2 DEF IgnoreChar, EraseChar, vars
    <3>2. QED
      BY <3>1 DEF TokenInv
  <2>3. QED
    BY <2>1, <2>2, StoreStep
<1>3. CASE ScanDone
  <2>1. /\ pc = "scan" /\ pc' = "dispatch" /\ ~Scanning /\ booted' = booted
        /\ rx_size' = rx_size /\ rx_buffer' = rx_buffer /\ i' = i /\ next_arg' = next_arg
        /\ argv' = argv /\ line' = line
    BY <1>3 DEF ScanDone, editVars, scanVars
  <2>2. i = rx_size \/ argc = MAX_ARGS
    <3>1. i <= rx_size /\ argc <= MAX_ARGS
      BY <2>1 DEF TokenInv, LineInv, IInv, ShellType
    <3>2. /\ i \in Nat /\ rx_size \in Nat /\ argc \in Nat /\ MAX_ARGS \in Nat
      BY ShellAssumption DEF IInv, ShellType, argc
    <3>3. ~(i < rx_size) \/ ~(argc < MAX_ARGS)
      BY <2>1 DEF Scanning
    <3>4. QED
      BY SMT, <3>1, <3>2, <3>3
  <2>3. booted /\ LineInv /\ PendingInv /\ WordsInv
    BY <2>1 DEF TokenInv
  <2>4. booted' /\ LineInv' /\ PendingInv' /\ WordsInv'
    BY <2>1, <2>3 DEF LineInv, PendingInv, WordsInv, WordStarts, LineSeparator, argc
  <2>5. QED
    BY <2>1, <2>2, <2>4 DEF TokenInv, argc
<1>4. CASE RunNothing \/ RunUnknown
           \/ \E name \in DOMAIN Commands : RunHelp(name) \/ RunLog(name) \/ RunReboot(name)
  <2>1. pc' = "idle"
    BY <1>4 DEF RunNothing, RunUnknown, RunHelp, RunLog, RunReboot, FinishLine
  <2>2. QED
    BY <2>1 DEF TokenInv
<1>5. CASE UNCHANGED vars
  <2>1. /\ pc' = pc /\ booted' = booted
        /\ rx_size' = rx_size /\ rx_buffer' = rx_buffer /\ i' = i /\ next_arg' = next_arg
        /\ argv' = argv /\ line' = line
    BY <1>5 DEF vars, editVars, scanVars
  <2>2. LineInv' = LineInv /\ PendingInv' = PendingInv /\ WordsInv' = WordsInv
    BY <2>1 DEF LineInv, PendingInv, WordsInv, WordStarts, LineSeparator, argc
  <2>3. QED
    BY <2>1, <2>2 DEF TokenInv, argc
<1>6. QED
  BY <1>1, <1>2, <1>3, <1>4, <1>5, SeparatorStep, LetterStep DEF Next, prv_process

\* The tokeniser's invariant holds in every reachable state.
LEMMA TokenInvariant == Spec => []TokenInv
<1>1. Init => TokenInv
  BY DEF Init, TokenInv
<1>2. QED
  BY <1>1, TokenStep, ShellInvariant, PTL DEF Spec

\* In the argument vector the n-th word is the n-th.
LEMMA NthStart ==
  ASSUME IInv, TokenInv, pc # "idle", NEW n \in 1 .. argc
  PROVE  IsNthStart(argv[n], n)
<1>1. /\ line \in Seq(Chars) /\ argv \in Seq(Cells) /\ argc \in Nat
      /\ \A a, b \in 1 .. argc : a < b => argv[a] < argv[b]
      /\ {argv[m] : m \in 1 .. argc} = {w \in WordStarts : w < i /\ w # next_arg}
      /\ \A w \in WordStarts : next_arg # NULL /\ w < i => w <= next_arg
  BY DEF IInv, ShellType, TokenInv, LineInv, PendingInv, WordsInv, argc
<1>2. \A m \in 1 .. argc : argv[m] \in WordStarts /\ argv[m] \in Nat
  <2>1. \A m \in 1 .. argc : argv[m] \in WordStarts
    BY <1>1
  <2>2. QED
    BY <1>1, <2>1, StartFacts
<1> DEFINE f == [a \in 1 .. n - 1 |-> argv[a]]
<1>3. 1 .. n - 1 \subseteq 1 .. argc /\ n \in Nat
  BY SMT, <1>1
<1>4. f \in [1 .. n - 1 -> WordStarts]
  BY <1>2, <1>3
<1>5. \A a, b \in 1 .. n - 1 : a < b => f[a] < f[b]
  BY <1>1, <1>3
<1>6. {f[a] : a \in 1 .. n - 1} = {w \in WordStarts : w < argv[n]}
  <2>1. ASSUME NEW a \in 1 .. n - 1 PROVE f[a] \in {w \in WordStarts : w < argv[n]}
    <3>1. a \in 1 .. argc /\ a < n
      BY SMT, <1>1, <1>3
    <3>2. QED
      BY <1>1, <1>2, <3>1
  <2>2. ASSUME NEW w \in WordStarts, w < argv[n]
        PROVE  \E a \in 1 .. n - 1 : w = f[a]
    <3>1. argv[n] < i /\ argv[n] # next_arg /\ argv[n] \in WordStarts /\ argv[n] \in Nat
      BY <1>1, <1>2
    <3>2. w \in Nat /\ i \in Nat
      BY <1>1, StartFacts DEF IInv, ShellType
    <3>3. w < i
      BY SMT, <2>2, <3>1, <3>2
    <3>4. w # next_arg
      <4>1. SUFFICES ASSUME w = next_arg PROVE FALSE
        OBVIOUS
      <4>2. next_arg # NULL
        BY <1>1, <4>1, StartFacts
      <4>3. argv[n] <= w
        BY <1>1, <3>1, <4>1, <4>2
      <4>4. QED
        BY SMT, <2>2, <3>1, <3>2, <4>3
    <3>5. PICK m \in 1 .. argc : w = argv[m]
      BY <1>1, <3>3, <3>4
    <3>6. m < n
      <4>1. m = n => ~(argv[m] < argv[n])
        BY <3>1
      <4>2. n < m => argv[n] < argv[m]
        BY <1>1
      <4>3. m # n /\ ~(n < m)
        <5>1. argv[m] \in Nat /\ argv[m] < argv[n]
          BY <2>2, <3>2, <3>5
        <5>2. ~(argv[n] < argv[m])
          BY SMT, <3>1, <5>1
        <5>3. QED
          BY <4>1, <4>2, <5>1, <5>2
      <4>4. QED
        BY SMT, <1>1, <1>3, <4>3
    <3>7. m \in 1 .. n - 1
      BY SMT, <1>1, <1>3, <3>6
    <3>8. QED
      BY <3>5, <3>7
  <2>3. QED
    BY <2>1, <2>2
<1> HIDE DEF f
<1>7. QED
  BY <1>2, <1>4, <1>5, <1>6 DEF IsNthStart

\* For every line, buffer size and argument limit, argv is the first words of
\* the line, in order, none twice and none missing (shell.c:88-103).
THEOREM ShellArgvIsWords == Spec => []ArgvIsWords
<1>1. IInv /\ TokenInv => ArgvIsWords
  <2> SUFFICES ASSUME IInv, TokenInv, pc = "dispatch"
               PROVE  /\ \A n \in 1 .. argc : IsNthStart(argv[n], n)
                      /\ argc < MAX_ARGS => WordStarts = {argv[n] : n \in 1 .. argc}
    BY DEF ArgvIsWords
  <2>1. \A n \in 1 .. argc : IsNthStart(argv[n], n)
    BY NthStart
  <2>2. ASSUME argc < MAX_ARGS PROVE WordStarts = {argv[n] : n \in 1 .. argc}
    <3>1. /\ LineInv /\ PendingInv /\ WordsInv /\ argc \in Nat /\ MAX_ARGS \in Nat /\ i \in Nat
          /\ i = rx_size \/ argc = MAX_ARGS
      BY ShellAssumption DEF TokenInv, IInv, ShellType, argc
    <3>2. i = rx_size
      BY SMT, <2>2, <3>1
    <3>3. line \in Seq(Chars) /\ Len(line) = i
      BY <3>1, <3>2 DEF LineInv
    <3>4. next_arg = NULL
      BY <3>1, <3>3 DEF PendingInv, LineSeparator
    <3>5. \A w \in WordStarts : w < i /\ w # NULL
      BY <3>3, StartFacts
    <3>6. QED
      BY <3>1, <3>4, <3>5 DEF WordsInv
  <2>3. QED
    BY <2>1, <2>2
<1>2. QED
  BY <1>1, ShellInvariant, TokenInvariant, PTL

-----------------------------------------------------------------------------
(* A command runs only when the line says so.                              *)

\* A set of numbers that is not empty has a least member.
LEMMA LeastOf ==
  ASSUME NEW T \in SUBSET Nat, T # {}
  PROVE  \E x \in T : \A y \in T : x <= y
<1>1. PICK x \in T : \A y \in T : ~(<<y, x>> \in OpToRel(<, Nat))
  BY NatLessThanWellFounded, WFMin
<1>2. \A y \in T : ~(y < x)
  BY <1>1 DEF OpToRel
<1> QED BY <1>2

\* prv_process runs on a line that ends with a newline or fills the buffer.
CompleteInv == pc # "idle" => line[Len(line)] = Newline \/ Len(line) = RX_SIZE

\* The line is taken when its last character is stored, and kept to the end.
LEMMA CompleteStep == IInv /\ CompleteInv /\ [Next]_vars => CompleteInv'
<1> SUFFICES ASSUME IInv, CompleteInv, [Next]_vars, pc' # "idle" PROVE CompleteInv'
  BY DEF CompleteInv
<1>1. ASSUME pc # "idle", line' = line PROVE CompleteInv'
  BY <1>1 DEF CompleteInv
<1>2. CASE shell_boot BY <1>1, <1>2 DEF shell_boot, scanVars, CompleteInv
<1>3. CASE shell_receive_char
  <2>1. PICK ch \in Input : StoreChar(ch) /\ LineComplete(ch)
    BY <1>3 DEF shell_receive_char, IgnoreChar, EraseChar, StoreChar, vars
  <2>2. /\ rx_size \in Nat /\ RX_SIZE \in Nat /\ rx_size < RX_SIZE
        /\ rx_buffer \in [Cells -> Chars]
    BY <2>1, ShellAssumption DEF IInv, ShellType, StoreChar, prv_is_rx_buffer_full
  <2>3. rx_size \in Cells /\ rx_buffer'[rx_size] = ch
    BY <2>1, <2>2 DEF StoreChar, Cells
  <2>4. line' = [k \in 1 .. rx_size + 1 |-> rx_buffer'[k - 1]]
    BY <2>1 DEF StoreChar
  <2>5. Len(line') = rx_size + 1 /\ line'[rx_size + 1] = rx_buffer'[rx_size]
    BY <2>2, <2>4
  <2> QED BY <2>1, <2>2, <2>3, <2>5 DEF LineComplete, CompleteInv
<1>4. CASE prv_process
  <2>1. CASE ScanSeparator \/ ScanLetter \/ ScanDone
    BY <1>1, <2>1 DEF ScanSeparator, ScanLetter, ScanDone, Scanning, scanVars
  <2> QED
    BY <1>4, <2>1 DEF prv_process, RunNothing, RunUnknown, RunHelp, RunLog, RunReboot, FinishLine
<1>5. CASE UNCHANGED vars BY <1>1, <1>5 DEF vars, scanVars, CompleteInv
<1> QED BY <1>2, <1>3, <1>4, <1>5 DEF Next

\* Where the first word starts for the tokeniser is where it starts for a
\* reader: there are only blanks before the least of the starts.
LEMMA LeastStart ==
  ASSUME line \in Seq(Chars), NEW k \in WordStarts, \A w \in WordStarts : k <= w
  PROVE  FirstWordStarts(k + 1)
<1>1. k \in Nat /\ k < Len(line) /\ ~LineSeparator(k) /\ Len(line) \in Nat
  BY StartFacts
<1>2. k + 1 \in 1 .. Len(line) /\ line[k + 1] \notin Gap
  BY <1>1 DEF LineSeparator, Gap
<1>3. ASSUME NEW x \in 1 .. k, line[x] \notin Gap PROVE FALSE
  <2> DEFINE T == {y \in 1 .. k : line[y] \notin Gap}
  <2>1. PICK y \in T : \A z \in T : y <= z
    <3>1. T \in SUBSET Nat /\ T # {} BY <1>3
    <3> HIDE DEF T
    <3> QED BY <3>1, LeastOf
  <2>2. y \in 1 .. k /\ line[y] \notin Gap /\ \A z \in 1 .. k : z < y => line[z] \in Gap
    BY <1>1, <2>1
  <2>3. y - 1 \in 0 .. Len(line) - 1 /\ y - 1 # Len(line) - 1 /\ (y - 1) + 1 = y
    BY <1>1, <2>2
  <2>4. ~LineSeparator(y - 1)
    BY <2>2, <2>3 DEF LineSeparator, Gap
  <2>5. y - 1 = 0 \/ LineSeparator((y - 1) - 1)
    <3> SUFFICES ASSUME y - 1 # 0 PROVE LineSeparator((y - 1) - 1)
      OBVIOUS
    <3>1. y - 1 \in 1 .. k /\ y - 1 < y /\ ((y - 1) - 1) + 1 = y - 1
      BY <1>1, <2>2
    <3>2. line[y - 1] \in Gap BY <2>2, <3>1
    <3> QED BY <3>1, <3>2 DEF LineSeparator, Gap
  <2>6. y - 1 \in WordStarts
    BY <2>3, <2>4, <2>5 DEF WordStarts
  <2> QED BY <1>1, <2>2, <2>6
<1> QED BY <1>1, <1>2, <1>3 DEF FirstWordStarts

\* The command found for argv[0] is the first word of the line, or that word
\* without its last character or what follows a NUL: the comparison runs up to
\* the terminator the tokeniser put there and no further (shell.c:74-81).
LEMMA FoundIsFirstWord ==
  ASSUME IInv, TokenInv, CompleteInv, pc = "dispatch", NEW name \in Seq(Letters),
         prv_find_command(name)
  PROVE  FirstWordIs(name) \/ LosesLastCharacter(name) \/ CutByNul(name)
<1> DEFINE k == argv[1]
           len == Len(name)
<1>1. /\ argc >= 1 /\ argc \in Nat /\ len \in Nat /\ IsCString(k, name) /\ argv \in Seq(Cells)
      /\ i \in Nat /\ rx_size \in Nat
  BY DEF prv_find_command, IInv, ShellType, argc
<1>2. LineInv /\ WordsInv /\ 1 \in 1 .. argc
  BY <1>1 DEF TokenInv
<1>3. /\ line \in Seq(Chars) /\ Len(line) = rx_size /\ i <= rx_size
      /\ \A x \in 0 .. rx_size - 1 :
           rx_buffer[x] = IF x < i /\ LineSeparator(x) THEN NUL ELSE line[x + 1]
  BY <1>2 DEF LineInv
<1>4. IsNthStart(k, 1)
  BY <1>2, NthStart
<1>5. k \in WordStarts /\ k \in Nat
  BY <1>3, <1>4, StartFacts DEF IsNthStart
<1>6. \A w \in WordStarts : k <= w
  <2>1. {w \in WordStarts : w < k} = {}
    <3>1. 1 .. 1 - 1 = {}
      OBVIOUS
    <3>2. QED
      BY <1>4, <3>1 DEF IsNthStart
  <2>2. \A w \in WordStarts : w \in Nat /\ ~(w < k)
    BY <1>3, <2>1, StartFacts
  <2>3. QED
    BY SMT, <1>5, <2>2
<1>7. PICK t \in 0 .. i - 1 : t > k /\ LineSeparator(t)
  BY <1>2 DEF WordsInv
<1>8. /\ rx_buffer[k + len] = NUL
      /\ \A j \in 1 .. len : rx_buffer[k + j - 1] = name[j] /\ name[j] # NUL
  BY <1>1 DEF IsCString
<1> HIDE DEF k, len
<1>9. rx_buffer[t] = NUL
  <2>1. t \in 0 .. rx_size - 1 /\ t < i
    BY SMT, <1>1, <1>3
  <2>2. QED
    BY <1>3, <1>7, <2>1
<1>10. k + len <= t
  <2>1. SUFFICES ASSUME t < k + len PROVE FALSE
    BY SMT, <1>1, <1>5
  <2>2. t - k + 1 \in 1 .. len /\ k + (t - k + 1) - 1 = t
    BY SMT, <1>1, <1>5, <1>7, <2>1
  <2>3. QED
    BY <1>8, <1>9, <2>2
<1>11. ASSUME NEW j \in 1 .. len
       PROVE  ~LineSeparator(k + j - 1) /\ line[k + j] = name[j]
  <2>1. k + j - 1 \in 0 .. rx_size - 1 /\ k + j - 1 < i /\ (k + j - 1) + 1 = k + j
    BY SMT, <1>1, <1>3, <1>5, <1>7, <1>10
  <2>2. rx_buffer[k + j - 1] = name[j] /\ name[j] # NUL
    BY <1>8
  <2>3. QED
    BY <1>3, <2>1, <2>2
<1>12. LineSeparator(k + len) \/ line[k + len + 1] = NUL
  <2>1. k + len \in 0 .. rx_size - 1 /\ k + len < i
    BY SMT, <1>1, <1>3, <1>5, <1>7, <1>10
  <2>2. QED
    BY <1>3, <1>8, <2>1
<1>13. FirstWordStarts(k + 1)
  BY <1>3, <1>5, <1>6, LeastStart
<1>14. PICK e : e = k + len + 1
  OBVIOUS
<1>15. e \in 1 .. Len(line) /\ e - len = k + 1
  BY <1>1, <1>3, <1>5, <1>7, <1>10, <1>14
<1>16. ReadsUpTo(name, e)
  <2>1. \A j \in 1 .. len : e - len + j - 1 = k + j
    BY <1>1, <1>5, <1>14
  <2> QED BY <1>11, <1>13, <1>15, <2>1 DEF ReadsUpTo, len
<1>17. CASE line[e] \in Gap \/ line[e] = NUL
  BY <1>15, <1>16, <1>17 DEF FirstWordIs, CutByNul
<1>18. CASE line[e] \notin Gap /\ line[e] # NUL
  <2>1. k + len = Len(line) - 1
    BY <1>12, <1>14, <1>18 DEF LineSeparator, Gap
  <2>2. e = Len(line)
    BY <1>1, <1>3, <1>14, <2>1
  <2>3. Len(line) = RX_SIZE
    BY <1>18, <2>2 DEF CompleteInv, Gap
  <2> QED BY <1>16, <2>2, <2>3 DEF LosesLastCharacter
<1>19. QED
  BY <1>17, <1>18

\* The system restarts only because the first word of the line is a command
\* that restarts it, for every command table and buffer size; the two longer
\* words the code takes for a command are named, and there is no third
\* (shell.c:74-81, 94, shell_commands.c:22-46).
THEOREM ShellRestartOnlyOnCommand == Spec => RestartOnlyOnCommand
<1> DEFINE Named(name) == /\ Commands[name] \in {"reboot", "swap"}
                          /\ FirstWordIs(name) \/ LosesLastCharacter(name) \/ CutByNul(name)
<1>1. IInv /\ TokenInv /\ CompleteInv /\ [Next]_vars =>
        [booted /\ ~booted' => \E name \in DOMAIN Commands : Named(name)]_vars
  <2> SUFFICES ASSUME IInv, TokenInv, CompleteInv, Next, booted, ~booted'
               PROVE  \E name \in DOMAIN Commands : Named(name)
    OBVIOUS
  <2>1. PICK name \in DOMAIN Commands : RunReboot(name)
    <3>1. ~shell_boot
      BY DEF shell_boot
    <3>2. ~shell_receive_char
      BY DEF shell_receive_char, IgnoreChar, EraseChar, StoreChar, vars, editVars
    <3>3. ~ScanSeparator /\ ~ScanLetter /\ ~ScanDone
      BY DEF ScanSeparator, ScanLetter, ScanDone, editVars
    <3>4. ~RunNothing /\ ~RunUnknown /\ \A name \in DOMAIN Commands : ~RunHelp(name) /\ ~RunLog(name)
      BY DEF RunNothing, RunUnknown, RunHelp, RunLog, FinishLine
    <3>5. QED
      BY <3>1, <3>2, <3>3, <3>4 DEF Next, prv_process
  <2>2. /\ pc = "dispatch" /\ prv_find_command(name) /\ Commands[name] \in {"reboot", "swap"}
    BY <2>1 DEF RunReboot
  <2>3. FirstWordIs(name) \/ LosesLastCharacter(name) \/ CutByNul(name)
    BY <2>2, FoundIsFirstWord, ShellAssumption
  <2>4. QED
    BY <2>2, <2>3
<1>2. Init => CompleteInv
  BY DEF Init, CompleteInv
<1>3. QED
  BY <1>1, <1>2, CompleteStep, ShellInvariant, TokenInvariant, PTL DEF Spec, RestartOnlyOnCommand

-----------------------------------------------------------------------------
(* The whole type invariant: the line and the terminal's cursor too.       *)

\* A terminal: a row and a column.
IsTerm(t) == t = [row |-> t.row, col |-> t.col] /\ t.col \in Nat

\* Whatever is sent, a terminal is a terminal.
LEMMA TermPutType == ASSUME NEW t, IsTerm(t), NEW ch PROVE IsTerm(TermPut(t, ch))
<1> USE DEF IsTerm
<1>1. /\ Return # Newline /\ Return # Backspace /\ Newline # Backspace
      /\ NUL # Return /\ NUL # Newline /\ NUL # Backspace
  BY ShellAssumption DEF Return, Newline, Backspace
<1>2. CASE ch = Return
  <2>1. TermPut(t, ch) = [t EXCEPT !.col = 0]
    BY <1>1, <1>2 DEF TermPut
  <2>2. QED
    BY <2>1
<1>3. CASE ch = Newline
  <2>1. TermPut(t, ch) = [t EXCEPT !.row = Blanks(t.col)]
    BY <1>1, <1>3 DEF TermPut
  <2>2. QED
    BY <2>1
<1>4. CASE ch = Backspace
  <2>1. TermPut(t, ch) = [t EXCEPT !.col = OneLeft(@)]
    BY <1>1, <1>4 DEF TermPut
  <2>2. OneLeft(t.col) \in Nat
    BY SMT DEF OneLeft
  <2>3. QED
    BY <2>1, <2>2
<1>5. CASE ch = NUL
  <2>1. TermPut(t, ch) = t
    BY <1>1, <1>5 DEF TermPut
  <2>2. QED
    BY <2>1
<1>6. CASE ch \notin {Return, Newline, Backspace, NUL}
  <2>1. PICK r : TermPut(t, ch) = [row |-> r, col |-> t.col + 1]
    BY <1>6 DEF TermPut
  <2>2. t.col + 1 \in Nat
    OBVIOUS
  <2>3. QED
    BY <2>1, <2>2
<1>7. QED
  BY <1>2, <1>3, <1>4, <1>5, <1>6

\* The same of the texts sent.
LEMMA EchoType ==
  ASSUME NEW t, IsTerm(t), NEW ch
  PROVE  IsTerm(prv_echo(t, ch)) /\ IsTerm(prv_send_prompt(t)) /\ IsTerm(EchoLine(t))
         /\ IsTerm(LogLine(t))
<1>1. ASSUME NEW u, IsTerm(u), NEW x PROVE IsTerm(prv_echo(u, x))
  BY <1>1, TermPutType DEF prv_echo
<1>2. QED
  BY <1>1, TermPutType DEF prv_send_prompt, EchoLine, LogLine

\* The terminal and the history of the line.
TermInv == IsTerm(term) /\ line \in Seq(Chars)

\* What the terminal shows stays typed through echo, erasing and prompts.
LEMMA TermStep == IInv /\ TokenInv' /\ TermInv /\ [Next]_vars => TermInv'
<1> SUFFICES ASSUME IInv, TokenInv', TermInv, [Next]_vars PROVE TermInv'
  OBVIOUS
<1>1. CASE shell_boot
  BY <1>1, EchoType DEF shell_boot, TermInv, scanVars
<1>2. CASE shell_receive_char
  <2>1. PICK ch \in Input :
          IgnoreChar(ch) \/ (ch = Backspace /\ EraseChar) \/ StoreChar(ch)
    BY <1>2 DEF shell_receive_char
  <2>2. CASE IgnoreChar(ch)
    BY <2>2 DEF IgnoreChar, vars, scanVars, TermInv
  <2>3. CASE EraseChar
    BY <2>3, EchoType DEF EraseChar, scanVars, TermInv
  <2>4. CASE StoreChar(ch)
    <3>1. IsTerm(term')
      BY <2>4, EchoType DEF StoreChar, TermInv
    <3>2. line' \in Seq(Chars)
      <4>1. CASE LineComplete(ch)
        BY <2>4, <4>1 DEF StoreChar, TokenInv, LineInv
      <4>2. CASE ~LineComplete(ch)
        BY <2>4, <4>2 DEF StoreChar, scanVars, TermInv
      <4>3. QED
        BY <4>1, <4>2
    <3>3. QED
      BY <3>1, <3>2 DEF TermInv
  <2>5. QED
    BY <2>1, <2>2, <2>3, <2>4
<1>3. CASE ScanSeparator \/ ScanLetter
  BY <1>3 DEF ScanSeparator, ScanLetter, TermInv
<1>4. CASE ScanDone
  BY <1>4, EchoType DEF ScanDone, scanVars, TermInv
<1>5. ASSUME NEW t, IsTerm(t), FinishLine(t) PROVE TermInv'
  BY <1>5, EchoType DEF FinishLine, ForgetLocals, TermInv
<1>6. CASE RunNothing \/ RunUnknown
  <2>1. IsTerm(term) /\ IsTerm(EchoLine(EchoLine(term)))
    BY EchoType DEF TermInv
  <2>2. QED
    BY <1>5, <1>6, <2>1 DEF RunNothing, RunUnknown
<1>7. ASSUME NEW name \in DOMAIN Commands, RunHelp(name) \/ RunLog(name) \/ RunReboot(name)
      PROVE  TermInv'
  <2>1. /\ IsTerm(term) /\ IsTerm(EchoLine(EchoLine(term)))
        /\ IsTerm(LogLine(term)) /\ IsTerm(LogLine(LogLine(term)))
    BY EchoType DEF TermInv
  <2>2. CASE RunHelp(name)
    BY <1>5, <2>1, <2>2 DEF RunHelp
  <2>3. CASE RunLog(name)
    BY <1>5, <2>1, <2>3 DEF RunLog
  <2>4. CASE RunReboot(name)
    BY <2>1, <2>4 DEF RunReboot, ForgetLocals, TermInv
  <2>5. QED
    BY <1>7, <2>2, <2>3, <2>4
<1>8. CASE UNCHANGED vars
  BY <1>8 DEF vars, scanVars, TermInv
<1>9. QED
  BY <1>1, <1>2, <1>3, <1>4, <1>6, <1>7, <1>8 DEF Next, prv_process

\* Every index of the shell stays inside its array, and the cursor is never
\* left of its line, for every buffer size, alphabet and command table.
THEOREM ShellTypeCorrect == Spec => []TypeOK
<1>1. Init => TermInv
  BY DEF Init, TermInv, IsTerm
<1>2. IInv /\ TermInv => TypeOK
  BY DEF IInv, ShellType, TermInv, IsTerm, TypeOK
<1>3. QED
  BY <1>1, <1>2, TermStep, ShellInvariant, TokenInvariant, PTL DEF Spec

-----------------------------------------------------------------------------
(* What the terminal shows.                                                *)

\* The characters that leave a mark on the row.
Glyphs == Letters \cup {Blank, ">", "#"}

\* Between two answers of the shell nothing stands right of the cursor.
CleanTerm(t) ==
    /\ t = [row |-> t.row, col |-> t.col]
    /\ t.row \in Seq(Glyphs) /\ t.col \in Nat /\ t.col <= Len(t.row)
    /\ \A k \in t.col + 1 .. Len(t.row) : t.row[k] = Blank

\* The prompt and the line held stand left of the cursor.
PromptAndLine ==
    /\ term.col >= rx_size + 1
    /\ term.row[term.col - rx_size] = ">"
    /\ \A k \in 1 .. rx_size : term.row[term.col - rx_size + k] = rx_buffer[k - 1]

ScreenInv == CleanTerm(term) /\ (pc = "idle" /\ booted => PromptAndLine)

\* The codes of the terminal and the marks it can show are all different.
LEMMA GlyphFacts ==
  /\ Return # Newline /\ Return # Backspace /\ Newline # Backspace
  /\ NUL # Return /\ NUL # Newline /\ NUL # Backspace
  /\ \A ch \in Glyphs : ch \notin {Return, Newline, Backspace, NUL}
  /\ Blank \in Glyphs /\ ">" \in Glyphs /\ "#" \in Glyphs
  BY ShellAssumption DEF Return, Newline, Backspace, Blank, Glyphs

\* A mark goes to the cursor's place and leaves those before it alone.
LEMMA PutGlyph ==
  ASSUME NEW t, CleanTerm(t), NEW ch \in Glyphs
  PROVE  /\ CleanTerm(TermPut(t, ch)) /\ TermPut(t, ch).col = t.col + 1
         /\ TermPut(t, ch).row[t.col + 1] = ch
         /\ \A k \in 1 .. t.col : TermPut(t, ch).row[k] = t.row[k]
<1> DEFINE r == IF t.col = Len(t.row) THEN Append(t.row, ch) ELSE [t.row EXCEPT ![t.col + 1] = ch]
<1>1. TermPut(t, ch) = [row |-> r, col |-> t.col + 1]
  BY GlyphFacts DEF TermPut
<1>2. /\ t.row \in Seq(Glyphs) /\ t.col \in Nat /\ t.col <= Len(t.row) /\ Len(t.row) \in Nat
      /\ \A k \in t.col + 1 .. Len(t.row) : t.row[k] = Blank
  BY DEF CleanTerm
<1>3. /\ r \in Seq(Glyphs) /\ t.col + 1 <= Len(r) /\ r[t.col + 1] = ch
      /\ \A k \in 1 .. t.col : r[k] = t.row[k]
      /\ \A k \in t.col + 2 .. Len(r) : r[k] = Blank
  <2>1. CASE t.col = Len(t.row)
    BY <1>2, <2>1
  <2>2. CASE t.col # Len(t.row)
    <3>1. r = [t.row EXCEPT ![t.col + 1] = ch] /\ t.col + 1 \in 1 .. Len(t.row)
      BY <1>2, <2>2
    <3>2. r \in Seq(Glyphs) /\ Len(r) = Len(t.row)
      BY <1>2, <3>1
    <3> QED BY <1>2, <3>1, <3>2
  <2> QED BY <2>1, <2>2
<1> QED BY <1>1, <1>2, <1>3 DEF CleanTerm

\* A new line is clean, with a carriage return before it or without.
LEMMA NewlineClean ==
  ASSUME NEW t, CleanTerm(t)
  PROVE  CleanTerm(TermPut(t, Newline)) /\ CleanTerm(prv_echo(t, Newline))
<1>1. ASSUME NEW u, u = [row |-> u.row, col |-> u.col], u.col \in Nat
      PROVE  CleanTerm(TermPut(u, Newline))
  <2>1. TermPut(u, Newline) = [row |-> Blanks(u.col), col |-> u.col]
    BY <1>1, GlyphFacts DEF TermPut
  <2>2. Blanks(u.col) \in Seq(Glyphs) /\ Len(Blanks(u.col)) = u.col
    BY <1>1, GlyphFacts DEF Blanks
  <2> QED BY <1>1, <2>1, <2>2 DEF CleanTerm
<1>2. TermPut(t, Return) = [row |-> t.row, col |-> 0]
  BY GlyphFacts DEF TermPut, CleanTerm
<1>3. prv_echo(t, Newline) = TermPut(TermPut(t, Return), Newline)
  BY GlyphFacts DEF prv_echo
<1> QED BY <1>1, <1>2, <1>3 DEF CleanTerm

\* A mark is echoed as it is.
LEMMA EchoGlyph ==
  ASSUME NEW t, NEW ch \in Glyphs PROVE prv_echo(t, ch) = TermPut(t, ch)
  BY GlyphFacts DEF prv_echo

\* Texts and the prompt leave a clean row; the prompt stands before the cursor.
LEMMA TextClean ==
  ASSUME NEW t, CleanTerm(t)
  PROVE  /\ CleanTerm(EchoLine(t)) /\ CleanTerm(LogLine(t)) /\ CleanTerm(prv_send_prompt(t))
         /\ prv_send_prompt(t).col = t.col + 1 /\ prv_send_prompt(t).row[t.col + 1] = ">"
<1>1. CleanTerm(EchoLine(t))
  BY GlyphFacts, EchoGlyph, PutGlyph, NewlineClean DEF EchoLine
<1>2. CleanTerm(LogLine(t))
  BY GlyphFacts, PutGlyph, NewlineClean DEF LogLine
<1>3. prv_send_prompt(t) = TermPut(t, ">") /\ ">" \in Glyphs
  BY GlyphFacts, EchoGlyph DEF prv_send_prompt
<1>4. /\ CleanTerm(TermPut(t, ">")) /\ TermPut(t, ">").col = t.col + 1
      /\ TermPut(t, ">").row[t.col + 1] = ">"
  BY <1>3, PutGlyph
<1> QED BY <1>1, <1>2, <1>3, <1>4

\* The echo of a backspace wipes the mark before the cursor.
LEMMA EchoBackspace ==
  ASSUME NEW t, CleanTerm(t), t.col >= 1
  PROVE  /\ CleanTerm(prv_echo(t, Backspace)) /\ prv_echo(t, Backspace).col = t.col - 1
         /\ \A k \in 1 .. t.col - 1 : prv_echo(t, Backspace).row[k] = t.row[k]
<1>1. /\ t = [row |-> t.row, col |-> t.col] /\ t.row \in Seq(Glyphs) /\ t.col \in Nat
      /\ t.col <= Len(t.row) /\ Len(t.row) \in Nat
      /\ \A k \in t.col + 1 .. Len(t.row) : t.row[k] = Blank
  BY DEF CleanTerm
<1> DEFINE r == [t.row EXCEPT ![t.col] = Blank]
<1>2. TermPut(t, Backspace) = [row |-> t.row, col |-> t.col - 1]
  BY <1>1, GlyphFacts DEF TermPut, OneLeft
<1>3. TermPut([row |-> t.row, col |-> t.col - 1], Blank) = [row |-> r, col |-> t.col]
  <2>1. t.col - 1 # Len(t.row) /\ t.col - 1 + 1 = t.col
    BY <1>1
  <2> QED BY <2>1, GlyphFacts DEF TermPut
<1>4. TermPut([row |-> r, col |-> t.col], Backspace) = [row |-> r, col |-> t.col - 1]
  <2>1. OneLeft(t.col) = t.col - 1
    BY <1>1 DEF OneLeft
  <2>2. ASSUME NEW q
        PROVE  TermPut([row |-> q, col |-> t.col], Backspace) = [row |-> q, col |-> OneLeft(t.col)]
    BY GlyphFacts DEF TermPut
  <2> QED BY <2>1, <2>2
<1>5. prv_echo(t, Backspace) = [row |-> r, col |-> t.col - 1]
  BY <1>2, <1>3, <1>4, GlyphFacts DEF prv_echo
<1>6. /\ r \in Seq(Glyphs) /\ Len(r) = Len(t.row) /\ t.col - 1 \in Nat /\ t.col - 1 <= Len(r)
      /\ \A k \in 1 .. t.col - 1 : r[k] = t.row[k]
      /\ \A k \in t.col - 1 + 1 .. Len(r) : r[k] = Blank
  <2>1. t.col \in 1 .. Len(t.row)
    BY <1>1
  <2>2. r \in Seq(Glyphs) /\ Len(r) = Len(t.row)
    BY <1>1, <2>1, GlyphFacts
  <2> QED BY <1>1, <2>1, <2>2
<1> QED BY <1>5, <1>6 DEF CleanTerm

\* A line that begins with the prompt just sent holds nothing yet.
LEMMA AfterPrompt ==
  ASSUME NEW t, CleanTerm(t), term' = prv_send_prompt(t), rx_size' = 0
  PROVE  ScreenInv'
<1>1. CleanTerm(term') /\ term'.col = t.col + 1 /\ term'.row[t.col + 1] = ">" /\ t.col \in Nat
  BY TextClean DEF CleanTerm
<1>2. PromptAndLine'
  BY <1>1 DEF PromptAndLine
<1> QED BY <1>1, <1>2 DEF ScreenInv

\* A character that does not complete the line appears behind those held.
LEMMA StoreScreen ==
  ASSUME IInv, ScreenInv, NUL \notin Input, NEW ch \in Input, StoreChar(ch)
  PROVE  ScreenInv'
<1>1. /\ pc = "idle" /\ booted /\ rx_size \in Nat /\ rx_size < RX_SIZE /\ RX_SIZE \in Nat
      /\ term' = prv_echo(term, ch) /\ rx_size' = rx_size + 1
      /\ rx_buffer' = [rx_buffer EXCEPT ![rx_size] = ch]
      /\ rx_buffer \in [Cells -> Chars] /\ ch \notin {Return, Backspace}
  BY ShellAssumption DEF StoreChar, IInv, ShellType, prv_is_rx_buffer_full
<1>2. CleanTerm(term) /\ PromptAndLine
  BY <1>1 DEF ScreenInv
<1>3. CASE ch = Newline
  <2>1. pc' = "scan"
    BY <1>3 DEF StoreChar, LineComplete
  <2> QED BY <1>1, <1>2, <1>3, <2>1, NewlineClean DEF ScreenInv
<1>4. CASE ch # Newline
  <2>1. ch \in Glyphs
    BY <1>1, <1>4, ShellAssumption DEF Glyphs
  <2>2. /\ CleanTerm(term') /\ term'.col = term.col + 1 /\ term'.row[term.col + 1] = ch
        /\ \A k \in 1 .. term.col : term'.row[k] = term.row[k]
    BY <1>1, <1>2, <2>1, EchoGlyph, PutGlyph
  <2>3. term.col \in Nat /\ term.col >= rx_size + 1
    BY <1>2 DEF CleanTerm, PromptAndLine
  <2>4. term'.col - rx_size' = term.col - rx_size /\ term.col - rx_size \in 1 .. term.col
    BY <1>1, <2>2, <2>3
  <2>5. \A k \in 1 .. rx_size + 1 : term'.row[term.col - rx_size + k] = rx_buffer'[k - 1]
    <3> TAKE k \in 1 .. rx_size + 1
    <3>1. CASE k = rx_size + 1
      <4>1. term.col - rx_size + k = term.col + 1 /\ k - 1 = rx_size /\ rx_size \in Cells
        BY <1>1, <2>3, <3>1 DEF Cells
      <4> QED BY <1>1, <2>2, <4>1
    <3>2. CASE k # rx_size + 1
      <4>1. k \in 1 .. rx_size /\ term.col - rx_size + k \in 1 .. term.col
            /\ k - 1 # rx_size /\ k - 1 \in Cells
        BY <1>1, <2>3, <3>2 DEF Cells
      <4>2. term.row[term.col - rx_size + k] = rx_buffer[k - 1]
        BY <1>2, <4>1 DEF PromptAndLine
      <4> QED BY <1>1, <2>2, <4>1, <4>2
    <3> QED BY <3>1, <3>2
  <2>6. PromptAndLine'
    BY <1>1, <1>2, <2>2, <2>3, <2>4, <2>5 DEF PromptAndLine
  <2> QED BY <2>2, <2>6 DEF ScreenInv
<1> QED BY <1>3, <1>4

\* A backspace takes the last character off the screen and off the buffer.
LEMMA EraseScreen ==
  ASSUME IInv, ScreenInv, EraseChar
  PROVE  ScreenInv'
<1>1. /\ pc = "idle" /\ booted /\ rx_size \in Nat /\ rx_size > 0 /\ rx_size < RX_SIZE
      /\ RX_SIZE \in Nat /\ term' = prv_echo(term, Backspace) /\ rx_size' = rx_size - 1
      /\ rx_buffer' = [rx_buffer EXCEPT ![rx_size - 1] = NUL]
      /\ rx_buffer \in [Cells -> Chars]
  BY ShellAssumption DEF EraseChar, IInv, ShellType, prv_is_rx_buffer_full
<1>2. CleanTerm(term) /\ PromptAndLine
  BY <1>1 DEF ScreenInv
<1>3. term.col \in Nat /\ term.col >= rx_size + 1
  BY <1>2 DEF CleanTerm, PromptAndLine
<1>4. term.col >= 1
  BY <1>1, <1>3
<1>5. /\ CleanTerm(term') /\ term'.col = term.col - 1
      /\ \A k \in 1 .. term.col - 1 : term'.row[k] = term.row[k]
  BY <1>1, <1>2, <1>4, EchoBackspace
<1>6. term'.col - rx_size' = term.col - rx_size /\ term.col - rx_size \in 1 .. term.col - 1
  BY <1>1, <1>3, <1>5
<1>7. \A k \in 1 .. rx_size - 1 : term'.row[term.col - rx_size + k] = rx_buffer'[k - 1]
  <2> TAKE k \in 1 .. rx_size - 1
  <2>1. /\ k \in 1 .. rx_size /\ term.col - rx_size + k \in 1 .. term.col - 1
        /\ k - 1 # rx_size - 1 /\ k - 1 \in Cells
    BY <1>1, <1>3 DEF Cells
  <2>2. term.row[term.col - rx_size + k] = rx_buffer[k - 1]
    BY <1>2, <2>1 DEF PromptAndLine
  <2> QED BY <1>1, <1>5, <2>1, <2>2
<1>8. PromptAndLine'
  BY <1>1, <1>2, <1>3, <1>5, <1>6, <1>7 DEF PromptAndLine
<1> QED BY <1>5, <1>8 DEF ScreenInv

\* Every step of the shell keeps it, when no NUL is typed.
LEMMA ScreenStep ==
  ASSUME NUL \notin Input PROVE IInv /\ ScreenInv /\ [Next]_vars => ScreenInv'
<1> SUFFICES ASSUME IInv, ScreenInv, [Next]_vars PROVE ScreenInv'
  OBVIOUS
<1>0. CleanTerm(term)
  BY DEF ScreenInv
<1>1. CASE shell_boot
  <2>1. CleanTerm(prv_echo(term, Newline))
    BY <1>0, NewlineClean
  <2> QED BY <1>1, <2>1, AfterPrompt DEF shell_boot, prv_reset_rx_buffer
<1>2. CASE shell_receive_char
  <2>1. PICK ch \in Input :
          IgnoreChar(ch) \/ (ch = Backspace /\ EraseChar) \/ StoreChar(ch)
    BY <1>2 DEF shell_receive_char
  <2>2. CASE IgnoreChar(ch)
    BY <2>2 DEF IgnoreChar, vars, editVars, ScreenInv, PromptAndLine
  <2> QED BY <2>1, <2>2, EraseScreen, StoreScreen
<1>3. CASE ScanSeparator \/ ScanLetter
  BY <1>0, <1>3 DEF ScanSeparator, ScanLetter, Scanning, ScreenInv
<1>4. CASE ScanDone
  BY <1>0, <1>4, NewlineClean DEF ScanDone, ScreenInv
<1>5. ASSUME NEW t, CleanTerm(t), FinishLine(t) PROVE ScreenInv'
  BY <1>5, AfterPrompt DEF FinishLine, prv_reset_rx_buffer
<1>6. /\ CleanTerm(EchoLine(EchoLine(term))) /\ CleanTerm(LogLine(term))
      /\ CleanTerm(LogLine(LogLine(term)))
  BY <1>0, TextClean
<1>7. CASE RunNothing \/ RunUnknown
  BY <1>0, <1>5, <1>6, <1>7 DEF RunNothing, RunUnknown
<1>8. ASSUME NEW name \in DOMAIN Commands, RunHelp(name) \/ RunLog(name) \/ RunReboot(name)
      PROVE  ScreenInv'
  <2>1. CASE RunHelp(name)
    BY <1>5, <1>6, <2>1 DEF RunHelp
  <2>2. CASE RunLog(name)
    BY <1>5, <1>6, <2>2 DEF RunLog
  <2>3. CASE RunReboot(name)
    BY <1>0, <1>6, <2>3 DEF RunReboot, ScreenInv
  <2> QED BY <1>8, <2>1, <2>2, <2>3
<1>9. CASE UNCHANGED vars
  BY <1>9 DEF vars, editVars, ScreenInv, PromptAndLine
<1> QED BY <1>1, <1>2, <1>3, <1>4, <1>7, <1>8, <1>9 DEF Next, prv_process

\* Sequences of the same length with the same elements are equal.
LEMMA SameElements ==
  ASSUME NEW S, NEW T, NEW s \in Seq(S), NEW t \in Seq(T), Len(s) = Len(t),
         \A k \in 1 .. Len(s) : s[k] = t[k]
  PROVE  s = t
<1>1. s = [k \in 1 .. Len(s) |-> s[k]] /\ t = [k \in 1 .. Len(t) |-> t[k]]
  OBVIOUS
<1> QED BY <1>1

\* The marks left of the cursor, taken as a row, are the prompt and the line.
LEMMA ScreenShown == IInv /\ ScreenInv => ScreenShowsBuffer
<1> SUFFICES ASSUME IInv, ScreenInv, pc = "idle", booted PROVE ScreenShowsBuffer
  BY DEF ScreenShowsBuffer
<1> DEFINE held == [k \in 1 .. rx_size |-> rx_buffer[k - 1]]
           shown == <<">">> \o held
           seen == SubSeq(term.row, term.col - Len(shown) + 1, term.col)
<1>1. /\ rx_size \in Nat /\ rx_size <= RX_SIZE /\ RX_SIZE \in Nat
      /\ rx_buffer \in [Cells -> Chars]
  BY ShellAssumption DEF IInv, ShellType
<1>2. CleanTerm(term) /\ PromptAndLine
  BY DEF ScreenInv
<1>3. /\ term.row \in Seq(Glyphs) /\ term.col \in Nat /\ term.col <= Len(term.row)
      /\ term.col >= rx_size + 1
  BY <1>2 DEF CleanTerm, PromptAndLine
<1>4. held \in Seq(Chars) /\ Len(held) = rx_size
  BY <1>1 DEF Cells
<1>5. /\ shown \in Seq(Chars \cup {">"}) /\ Len(shown) = rx_size + 1
      /\ shown[1] = ">" /\ \A k \in 2 .. rx_size + 1 : shown[k] = held[k - 1]
  BY <1>1, <1>4
<1>6. seen \in Seq(Glyphs) /\ Len(seen) = rx_size + 1
      /\ \A k \in 1 .. rx_size + 1 : seen[k] = term.row[term.col - rx_size + k - 1]
  BY <1>1, <1>3, <1>5
<1> HIDE DEF shown, seen
<1>7. \A k \in 1 .. rx_size + 1 : seen[k] = shown[k]
  <2> TAKE k \in 1 .. rx_size + 1
  <2>1. CASE k = 1
    <3>1. term.col - rx_size + 1 - 1 = term.col - rx_size
      BY <1>1, <1>3
    <3>2. seen[1] = term.row[term.col - rx_size + 1 - 1]
      BY <1>6, <2>1
    <3>3. term.row[term.col - rx_size] = ">" /\ shown[1] = ">"
      BY <1>2, <1>5 DEF PromptAndLine
    <3> QED BY <2>1, <3>1, <3>2, <3>3
  <2>2. CASE k # 1
    <3>1. k - 1 \in 1 .. rx_size /\ term.col - rx_size + k - 1 = term.col - rx_size + (k - 1)
      BY <1>1, <1>3, <2>2
    <3>2. term.row[term.col - rx_size + (k - 1)] = rx_buffer[(k - 1) - 1]
      BY <1>2, <3>1 DEF PromptAndLine
    <3>3. shown[k] = held[k - 1] /\ held[k - 1] = rx_buffer[(k - 1) - 1]
      BY <1>1, <1>5, <2>2, <3>1
    <3> QED BY <1>6, <3>1, <3>2, <3>3
  <2> QED BY <2>1, <2>2
<1>8. seen = shown
  BY <1>5, <1>6, <1>7, SameElements
<1> USE DEF shown, seen
<1> QED BY <1>2, <1>3, <1>5, <1>8, <1>1 DEF ScreenShowsBuffer, CleanTerm

\* Whatever is typed except a NUL, the terminal shows the prompt, the line the
\* shell holds and nothing behind it whenever the shell waits for a character.
THEOREM ShellScreen == ASSUME NUL \notin Input PROVE Spec => []ScreenShowsBuffer
<1>1. Init => ScreenInv
  BY DEF Init, ScreenInv, CleanTerm
<1>2. IInv /\ ScreenInv /\ [Next]_vars => ScreenInv'
  BY ScreenStep
<1> QED BY <1>1, <1>2, ScreenShown, ShellInvariant, PTL DEF Spec

-----------------------------------------------------------------------------
(* The console as a whole.                                                 *)

\* The input path with what UartConsoleProofs proves of it.
UP == INSTANCE UartConsoleProofs WITH Bytes <- Input, pc <- mpc

\* Its steps are those of the input path composed with the shell.
LEMMA SameInputPath ==
  /\ U!Init => UP!Init
  /\ U!Terminal => UP!Terminal
  /\ U!TxComplete => UP!TxComplete
  /\ U!Isr => UP!Isr
  /\ U!uart_boot \/ U!Receive \/ U!StartTx \/ U!FinishTx \/ U!ReceiveDone => UP!Main
  /\ U!PollEmpty \/ U!PollReady \/ U!LoadChar \/ U!DisableIrq => UP!Main
  /\ U!AdvanceIdx \/ U!DecLoad \/ U!DecStore \/ U!EnableIrq => UP!Main
<1> USE DEF U!uartVars, UP!uartVars, U!ringVars, UP!ringVars, U!mainVars, UP!mainVars,
            U!txVars, UP!txVars, U!rxHist, UP!rxHist, U!MainAt, UP!MainAt
<1>1. U!Init => UP!Init
  BY DEF U!Init, UP!Init, U!Slots, UP!Slots
<1>2. U!Terminal => UP!Terminal
  BY DEF U!Terminal, UP!Terminal, U!TerminalSend, UP!TerminalSend
<1>3. U!TxComplete => UP!TxComplete
  BY DEF U!TxComplete, UP!TxComplete
<1>4. U!Isr => UP!Isr
  <2>1. U!IsrEnter => UP!IsrEnter
    BY DEF U!IsrEnter, UP!IsrEnter
  <2>2. U!IsrCallback => UP!IsrCallback
    BY DEF U!IsrCallback, UP!IsrCallback, U!uart_byte_received_from_isr_cb,
           UP!uart_byte_received_from_isr_cb, U!RingFull, UP!RingFull
  <2>3. U!IsrRearm => UP!IsrRearm
    BY DEF U!IsrRearm, UP!IsrRearm
  <2> QED BY <2>1, <2>2, <2>3 DEF U!Isr, UP!Isr
<1>5. U!uart_boot => UP!uart_boot
  BY DEF U!uart_boot, UP!uart_boot
<1>6. U!Receive => UP!Receive
  BY DEF U!Receive, UP!Receive, U!ReceiveChar, UP!ReceiveChar
<1>7. (U!StartTx => UP!StartTx) /\ (U!FinishTx => UP!FinishTx) /\ (U!ReceiveDone => UP!ReceiveDone)
  BY DEF U!StartTx, UP!StartTx, U!FinishTx, UP!FinishTx, U!ReceiveDone, UP!ReceiveDone
<1>8. (U!PollEmpty => UP!PollEmpty) /\ (U!PollReady => UP!PollReady) /\ (U!LoadChar => UP!LoadChar)
  BY DEF U!PollEmpty, UP!PollEmpty, U!PollReady, UP!PollReady, U!LoadChar, UP!LoadChar
<1>9. (U!DisableIrq => UP!DisableIrq) /\ (U!EnableIrq => UP!EnableIrq)
      /\ (U!AdvanceIdx => UP!AdvanceIdx)
  BY DEF U!DisableIrq, UP!DisableIrq, U!EnableIrq, UP!EnableIrq, U!AdvanceIdx, UP!AdvanceIdx
<1>10. (U!DecLoad => UP!DecLoad) /\ (U!DecStore => UP!DecStore)
  BY DEF U!DecLoad, UP!DecLoad, U!DecStore, UP!DecStore
<1> QED BY <1>1, <1>2, <1>3, <1>4, <1>5, <1>6, <1>7, <1>8, <1>9, <1>10 DEF UP!Main

\* A step of the console is a step of the input path, leaves it alone, or
\* starts it over.
LEMMA InputPathSteps ==
  ASSUME [ConsoleNext]_consoleVars
  PROVE  \/ [UP!Next]_(UP!vars)
         \/ prv_reboot
<1>1. CASE UNCHANGED inputVars
  BY <1>1 DEF inputVars, UP!vars, UP!uartVars, UP!ringVars, UP!mainVars, UP!txVars, UP!rxHist
<1>2. CASE shell_processing_loop
  BY <1>1, <1>2, SameInputPath
  DEF shell_processing_loop, uart_boot, loop_shell_boot, shell_port_getchar, loop_receive_char,
      loop_process, prv_console_putc, ReceiveDone, UP!Next
<1>3. CASE Irq2_Handler \/ Peripheral \/ Terminal
  BY <1>3, SameInputPath DEF Irq2_Handler, Peripheral, Terminal, UP!Next
<1> QED BY <1>1, <1>2, <1>3 DEF ConsoleNext, consoleVars

\* What is known of the input path, and of the queue a paced terminal sees.
InputInv == UP!IInv /\ UP!PacedInv

\* It holds at the start.
LEMMA InputInvInit == ConsoleInit => InputInv
<1>1. ConsoleInit => UP!Init
  BY SameInputPath DEF ConsoleInit
<1>2. UP!Init => UP!IInv
  BY UP!InitIInv, InputPathAssumption
<1>3. UP!Init => UP!PacedInv
  BY DEF UP!Init, UP!PacedInv, UP!Holding
<1> QED BY <1>1, <1>2, <1>3 DEF InputInv

\* Every step of the console keeps it, a restart too.
LEMMA InputInvStep ==
  ASSUME Paced PROVE InputInv /\ [ConsoleNext]_consoleVars => InputInv'
<1> SUFFICES ASSUME InputInv, [ConsoleNext]_consoleVars PROVE InputInv'
  OBVIOUS
<1>1. CASE [UP!Next]_(UP!vars)
  <2>1. UP!IInv'
    BY <1>1, UP!NextType, UP!NextCounter, UP!NextRx, InputPathAssumption DEF InputInv, UP!IInv
  <2>2. UP!PacedInv'
    BY <1>1, UP!PacedStep, InputPathAssumption DEF InputInv
  <2> QED BY <2>1, <2>2 DEF InputInv
<1>2. CASE prv_reboot
  <2>1. (UP!Init)'
    <3>1. isr' = "idle"
      BY <1>2 DEF prv_reboot
    <3>2. buf' = [k \in UP!Slots |-> NUL]
      BY <1>2 DEF prv_reboot, U!Slots, UP!Slots
    <3> QED BY <1>2, <3>1, <3>2 DEF prv_reboot, UP!Init, UP!Slots
  <2>2. (UP!IInv)'
    <3>1. rxArmed' \in BOOLEAN /\ endrx' \in BOOLEAN /\ irqOff' \in BOOLEAN /\ endtx' \in BOOLEAN
      BY <2>1 DEF UP!Init
    <3>2. /\ num_bytes' = 0 /\ tmp' = 0 /\ toSend' = 0 /\ read_idx' = 0 /\ c' = NUL /\ rxBuf' = NUL
          /\ accepted' = <<>> /\ taken' = <<>> /\ received' = <<>> /\ offered' = <<>>
          /\ mpc' = "boot" /\ isr' = "idle" /\ buf' = [k \in UP!Slots |-> NUL]
      BY <2>1 DEF UP!Init, UP!Slots
    <3>3. N \in Nat \ {0} /\ MaxEcho \in Nat
      BY InputPathAssumption DEF U!ConsoleAssumption
    <3>4. UP!TypeOK'
      BY <3>1, <3>2, <3>3 DEF UP!TypeOK, UP!Data, UP!Slots, UP!MainSteps
    <3>5. UP!MaskInv' /\ UP!HoldsByte' /\ UP!RxTurns' /\ UP!RxHistory'
      BY <2>1 DEF UP!Init, UP!MaskInv, UP!HoldsByte, UP!RxTurns, UP!RxHistory, UP!LockedSteps
    <3>6. UP!CountExact'
      <4>1. (UP!InHand)' = 0
        BY <3>2 DEF UP!InHand
      <4>2. Len(accepted') = 0 /\ Len(taken') = 0
        BY <3>2
      <4> QED BY <3>2, <4>1, <4>2 DEF UP!CountExact
    <3> QED BY <3>4, <3>5, <3>6 DEF UP!IInv
  <2>3. UP!PacedInv'
    BY <2>1 DEF UP!Init, UP!PacedInv, UP!Holding
  <2> QED BY <2>2, <2>3 DEF InputInv
<1> QED BY <1>1, <1>2, InputPathSteps

\* A byte is handed to the shell as it was received.
LEMMA TakenByte ==
  ASSUME InputInv, mpc = "receive"
  PROVE  c \in Input /\ received = Append(taken, c) /\ taken \in Seq(Input)
<1>1. received \in Seq(Input) /\ taken \in Seq(Input \cup {NUL})
  BY DEF InputInv, UP!IInv, UP!TypeOK, UP!Data
<1>2. received = Append(taken, c)
  BY DEF InputInv, UP!PacedInv, UP!NextByte, UP!Holding
<1>3. /\ Len(received) = Len(taken) + 1 /\ received[Len(received)] = c
      /\ \A k \in 1 .. Len(taken) : taken[k] = received[k]
  BY <1>1, <1>2
<1>4. c \in Input
  BY <1>1, <1>3
<1>5. taken \in Seq(Input)
  BY <1>1, <1>3
<1> QED BY <1>2, <1>4, <1>5

\* A step of the console is a step of the shell or leaves it alone.
LEMMA ShellSteps ==
  ASSUME InputInv, [ConsoleNext]_consoleVars
  PROVE  [Next]_vars
<1>1. CASE loop_receive_char
  <2>1. mpc = "receive"
    BY <1>1 DEF loop_receive_char, U!Receive, U!ReceiveChar, U!MainAt
  <2>2. c \in Input
    BY <2>1, TakenByte
  <2> QED BY <1>1, <2>2 DEF loop_receive_char, shell_receive_char, Next
<1>2. CASE loop_shell_boot
  BY <1>2 DEF loop_shell_boot, Next
<1>3. CASE loop_process \/ prv_reboot
  BY <1>3 DEF loop_process, prv_reboot, prv_process, Next
<1>4. CASE UNCHANGED vars
  BY <1>4
<1> QED BY <1>1, <1>2, <1>3, <1>4
        DEF ConsoleNext, consoleVars, shell_processing_loop, uart_boot, shell_port_getchar,
            prv_console_putc, ReceiveDone, Irq2_Handler, Peripheral, Terminal

\* So it is an invariant of the console.
LEMMA InputInvariant == ASSUME Paced PROVE ConsoleSpec => []InputInv
<1>1. InputInv /\ [ConsoleNext]_consoleVars => InputInv'
  BY InputInvStep
<1> QED BY InputInvInit, <1>1, PTL DEF ConsoleSpec

\* Behind an input path whose terminal waits for each byte to be handled, and
\* through restarts, the shell behaves as Shell says.
THEOREM ConsoleImplementsShell == ASSUME Paced PROVE ConsoleSpec => Spec
<1>1. ConsoleInit => Init
  BY DEF ConsoleInit
<1>2. InputInv /\ [ConsoleNext]_consoleVars => [Next]_vars
  BY ShellSteps
<1>3. ConsoleSpec => []InputInv
  BY InputInvariant
<1> QED BY <1>1, <1>2, <1>3, PTL DEF ConsoleSpec, Spec

\* The screen of the console: ScreenMatchesBuffer for every instance without a
\* NUL among the characters typed.
THEOREM ConsoleScreenMatchesBuffer ==
  ASSUME Paced, NUL \notin Input PROVE ConsoleSpec => []ScreenMatchesBuffer
<1>1. ScreenShowsBuffer => ScreenMatchesBuffer
  BY DEF ScreenMatchesBuffer
<1>2. ConsoleSpec => Spec
  BY ConsoleImplementsShell
<1>3. Spec => []ScreenShowsBuffer
  BY ShellScreen
<1> QED BY <1>1, <1>2, <1>3, PTL

-----------------------------------------------------------------------------
(* The line typed.                                                         *)

\* f gives the line after each of the first n keys of s.
IsEdit(f, s, n) ==
    f = [k \in 0 .. n |-> IF k = 0 THEN <<>> ELSE TypeOne(f[k - 1], s[k])]

\* The first n keys of s and t are the same.
SameKeys(s, t, n) == \A k \in 1 .. n : s[k] = t[k]

\* Whatever was typed there is such a function ...
LEMMA EditExists ==
  ASSUME NEW s, NEW n \in Nat PROVE \E f : IsEdit(f, s, n)
<1> DEFINE Bad == {m \in Nat : ~ \E f : IsEdit(f, s, m)}
<1> SUFFICES ASSUME Bad # {} PROVE FALSE
  OBVIOUS
<1>1. PICK m \in Bad : \A y \in Bad : m <= y
  BY LeastOf
<1>2. CASE m = 0
  <2> DEFINE f == [k \in 0 .. 0 |-> <<>>]
  <2>1. IsEdit(f, s, 0)
    BY DEF IsEdit
  <2> QED BY <1>2, <2>1
<1>3. CASE m # 0
  <2>1. m - 1 \in Nat /\ m - 1 \notin Bad
    BY <1>1, <1>3
  <2>2. PICK g : IsEdit(g, s, m - 1)
    BY <2>1
  <2> DEFINE f == [k \in 0 .. m |-> IF k = m THEN TypeOne(g[m - 1], s[m]) ELSE g[k]]
  <2>3. \A k \in 0 .. m - 1 : g[k] = IF k = 0 THEN <<>> ELSE TypeOne(g[k - 1], s[k])
    BY <2>2 DEF IsEdit
  <2>4. \A k \in 0 .. m : f[k] = IF k = 0 THEN <<>> ELSE TypeOne(f[k - 1], s[k])
    <3> TAKE k \in 0 .. m
    <3>1. CASE k = m
      <4>1. f[k] = TypeOne(g[m - 1], s[m]) /\ f[m - 1] = g[m - 1] /\ k # 0
        BY <1>1, <1>3, <3>1
      <4> QED BY <3>1, <4>1
    <3>2. CASE k # m
      <4>1. k \in 0 .. m - 1 /\ f[k] = g[k] /\ (k # 0 => f[k - 1] = g[k - 1])
        BY <1>1, <3>2
      <4> QED BY <2>3, <4>1
    <3> QED BY <3>1, <3>2
  <2> DEFINE h == [k \in 0 .. m |-> IF k = 0 THEN <<>> ELSE TypeOne(f[k - 1], s[k])]
  <2>5. \A k \in 0 .. m : f[k] = h[k]
    BY <2>4
  <2>6. f = h
    BY <2>5
  <2>7. IsEdit(f, s, m)
    BY <2>6 DEF IsEdit
  <2> QED BY <1>1, <2>7
<1> QED BY <1>2, <1>3

\* ... and the keys alone decide it.
LEMMA EditUnique ==
  ASSUME NEW s, NEW t, NEW n \in Nat, NEW m \in Nat, n <= m, NEW f, NEW g,
         IsEdit(f, s, n), IsEdit(g, t, m), SameKeys(s, t, n)
  PROVE  \A k \in 0 .. n : f[k] = g[k]
<1> DEFINE Bad == {k \in 0 .. n : f[k] # g[k]}
<1> SUFFICES ASSUME Bad # {} PROVE FALSE
  OBVIOUS
<1>0. Bad \in SUBSET Nat
  OBVIOUS
<1>1. PICK k \in Bad : \A y \in Bad : k <= y
  BY <1>0, LeastOf
<1>2. /\ f[k] = IF k = 0 THEN <<>> ELSE TypeOne(f[k - 1], s[k])
      /\ g[k] = IF k = 0 THEN <<>> ELSE TypeOne(g[k - 1], t[k])
  <2>1. k \in 0 .. n /\ k \in 0 .. m
    BY <1>1
  <2> QED BY <2>1 DEF IsEdit
<1>3. CASE k = 0
  BY <1>1, <1>2, <1>3
<1>4. CASE k # 0
  <2>1. k - 1 \in 0 .. n /\ k \in 1 .. n /\ k - 1 \notin Bad
    BY <1>1, <1>4
  <2>2. f[k - 1] = g[k - 1] /\ s[k] = t[k]
    BY <2>1 DEF SameKeys
  <2> QED BY <1>1, <1>2, <1>4, <2>2
<1> QED BY <1>3, <1>4

\* Typed is the last line of any such function.
LEMMA TypedIs ==
  ASSUME NEW s, Len(s) \in Nat, NEW f, IsEdit(f, s, Len(s))
  PROVE  Typed(s) = f[Len(s)]
<1> DEFINE e == CHOOSE g : g = [k \in 0 .. Len(s) |-> IF k = 0 THEN <<>> ELSE TypeOne(g[k - 1], s[k])]
<1>1. Typed(s) = e[Len(s)]
  BY DEF Typed
<1>2. IsEdit(e, s, Len(s))
  BY DEF IsEdit
<1> HIDE DEF e
<1>3. \A k \in 0 .. Len(s) : e[k] = f[k]
  BY <1>2, EditUnique DEF SameKeys
<1> QED BY <1>1, <1>3

\* Nothing typed is the empty line.
LEMMA TypedNothing == Typed(<<>>) = <<>>
<1>1. PICK f : IsEdit(f, <<>>, 0)
  BY EditExists
<1>2. f[0] = <<>>
  BY <1>1 DEF IsEdit
<1> QED BY <1>1, <1>2, TypedIs

\* One more key edits the line typed before it.
LEMMA TypedAppend ==
  ASSUME NEW S, NEW s \in Seq(S), NEW ch \in S
  PROVE  Typed(Append(s, ch)) = TypeOne(Typed(s), ch)
<1>0. PICK n \in Nat, t \in Seq(S) : n = Len(s) /\ t = Append(s, ch)
  <2>1. Len(s) \in Nat /\ Append(s, ch) \in Seq(S)
    OBVIOUS
  <2> QED BY <2>1, Zenon
<1>1. /\ Len(t) = n + 1 /\ n + 1 \in Nat /\ n <= n + 1 /\ t[n + 1] = ch
      /\ \A k \in 1 .. n : s[k] = t[k]
  BY <1>0
<1>2. PICK f : IsEdit(f, s, n)
  BY EditExists
<1>3. PICK g : IsEdit(g, t, n + 1)
  BY <1>1, EditExists
<1>4. f[n] = g[n]
  <2>1. \A k \in 0 .. n : f[k] = g[k]
    <3>1. PICK m \in Nat : m = n + 1 /\ n <= m
      BY <1>1
    <3>2. IsEdit(g, t, m)
      BY <1>3, <3>1
    <3>3. SameKeys(s, t, n)
      BY <1>1 DEF SameKeys
    <3> QED BY <1>2, <3>1, <3>2, <3>3, EditUnique
  <2> QED BY <2>1
<1>5. g[n + 1] = TypeOne(g[n], ch)
  <2>1. n + 1 \in 0 .. n + 1 /\ n + 1 # 0 /\ n + 1 - 1 = n
    OBVIOUS
  <2>2. g[n + 1] = TypeOne(g[n + 1 - 1], t[n + 1])
    BY <1>3, <2>1 DEF IsEdit
  <2> QED BY <1>1, <2>1, <2>2
<1>6. Typed(s) = f[n]
  BY <1>0, <1>2, TypedIs
<1>7. Typed(t) = g[n + 1]
  BY <1>1, <1>3, TypedIs
<1> QED BY <1>0, <1>4, <1>5, <1>6, <1>7

\* Who is where: prv_process runs inside the call of shell_receive_char, and
\* before shell_boot nothing was taken.
SyncInv ==
    /\ pc # "idle" => booted /\ mpc \in {"transmit", "txWait"}
    /\ ~booted => taken = <<>> /\ rx_size = 0 /\ mpc \in {"boot", "poll"}

\* The line held is the one typed; while it is run it is the one completed.
EditInv ==
    /\ pc = "idle" => LineHeld = Typed(taken)
    /\ pc # "idle" =>
         /\ line = Append(Typed(SubSeq(taken, 1, Len(taken) - 1)), taken[Len(taken)])
         /\ Typed(taken) = <<>>

\* Steps of the input path other than the call of the shell.
LEMMA OtherSteps ==
  ASSUME uart_boot \/ shell_port_getchar \/ prv_console_putc \/ ReceiveDone
         \/ Irq2_Handler \/ Peripheral \/ Terminal \/ UNCHANGED consoleVars
  PROVE  /\ taken' = taken /\ UNCHANGED vars
         /\ \/ mpc' = mpc
            \/ mpc = "boot" /\ mpc' = "poll"
            \/ booted /\ mpc \notin {"transmit", "txWait"}
            \/ {mpc, mpc'} \subseteq {"transmit", "txWait"}
            \/ pc = "idle" /\ mpc = "transmit" /\ mpc' = "poll"
<1> USE DEF U!rxHist, U!MainAt
<1>1. CASE uart_boot
  BY <1>1 DEF uart_boot, U!uart_boot
<1>2. CASE shell_port_getchar
  BY <1>2 DEF shell_port_getchar, U!PollEmpty, U!PollReady, U!LoadChar, U!DisableIrq,
              U!AdvanceIdx, U!DecLoad, U!DecStore, U!EnableIrq
<1>3. CASE prv_console_putc
  BY <1>3 DEF prv_console_putc, U!StartTx, U!FinishTx
<1>4. CASE ReceiveDone
  BY <1>4 DEF ReceiveDone, U!ReceiveDone
<1>5. CASE Irq2_Handler
  BY <1>5 DEF Irq2_Handler, U!Isr, U!IsrEnter, U!IsrCallback, U!IsrRearm
<1>6. CASE Peripheral
  BY <1>6 DEF Peripheral, U!TxComplete
<1>7. CASE Terminal
  BY <1>7 DEF Terminal, U!Terminal, U!TerminalSend
<1>8. CASE UNCHANGED consoleVars
  BY <1>8 DEF consoleVars, inputVars
<1> QED BY <1>1, <1>2, <1>3, <1>4, <1>5, <1>6, <1>7, <1>8

\* The call of the shell takes the byte in hand.
LEMMA ReceiveFacts ==
  ASSUME loop_receive_char
  PROVE  mpc = "receive" /\ mpc' = "transmit" /\ taken' = Append(taken, c) /\ pc = "idle"
  BY DEF loop_receive_char, U!Receive, U!ReceiveChar, U!MainAt, IgnoreChar, EraseChar, StoreChar

\* The handlers that return leave the histories alone and end at an empty line.
LEMMA ProcessFacts ==
  ASSUME loop_process
  PROVE  /\ mpc = "transmit" /\ mpc' = mpc /\ taken' = taken /\ booted' = booted /\ pc # "idle"
         /\ \/ pc' \in {"scan", "dispatch"} /\ line' = line
            \/ pc' = "idle" /\ rx_size' = 0
<1>1. /\ mpc = "transmit" /\ mpc' = mpc /\ taken' = taken /\ booted' = booted /\ prv_process
  BY DEF loop_process, inputVars
<1>2. CASE ScanSeparator \/ ScanLetter \/ ScanDone
  BY <1>1, <1>2 DEF ScanSeparator, ScanLetter, ScanDone, Scanning, scanVars
<1>3. CASE RunNothing \/ RunUnknown
  BY <1>1, <1>3 DEF RunNothing, RunUnknown, FinishLine, prv_reset_rx_buffer
<1>4. ASSUME NEW name \in DOMAIN Commands, RunHelp(name) \/ RunLog(name) \/ RunReboot(name)
      PROVE  pc = "dispatch" /\ pc' = "idle" /\ rx_size' = 0
  BY <1>4 DEF RunHelp, RunLog, RunReboot, FinishLine, prv_reset_rx_buffer
<1> QED BY <1>1, <1>2, <1>3, <1>4 DEF prv_process

\* Every step of the console keeps the two program counters in step.
LEMMA SyncStep == SyncInv /\ [ConsoleNext]_consoleVars => SyncInv'
<1> SUFFICES ASSUME SyncInv, [ConsoleNext]_consoleVars PROVE SyncInv'
  OBVIOUS
<1> USE DEF SyncInv
<1>1. CASE loop_receive_char
  <2>1. booted /\ booted' = booted /\ mpc' = "transmit"
    BY <1>1, ReceiveFacts DEF loop_receive_char, IgnoreChar, EraseChar, StoreChar, vars, editVars
  <2> QED BY <2>1
<1>2. CASE loop_process
  BY <1>2, ProcessFacts
<1>3. CASE prv_reboot
  BY <1>3 DEF prv_reboot, RunReboot
<1>4. CASE loop_shell_boot
  BY <1>4 DEF loop_shell_boot, shell_boot
<1>5. CASE UNCHANGED vars
  <2>1. UNCHANGED <<pc, booted, rx_size>>
    BY <1>5 DEF vars, editVars
  <2> QED BY <2>1, OtherSteps, <1>1, <1>2, <1>3, <1>4
          DEF ConsoleNext, shell_processing_loop
<1> QED BY <1>1, <1>2, <1>3, <1>4, <1>5, OtherSteps DEF ConsoleNext, shell_processing_loop

\* The sequence without its last element, after one was appended.
LEMMA FrontOfAppend ==
  ASSUME NEW S, NEW s \in Seq(S), NEW x \in S
  PROVE  /\ SubSeq(Append(s, x), 1, Len(Append(s, x)) - 1) = s
         /\ Append(s, x)[Len(Append(s, x))] = x
<1> DEFINE t == SubSeq(Append(s, x), 1, Len(Append(s, x)) - 1)
<1>1. Append(s, x) \in Seq(S) /\ Len(Append(s, x)) = Len(s) + 1
  OBVIOUS
<1>2. t \in Seq(S) /\ Len(t) = Len(s)
  BY <1>1
<1>3. \A k \in 1 .. Len(s) : t[k] = s[k]
  BY <1>1
<1>4. t = s
  BY <1>2, <1>3, SameElements
<1> QED BY <1>1, <1>4

\* The line held is a sequence of as many characters as rx_size says.
LEMMA HeldType ==
  IInv => /\ LineHeld \in Seq(Chars) /\ Len(LineHeld) = rx_size
          /\ \A k \in 1 .. rx_size : LineHeld[k] = rx_buffer[k - 1]
          /\ rx_size = 0 => LineHeld = <<>>
          /\ rx_size \in Nat /\ RX_SIZE \in Nat /\ rx_size <= RX_SIZE
          /\ rx_buffer \in [Cells -> Chars]
<1> SUFFICES ASSUME IInv
             PROVE  /\ LineHeld \in Seq(Chars) /\ Len(LineHeld) = rx_size
                    /\ \A k \in 1 .. rx_size : LineHeld[k] = rx_buffer[k - 1]
                    /\ rx_size = 0 => LineHeld = <<>>
                    /\ rx_size \in Nat /\ RX_SIZE \in Nat /\ rx_size <= RX_SIZE
                    /\ rx_buffer \in [Cells -> Chars]
  OBVIOUS
<1>1. /\ rx_size \in Nat /\ RX_SIZE \in Nat /\ rx_size <= RX_SIZE
      /\ rx_buffer \in [Cells -> Chars]
  BY ShellAssumption DEF IInv, ShellType
<1>2. LineHeld \in Seq(Chars) /\ Len(LineHeld) = rx_size
  BY <1>1 DEF LineHeld, Cells
<1> QED BY <1>1, <1>2 DEF LineHeld

\* The same after a step.
LEMMA HeldTypeNext ==
  IInv' => /\ LineHeld' \in Seq(Chars) /\ Len(LineHeld') = rx_size'
           /\ \A k \in 1 .. rx_size' : LineHeld'[k] = rx_buffer'[k - 1]
           /\ rx_size' = 0 => LineHeld' = <<>>
<1> SUFFICES ASSUME IInv'
             PROVE  /\ LineHeld' \in Seq(Chars) /\ Len(LineHeld') = rx_size'
                    /\ \A k \in 1 .. rx_size' : LineHeld'[k] = rx_buffer'[k - 1]
                    /\ rx_size' = 0 => LineHeld' = <<>>
  OBVIOUS
<1>1. /\ rx_size' \in Nat /\ RX_SIZE \in Nat /\ rx_size' <= RX_SIZE
      /\ rx_buffer' \in [Cells -> Chars]
  BY ShellAssumption DEF IInv, ShellType
<1>2. LineHeld' \in Seq(Chars) /\ Len(LineHeld') = rx_size'
  BY <1>1 DEF LineHeld, Cells
<1> QED BY <1>1, <1>2 DEF LineHeld

\* A key that the shell does not take edits nothing.
LEMMA IgnoreEdits ==
  ASSUME IInv, IInv', booted, IgnoreChar(c)
  PROVE  LineHeld' = TypeOne(LineHeld, c) /\ pc' = "idle"
<1>1. UNCHANGED <<booted, rx_size, rx_buffer, pc>> /\ pc = "idle"
  BY DEF IgnoreChar, vars, editVars
<1>2. LineHeld' = LineHeld
  BY <1>1 DEF LineHeld
<1>3. c = Return \/ (c = Backspace /\ rx_size = 0)
  BY <1>1 DEF IgnoreChar, IInv, NeverStuckFull
<1>4. CASE c = Return
  BY <1>1, <1>2, <1>4 DEF TypeOne
<1>5. CASE c = Backspace /\ rx_size = 0
  <2>1. LineHeld = <<>> /\ c # Return
    BY <1>5, HeldType DEF Backspace, Return
  <2>2. TypeOne(LineHeld, c) = SubSeq(<<>>, 1, Len(<<>>) - 1)
    BY <1>5, <2>1 DEF TypeOne
  <2>3. SubSeq(<<>>, 1, Len(<<>>) - 1) = <<>>
    <3>1. <<>> \in Seq({}) /\ Len(<<>>) = 0
      OBVIOUS
    <3>2. SubSeq(<<>>, 1, Len(<<>>) - 1) \in Seq({}) /\ Len(SubSeq(<<>>, 1, Len(<<>>) - 1)) = 0
      BY <3>1
    <3> QED BY <3>1, <3>2
  <2> QED BY <1>1, <1>2, <2>1, <2>2, <2>3
<1> QED BY <1>3, <1>4, <1>5

\* A backspace takes the last character off the line.
LEMMA EraseEdits ==
  ASSUME IInv, IInv', EraseChar
  PROVE  LineHeld' = TypeOne(LineHeld, Backspace) /\ pc' = "idle"
<1> DEFINE t == SubSeq(LineHeld, 1, Len(LineHeld) - 1)
<1>1. /\ pc = "idle" /\ pc' = pc /\ rx_size > 0 /\ rx_size' = rx_size - 1
      /\ rx_buffer' = [rx_buffer EXCEPT ![rx_size - 1] = NUL]
  BY DEF EraseChar
<1>2. TypeOne(LineHeld, Backspace) = t
  BY DEF TypeOne, Backspace, Return
<1>3. /\ t \in Seq(Chars) /\ Len(t) = rx_size - 1
      /\ \A k \in 1 .. rx_size - 1 : t[k] = rx_buffer[k - 1]
  BY <1>1, HeldType
<1>4. \A k \in 1 .. rx_size - 1 : rx_buffer'[k - 1] = rx_buffer[k - 1]
  BY <1>1, HeldType DEF Cells
<1> HIDE DEF t
<1>5. LineHeld' = t
  BY <1>1, <1>3, <1>4, HeldTypeNext, SameElements
<1> QED BY <1>1, <1>2, <1>5

\* A character stored is appended to the line, and the line with it is the one
\* to be run when it completes it.
LEMMA StoreEdits ==
  ASSUME IInv, IInv', NEW ch \in Chars, StoreChar(ch)
  PROVE  IF ch = Newline \/ rx_size + 1 = RX_SIZE
         THEN pc' = "scan" /\ line' = Append(LineHeld, ch) /\ TypeOne(LineHeld, ch) = <<>>
         ELSE pc' = "idle" /\ LineHeld' = TypeOne(LineHeld, ch)
<1>1. /\ pc = "idle" /\ rx_size < RX_SIZE /\ rx_size' = rx_size + 1
      /\ rx_buffer' = [rx_buffer EXCEPT ![rx_size] = ch] /\ ch # Return /\ ch # Backspace
  BY HeldType DEF StoreChar, prv_is_rx_buffer_full
<1>2. /\ Append(LineHeld, ch) \in Seq(Chars) /\ Len(Append(LineHeld, ch)) = rx_size + 1
      /\ \A k \in 1 .. rx_size : Append(LineHeld, ch)[k] = rx_buffer[k - 1]
      /\ Append(LineHeld, ch)[rx_size + 1] = ch
  BY HeldType
<1>3. rx_size \in Cells /\ \A k \in 1 .. rx_size : k - 1 \in Cells /\ k - 1 # rx_size
  BY <1>1, HeldType DEF Cells
<1>4. \A k \in 1 .. rx_size + 1 : Append(LineHeld, ch)[k] = rx_buffer'[k - 1]
  <2> TAKE k \in 1 .. rx_size + 1
  <2>1. k \in 1 .. rx_size \/ (k = rx_size + 1 /\ k - 1 = rx_size)
    BY HeldType
  <2> QED BY <1>1, <1>2, <1>3, <2>1, HeldType
<1>5. LineHeld' = Append(LineHeld, ch)
  <2>1. /\ LineHeld' \in Seq(Chars) /\ Len(LineHeld') = Len(Append(LineHeld, ch))
        /\ \A k \in 1 .. Len(LineHeld') : LineHeld'[k] = Append(LineHeld, ch)[k]
    BY <1>1, <1>2, <1>4, HeldTypeNext
  <2> QED BY <1>2, <2>1, SameElements, Zenon
<1>6. LineComplete(ch) <=> ch = Newline \/ rx_size + 1 = RX_SIZE
  BY <1>1, HeldType DEF LineComplete
<1>7. CASE LineComplete(ch)
  <2>1. pc' = "scan" /\ line' = [k \in 1 .. rx_size + 1 |-> rx_buffer'[k - 1]]
    BY <1>7 DEF StoreChar
  <2>2. line' = LineHeld'
    BY <1>1, <2>1 DEF LineHeld
  <2>3. TypeOne(LineHeld, ch) = <<>>
    BY <1>1, <1>6, <1>7, HeldType DEF TypeOne
  <2> QED BY <1>5, <1>6, <1>7, <2>1, <2>2, <2>3
<1>8. CASE ~LineComplete(ch)
  <2>1. pc' = "idle"
    BY <1>1, <1>8 DEF StoreChar
  <2>2. TypeOne(LineHeld, ch) = Append(LineHeld, ch)
    BY <1>1, <1>6, <1>8, HeldType DEF TypeOne
  <2> QED BY <1>5, <1>6, <1>8, <2>1, <2>2
<1> QED BY <1>7, <1>8

\* Each key handed to the shell edits the line as the reference says.
LEMMA EditReceive ==
  ASSUME InputInv, IInv, IInv', SyncInv, EditInv, loop_receive_char
  PROVE  EditInv'
<1>1. mpc = "receive" /\ taken' = Append(taken, c) /\ pc = "idle"
  BY ReceiveFacts
<1>2. c \in Input /\ taken \in Seq(Input) /\ booted
  BY <1>1, TakenByte DEF SyncInv
<1>3. LineHeld = Typed(taken) /\ Typed(taken') = TypeOne(LineHeld, c)
  BY <1>1, <1>2, TypedAppend DEF EditInv
<1>4. SubSeq(taken', 1, Len(taken') - 1) = taken /\ taken'[Len(taken')] = c
  BY <1>1, <1>2, FrontOfAppend
<1>5. CASE IgnoreChar(c)
  BY <1>2, <1>3, <1>5, IgnoreEdits DEF EditInv
<1>6. CASE c = Backspace /\ EraseChar
  BY <1>3, <1>6, EraseEdits DEF EditInv
<1>7. CASE StoreChar(c)
  <2>1. c \in Chars
    BY <1>2, <1>7, StoredChar DEF StoreChar
  <2>2. CASE c = Newline \/ rx_size + 1 = RX_SIZE
    <3>1. pc' = "scan" /\ line' = Append(LineHeld, c) /\ TypeOne(LineHeld, c) = <<>>
      BY <1>7, <2>1, <2>2, StoreEdits
    <3> QED BY <1>3, <1>4, <3>1 DEF EditInv
  <2>3. CASE ~(c = Newline \/ rx_size + 1 = RX_SIZE)
    <3>1. pc' = "idle" /\ LineHeld' = TypeOne(LineHeld, c)
      BY <1>7, <2>1, <2>3, StoreEdits
    <3> QED BY <1>3, <3>1 DEF EditInv
  <2> QED BY <2>2, <2>3
<1> QED BY <1>5, <1>6, <1>7 DEF loop_receive_char

\* Every step of the console keeps the line the one typed.
LEMMA EditStep ==
  InputInv /\ IInv /\ IInv' /\ SyncInv /\ EditInv /\ [ConsoleNext]_consoleVars => EditInv'
<1> SUFFICES ASSUME InputInv, IInv, IInv', SyncInv, EditInv, [ConsoleNext]_consoleVars
             PROVE  EditInv'
  OBVIOUS
<1>1. CASE loop_receive_char
  BY <1>1, EditReceive
<1>2. CASE loop_process
  <2>1. /\ taken' = taken /\ pc # "idle"
        /\ \/ pc' \in {"scan", "dispatch"} /\ line' = line
           \/ pc' = "idle" /\ rx_size' = 0
    BY <1>2, ProcessFacts
  <2>2. Typed(taken) = <<>>
    BY <2>1 DEF EditInv
  <2> QED BY <2>1, <2>2, HeldTypeNext DEF EditInv
<1>3. CASE prv_reboot
  <2>1. taken' = <<>> /\ pc' = "idle" /\ rx_size' = 0
    BY <1>3 DEF prv_reboot, RunReboot
  <2> QED BY <2>1, HeldTypeNext, TypedNothing DEF EditInv
<1>4. CASE loop_shell_boot
  <2>1. taken' = taken /\ pc' = pc /\ rx_size' = 0 /\ ~booted
    BY <1>4 DEF loop_shell_boot, shell_boot, prv_reset_rx_buffer, inputVars
  <2> QED BY <2>1, HeldTypeNext, TypedNothing DEF EditInv, SyncInv
<1>5. CASE taken' = taken /\ UNCHANGED vars
  BY <1>5 DEF EditInv, LineHeld, vars, editVars, scanVars
<1> QED BY <1>1, <1>2, <1>3, <1>4, <1>5, OtherSteps DEF ConsoleNext, shell_processing_loop

\* The invariant of the composition.
LEMMA EditInvariant ==
  ASSUME Paced PROVE ConsoleSpec => [](InputInv /\ IInv /\ SyncInv /\ EditInv)
<1>1. ConsoleInit => SyncInv
  BY DEF ConsoleInit, Init, U!Init, SyncInv
<1>2. ConsoleInit => EditInv
  BY TypedNothing DEF ConsoleInit, Init, U!Init, EditInv, LineHeld
<1>3. ConsoleSpec => []InputInv
  BY InputInvariant
<1>4. ConsoleSpec => Spec
  BY ConsoleImplementsShell
<1> QED BY <1>1, <1>2, <1>3, <1>4, ShellInvariant, SyncStep, EditStep, PTL DEF ConsoleSpec

\* What was taken is the beginning of what was received.
LEMMA TakenPrefix ==
  ASSUME InputInv
  PROVE  /\ taken = SubSeq(received, 1, Len(taken))
         /\ Len(taken) = Len(received) => taken = received
<1>1. received \in Seq(Input) /\ taken \in Seq(Input \cup {NUL})
  BY DEF InputInv, UP!IInv, UP!TypeOK, UP!Data
<1>2. taken = received \/ \E x : received = Append(taken, x)
  BY DEF InputInv, UP!PacedInv, UP!IInv, UP!RxHistory
<1>3. CASE taken = received
  BY <1>1, <1>3
<1>4. ASSUME NEW x, received = Append(taken, x)
      PROVE  taken = SubSeq(received, 1, Len(taken)) /\ Len(taken) # Len(received)
  <2>1. Len(received) = Len(taken) + 1 /\ \A k \in 1 .. Len(taken) : received[k] = taken[k]
    BY <1>1, <1>4
  <2>2. /\ SubSeq(received, 1, Len(taken)) \in Seq(Input)
        /\ Len(SubSeq(received, 1, Len(taken))) = Len(taken)
        /\ \A k \in 1 .. Len(taken) : SubSeq(received, 1, Len(taken))[k] = received[k]
    BY <1>1, <2>1
  <2> QED BY <1>1, <2>1, <2>2, SameElements
<1> QED BY <1>2, <1>3, <1>4

\* For every buffer and ring size, alphabet and command table: the line held at
\* the prompt is the line that was typed.
THEOREM ConsoleLineIsTyped == ASSUME Paced PROVE ConsoleSpec => []LineIsTyped
<1>1. InputInv /\ IInv /\ SyncInv /\ EditInv => LineIsTyped
  <2> SUFFICES ASSUME InputInv, SyncInv, EditInv, mpc = "poll", Len(taken) = Len(received)
               PROVE  LineHeld = Typed(received)
    BY DEF LineIsTyped
  <2>1. pc = "idle" /\ taken = received
    BY TakenPrefix DEF SyncInv
  <2> QED BY <2>1 DEF EditInv
<1>2. ConsoleSpec => [](InputInv /\ IInv /\ SyncInv /\ EditInv)
  BY EditInvariant
<1> QED BY <1>1, <1>2, PTL

\* ... and the line taken apart and run is the one typed, with the key that
\* completed it.
THEOREM ConsoleCommandIsTyped == ASSUME Paced PROVE ConsoleSpec => []CommandIsTyped
<1>1. InputInv /\ IInv /\ SyncInv /\ EditInv => CommandIsTyped
  BY TakenPrefix DEF EditInv, CommandIsTyped
<1>2. ConsoleSpec => [](InputInv /\ IInv /\ SyncInv /\ EditInv)
  BY EditInvariant
<1> QED BY <1>1, <1>2, PTL
=============================================================================
