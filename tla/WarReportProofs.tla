---------------------------- MODULE WarReportProofs ----------------------------
(***************************************************************************)
(* Proofs about the tournament and its table, for every number of          *)
(* strategies, every command line, every result a game may report and      *)
(* every file the formatter is given.                                      *)
(*                                                                         *)
(* Tasks finish in any order.  The invariant ties each of them to its      *)
(* place: the k-th task plays the k-th pair of the nested loops, and a row *)
(* collected is that of the task in its place, which has no game left and  *)
(* so stands still.  The formatter's rows are its input under a bijection. *)
(***************************************************************************)
EXTENDS WarReport, FiniteSetTheorems, FunctionTheorems, SequenceTheorems, WellFoundedInduction, TLAPS

\* The accounts of main and of its tasks.
IsSeq(s) == Len(s) \in Nat /\ s = [k \in 1 .. Len(s) |-> s[k]]
Counters == {"s1", "s2", "i", "p1", "p2", "tie", "nhands", "total_p1_war_cards",
             "total_p1_war_count", "total_p2_war_cards", "total_p2_war_count"}

\* The hands of the games, and the cards and the number of the wars lost in them.
SumsMatch(t, games) ==
    /\ t.nhands = Hands(games)
    /\ <<t.total_p1_war_cards, t.total_p1_war_count>> = Average(Lost1(games))
    /\ <<t.total_p2_war_cards, t.total_p2_war_count>> = Average(Lost2(games))

\* The k-th task plays the k-th pair of the nested loops and has counted each
\* of its games once.
TaskMatches(t, pair, games, n) ==
    /\ Counters \subseteq DOMAIN t
    /\ t.s1 = pair[1] /\ t.s2 = pair[2]
    /\ t.i \in 0 .. n /\ t.i = Len(games)
    /\ t.p1 \in 0 .. Uint32 - 1 /\ t.p2 \in 0 .. Uint32 - 1 /\ t.tie \in 0 .. Uint32 - 1
    /\ CountsMatch(t, games) /\ SumsMatch(t, games)
TaskInv(k) == TaskMatches(futures[k], PairOf(k), played[k], n_games)

\* A row collected is that of the task in its place, which has no game left and
\* so stands still.
RowInv(k) == Finished(futures[k]) /\ results[k] = RowOf(futures[k])

RunTypeOK ==
    /\ pc \in {"start", "launch", "collect", "printed", "refused", "abort"}
    /\ args \in Arguments
    /\ n_games \in Nat /\ selected_indices \in Seq(0 .. NStrategies - 1)
    /\ IsSeq(futures) /\ IsSeq(results)
    /\ played \in Seq(Seq(GameResults)) /\ Len(played) = Len(futures)

PhaseInv ==
    /\ Len(results) <= Len(futures) /\ Len(futures) <= NTasks
    /\ pc \in {"start", "refused"} => futures = <<>>
    /\ pc \in {"start", "refused", "launch", "abort"} => results = <<>>
    /\ pc \in {"collect", "printed"} => Len(futures) = NTasks
    /\ pc = "printed" => Len(results) = Len(futures)
    /\ pc \notin {"start", "refused"} => NTasks # 0

RunInv ==
    /\ RunTypeOK /\ PhaseInv
    /\ \A k \in 1 .. Len(futures) : TaskInv(k)
    /\ \A k \in 1 .. Len(results) : RowInv(k)

\* The formatter's rows are those of its input in some order.
Permutes(rows, from) ==
    \E f \in Bijection(1 .. Len(from), 1 .. Len(from)) :
        rows = [r \in 1 .. Len(from) |-> from[f[r]]]

\* What the tournament printed, as the formatter reads it.
Table == [k \in 1 .. Len(results) |-> CsvRow(results[k])]

\* What the formatter makes of it: the same rows in some order, and no refusal.
TableKept ==
    /\ header = CsvColumns /\ Permutes(df, Table)
    /\ ~echoed /\ fpc \notin {"exit", "traceback"}
    /\ fpc = "sort" => df = Table

FormatInv ==
    /\ fpc \in {"idle", "sort", "write", "written", "exit", "traceback"}
    /\ fpc # "idle" => pc \in {"printed", "refused"}
    /\ IsSeq(df) /\ header \subseteq DOMAIN HeaderWidth
    /\ \A r \in 1 .. Len(df) : \A c \in header : df[r][c] \in DOMAIN CellWidth
    /\ fpc \in {"idle", "sort"} => ~echoed
    /\ fpc # "idle" /\ pc = "printed" => TableKept
    /\ Aligned

ReportInv == RunInv /\ FormatInv

-----------------------------------------------------------------------------
(* Sequences.                                                              *)

\* A sequence over some set is one.
LEMMA SeqIsSeq ==
    ASSUME NEW S, NEW s \in Seq(S)
    PROVE  IsSeq(s)
BY DEF IsSeq

\* Append to a sequence whose elements have no common type.
LEMMA AppendSeq ==
    ASSUME NEW s, IsSeq(s), NEW e
    PROVE  /\ IsSeq(Append(s, e)) /\ Len(Append(s, e)) = Len(s) + 1
           /\ \A k \in 1 .. Len(s) : Append(s, e)[k] = s[k]
           /\ Append(s, e)[Len(s) + 1] = e
<1> DEFINE S == {s[k] : k \in 1 .. Len(s)} \cup {e}
<1>1. s \in [1 .. Len(s) -> S] /\ Len(s) \in Nat
  BY DEF IsSeq
<1>2. s \in Seq(S)
  BY <1>1, ElementOfSeq
<1>3. e \in S
  OBVIOUS
<1> HIDE DEF S
<1>4. /\ Append(s, e) \in Seq(S) /\ Len(Append(s, e)) = Len(s) + 1
      /\ \A k \in 1 .. Len(s) : Append(s, e)[k] = s[k]
      /\ Append(s, e)[Len(s) + 1] = e
  BY <1>2, <1>3, AppendProperties
<1> QED
  BY <1>4, SeqIsSeq

SameBut(u, s, k, e) ==
    /\ IsSeq(u) /\ Len(u) = Len(s)
    /\ u[k] = e /\ \A j \in 1 .. Len(s) : j # k => u[j] = s[j]

\* One element of it replaced.
LEMMA ReplacedSeq ==
    ASSUME NEW s, IsSeq(s), NEW e, NEW k \in 1 .. Len(s), NEW u, u = [s EXCEPT ![k] = e]
    PROVE  SameBut(u, s, k, e)
<1>1. DOMAIN s = 1 .. Len(s) /\ Len(s) \in Nat
  BY DEF IsSeq
<1>2. u[k] = e /\ \A j \in 1 .. Len(s) : j # k => u[j] = s[j]
  BY <1>1
<1>3. u \in [1 .. Len(s) -> {s[j] : j \in 1 .. Len(s)} \cup {e}]
  BY <1>1
<1>4. u \in Seq({s[j] : j \in 1 .. Len(s)} \cup {e}) /\ Len(u) = Len(s)
  BY <1>1, <1>3
<1>5. IsSeq(u)
  BY <1>4, SeqIsSeq
<1> QED
  BY <1>2, <1>4, <1>5 DEF SameBut

\* A counter that wraps counts modulo its range.
LEMMA IncrementOfRest ==
    ASSUME NEW m \in Nat \ {0}, NEW x \in Nat
    PROVE  /\ x % m \in 0 .. m - 1 /\ (0 % m) = 0
           /\ ((x % m) + 1) % m = (x + 1) % m
<1>1. PICK q \in Nat, c \in 0 .. m - 1 : x = (m * q) + c /\ c = x % m
  <2>1. x = (m * (x \div m)) + (x % m) /\ x \div m \in Nat /\ x % m \in 0 .. m - 1
    OBVIOUS
  <2> QED
    BY <2>1
<1>2. 0 % m = 0
  OBVIOUS
<1>3. CASE c + 1 < m
  <2>1. PICK d \in 0 .. m - 1 : d = c + 1
    BY <1>3
  <2>2. ((m * q) + d) % m = d /\ d % m = d
    OBVIOUS
  <2>3. x + 1 = (m * q) + d
    BY <1>1, <2>1
  <2> QED
    BY <1>1, <1>2, <2>1, <2>2, <2>3
<1>4. CASE ~(c + 1 < m)
  <2>1. c + 1 = m
    BY <1>4
  <2>2. PICK p \in Nat : p = q + 1
    OBVIOUS
  <2>3. x + 1 = m * p
    <3>1. m * (q + 1) = (m * q) + m /\ m * q \in Nat
      OBVIOUS
    <3>2. PICK z \in Nat : z = m * q
      BY <3>1
    <3>3. x = z + c
      BY <1>1, <3>2
    <3>4. x + 1 = z + m
      BY <2>1, <3>3
    <3> QED
      BY <2>2, <3>1, <3>2, <3>4
  <2>4. (m * p) % m = 0 /\ m % m = 0
    OBVIOUS
  <2> QED
    BY <1>1, <1>2, <2>1, <2>3, <2>4
<1> QED
  BY <1>3, <1>4

\* No game, no win.
LEMMA WinsEmpty == \A w : Wins(<<>>, w) = 0
<1> SUFFICES ASSUME NEW w
             PROVE  Wins(<<>>, w) = 0
  OBVIOUS
<1>1. {g \in DOMAIN <<>> : (<<>>)[g].winner = w} = {}
  OBVIOUS
<1> QED
  BY <1>1, FS_EmptySet DEF Wins

\* A game more is a win more for one side at most.
LEMMA WinsAppend ==
    ASSUME NEW games \in Seq(GameResults), NEW g \in GameResults, NEW w
    PROVE  /\ Wins(games, w) \in Nat
           /\ Wins(Append(games, g), w)
              = IF g.winner = w THEN Wins(games, w) + 1 ELSE Wins(games, w)
<1> DEFINE n == Len(games)
           W == {k \in DOMAIN games : games[k].winner = w}
           V == {k \in DOMAIN Append(games, g) : Append(games, g)[k].winner = w}
<1>1. n \in Nat /\ DOMAIN games = 1 .. n
  OBVIOUS
<1>2. /\ DOMAIN Append(games, g) = 1 .. n + 1
      /\ \A k \in 1 .. n : Append(games, g)[k] = games[k]
      /\ Append(games, g)[n + 1] = g
  <2>1. Append(games, g) \in Seq(GameResults) /\ Len(Append(games, g)) = n + 1
    BY AppendProperties
  <2> QED
    BY <2>1, AppendProperties
<1>3. IsFiniteSet(1 .. n)
  BY <1>1, FS_Interval
<1>4. W \in SUBSET (1 .. n) /\ n + 1 \notin W
  BY <1>1
<1>5. IsFiniteSet(W) /\ Cardinality(W) \in Nat
  BY <1>3, <1>4, FS_Subset, FS_CardinalityType
<1>6. V = IF g.winner = w THEN W \cup {n + 1} ELSE W
  BY <1>1, <1>2
<1>7. Cardinality(W \cup {n + 1}) = Cardinality(W) + 1
  BY <1>4, <1>5, FS_AddElement
<1>8. Wins(games, w) = Cardinality(W) /\ Wins(Append(games, g), w) = Cardinality(V)
  BY DEF Wins
<1> HIDE DEF W, V
<1> QED
  BY <1>5, <1>6, <1>7, <1>8

-----------------------------------------------------------------------------
(* Sums.                                                                   *)

\* f gives the sum of the first k numbers of s, for k up to n.
IsSum(f, s, n) == f = [k \in 0 .. n |-> IF k = 0 THEN 0 ELSE f[k - 1] + s[k]]

\* The first n elements of s and t are the same.
SameFirst(s, t, n) == \A k \in 1 .. n : s[k] = t[k]

\* A set of numbers that is not empty has a least member.
LEMMA LeastNumber ==
    ASSUME NEW S \in SUBSET Nat, S # {}
    PROVE  \E x \in S : \A y \in S : x <= y
<1>1. PICK x \in S : \A y \in S : ~(<<y, x>> \in OpToRel(<, Nat))
  BY NatLessThanWellFounded, WFMin
<1>2. \A y \in S : ~(y < x)
  BY <1>1 DEF OpToRel
<1> QED
  BY <1>2

\* There are sums of the first numbers of any sequence ...
LEMMA SumExists ==
    ASSUME NEW s, NEW n \in Nat
    PROVE  \E f : IsSum(f, s, n)
<1> DEFINE Bad == {m \in Nat : ~ \E f : IsSum(f, s, m)}
<1> SUFFICES ASSUME Bad # {}
             PROVE  FALSE
  OBVIOUS
<1>1. PICK m \in Bad : \A y \in Bad : m <= y
  BY LeastNumber
<1>2. CASE m = 0
  <2>1. IsSum([k \in 0 .. 0 |-> 0], s, 0)
    BY DEF IsSum
  <2> QED
    BY <1>2, <2>1
<1>3. CASE m # 0
  <2>1. m - 1 \in Nat /\ m - 1 \notin Bad
    BY <1>1, <1>3
  <2>2. PICK g : IsSum(g, s, m - 1)
    BY <2>1
  <2> DEFINE f == [k \in 0 .. m |-> IF k = m THEN g[m - 1] + s[m] ELSE g[k]]
             h == [k \in 0 .. m |-> IF k = 0 THEN 0 ELSE f[k - 1] + s[k]]
  <2>3. \A k \in 0 .. m - 1 : g[k] = IF k = 0 THEN 0 ELSE g[k - 1] + s[k]
    BY <2>2 DEF IsSum
  <2>4. \A k \in 0 .. m : f[k] = h[k]
    <3> TAKE k \in 0 .. m
    <3>1. CASE k = m
      <4>1. f[k] = g[m - 1] + s[m] /\ f[m - 1] = g[m - 1] /\ k # 0
        BY <1>1, <1>3, <3>1
      <4> QED
        BY <3>1, <4>1
    <3>2. CASE k # m
      <4>1. k \in 0 .. m - 1 /\ f[k] = g[k] /\ (k # 0 => f[k - 1] = g[k - 1])
        BY <1>1, <3>2
      <4> QED
        BY <2>3, <4>1
    <3> QED
      BY <3>1, <3>2
  <2>5. f = h
    BY <2>4
  <2>6. IsSum(f, s, m)
    BY <2>5 DEF IsSum
  <2> QED
    BY <1>1, <2>6
<1> QED
  BY <1>2, <1>3

\* ... and the numbers alone decide them.
LEMMA SumUnique ==
    ASSUME NEW s, NEW t, NEW n \in Nat, NEW m \in Nat, n <= m, NEW f, NEW g,
           IsSum(f, s, n), IsSum(g, t, m), SameFirst(s, t, n)
    PROVE  \A k \in 0 .. n : f[k] = g[k]
<1> DEFINE Bad == {k \in 0 .. n : f[k] # g[k]}
<1> SUFFICES ASSUME Bad # {}
             PROVE  FALSE
  OBVIOUS
<1>0. Bad \in SUBSET Nat
  OBVIOUS
<1>1. PICK k \in Bad : \A y \in Bad : k <= y
  BY <1>0, LeastNumber
<1>2. /\ f[k] = IF k = 0 THEN 0 ELSE f[k - 1] + s[k]
      /\ g[k] = IF k = 0 THEN 0 ELSE g[k - 1] + t[k]
  <2>1. k \in 0 .. n /\ k \in 0 .. m
    BY <1>1
  <2> QED
    BY <2>1 DEF IsSum
<1>3. CASE k = 0
  BY <1>1, <1>2, <1>3
<1>4. CASE k # 0
  <2>1. k - 1 \in 0 .. n /\ k \in 1 .. n /\ k - 1 \notin Bad
    BY <1>1, <1>4
  <2>2. f[k - 1] = g[k - 1] /\ s[k] = t[k]
    BY <2>1 DEF SameFirst
  <2> QED
    BY <1>1, <1>2, <1>4, <2>2
<1> QED
  BY <1>3, <1>4

\* Total is the last of them.
LEMMA TotalIs ==
    ASSUME NEW s, Len(s) \in Nat, NEW f, IsSum(f, s, Len(s))
    PROVE  Total(s) = f[Len(s)]
<1> DEFINE e == CHOOSE g : g = [k \in 0 .. Len(s) |-> IF k = 0 THEN 0 ELSE g[k - 1] + s[k]]
<1>1. Total(s) = e[Len(s)]
  BY DEF Total
<1>2. IsSum(e, s, Len(s))
  BY DEF IsSum
<1> HIDE DEF e
<1>3. \A k \in 0 .. Len(s) : e[k] = f[k]
  BY <1>2, SumUnique DEF SameFirst
<1> QED
  BY <1>1, <1>3

\* Nothing adds up to nothing.
LEMMA TotalOfNone ==
    ASSUME NEW s, Len(s) = 0
    PROVE  Total(s) = 0
<1>1. PICK f : IsSum(f, s, 0)
  BY SumExists
<1>2. f[0] = 0
  BY <1>1 DEF IsSum
<1> QED
  BY <1>1, <1>2, TotalIs

\* One number more is added to the sum of those before it.
LEMMA TotalOfMore ==
    ASSUME NEW s, NEW t, Len(s) \in Nat, Len(t) = Len(s) + 1,
           \A k \in 1 .. Len(s) : s[k] = t[k]
    PROVE  Total(t) = Total(s) + t[Len(t)]
<1>0. PICK n \in Nat, m \in Nat : n = Len(s) /\ m = Len(t) /\ m = n + 1 /\ n <= m
  OBVIOUS
<1>1. PICK f : IsSum(f, s, n)
  BY SumExists
<1>2. PICK g : IsSum(g, t, m)
  BY SumExists
<1>3. f[n] = g[n]
  <2>1. SameFirst(s, t, n)
    BY <1>0 DEF SameFirst
  <2>2. \A k \in 0 .. n : f[k] = g[k]
    BY <1>0, <1>1, <1>2, <2>1, SumUnique
  <2> QED
    BY <2>2
<1>4. g[m] = g[n] + t[m]
  <2>1. m \in 0 .. m /\ m # 0 /\ m - 1 = n
    BY <1>0
  <2>2. g[m] = g[m - 1] + t[m]
    BY <1>2, <2>1 DEF IsSum
  <2> QED
    BY <2>1, <2>2
<1>5. Total(s) = f[n] /\ Total(t) = g[m]
  BY <1>0, <1>1, <1>2, TotalIs
<1> QED
  BY <1>0, <1>3, <1>4, <1>5

\* The average over the wars of no game, and of one game more.
LEMMA AverageOfMore ==
    /\ Average(<<>>) = <<0, 0>>
    /\ \A a : IsSeq(a) => \A x :
          Average(Append(a, x)) = <<Average(a)[1] + Total(x), Average(a)[2] + Len(x)>>
<1>1. Average(<<>>) = <<0, 0>>
  <2>1. Len([g \in DOMAIN <<>> |-> Total(<<>>[g])]) = 0 /\ Len([g \in DOMAIN <<>> |-> Len(<<>>[g])]) = 0
    OBVIOUS
  <2> QED
    BY <2>1, TotalOfNone DEF Average
<1>2. ASSUME NEW a, IsSeq(a), NEW x
      PROVE  Average(Append(a, x)) = <<Average(a)[1] + Total(x), Average(a)[2] + Len(x)>>
  <2>1. PICK b : b = Append(a, x)
    OBVIOUS
  <2>2. /\ IsSeq(b) /\ Len(b) = Len(a) + 1 /\ Len(a) \in Nat
        /\ \A k \in 1 .. Len(a) : b[k] = a[k]
        /\ b[Len(a) + 1] = x
    BY <1>2, <2>1, AppendSeq DEF IsSeq
  <2>3. DOMAIN a = 1 .. Len(a) /\ DOMAIN b = 1 .. Len(a) + 1
    BY <1>2, <2>2 DEF IsSeq
  <2>4. PICK s, t, u, v :
          /\ s = [g \in 1 .. Len(a) |-> Total(a[g])] /\ t = [g \in 1 .. Len(a) + 1 |-> Total(b[g])]
          /\ u = [g \in 1 .. Len(a) |-> Len(a[g])] /\ v = [g \in 1 .. Len(a) + 1 |-> Len(b[g])]
    OBVIOUS
  <2>5. /\ Len(s) = Len(a) /\ Len(t) = Len(a) + 1 /\ Len(u) = Len(a) /\ Len(v) = Len(a) + 1
    BY <2>2, <2>4
  <2>6. t[Len(t)] = Total(x) /\ v[Len(v)] = Len(x)
    BY <2>2, <2>4, <2>5
  <2>7. \A k \in 1 .. Len(a) : s[k] = t[k] /\ u[k] = v[k]
    BY <2>2, <2>4
  <2>8. Total(t) = Total(s) + Total(x)
    BY <2>2, <2>5, <2>6, <2>7, TotalOfMore
  <2>9. Total(v) = Total(u) + Len(x)
    BY <2>2, <2>5, <2>6, <2>7, TotalOfMore
  <2>10. Average(a) = <<Total(s), Total(u)>> /\ Average(b) = <<Total(t), Total(v)>>
    BY <2>3, <2>4 DEF Average
  <2> QED
    BY <2>1, <2>8, <2>9, <2>10
<1> QED
  BY <1>1, <1>2

\* Before its first game a task's sums are zero.
LEMMA SumsOfNone ==
    Hands(<<>>) = 0 /\ Average(Lost1(<<>>)) = <<0, 0>> /\ Average(Lost2(<<>>)) = <<0, 0>>
<1>1. Lost1(<<>>) = <<>> /\ Lost2(<<>>) = <<>>
  BY DEF Lost1, Lost2
<1>2. Len([g \in DOMAIN <<>> |-> <<>>[g].nhands]) = 0
  OBVIOUS
<1> QED
  BY <1>1, <1>2, TotalOfNone, AverageOfMore DEF Hands

\* One element more at the end makes it the sequence with it appended.
LEMMA ExtendsIsAppend ==
    ASSUME NEW a, IsSeq(a), NEW x, NEW b, DOMAIN b = 1 .. Len(a) + 1,
           b = [k \in DOMAIN b |-> b[k]],
           \A k \in 1 .. Len(a) : b[k] = a[k], b[Len(a) + 1] = x
    PROVE  b = Append(a, x)
<1>1. PICK d : d = Append(a, x)
  OBVIOUS
<1>2. /\ d = [k \in 1 .. Len(d) |-> d[k]] /\ Len(d) = Len(a) + 1 /\ Len(a) \in Nat
      /\ \A k \in 1 .. Len(a) : d[k] = a[k]
      /\ d[Len(a) + 1] = x
  BY <1>1, AppendSeq DEF IsSeq
<1>3. \A k \in 1 .. Len(a) + 1 : d[k] = b[k]
  BY <1>2
<1> QED
  BY <1>1, <1>2, <1>3

\* A game more adds its hands and the cards and number of its wars.
LEMMA SumsOfMore ==
    ASSUME NEW games \in Seq(GameResults), NEW g \in GameResults
    PROVE  /\ Hands(Append(games, g)) = Hands(games) + g.nhands
           /\ Average(Lost1(Append(games, g)))
              = <<Average(Lost1(games))[1] + Total(g.war_hands_p1_lost),
                  Average(Lost1(games))[2] + Len(g.war_hands_p1_lost)>>
           /\ Average(Lost2(Append(games, g)))
              = <<Average(Lost2(games))[1] + Total(g.war_hands_p2_lost),
                  Average(Lost2(games))[2] + Len(g.war_hands_p2_lost)>>
<1>1. PICK more : more = Append(games, g)
  OBVIOUS
<1>2. /\ Len(games) \in Nat /\ Len(more) = Len(games) + 1
      /\ DOMAIN games = 1 .. Len(games) /\ DOMAIN more = 1 .. Len(games) + 1
      /\ \A k \in 1 .. Len(games) : more[k] = games[k]
      /\ more[Len(games) + 1] = g
  BY <1>1
<1>3. Hands(more) = Hands(games) + g.nhands
  <2>1. PICK s, t : /\ s = [k \in 1 .. Len(games) |-> games[k].nhands]
                    /\ t = [k \in 1 .. Len(games) + 1 |-> more[k].nhands]
    OBVIOUS
  <2>2. /\ Len(s) = Len(games) /\ Len(t) = Len(games) + 1 /\ t[Len(t)] = g.nhands
        /\ \A k \in 1 .. Len(s) : s[k] = t[k]
    BY <1>2, <2>1
  <2>3. Total(t) = Total(s) + g.nhands
    BY <1>2, <2>2, TotalOfMore
  <2> QED
    BY <1>2, <2>1, <2>3 DEF Hands
<1>4. IsSeq(Lost1(games)) /\ IsSeq(Lost2(games))
  BY <1>2 DEF Lost1, Lost2, IsSeq
<1>5. Lost1(more) = Append(Lost1(games), g.war_hands_p1_lost)
  BY <1>2, <1>4, ExtendsIsAppend DEF Lost1
<1>6. Lost2(more) = Append(Lost2(games), g.war_hands_p2_lost)
  BY <1>2, <1>4, ExtendsIsAppend DEF Lost2
<1> QED
  BY <1>1, <1>3, <1>4, <1>5, <1>6, AverageOfMore

-----------------------------------------------------------------------------
(* The tournament.                                                         *)

\* The pairs of the nested loops are among the strategies chosen.
LEMMA PairChosen ==
    ASSUME RunTypeOK, NEW k \in 1 .. NTasks
    PROVE  /\ 1 + ((k - 1) \div Len(selected_indices)) \in 1 .. Len(selected_indices)
           /\ 1 + ((k - 1) % Len(selected_indices)) \in 1 .. Len(selected_indices)
<1> DEFINE n == Len(selected_indices)
<1>1. n \in Nat /\ k \in 1 .. n * n
  BY DEF RunTypeOK, NTasks
<1> HIDE DEF n
<1>2. n # 0
  BY <1>1
<1>3. n \in Nat \ {0} /\ k - 1 \in Nat /\ k - 1 < n * n
  BY <1>1, <1>2
<1>4. (k - 1) % n \in 0 .. n - 1 /\ (k - 1) \div n \in Nat
  BY <1>3
<1>5. (k - 1) \div n <= n - 1
  BY <1>3
<1>6. 1 + ((k - 1) \div n) \in 1 .. n /\ 1 + ((k - 1) % n) \in 1 .. n
  BY <1>3, <1>4, <1>5
<1> QED
  BY <1>6 DEF n

\* The arguments give a number of games and known strategies.
LEMMA ArgumentTypes ==
    ASSUME NEW a \in Arguments, Usable(a)
    PROVE  /\ GamesWanted(a) \in Nat /\ IndicesWanted(a) \in Seq(0 .. NStrategies - 1)
           /\ Len(IndicesWanted(a)) \in Nat \ {0}
<1>1. /\ a \in Seq(Nat \cup {Word}) /\ a # <<>>
      /\ NStrategies \in Nat \ {0} /\ kGameCount \in Nat /\ Word \notin Nat
  BY RunnerAssumption DEF Usable
<1>2. \A k \in 1 .. Len(a) : strtoul(a[k]) \in Nat
  BY <1>1 DEF strtoul
<1>3. Len(a) \in Nat /\ 1 \in 1 .. Len(a)
  BY <1>1, EmptySeq
<1>4. GamesWanted(a) \in Nat
  BY <1>1, <1>2, <1>3 DEF GamesWanted
<1>5. CASE Len(a) > 1
  <2>1. IndicesWanted(a) = [k \in 1 .. Len(a) - 1 |-> strtoul(a[k + 1])]
    BY <1>5 DEF IndicesWanted
  <2>2. ASSUME NEW k \in 1 .. Len(a) - 1
        PROVE  strtoul(a[k + 1]) \in 0 .. NStrategies - 1
    <3>1. strtoul(a[k + 1]) \in Nat
      BY <1>2, <1>3
    <3>2. strtoul(a[k + 1]) < NStrategies
      BY <2>1 DEF Usable
    <3> QED
      BY <1>1, <3>1, <3>2
  <2>3. IndicesWanted(a) \in [1 .. Len(a) - 1 -> 0 .. NStrategies - 1]
    BY <2>1, <2>2
  <2>4. PICK m \in Nat \ {0} : m = Len(a) - 1
    BY <1>3, <1>5, SMTT(30)
  <2>5. IndicesWanted(a) \in [1 .. m -> 0 .. NStrategies - 1]
    BY <2>3, <2>4
  <2>6. IndicesWanted(a) \in Seq(0 .. NStrategies - 1)
    BY <2>5, SeqDef, Zenon
  <2>7. Len(IndicesWanted(a)) = m
    BY <2>5, <2>6
  <2> QED
    BY <1>4, <2>4, <2>6, <2>7
<1>6. CASE ~(Len(a) > 1)
  <2>1. IndicesWanted(a) = [k \in 1 .. NStrategies |-> k - 1]
    BY <1>6 DEF IndicesWanted
  <2>2. IndicesWanted(a) \in [1 .. NStrategies -> 0 .. NStrategies - 1]
    BY <1>1, <2>1
  <2>3. IndicesWanted(a) \in Seq(0 .. NStrategies - 1)
    BY <1>1, <2>2, IsASeq
  <2>4. Len(IndicesWanted(a)) = NStrategies
    BY <1>1, <2>2, <2>3
  <2> QED
    BY <1>1, <1>4, <2>3, <2>4
<1> QED
  BY <1>5, <1>6

\* Nothing has been started, nothing collected.
LEMMA RunInit == Init => RunInv
<1> SUFFICES ASSUME Init
             PROVE  RunInv
  OBVIOUS
<1>1. /\ <<>> \in Seq(0 .. NStrategies - 1) /\ <<>> \in Seq(Seq(GameResults)) /\ Len(<<>>) = 0
  BY EmptySeq
<1>2. IsSeq(<<>>)
  BY <1>1, SeqIsSeq
<1>3. RunTypeOK
  BY <1>1, <1>2 DEF Init, RunTypeOK
<1>4. PhaseInv
  BY <1>1 DEF Init, PhaseInv, NTasks
<1> QED
  BY <1>1, <1>3, <1>4 DEF Init, RunInv

\* While nothing is started the choice of strategies is free.
LEMMA ArgumentsStep ==
    ASSUME RunInv, ReadArguments
    PROVE  RunInv'
<1>1. /\ Usable(args) /\ pc = "start" /\ pc' = "launch" /\ args' = args
      /\ n_games' = GamesWanted(args) /\ selected_indices' = IndicesWanted(args)
      /\ futures' = futures /\ results' = results /\ played' = played
  BY DEF ReadArguments
<1>2. futures = <<>> /\ results = <<>>
  BY <1>1 DEF RunInv, PhaseInv
<1>3. RunTypeOK'
  BY <1>1, ArgumentTypes DEF RunInv, RunTypeOK, IsSeq
<1>4. Len(<<>>) = 0
  BY EmptySeq
<1>5. NTasks' \in Nat
  <2>1. Len(selected_indices') \in Nat
    BY <1>3 DEF RunTypeOK
  <2> QED
    BY <2>1 DEF NTasks
<1>6. NTasks' # 0
  <2>1. args \in Arguments
    BY DEF RunInv, RunTypeOK
  <2>2. Len(IndicesWanted(args)) \in Nat \ {0}
    BY <1>1, <2>1, ArgumentTypes
  <2> QED
    BY <1>1, <2>2 DEF NTasks
<1>7. PhaseInv'
  BY <1>1, <1>2, <1>4, <1>5, <1>6 DEF PhaseInv
<1> QED
  BY <1>1, <1>2, <1>3, <1>4, <1>7 DEF RunInv

\* Main goes on without touching what the tasks and the rows hold.
LEMMA MainOnlyStep ==
    ASSUME RunInv, UNCHANGED <<args, n_games, selected_indices, futures, results, played>>,
           \/ pc = "start" /\ pc' = "refused"
           \/ pc = "launch" /\ pc' = "abort"
           \/ pc = "launch" /\ Len(futures) = NTasks /\ pc' = "collect"
           \/ pc = "collect" /\ Len(results) = Len(futures) /\ pc' = "printed"
           \/ pc' = pc
    PROVE  RunInv'
<1>1. RunTypeOK'
  BY DEF RunInv, RunTypeOK, IsSeq
<1>2. PhaseInv'
  BY DEF RunInv, RunTypeOK, PhaseInv, NTasks
<1>3. \A k \in 1 .. Len(futures) : TaskInv(k)'
  BY DEF RunInv, TaskInv, PairOf
<1>4. \A k \in 1 .. Len(results) : RowInv(k)'
  BY DEF RunInv, RowInv, RowOf, Finished
<1> QED
  BY <1>1, <1>2, <1>3, <1>4 DEF RunInv

\* A task starts at its pair with nothing counted.
LEMMA LaunchStep ==
    ASSUME RunInv, Launch
    PROVE  RunInv'
<1>0. PICK m \in Nat : m = Len(futures) + 1
  BY DEF RunInv, RunTypeOK, IsSeq
<1> DEFINE t == NewTask(PairOf(m))
<1>1. /\ pc = "launch" /\ pc' = "launch" /\ Len(futures) < NTasks
      /\ futures' = Append(futures, t) /\ played' = Append(played, <<>>)
      /\ args' = args /\ n_games' = n_games /\ selected_indices' = selected_indices
      /\ results' = results
  BY <1>0 DEF Launch
<1>2. /\ IsSeq(futures) /\ Len(futures) \in Nat /\ played \in Seq(Seq(GameResults))
      /\ Len(played) = Len(futures) /\ n_games \in Nat
  BY DEF RunInv, RunTypeOK, IsSeq
<1>3. NTasks \in Nat
  <2>1. Len(selected_indices) \in Nat
    BY DEF RunInv, RunTypeOK
  <2> QED
    BY <2>1 DEF NTasks
<1> HIDE DEF t
<1>4. /\ IsSeq(futures') /\ Len(futures') = m
      /\ \A k \in 1 .. Len(futures) : futures'[k] = futures[k]
      /\ futures'[m] = t
  BY <1>0, <1>1, <1>2, AppendSeq
<1>5. /\ played' \in Seq(Seq(GameResults)) /\ Len(played') = m
      /\ \A k \in 1 .. Len(futures) : played'[k] = played[k]
      /\ played'[m] = <<>>
  <2>1. <<>> \in Seq(GameResults)
    BY EmptySeq
  <2> QED
    BY <1>0, <1>1, <1>2, <2>1, AppendProperties
<1>6. results = <<>> /\ Len(<<>>) = 0
  BY <1>1, EmptySeq DEF RunInv, PhaseInv
<1>7. RunTypeOK'
  BY <1>1, <1>4, <1>5 DEF RunInv, RunTypeOK, IsSeq
<1>8. PhaseInv'
  <2>1. NTasks # 0
    BY <1>1 DEF RunInv, PhaseInv
  <2>2. NTasks' = NTasks /\ m <= NTasks
    BY <1>0, <1>1, <1>2, <1>3 DEF NTasks
  <2>3. 0 <= m
    OBVIOUS
  <2> QED
    BY <1>1, <1>4, <1>6, <2>1, <2>2, <2>3 DEF PhaseInv
<1>9. ASSUME NEW k \in 1 .. Len(futures)
      PROVE  TaskInv(k)'
  <2>1. PairOf(k)' = PairOf(k)
    BY <1>1 DEF PairOf
  <2> QED
    BY <1>1, <1>4, <1>5, <2>1 DEF RunInv, TaskInv
<1>10. TaskInv(m)'
  <2>1. /\ Counters \subseteq DOMAIN t /\ t.s1 = PairOf(m)[1] /\ t.s2 = PairOf(m)[2]
        /\ t.i = 0 /\ t.p1 = 0 /\ t.p2 = 0 /\ t.tie = 0 /\ t.nhands = 0
        /\ t.total_p1_war_cards = 0 /\ t.total_p1_war_count = 0
        /\ t.total_p2_war_cards = 0 /\ t.total_p2_war_count = 0
    BY DEF t, NewTask, Counters
  <2>2. PairOf(m)' = PairOf(m)
    BY <1>1 DEF PairOf
  <2>30. Uint32 \in Nat \ {0} /\ 0 % Uint32 = 0
    BY RunnerAssumption, IncrementOfRest
  <2>3. CountsMatch(t, <<>>)
    BY <1>6, <2>1, <2>30, WinsEmpty DEF CountsMatch
  <2>4. SumsMatch(t, <<>>)
    BY <2>1, SumsOfNone DEF SumsMatch
  <2>5. TaskMatches(t, PairOf(m), <<>>, n_games)
    BY <1>2, <1>6, <2>1, <2>30, <2>3, <2>4 DEF TaskMatches
  <2> QED
    BY <1>1, <1>4, <1>5, <2>2, <2>5 DEF TaskInv
<1>11. \A k \in 1 .. Len(futures') : TaskInv(k)'
  <2>1. \A k \in 1 .. Len(futures') : k \in 1 .. Len(futures) \/ k = m
    BY <1>0, <1>2, <1>4
  <2> QED
    BY <1>9, <1>10, <2>1
<1>12. \A k \in 1 .. Len(results') : RowInv(k)'
  BY <1>1, <1>6
<1> QED
  BY <1>7, <1>8, <1>11, <1>12 DEF RunInv

\* A game more is counted once by the task that played it; no other task, and no
\* row collected, is touched.
LEMMA PlayStep ==
    ASSUME RunInv, NEW m \in DOMAIN futures, PlayGame(m)
    PROVE  RunInv'
<1>1. PICK g \in GameResults :
          /\ futures' = [futures EXCEPT ![m] = AddGame(futures[m], g)]
          /\ played' = [played EXCEPT ![m] = Append(played[m], g)]
  BY DEF PlayGame
<1> DEFINE t == futures[m]
           u == AddGame(futures[m], g)
           games == played[m]
<1>2. /\ pc \in {"launch", "collect"} /\ pc' = pc /\ t.i < n_games
      /\ args' = args /\ n_games' = n_games /\ selected_indices' = selected_indices
      /\ results' = results
  BY DEF PlayGame
<1>3. /\ IsSeq(futures) /\ Len(futures) \in Nat /\ played \in Seq(Seq(GameResults))
      /\ Len(played) = Len(futures) /\ n_games \in Nat /\ m \in 1 .. Len(futures)
  <2>1. /\ IsSeq(futures) /\ played \in Seq(Seq(GameResults))
        /\ Len(played) = Len(futures) /\ n_games \in Nat
    BY DEF RunInv, RunTypeOK
  <2>2. DOMAIN futures = 1 .. Len(futures) /\ Len(futures) \in Nat
    BY <2>1 DEF IsSeq
  <2> QED
    BY <2>1, <2>2
<1>4. /\ games \in Seq(GameResults) /\ Append(games, g) \in Seq(GameResults)
      /\ Len(Append(games, g)) = Len(games) + 1 /\ Len(games) \in Nat
  BY <1>3, AppendProperties
<1>5. TaskInv(m)
  BY <1>3 DEF RunInv
<1>6. /\ Counters \subseteq DOMAIN t /\ t.i \in 0 .. n_games /\ t.i = Len(games)
      /\ t.s1 = PairOf(m)[1] /\ t.s2 = PairOf(m)[2]
      /\ t.p1 = Wins(games, 1) % Uint32 /\ t.p2 = Wins(games, 2) % Uint32
      /\ t.tie = Wins(games, 0) % Uint32
  BY <1>5 DEF TaskInv, TaskMatches, CountsMatch
<1>7. /\ Counters \subseteq DOMAIN u /\ u.s1 = t.s1 /\ u.s2 = t.s2 /\ u.i = t.i + 1
      /\ u.p1 = IF g.winner = 1 THEN Increment(t.p1) ELSE t.p1
      /\ u.p2 = IF g.winner = 2 THEN Increment(t.p2) ELSE t.p2
      /\ u.tie = IF g.winner \notin {1, 2} THEN Increment(t.tie) ELSE t.tie
  BY <1>6 DEF AddGame, Counters
<1>70. /\ u.nhands = t.nhands + g.nhands
       /\ u.total_p1_war_cards = t.total_p1_war_cards + Total(g.war_hands_p1_lost)
       /\ u.total_p1_war_count = t.total_p1_war_count + Len(g.war_hands_p1_lost)
       /\ u.total_p2_war_cards = t.total_p2_war_cards + Total(g.war_hands_p2_lost)
       /\ u.total_p2_war_count = t.total_p2_war_count + Len(g.war_hands_p2_lost)
  BY <1>6 DEF AddGame, Counters
<1>71. futures' = [futures EXCEPT ![m] = u]
  BY <1>1
<1> HIDE DEF t, u, games
<1>8. /\ IsSeq(futures') /\ Len(futures') = Len(futures) /\ futures'[m] = u
      /\ \A k \in 1 .. Len(futures) : k # m => futures'[k] = futures[k]
  <2>1. PICK fs : fs = [futures EXCEPT ![m] = u]
    OBVIOUS
  <2>2. SameBut(fs, futures, m, u)
    BY <1>3, <2>1, ReplacedSeq
  <2>3. futures' = fs
    BY <1>71, <2>1
  <2> QED
    BY <2>2, <2>3 DEF SameBut
<1>9. /\ played' \in Seq(Seq(GameResults)) /\ Len(played') = Len(futures)
      /\ played'[m] = Append(games, g)
      /\ \A k \in 1 .. Len(futures) : k # m => played'[k] = played[k]
  BY <1>1, <1>3, <1>4 DEF games
<1>10. /\ CountsMatch(u, Append(games, g))
       /\ u.p1 \in 0 .. Uint32 - 1 /\ u.p2 \in 0 .. Uint32 - 1 /\ u.tie \in 0 .. Uint32 - 1
  <2> DEFINE Rest(s, w) == Wins(s, w) % Uint32
  <2>1. Uint32 \in Nat \ {0} /\ g.winner \in 0 .. 2
    BY RunnerAssumption
  <2>2. ASSUME NEW w \in 0 .. 2
        PROVE  /\ Rest(Append(games, g), w) \in 0 .. Uint32 - 1
               /\ Rest(Append(games, g), w)
                  = IF g.winner = w THEN Increment(Rest(games, w)) ELSE Rest(games, w)
    <3>1. PICK x \in Nat : x = Wins(games, w)
      BY <1>4, WinsAppend
    <3>2. PICK y \in Nat : y = IF g.winner = w THEN x + 1 ELSE x
      OBVIOUS
    <3>3. Wins(Append(games, g), w) = y
      BY <1>4, <3>1, <3>2, WinsAppend
    <3>4. y % Uint32 \in 0 .. Uint32 - 1 /\ ((x % Uint32) + 1) % Uint32 = (x + 1) % Uint32
      BY <2>1, IncrementOfRest
    <3> QED
      BY <3>1, <3>2, <3>3, <3>4 DEF Increment
  <2> HIDE DEF Rest
  <2>3. t.p1 = Rest(games, 1) /\ t.p2 = Rest(games, 2) /\ t.tie = Rest(games, 0)
    BY <1>6 DEF Rest
  <2>4. g.winner \notin {1, 2} <=> g.winner = 0
    BY <2>1
  <2>5. /\ u.p1 = Rest(Append(games, g), 1) /\ u.p2 = Rest(Append(games, g), 2)
        /\ u.tie = Rest(Append(games, g), 0)
    BY <1>7, <2>2, <2>3, <2>4
  <2> QED
    BY <2>2, <2>5 DEF CountsMatch, Rest
<1>105. SumsMatch(u, Append(games, g))
  <2>1. SumsMatch(t, games)
    BY <1>5 DEF TaskInv, TaskMatches, t, games
  <2> QED
    BY <1>4, <1>70, <2>1, SumsOfMore DEF SumsMatch
<1>11. u.i \in 0 .. n_games /\ u.i = Len(games) + 1
  BY <1>2, <1>3, <1>6, <1>7
<1>12. TaskInv(m)'
  <2>1. PairOf(m)' = PairOf(m)
    BY <1>2 DEF PairOf
  <2>2. TaskMatches(u, PairOf(m), Append(games, g), n_games)
    BY <1>4, <1>6, <1>7, <1>10, <1>105, <1>11 DEF TaskMatches
  <2> QED
    BY <1>2, <1>8, <1>9, <2>1, <2>2 DEF TaskInv
<1>13. ASSUME NEW k \in 1 .. Len(futures), k # m
       PROVE  TaskInv(k)'
  <2>1. PairOf(k)' = PairOf(k)
    BY <1>2 DEF PairOf
  <2> QED
    BY <1>2, <1>8, <1>9, <1>13, <2>1 DEF RunInv, TaskInv
<1>14. ASSUME NEW k \in 1 .. Len(results)
       PROVE  RowInv(k)'
  <2>1. Finished(futures[k]) /\ results[k] = RowOf(futures[k])
    BY DEF RunInv, RowInv
  <2>2. k \in 1 .. Len(futures)
    <3>1. Len(results) <= Len(futures) /\ Len(results) \in Nat
      BY DEF RunInv, PhaseInv, RunTypeOK, IsSeq
    <3> QED
      BY <1>3, <3>1
  <2>3. k # m
    BY <1>2, <1>3, <1>6, <2>1 DEF Finished, t
  <2> QED
    BY <1>2, <1>8, <2>1, <2>2, <2>3 DEF RowInv, RowOf, Finished
<1>15. RunTypeOK'
  BY <1>2, <1>8, <1>9 DEF RunInv, RunTypeOK, IsSeq
<1>16. PhaseInv'
  <2>1. NTasks # 0
    BY <1>2 DEF RunInv, PhaseInv
  <2>2. NTasks' = NTasks
    BY <1>2 DEF NTasks
  <2> QED
    BY <1>2, <1>8, <2>1, <2>2 DEF RunInv, PhaseInv
<1> QED
  BY <1>2, <1>8, <1>12, <1>13, <1>14, <1>15, <1>16 DEF RunInv

\* The row of the next task is added: it has no game left.
LEMMA CollectStep ==
    ASSUME RunInv, Collect
    PROVE  RunInv'
<1> DEFINE m == Len(results) + 1
<1>1. /\ pc = "collect" /\ pc' = "collect" /\ Len(results) < Len(futures)
      /\ Finished(futures[m]) /\ results' = Append(results, RowOf(futures[m]))
      /\ args' = args /\ n_games' = n_games /\ selected_indices' = selected_indices
      /\ futures' = futures /\ played' = played
  BY DEF Collect
<1>2. /\ IsSeq(results) /\ Len(results) \in Nat /\ Len(futures) \in Nat
  BY DEF RunInv, RunTypeOK, IsSeq
<1>3. /\ IsSeq(results') /\ Len(results') = m
      /\ \A k \in 1 .. Len(results) : results'[k] = results[k]
      /\ results'[m] = RowOf(futures[m])
  BY <1>1, <1>2, AppendSeq
<1>4. RunTypeOK'
  BY <1>1, <1>3 DEF RunInv, RunTypeOK, IsSeq
<1>5. PhaseInv'
  <2>1. NTasks # 0
    BY <1>1 DEF RunInv, PhaseInv
  <2>2. NTasks' = NTasks /\ m <= Len(futures)
    BY <1>1, <1>2 DEF NTasks
  <2> QED
    BY <1>1, <1>3, <2>1, <2>2 DEF RunInv, PhaseInv
<1>6. \A k \in 1 .. Len(futures') : TaskInv(k)'
  BY <1>1 DEF RunInv, TaskInv, PairOf
<1>7. ASSUME NEW k \in 1 .. Len(results')
      PROVE  RowInv(k)'
  <2>1. k \in 1 .. Len(results) \/ k = m
    BY <1>2, <1>3
  <2>2. CASE k \in 1 .. Len(results)
    BY <1>1, <1>3, <2>2 DEF RunInv, RowInv, RowOf, Finished
  <2>3. CASE k = m
    BY <1>1, <1>3, <2>3 DEF RowInv, RowOf, Finished
  <2> QED
    BY <2>1, <2>2, <2>3
<1> QED
  BY <1>4, <1>5, <1>6, <1>7 DEF RunInv

\* Every step of main and of the tasks keeps it.
LEMMA RunStep == RunInv /\ [Next]_vars => RunInv'
<1> SUFFICES ASSUME RunInv, [Next]_vars
             PROVE  RunInv'
  OBVIOUS
<1>1. CASE ReadArguments
  BY <1>1, ArgumentsStep
<1>2. CASE Launch
  BY <1>2, LaunchStep
<1>3. CASE Collect
  BY <1>3, CollectStep
<1>4. CASE \E k \in DOMAIN futures : PlayGame(k)
  BY <1>4, PlayStep
<1>5. CASE Refuse \/ LaunchFails \/ LaunchDone \/ PrintTable \/ UNCHANGED vars
  BY <1>5, MainOnlyStep DEF Refuse, LaunchFails, LaunchDone, PrintTable, vars
<1> QED
  BY <1>1, <1>2, <1>3, <1>4, <1>5 DEF Next, Main

-----------------------------------------------------------------------------
(* The formatter.                                                          *)

HasMax(S) == \E x \in S : \A y \in S : x >= y

\* A finite set of numbers has a greatest one: a smallest set without would have
\* one if any of its elements were taken out.
LEMMA FiniteHasMax ==
    ASSUME NEW S \in SUBSET Nat, IsFiniteSet(S), S # {}
    PROVE  HasMax(S)
<1> DEFINE Bad == {U \in FiniteSubsetsOf(S) : U # {} /\ ~HasMax(U)}
<1> SUFFICES ASSUME ~HasMax(S)
             PROVE  FALSE
  OBVIOUS
<1>1. S \in Bad
  BY DEF FiniteSubsetsOf
<1>2. IsWellFoundedOn(StrictSubsetOrdering(S), FiniteSubsetsOf(S))
  BY FS_StrictSubsetOrderingWellFounded
<1>3. PICK U \in Bad : \A V \in Bad : ~(<<V, U>> \in StrictSubsetOrdering(S))
  <2>1. Bad \subseteq FiniteSubsetsOf(S) /\ Bad # {}
    BY <1>1
  <2> HIDE DEF Bad
  <2> QED
    BY <1>2, <2>1, WFMin
<1>4. U \subseteq S /\ IsFiniteSet(U) /\ U # {} /\ ~HasMax(U)
  BY DEF FiniteSubsetsOf
<1>5. PICK x : x \in U
  BY <1>4
<1>6. U \ {x} \subseteq S /\ IsFiniteSet(U \ {x})
  BY <1>4, FS_RemoveElement
<1>7. U \ {x} \notin Bad
  <2>1. <<U \ {x}, U>> \in StrictSubsetOrdering(S)
    BY <1>4, <1>5, <1>6 DEF StrictSubsetOrdering
  <2> QED
    BY <1>3, <2>1
<1>8. U \ {x} = {} \/ HasMax(U \ {x})
  BY <1>6, <1>7 DEF FiniteSubsetsOf
<1>9. x \in Nat
  BY <1>4, <1>5
<1>10. CASE U \ {x} = {}
  <2>1. \A y \in U : y = x
    BY <1>10
  <2> QED
    BY <1>4, <1>5, <1>9, <2>1 DEF HasMax
<1>11. CASE HasMax(U \ {x})
  <2>1. PICK m \in U \ {x} : \A y \in U \ {x} : m >= y
    BY <1>11 DEF HasMax
  <2>2. m \in Nat /\ \A y \in U : y \in Nat
    BY <1>4
  <2>3. CASE m >= x
    <3>1. \A y \in U : m >= y
      BY <2>1, <2>3
    <3> QED
      BY <1>4, <3>1 DEF HasMax
  <2>4. CASE ~(m >= x)
    <3>1. \A y \in U : x >= y
      BY <1>9, <2>1, <2>2, <2>4
    <3> QED
      BY <1>4, <1>5, <3>1 DEF HasMax
  <2> QED
    BY <2>3, <2>4
<1> QED
  BY <1>8, <1>10, <1>11

\* Max is that number.
LEMMA MaxIsMax ==
    ASSUME NEW S \in SUBSET Nat, IsFiniteSet(S), S # {}
    PROVE  T!Max(S) \in S /\ \A y \in S : T!Max(S) >= y
BY FiniteHasMax DEF T!Max, HasMax

\* An injection of finitely many places into themselves is a bijection.
LEMMA InjectionIsBijection ==
    ASSUME NEW D, IsFiniteSet(D), NEW f \in [D -> D], \A a, b \in D : f[a] = f[b] => a = b
    PROVE  f \in Bijection(D, D)
<1>1. f \in Injection(D, D)
  BY DEF Injection, IsInjective
<1>2. f \in Surjection(D, D)
  BY <1>1, FS_Injection
<1> QED
  BY <1>1, <1>2 DEF Bijection

\* Rows of the input in some order keep their number and their cells.
LEMMA PermutedRows ==
    ASSUME NEW rows, NEW from, IsSeq(from), Permutes(rows, from)
    PROVE  /\ IsSeq(rows) /\ Len(rows) = Len(from)
           /\ \A r \in 1 .. Len(from) : \E q \in 1 .. Len(from) : rows[r] = from[q]
<1> DEFINE n == Len(from)
           S == {from[q] : q \in 1 .. n}
<1>1. PICK f \in Bijection(1 .. n, 1 .. n) : rows = [r \in 1 .. n |-> from[f[r]]]
  BY DEF Permutes
<1>2. n \in Nat /\ f \in [1 .. n -> 1 .. n]
  BY DEF IsSeq, Bijection, Injection
<1>3. \A r \in 1 .. n : f[r] \in 1 .. n /\ rows[r] = from[f[r]]
  BY <1>1, <1>2
<1>4. rows \in [1 .. n -> S]
  BY <1>1, <1>3
<1> HIDE DEF S
<1>5. rows \in Seq(S) /\ Len(rows) = n
  BY <1>2, <1>4
<1> QED
  BY <1>3, <1>5, SeqIsSeq

\* A sequence is its own permutation.
LEMMA PermutesItself ==
    ASSUME NEW from, IsSeq(from)
    PROVE  Permutes(from, from)
<1> DEFINE n == Len(from)
           id == [r \in 1 .. n |-> r]
<1>1. id \in Bijection(1 .. n, 1 .. n)
  BY DEF Bijection, Injection, Surjection, IsInjective
<1>2. from = [r \in 1 .. n |-> from[id[r]]]
  BY DEF IsSeq
<1> QED
  BY <1>1, <1>2 DEF Permutes

\* The rows a tournament printed, cell by cell: strategies and counts of games.
LEMMA TableCells ==
    ASSUME RunInv, pc = "printed"
    PROVE  /\ IsSeq(Table) /\ Len(Table) = NTasks /\ NTasks \in Nat
           /\ \A k \in 1 .. NTasks :
                 /\ Table[k].S1 = PairOf(k)[1] /\ Table[k].S2 = PairOf(k)[2]
                 /\ Table[k].S1 \in 0 .. NStrategies - 1 /\ Table[k].S2 \in 0 .. NStrategies - 1
                 /\ Table[k].P1 \in 0 .. Uint32 - 1 /\ Table[k].P1 = Wins(played[k], 1) % Uint32
                 /\ Table[k].P2 \in 0 .. Uint32 - 1 /\ Table[k].P2 = Wins(played[k], 2) % Uint32
<1>1. Len(results) = NTasks /\ Len(futures) = NTasks
  BY DEF RunInv, PhaseInv
<1>2. NTasks \in Nat
  BY <1>1 DEF RunInv, RunTypeOK, IsSeq
<1>3. Table = [k \in 1 .. NTasks |-> CsvRow(results[k])]
  BY <1>1 DEF Table
<1>4. IsSeq(Table) /\ Len(Table) = NTasks
  <2> DEFINE S == {CsvRow(results[k]) : k \in 1 .. NTasks}
  <2>1. Table \in [1 .. NTasks -> S]
    BY <1>3
  <2> HIDE DEF S
  <2>2. Table \in Seq(S) /\ Len(Table) = NTasks
    BY <1>2, <2>1
  <2> QED
    BY <2>2, SeqIsSeq
<1>5. ASSUME NEW k \in 1 .. NTasks
      PROVE  /\ Table[k].S1 = PairOf(k)[1] /\ Table[k].S2 = PairOf(k)[2]
             /\ Table[k].S1 \in 0 .. NStrategies - 1 /\ Table[k].S2 \in 0 .. NStrategies - 1
             /\ Table[k].P1 \in 0 .. Uint32 - 1 /\ Table[k].P1 = Wins(played[k], 1) % Uint32
             /\ Table[k].P2 \in 0 .. Uint32 - 1 /\ Table[k].P2 = Wins(played[k], 2) % Uint32
  <2> DEFINE t == futures[k]
  <2>1. results[k] = RowOf(t) /\ TaskMatches(t, PairOf(k), played[k], n_games)
    BY <1>1 DEF RunInv, RowInv, TaskInv
  <2>2. /\ Table[k].S1 = t.s1 /\ Table[k].S2 = t.s2
        /\ Table[k].P1 = t.p1 /\ Table[k].P2 = t.p2
    BY <1>3, <2>1 DEF CsvRow, RowOf
  <2> HIDE DEF t
  <2>3. /\ t.s1 = PairOf(k)[1] /\ t.s2 = PairOf(k)[2]
        /\ t.p1 \in 0 .. Uint32 - 1 /\ t.p1 = Wins(played[k], 1) % Uint32
        /\ t.p2 \in 0 .. Uint32 - 1 /\ t.p2 = Wins(played[k], 2) % Uint32
    BY <2>1 DEF TaskMatches, CountsMatch
  <2>6. PairOf(k)[1] \in 0 .. NStrategies - 1 /\ PairOf(k)[2] \in 0 .. NStrategies - 1
    <3>1. selected_indices \in Seq(0 .. NStrategies - 1)
      BY DEF RunInv, RunTypeOK
    <3>2. /\ 1 + ((k - 1) \div Len(selected_indices)) \in 1 .. Len(selected_indices)
          /\ 1 + ((k - 1) % Len(selected_indices)) \in 1 .. Len(selected_indices)
      BY PairChosen DEF RunInv
    <3> QED
      BY <3>1, <3>2, ElementOfSeq DEF PairOf
  <2> QED
    BY <2>2, <2>3, <2>6
<1> QED
  BY <1>2, <1>4, <1>5

\* Without a line written the lines are aligned.
LEMMA NothingWritten == out = <<>> => Aligned
BY DEF Aligned, T!Aligned

\* A file is taken over as it is.
LEMMA ReadStep ==
    ASSUME RunInv, FormatInv, NEW file, NEW columns, NEW sorting, IsSeq(file),
           columns \subseteq DOMAIN HeaderWidth,
           \A r \in 1 .. Len(file) : \A c \in columns : file[r][c] \in DOMAIN CellWidth,
           pc \in {"printed", "refused"},
           pc = "printed" => file = Table /\ file # <<>> /\ columns = CsvColumns,
           T!read_csv(file, columns, sorting), UNCHANGED vars
    PROVE  FormatInv'
<1>1. /\ fpc = "idle" /\ df' = file /\ header' = columns /\ sort' = sorting
      /\ fpc' = (IF file = <<>> THEN "exit" ELSE "sort") /\ echoed' = echoed /\ out' = out
      /\ pc' = pc /\ results' = results
  BY DEF T!read_csv, vars
<1>2. Permutes(file, file)
  BY PermutesItself
<1>3. ~echoed
  BY <1>1 DEF FormatInv
<1>4. Aligned'
  BY <1>1 DEF FormatInv, Aligned, T!Aligned
<1>5. Table' = Table
  BY <1>1 DEF Table, CsvRow
<1>6. ASSUME pc = "printed"
      PROVE  TableKept'
  <2>1. /\ file = Table /\ header' = CsvColumns /\ df' = Table' /\ fpc' = "sort" /\ ~echoed'
    BY <1>1, <1>3, <1>5, <1>6
  <2>2. Permutes(df', Table')
    BY <1>1, <1>2, <2>1
  <2> QED
    BY <2>1, <2>2 DEF TableKept, CsvColumns
<1> QED
  BY <1>1, <1>3, <1>4, <1>6 DEF FormatInv

\* The table of the tournament has the columns and the cells it needs.
LEMMA ConvertTableStep ==
    ASSUME RunInv, FormatInv, ConvertTable
    PROVE  FormatInv'
<1>1. PICK sorting \in BOOLEAN :
          T!read_csv([k \in DOMAIN results |-> CsvRow(results[k])], CsvColumns, sorting)
  BY DEF ConvertTable
<1>2. pc = "printed" /\ UNCHANGED vars
  BY DEF ConvertTable
<1>3. DOMAIN results = 1 .. Len(results)
  BY DEF RunInv, RunTypeOK, IsSeq
<1>4. T!read_csv(Table, CsvColumns, sorting)
  BY <1>1, <1>3 DEF Table
<1>5. CsvColumns \subseteq DOMAIN HeaderWidth
  BY ReportAssumption DEF CsvColumns
<1>6. IsSeq(Table) /\ Len(Table) = NTasks /\ Table # <<>>
  <2>1. IsSeq(Table) /\ Len(Table) = NTasks
    BY <1>2, TableCells
  <2>2. NTasks # 0
    BY <1>2 DEF RunInv, PhaseInv
  <2>3. Len(<<>>) = 0
    BY EmptySeq
  <2> QED
    BY <2>1, <2>2, <2>3
<1>7. ASSUME NEW r \in 1 .. Len(Table), NEW c \in CsvColumns
      PROVE  Table[r][c] \in DOMAIN CellWidth
  <2>1. /\ Table[r].S1 \in 0 .. NStrategies - 1 /\ Table[r].S2 \in 0 .. NStrategies - 1
        /\ Table[r].P1 \in 0 .. Uint32 - 1 /\ Table[r].P2 \in 0 .. Uint32 - 1
    BY <1>2, <1>6, TableCells
  <2>2. /\ 0 .. NStrategies - 1 \subseteq DOMAIN CellWidth
        /\ 0 .. Uint32 - 1 \subseteq DOMAIN CellWidth
    BY ReportAssumption
  <2> QED
    BY <2>1, <2>2 DEF CsvColumns
<1> QED
  BY <1>2, <1>4, <1>5, <1>6, <1>7, ReadStep

\* Any other file has them too.
LEMMA ConvertOtherStep ==
    ASSUME RunInv, FormatInv, ConvertOther
    PROVE  FormatInv'
<1>1. PICK f \in OtherFiles, sorting \in BOOLEAN : T!read_csv(f.rows, f.columns, sorting)
  BY DEF ConvertOther
<1>2. pc = "refused" /\ UNCHANGED vars
  BY DEF ConvertOther
<1>3. f.columns \subseteq DOMAIN HeaderWidth /\ f.rows \in Seq([f.columns -> DOMAIN CellWidth])
  BY ReportAssumption
<1>4. IsSeq(f.rows)
  BY <1>3, SeqIsSeq
<1>5. \A r \in 1 .. Len(f.rows) : \A c \in f.columns : f.rows[r][c] \in DOMAIN CellWidth
  BY <1>3, ElementOfSeq
<1> QED
  BY <1>1, <1>2, <1>3, <1>4, <1>5, ReadStep

\* Sorting moves the rows.
LEMMA SortStep ==
    ASSUME RunInv, FormatInv, T!sort_values, UNCHANGED vars
    PROVE  FormatInv'
<1> DEFINE n == Len(df)
<1>1. /\ fpc = "sort" /\ fpc' = "write" /\ header' = header
      /\ sort' = sort /\ echoed' = echoed /\ out' = out /\ pc' = pc /\ results' = results
  BY DEF T!sort_values, vars
<1>2. IsSeq(df) /\ ~echoed /\ (pc = "printed" => TableKept /\ df = Table)
  BY <1>1 DEF FormatInv, TableKept
<1>3. DOMAIN df = 1 .. n /\ n \in Nat
  BY <1>2 DEF IsSeq
<1>4. PICK f \in [1 .. n -> 1 .. n] :
          /\ \A a, b \in 1 .. n : f[a] = f[b] => a = b
          /\ df' = [r \in 1 .. n |-> df[f[r]]]
  BY <1>2, <1>3, SMTT(30) DEF T!sort_values
<1>5. f \in Bijection(1 .. n, 1 .. n)
  <2>1. IsFiniteSet(1 .. n)
    BY <1>3, FS_Interval
  <2> QED
    BY <1>4, <2>1, InjectionIsBijection
<1>6. Permutes(df', df)
  BY <1>4, <1>5 DEF Permutes
<1>7. /\ IsSeq(df') /\ Len(df') = n
      /\ \A r \in 1 .. n : \E q \in 1 .. n : df'[r] = df[q]
  BY <1>2, <1>6, PermutedRows
<1>8. Aligned' /\ Table' = Table
  BY <1>1 DEF FormatInv, Aligned, T!Aligned, Table, CsvRow
<1>9. \A r \in 1 .. Len(df') : \A c \in header' : df'[r][c] \in DOMAIN CellWidth
  BY <1>1, <1>7 DEF FormatInv
<1>10. ASSUME pc = "printed"
       PROVE  TableKept'
  <2>1. Permutes(df', Table')
    BY <1>2, <1>6, <1>8, <1>10
  <2> QED
    BY <1>1, <1>2, <1>10, <2>1 DEF TableKept, CsvColumns
<1> QED
  BY <1>1, <1>2, <1>7, <1>8, <1>9, <1>10 DEF FormatInv

\* A tournament's rows are numbers, so they can always be sorted.
LEMMA TableIsInt ==
    ASSUME RunInv, FormatInv, fpc = "sort", pc = "printed"
    PROVE  T!IsInt("S2") /\ T!IsInt("P2")
<1>1. df = Table
  BY DEF FormatInv, TableKept
<1>2. /\ IsSeq(Table) /\ Len(Table) = NTasks
      /\ \A k \in 1 .. NTasks : /\ Table[k].S2 \in 0 .. NStrategies - 1
                                /\ Table[k].P2 \in 0 .. Uint32 - 1
  BY TableCells
<1>3. DOMAIN Table = 1 .. NTasks
  BY <1>2 DEF IsSeq
<1>4. 0 .. NStrategies - 1 \subseteq Numbers /\ 0 .. Uint32 - 1 \subseteq Numbers
  BY ReportAssumption
<1> QED
  BY <1>1, <1>2, <1>3, <1>4 DEF T!IsInt

\* The rows stay as they are, and a tournament's are not refused.
LEMMA NotSortedStep ==
    ASSUME RunInv, FormatInv, T!CouldNotSort \/ T!MissingColumn \/ T!NoSort, UNCHANGED vars
    PROVE  FormatInv'
<1>1. /\ fpc = "sort" /\ fpc' \in {"write", "traceback"} /\ df' = df
      /\ header' = header /\ sort' = sort /\ out' = out /\ pc' = pc /\ results' = results
  BY DEF T!CouldNotSort, T!MissingColumn, T!NoSort, vars
<1>2. Aligned' /\ Table' = Table
  BY <1>1 DEF FormatInv, Aligned, T!Aligned, Table, CsvRow
<1>3. ASSUME pc = "printed"
      PROVE  TableKept'
  <2>1. TableKept /\ T!IsInt("S2") /\ T!IsInt("P2")
    BY <1>1, <1>3, TableIsInt DEF FormatInv
  <2>2. "S2" \in header /\ "P2" \in header
    BY <2>1 DEF TableKept, CsvColumns
  <2>3. ~T!CouldNotSort /\ ~T!MissingColumn
    BY <2>1, <2>2 DEF T!CouldNotSort, T!MissingColumn, T!Fails, T!Missing
  <2>4. fpc' = "write" /\ echoed' = echoed
    BY <2>3 DEF T!NoSort
  <2>5. Permutes(df', Table')
    BY <1>1, <1>2, <2>1 DEF TableKept
  <2> QED
    BY <1>1, <2>1, <2>4, <2>5 DEF TableKept, CsvColumns
<1> QED
  BY <1>1, <1>2, <1>3 DEF FormatInv

\* A column is as wide as its header and as each of its cells.
LEMMA ColumnWidth ==
    ASSUME FormatInv, NEW c \in header
    PROVE  /\ T!col_widths(c) \in Nat
           /\ HeaderWidth[c] \in Nat /\ HeaderWidth[c] <= T!col_widths(c)
           /\ \A r \in DOMAIN df : /\ CellWidth[df[r][c]] \in Nat
                                   /\ CellWidth[df[r][c]] <= T!col_widths(c)
<1> DEFINE D == DOMAIN df
           w == [r \in D |-> CellWidth[df[r][c]]]
           Cells == {CellWidth[df[r][c]] : r \in D}
           S == {HeaderWidth[c]} \cup Cells
<1>1. HeaderWidth[c] \in Nat
  BY ReportAssumption DEF FormatInv
<1>2. D = 1 .. Len(df) /\ Len(df) \in Nat
  BY DEF FormatInv, IsSeq
<1>4. ASSUME NEW r \in D
      PROVE  CellWidth[df[r][c]] \in Nat
  <2>1. df[r][c] \in DOMAIN CellWidth
    BY <1>2 DEF FormatInv
  <2> QED
    BY <2>1, ReportAssumption
<1>5. w \in Surjection(D, Cells)
  BY DEF Surjection
<1>6. IsFiniteSet(D)
  BY <1>2, FS_Interval
<1>7. IsFiniteSet(Cells)
  BY <1>5, <1>6, FS_Surjection
<1>8. IsFiniteSet(S)
  <2>1. IsFiniteSet({HeaderWidth[c]})
    BY FS_Singleton
  <2> QED
    BY <1>7, <2>1, FS_Union
<1>9. S \in SUBSET Nat /\ S # {}
  BY <1>1, <1>4
<1>10. T!col_widths(c) = T!Max(S)
  BY DEF T!col_widths
<1>11. HeaderWidth[c] \in S /\ \A r \in D : CellWidth[df[r][c]] \in S
  OBVIOUS
<1> HIDE DEF S
<1>12. T!Max(S) \in S /\ \A y \in S : T!Max(S) >= y
  BY <1>8, <1>9, MaxIsMax
<1>13. \A y \in S : y \in Nat /\ y <= T!Max(S)
  BY <1>9, <1>12
<1> QED
  BY <1>1, <1>4, <1>9, <1>10, <1>11, <1>12, <1>13

\* A cell that fits is padded to the width of its column.
LEMMA Padded ==
    ASSUME NEW p \in Nat, NEW w \in Nat, p <= w
    PROVE  T!ljust(p, w) = w
<1>1. IsFiniteSet({p, w})
  <2>1. IsFiniteSet({p}) /\ IsFiniteSet({w}) /\ {p, w} = {p} \cup {w}
    BY FS_Singleton
  <2> QED
    BY <2>1, FS_Union
<1>2. {p, w} \in SUBSET Nat /\ {p, w} # {}
  OBVIOUS
<1>3. T!Max({p, w}) \in {p, w} /\ \A y \in {p, w} : T!Max({p, w}) >= y
  BY <1>1, <1>2, MaxIsMax
<1>4. T!Max({p, w}) = w
  BY <1>3
<1> QED
  BY <1>4 DEF T!ljust

\* Header, separator and every row come out with the widths of the columns.
LEMMA WriteStep ==
    ASSUME RunInv, FormatInv, T!write, UNCHANGED vars
    PROVE  FormatInv'
<1> DEFINE W == [c \in header |-> T!col_widths(c)]
           Rows == [r \in DOMAIN df |-> T!fmt_row([c \in header |-> CellWidth[df[r][c]]])]
<1>1. /\ fpc = "write" /\ fpc' = "written" /\ df' = df /\ header' = header
      /\ sort' = sort /\ echoed' = echoed /\ pc' = pc /\ results' = results
      /\ out' = <<T!fmt_row(HeaderWidth), W>> \o Rows
  BY DEF T!write, vars
<1>2. T!fmt_row(HeaderWidth) = W
  BY ColumnWidth, Padded DEF T!fmt_row
<1>3. ASSUME NEW r \in DOMAIN df
      PROVE  T!fmt_row([c \in header |-> CellWidth[df[r][c]]]) = W
  <2> DEFINE cells == [c \in header |-> CellWidth[df[r][c]]]
  <2>1. \A c \in header : T!ljust(cells[c], T!col_widths(c)) = T!col_widths(c)
    BY ColumnWidth, Padded
  <2> QED
    BY <2>1 DEF T!fmt_row
<1>4. DOMAIN df = 1 .. Len(df) /\ Len(df) \in Nat
  <2>1. IsSeq(df)
    BY DEF FormatInv
  <2> QED
    BY <2>1 DEF IsSeq
<1>5. Rows \in [1 .. Len(df) -> {W}]
  BY <1>3, <1>4
<1> HIDE DEF W, Rows
<1>6. Rows \in Seq({W}) /\ <<W, W>> \in Seq({W})
  BY <1>4, <1>5
<1>7. out' \in Seq({W})
  BY <1>1, <1>2, <1>6, ConcatProperties
<1>8. \A a \in DOMAIN out' : out'[a] = W
  BY <1>7, ElementOfSeq
<1>9. Aligned'
  BY <1>8 DEF Aligned, T!Aligned
<1>10. Table' = Table
  BY <1>1 DEF Table, CsvRow
<1>11. ASSUME pc = "printed"
       PROVE  TableKept'
  <2>1. TableKept
    BY <1>1, <1>11 DEF FormatInv
  <2>2. Permutes(df', Table')
    BY <1>1, <1>10, <2>1 DEF TableKept
  <2> QED
    BY <1>1, <2>1, <2>2 DEF TableKept, CsvColumns
<1> QED
  BY <1>1, <1>9, <1>11 DEF FormatInv

\* The formatter starts with nothing read.
LEMMA FormatInit == T!Init => FormatInv
<1> SUFFICES ASSUME T!Init
             PROVE  FormatInv
  OBVIOUS
<1>1. <<>> \in Seq({}) /\ Len(<<>>) = 0
  BY EmptySeq
<1>2. IsSeq(<<>>)
  BY <1>1, SeqIsSeq
<1> QED
  BY <1>1, <1>2, NothingWritten DEF T!Init, FormatInv

\* The invariant holds whatever the tournament and the formatter do.
LEMMA ReportInvariant == ReportSpec => []ReportInv
<1>1. ReportInit => ReportInv
  BY RunInit, FormatInit DEF ReportInit, ReportInv
<1>2. ReportInv /\ [ReportNext]_allVars => ReportInv'
  <2> SUFFICES ASSUME ReportInv, [ReportNext]_allVars
               PROVE  ReportInv'
    OBVIOUS
  <2>1. RunInv /\ FormatInv
    BY DEF ReportInv
  <2>2. [Next]_vars
    BY DEF ReportNext, Tournament, ConvertTable, ConvertOther, Format, allVars
  <2>3. RunInv'
    BY <2>1, <2>2, RunStep
  <2> SUFFICES FormatInv'
    BY <2>3 DEF ReportInv
  <2>4. CASE ConvertTable
    BY <2>1, <2>4, ConvertTableStep
  <2>5. CASE ConvertOther
    BY <2>1, <2>5, ConvertOtherStep
  <2>6. CASE Format
    <3>1. T!Convert /\ UNCHANGED vars
      BY <2>6 DEF Format
    <3> QED
      BY <2>1, <3>1, SortStep, NotSortedStep, WriteStep DEF T!Convert
  <2>7. CASE Tournament \/ UNCHANGED allVars
    <3>1. UNCHANGED reportVars
      BY <2>7 DEF Tournament, allVars
    <3>2. /\ fpc' = fpc /\ df' = df /\ header' = header /\ sort' = sort
          /\ echoed' = echoed /\ out' = out
      BY <3>1 DEF reportVars
    <3>3. fpc # "idle" => pc' = pc /\ results' = results
      <4>1. fpc # "idle" => pc \in {"printed", "refused"}
        BY <2>1 DEF FormatInv
      <4>2. pc \in {"printed", "refused"} => ~Next
        BY DEF Next, Main, Refuse, ReadArguments, Launch, LaunchFails, LaunchDone, Collect,
               PrintTable, PlayGame
      <4> QED
        BY <2>2, <4>1, <4>2 DEF vars
    <3>4. Aligned'
      BY <2>1, <3>2 DEF FormatInv, Aligned, T!Aligned
    <3>5. fpc # "idle" => Table' = Table
      BY <3>3 DEF Table, CsvRow
    <3>6. ASSUME fpc # "idle", pc = "printed"
          PROVE  TableKept'
      <4>1. TableKept
        BY <2>1, <3>6 DEF FormatInv
      <4>2. Permutes(df', Table')
        BY <3>2, <3>5, <3>6, <4>1 DEF TableKept
      <4> QED
        BY <3>2, <3>5, <3>6, <4>1, <4>2 DEF TableKept, CsvColumns
    <3> QED
      BY <2>1, <3>2, <3>3, <3>4, <3>6 DEF FormatInv
  <2> QED
    BY <2>4, <2>5, <2>6, <2>7 DEF ReportNext
<1> QED
  BY <1>1, <1>2, PTL DEF ReportSpec

-----------------------------------------------------------------------------
(* The results.                                                            *)

\* Quotient and remainder of a place in the table are its row and column.
LEMMA PlaceOfPair ==
    ASSUME NEW n \in Nat, NEW i \in 1 .. n, NEW j \in 1 .. n, NEW k, k = (i - 1) * n + j
    PROVE  k \in 1 .. n * n /\ (k - 1) \div n = i - 1 /\ (k - 1) % n = j - 1
<1>1. PICK q \in Nat : q = i - 1
  OBVIOUS
<1>2. PICK r \in 0 .. n - 1 : r = j - 1
  OBVIOUS
<1>3. n \in Nat \ {0}
  OBVIOUS
<1>4. (q * n + r) \div n = q /\ (q * n + r) % n = r
  BY <1>3
<1>5. k - 1 = q * n + r
  <2>1. q * n \in Nat
    BY <1>3
  <2> QED
    BY <1>1, <1>2, <2>1
<1>6. k \in 1 .. n * n
  <2>1. q * n \in Nat /\ q <= n - 1
    BY <1>1, <1>3
  <2>2. q * n <= (n - 1) * n
    BY <1>3, <2>1
  <2>3. (n - 1) * n + n = n * n
    BY <1>3
  <2> QED
    BY <1>1, <1>3, <2>1, <2>2, <2>3
<1> QED
  BY <1>1, <1>2, <1>4, <1>5, <1>6

\* For any number of strategies chosen, any results of the games and any order
\* the tasks finish in: the rows collected are those of the pairs in the order of
\* the nested loops, and a printed table has one for each (the loops of main,
\* fut.get).
THEOREM RunnerRowsInOrder == ReportSpec => []RowsInOrder
<1>1. ReportInv => RowsInOrder
  <2> SUFFICES ASSUME RunInv
               PROVE  RowsInOrder
    BY DEF ReportInv
  <2> DEFINE n == Len(selected_indices)
  <2>1. n \in Nat /\ NTasks = n * n
    BY DEF RunInv, RunTypeOK, NTasks
  <2>2. Len(results) \in Nat /\ Len(futures) \in Nat /\ Len(results) <= Len(futures)
    BY DEF RunInv, RunTypeOK, PhaseInv, IsSeq
  <2>3. pc = "printed" => Len(results) = n * n
    BY <2>1 DEF RunInv, PhaseInv
  <2>4. ASSUME NEW i \in 1 .. n, NEW j \in 1 .. n, NEW k, k = (i - 1) * n + j, k <= Len(results)
        PROVE  results[k].s1 = selected_indices[i] /\ results[k].s2 = selected_indices[j]
    <3>1. k \in 1 .. n * n /\ (k - 1) \div n = i - 1 /\ (k - 1) % n = j - 1
      <4> HIDE DEF n
      <4> QED
        BY <2>1, <2>4, PlaceOfPair
    <3>2. k \in 1 .. Len(results) /\ k \in 1 .. Len(futures)
      <4>1. n * n \in Nat
        BY <2>1
      <4> QED
        BY <2>2, <2>4, <3>1, <4>1
    <3>3. 1 + ((k - 1) \div n) = i /\ 1 + ((k - 1) % n) = j
      BY <2>1, <3>1
    <3>4. results[k] = RowOf(futures[k]) /\ TaskMatches(futures[k], PairOf(k), played[k], n_games)
      BY <3>2 DEF RunInv, RowInv, TaskInv
    <3>5. results[k].s1 = PairOf(k)[1] /\ results[k].s2 = PairOf(k)[2]
      BY <3>4 DEF RowOf, TaskMatches
    <3>6. PairOf(k) = <<selected_indices[i], selected_indices[j]>>
      BY <3>3 DEF PairOf
    <3> QED
      BY <3>5, <3>6
  <2> QED
    BY <2>3, <2>4 DEF RowsInOrder
<1> QED
  BY <1>1, ReportInvariant, PTL

\* Whatever the games report and whichever task plays next, each row collected
\* is the account of its own task: every game counted once, as a win or as a tie
\* in counters of 32 bits, the hands added up, and the averages over all wars
\* lost (simulate_strategy).
THEOREM RunnerRowsMatchGames == ReportSpec => []RowsMatchGames
<1>1. ReportInv => RowsMatchGames
  <2> SUFFICES ASSUME RunInv, NEW k \in DOMAIN results
               PROVE  /\ Len(played[k]) = results[k].ngames
                      /\ CountsMatch(results[k], played[k])
                      /\ results[k].nhands = Hands(played[k])
                      /\ results[k].average_p1_war_lost = Average(Lost1(played[k]))
                      /\ results[k].average_p2_war_lost = Average(Lost2(played[k]))
    BY DEF ReportInv, RowsMatchGames
  <2>1. IsSeq(results) /\ Len(results) <= Len(futures) /\ Len(futures) \in Nat
    BY DEF RunInv, RunTypeOK, PhaseInv, IsSeq
  <2>2. k \in 1 .. Len(results) /\ k \in 1 .. Len(futures)
    BY <2>1 DEF IsSeq
  <2>3. /\ results[k] = RowOf(futures[k]) /\ Finished(futures[k])
        /\ TaskMatches(futures[k], PairOf(k), played[k], n_games)
    BY <2>2 DEF RunInv, RowInv, TaskInv
  <2>4. Len(played[k]) = results[k].ngames /\ CountsMatch(results[k], played[k])
    BY <2>3 DEF RowOf, Finished, TaskMatches, CountsMatch
  <2>5. /\ results[k].nhands = Hands(played[k])
        /\ results[k].average_p1_war_lost = Average(Lost1(played[k]))
        /\ results[k].average_p2_war_lost = Average(Lost2(played[k]))
    BY <2>3 DEF RowOf, TaskMatches, SumsMatch
  <2> QED
    BY <2>4, <2>5
<1> QED
  BY <1>1, ReportInvariant, PTL

\* Header, separator and rows line up for any widths (make_md.py:49-62).
THEOREM FormatterAligned == ReportSpec => []Aligned
<1>1. ReportInv => Aligned
  BY DEF ReportInv, FormatInv
<1> QED
  BY <1>1, ReportInvariant, PTL

\* For any choice of strategies, any results and any order of the tasks: the
\* published table has one row for each place of the nested loops, with that pair
\* of strategies and the wins of the games played for it, and the formatter never
\* refuses a tournament's output (main.cpp:57-73, make_md.py:29-62).
THEOREM TableIsTournament == ReportSpec => []ReportIsTournament
<1>1. ReportInv => ReportIsTournament
  <2> SUFFICES ASSUME RunInv, FormatInv, pc = "printed"
               PROVE  ReportIsTournament
    BY DEF ReportInv, ReportIsTournament
  <2> DEFINE n == Len(selected_indices)
             Places == 1 .. n * n
             AtPlace(row, k) ==
                 /\ row.S1 = selected_indices[1 + ((k - 1) \div n)]
                 /\ row.S2 = selected_indices[1 + ((k - 1) % n)]
                 /\ row.P1 = Wins(played[k], 1) % Uint32
                 /\ row.P2 = Wins(played[k], 2) % Uint32
  <2>1. fpc \notin {"exit", "traceback"} /\ ~echoed
    BY DEF FormatInv, TableKept
  <2>2. ASSUME fpc = "written"
        PROVE  \E place \in [DOMAIN df -> Places] :
                 /\ \A k \in Places : \E r \in DOMAIN df : place[r] = k
                 /\ \A r, s \in DOMAIN df : place[r] = place[s] => r = s
                 /\ \A r \in DOMAIN df : AtPlace(df[r], place[r])
    <3>1. NTasks = n * n /\ Len(Table) = NTasks
      BY TableCells DEF NTasks
    <3>2. \A k \in Places : AtPlace(Table[k], k)
      <4> SUFFICES ASSUME NEW k \in Places
                   PROVE  AtPlace(Table[k], k)
        OBVIOUS
      <4>1. /\ Table[k].S1 = PairOf(k)[1] /\ Table[k].S2 = PairOf(k)[2]
            /\ Table[k].P1 = Wins(played[k], 1) % Uint32
            /\ Table[k].P2 = Wins(played[k], 2) % Uint32
        BY <3>1, TableCells
      <4> QED
        BY <4>1 DEF PairOf
    <3>3. Permutes(df, Table)
      BY <2>2 DEF FormatInv, TableKept
    <3>4. PICK f \in Bijection(Places, Places) : df = [r \in Places |-> Table[f[r]]]
      BY <3>1, <3>3 DEF Permutes
    <3> HIDE DEF Places, AtPlace
    <3>5. /\ DOMAIN df = Places /\ f \in [Places -> Places]
          /\ \A r \in Places : f[r] \in Places /\ df[r] = Table[f[r]]
      BY <3>4 DEF Bijection, Injection
    <3>6. /\ \A k \in Places : \E r \in Places : f[r] = k
          /\ \A r, s \in Places : f[r] = f[s] => r = s
      BY DEF Bijection, Injection, Surjection, IsInjective
    <3>7. \A r \in Places : AtPlace(df[r], f[r])
      BY <3>2, <3>5
    <3> QED
      BY <3>5, <3>6, <3>7
  <2> QED
    BY <2>1, <2>2, Zenon DEF ReportIsTournament
<1> QED
  BY <1>1, ReportInvariant, PTL
=============================================================================
