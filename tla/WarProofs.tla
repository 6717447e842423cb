------------------------------ MODULE WarProofs ------------------------------
(***************************************************************************)
(* Proofs about one game of War: cards are conserved, no assertion fails,  *)
(* the round's accounts balance and the winner reported owns the deck, for *)
(* every deck, war size and choice of strategies.                          *)
(*                                                                         *)
(* The argument is one of bookkeeping.  The properties speak of whole      *)
(* rounds; the invariant follows the cards and the accounts through the    *)
(* suspended calls of play_hand.  Cards are counted by the places they lie *)
(* at, so a sum over the stack is the size of one set (Stacked) and grows  *)
(* or shrinks by one level at a time.                                      *)
(***************************************************************************)
EXTENDS WarGame, FiniteSetTheorems, FunctionTheorems, SequenceTheorems, TLAPS

Pair == {c \in Seq(Card) : Len(c) = 2}
Frame == [cards : Pair, dump : [Players -> Seq(Card)]]
Outcome == [winner : {None} \cup Players, nhands : Nat, lost : [Players -> Nat]]

WarTypeOK ==
    /\ hand \in [Players -> Seq(Card)]
    /\ pile \in [Players -> Seq(Card)]
    /\ strategy \in [Players -> Strategies]
    /\ stack \in Seq(Frame)
    /\ pc \in {"play", "collect"} => cards \in Pair
    /\ winner \in {None} \cup Players
    /\ result \in Outcome
    /\ mark \in [owned : [Players -> Nat], result : Outcome]

\* Copies of card v, and cards of player p in the dumps, in the frames of st.
FramesOf(st, v) == Cardinality(Stacked([n \in 1 .. Len(st) |-> Places(Held(st[n]), v)]))
DumpsOf(st, p) == Cardinality(Stacked([n \in 1 .. Len(st) |-> 1 .. Len(st[n].dump[p])]))

\* Cards of player p that lie in the dumps of suspended wars.
Dumped(p) == DumpsOf(stack, p)

\* Hands played, and cards of p recorded as lost, since the round began.
Hands == result.nhands - mark.result.nhands
Lost(p) == result.lost[p] - mark.result.lost[p]

\* Between rounds the players own the whole deck, and no call is suspended.
RoundInv ==
    /\ mark.owned[1] + mark.owned[2] = kDeckSize
    /\ pc = "round" => stack = <<>> /\ ncards(1) + ncards(2) = kDeckSize
    /\ RoundLedger

\* On the way into the wars: each player has given a card to every call and
\* the cards of its dumps, and nothing is recorded as lost.
PlayInv ==
    pc = "play" =>
        /\ Hands = Len(stack)
        /\ \A p \in Players :
               /\ Lost(p) = 0
               /\ ncards(p) + 1 + Len(stack) + Dumped(p) = mark.owned[p]

\* On the way out: the loser's account is settled as if all calls had
\* returned, and what is not with the players is still in the frames.
UnwindInv ==
    pc \in {"collect", "unwind"} =>
        /\ winner \in Players
        /\ Lost(winner) = 0
        /\ ncards(Other(winner)) + Hands + Lost(Other(winner)) + Dumped(Other(winner))
             = mark.owned[Other(winner)]
        /\ ncards(1) + ncards(2) + Dumped(1) + Dumped(2)
             + 2 * (Len(stack) + (IF pc = "collect" THEN 1 ELSE 0)) = kDeckSize

\* A winner is reported when the game is over, and owns the deck.
WinnerInv ==
    /\ pc # "done" => result.winner = None
    /\ WinnerOwnsDeck

WarInv ==
    /\ WarTypeOK
    /\ NoAssertFails
    /\ CardsConserved
    /\ RoundInv
    /\ PlayInv
    /\ UnwindInv
    /\ WinnerInv

-----------------------------------------------------------------------------
(* Counting cards.                                                         *)

\* Two values make a function on the players.
LEMMA PairIsFunction ==
    ASSUME NEW S, NEW a \in S, NEW b \in S
    PROVE  /\ <<a, b>> \in [Players -> S]
           /\ <<a, b>>[1] = a /\ <<a, b>>[2] = b
BY DEF Players

\* Two sets with nothing in common are as large as both together.
LEMMA DisjointUnion ==
    ASSUME NEW S, NEW T, IsFiniteSet(S), IsFiniteSet(T), S \cap T = {}
    PROVE  /\ IsFiniteSet(S \cup T)
           /\ Cardinality(S \cup T) = Cardinality(S) + Cardinality(T)
<1>1. /\ IsFiniteSet(S \cup T)
      /\ Cardinality(S \cup T) = Cardinality(S) + Cardinality(T) - Cardinality(S \cap T)
  BY FS_Union
<1>2. Cardinality(S \cap T) = 0
  BY FS_EmptySet
<1>3. Cardinality(S) \in Nat /\ Cardinality(T) \in Nat
  BY FS_CardinalityType
<1> QED
  BY <1>1, <1>2, <1>3

\* The copies of a card in a sequence can be counted.
LEMMA CountType ==
    ASSUME NEW s \in Seq(Card), NEW v
    PROVE  IsFiniteSet(Places(s, v)) /\ Count(s, v) \in Nat
<1>1. Len(s) \in Nat
  OBVIOUS
<1>2. IsFiniteSet(1 .. Len(s))
  BY <1>1, FS_Interval
<1>3. Places(s, v) \in SUBSET (1 .. Len(s))
  BY DEF Places
<1>4. IsFiniteSet(Places(s, v))
  BY <1>2, <1>3, FS_Subset
<1> QED
  BY <1>4, FS_CardinalityType DEF Count

\* An empty sequence holds no card.
LEMMA CountEmpty ==
    ASSUME NEW v
    PROVE  Count(<<>>, v) = 0
<1>1. Places(<<>>, v) = {}
  BY DEF Places
<1> QED
  BY <1>1, FS_EmptySet DEF Count

\* Cards of two sequences add up when one is put behind the other.
LEMMA CountConcat ==
    ASSUME NEW s \in Seq(Card), NEW t \in Seq(Card), NEW v
    PROVE  Count(s \o t, v) = Count(s, v) + Count(t, v)
<1> DEFINE Moved == {i \in Len(s) + 1 .. Len(s) + Len(t) : t[i - Len(s)] = v}
           shift == [i \in Places(t, v) |-> Len(s) + i]
<1>1. /\ s \o t \in Seq(Card)
      /\ Len(s) \in Nat /\ Len(t) \in Nat
      /\ Len(s \o t) = Len(s) + Len(t)
      /\ \A i \in 1 .. Len(s) + Len(t) :
             (s \o t)[i] = IF i <= Len(s) THEN s[i] ELSE t[i - Len(s)]
  BY ConcatProperties
<1>2. Places(s \o t, v) = Places(s, v) \cup Moved
  BY <1>1 DEF Places
<1>3. Places(s, v) \cap Moved = {}
  BY <1>1 DEF Places
<1>4. shift \in Bijection(Places(t, v), Moved)
  <2>1. shift \in [Places(t, v) -> Moved]
    BY <1>1 DEF Places
  <2>2. \A i, j \in Places(t, v) : shift[i] = shift[j] => i = j
    BY <1>1 DEF Places
  <2>3. ASSUME NEW j \in Moved PROVE \E i \in Places(t, v) : shift[i] = j
    <3>1. j - Len(s) \in Places(t, v)
      BY <1>1 DEF Places
    <3>2. shift[j - Len(s)] = j
      BY <1>1, <3>1
    <3> QED
      BY <3>1, <3>2
  <2> QED
    BY <2>1, <2>2, <2>3, Fun_IsBij
<1>5. IsFiniteSet(Places(s, v)) /\ IsFiniteSet(Places(t, v))
  BY CountType
<1>6. IsFiniteSet(Moved) /\ Cardinality(Moved) = Cardinality(Places(t, v))
  BY <1>4, <1>5, FS_Bijection, Fun_ExistsBij, Zenon
<1>7. Cardinality(Places(s, v) \cup Moved) = Cardinality(Places(s, v)) + Cardinality(Moved)
  BY <1>3, <1>5, <1>6, DisjointUnion
<1> QED
  BY <1>2, <1>6, <1>7 DEF Count

\* A pair holds the same cards in either order.
LEMMA CountPair ==
    ASSUME NEW c \in Pair, NEW v
    PROVE  /\ c[1] \in Card /\ c[2] \in Card
           /\ Count(c, v) = Count(<<c[1]>>, v) + Count(<<c[2]>>, v)
           /\ Count(<<c[2], c[1]>>, v) = Count(c, v)
<1> DEFINE a == <<c[1]>>
           b == <<c[2]>>
           turned == <<c[2], c[1]>>
<1>1. c \in Seq(Card) /\ Len(c) = 2 /\ c[1] \in Card /\ c[2] \in Card
  BY SMTT(30) DEF Pair
<1>2. a \in Seq(Card) /\ b \in Seq(Card)
  BY <1>1
<1>3. c = a \o b
  <2>1. a \o b \in Seq(Card) /\ Len(a \o b) = 2
    BY <1>2, ConcatProperties
  <2>2. (a \o b)[1] = c[1] /\ (a \o b)[2] = c[2]
    OBVIOUS
  <2> QED
    BY <1>1, <2>1, <2>2, SeqEqual
<1>4. turned = b \o a
  OBVIOUS
<1> HIDE DEF a, b, turned
<1>5. /\ Count(a \o b, v) = Count(a, v) + Count(b, v)
      /\ Count(b \o a, v) = Count(b, v) + Count(a, v)
  BY <1>2, CountConcat
<1>6. Count(a, v) \in Nat /\ Count(b, v) \in Nat
  BY <1>2, CountType
<1>7. Count(c, v) = Count(a \o b, v) /\ Count(turned, v) = Count(b \o a, v)
  BY <1>3, <1>4, Zenon
<1>8. Count(c, v) = Count(a, v) + Count(b, v) /\ Count(turned, v) = Count(c, v)
  BY <1>5, <1>6, <1>7
<1> QED
  BY <1>1, <1>8 DEF a, b, turned

\* A hand is what lies before a card, the card, and what lies behind it.
LEMMA CountCut ==
    ASSUME NEW h \in Seq(Card), NEW n \in 1 .. Len(h), NEW v
    PROVE  /\ SubSeq(h, 1, n - 1) \in Seq(Card)
           /\ Len(SubSeq(h, 1, n - 1)) = n - 1
           /\ h[n] \in Card
           /\ SubSeq(h, n + 1, Len(h)) \in Seq(Card)
           /\ Len(SubSeq(h, n + 1, Len(h))) = Len(h) - n
           /\ Count(h, v) = Count(SubSeq(h, 1, n - 1), v) + Count(<<h[n]>>, v)
                              + Count(SubSeq(h, n + 1, Len(h)), v)
<1>1. Len(h) \in Nat /\ \A i \in 1 .. Len(h) : h[i] \in Card
  OBVIOUS
<1> DEFINE before == SubSeq(h, 1, n - 1)
           behind == SubSeq(h, n + 1, Len(h))
<1>2. before \in Seq(Card) /\ Len(before) = n - 1
  BY <1>1, SubSeqProperties
<1>3. behind \in Seq(Card) /\ Len(behind) = Len(h) - n
  BY <1>1, SubSeqProperties
<1>4. SubSeq(h, 1, n) = before \o <<h[n]>>
  BY <1>1, SubSeqRecursiveSecond
<1>5. SubSeq(h, 1, n) \o behind = h
  <2>1. SubSeq(h, 1, n) \o behind = SubSeq(h, 1, Len(h))
    BY <1>1, ConcatAdjacentSubSeq
  <2> QED
    BY <2>1, SubSeqFull
<1>6. h[n] \in Card /\ <<h[n]>> \in Seq(Card)
  BY <1>1
<1> HIDE DEF before, behind
<1>7. Count(before \o <<h[n]>>, v) = Count(before, v) + Count(<<h[n]>>, v)
  BY <1>2, <1>6, CountConcat
<1>8. before \o <<h[n]>> \in Seq(Card)
  BY <1>2, <1>6, ConcatProperties
<1>9. Count((before \o <<h[n]>>) \o behind, v)
        = Count(before \o <<h[n]>>, v) + Count(behind, v)
  BY <1>3, <1>8, CountConcat
<1>10. Count(h, v) = Count(before, v) + Count(<<h[n]>>, v) + Count(behind, v)
  BY <1>4, <1>5, <1>7, <1>9
<1> QED
  BY <1>2, <1>3, <1>6, <1>10 DEF before, behind

-----------------------------------------------------------------------------
(* The suspended calls.                                                    *)

\* The size of an interval.
LEMMA IntervalSize ==
    ASSUME NEW m \in Nat
    PROVE  IsFiniteSet(1 .. m) /\ Cardinality(1 .. m) = m
BY FS_Interval

\* A set does not change its size when it is put on a level.
LEMMA LevelSize ==
    ASSUME NEW n, NEW S, IsFiniteSet(S)
    PROVE  IsFiniteSet({n} \X S) /\ Cardinality({n} \X S) = Cardinality(S)
<1> DEFINE put == [x \in S |-> <<n, x>>]
<1>1. put \in [S -> {n} \X S]
  OBVIOUS
<1>2. \A x, y \in S : put[x] = put[y] => x = y
  OBVIOUS
<1>3. \A y \in {n} \X S : \E x \in S : put[x] = y
  OBVIOUS
<1>4. put \in Bijection(S, {n} \X S)
  BY <1>1, <1>2, <1>3, Fun_IsBij
<1> QED
  BY <1>4, FS_Bijection, Fun_ExistsBij, Zenon

\* Finitely many finite levels are finite.
LEMMA StackedFinite ==
    ASSUME NEW n \in Nat, NEW A, DOMAIN A = 1 .. n,
           \A i \in 1 .. n : IsFiniteSet(A[i])
    PROVE  IsFiniteSet(Stacked(A)) /\ Cardinality(Stacked(A)) \in Nat
<1> DEFINE Levels == {{i} \X A[i] : i \in 1 .. n}
           level == [i \in 1 .. n |-> {i} \X A[i]]
<1>1. level \in Surjection(1 .. n, Levels)
  <2>1. level \in [1 .. n -> Levels]
    OBVIOUS
  <2>2. \A t \in Levels : \E i \in 1 .. n : level[i] = t
    OBVIOUS
  <2> QED
    BY <2>1, <2>2, Fun_IsSurj
<1>2. IsFiniteSet(1 .. n)
  BY FS_Interval
<1>3. IsFiniteSet(Levels)
  BY <1>1, <1>2, FS_Surjection
<1>4. \A t \in Levels : IsFiniteSet(t)
  <2>1. ASSUME NEW i \in 1 .. n PROVE IsFiniteSet({i} \X A[i])
    BY LevelSize
  <2> QED
    BY <2>1
<1>5. IsFiniteSet(UNION Levels)
  BY <1>3, <1>4, FS_UNION
<1>6. Stacked(A) = UNION Levels
  BY DEF Stacked
<1> QED
  BY <1>5, <1>6, FS_CardinalityType

\* One level more adds its size.
LEMMA StackedPush ==
    ASSUME NEW n \in Nat, NEW A, NEW B, DOMAIN A = 1 .. n, DOMAIN B = 1 .. n + 1,
           \A i \in 1 .. n : A[i] = B[i],
           \A i \in 1 .. n + 1 : IsFiniteSet(B[i])
    PROVE  Cardinality(Stacked(B)) = Cardinality(Stacked(A)) + Cardinality(B[n + 1])
<1> DEFINE top == {n + 1} \X B[n + 1]
<1>1. IsFiniteSet(Stacked(A))
  <2>1. \A i \in 1 .. n : IsFiniteSet(A[i])
    OBVIOUS
  <2> QED
    BY <2>1, StackedFinite
<1>2. IsFiniteSet(top) /\ Cardinality(top) = Cardinality(B[n + 1])
  <2>1. IsFiniteSet(B[n + 1])
    OBVIOUS
  <2> QED
    BY <2>1, LevelSize
<1>3. Stacked(A) \cap top = {}
  BY DEF Stacked
<1>4. Stacked(B) = Stacked(A) \cup top
  <2>1. 1 .. n + 1 = (1 .. n) \cup {n + 1}
    OBVIOUS
  <2>2. Stacked(A) = UNION {{i} \X B[i] : i \in 1 .. n}
    BY DEF Stacked
  <2>3. Stacked(B) = UNION {{i} \X B[i] : i \in (1 .. n) \cup {n + 1}}
    BY <2>1 DEF Stacked
  <2> QED
    BY <2>2, <2>3, ZenonT(60)
<1> HIDE DEF top
<1> QED
  BY <1>1, <1>2, <1>3, <1>4, DisjointUnion

\* The cards a frame holds are those played and both dumps.
LEMMA HeldCount ==
    ASSUME NEW f \in Frame, NEW v
    PROVE  /\ f.cards \in Pair
           /\ \A p \in Players : f.dump[p] \in Seq(Card) /\ Len(f.dump[p]) \in Nat
           /\ Held(f) \in Seq(Card)
           /\ Count(Held(f), v) = Count(f.cards, v) + Count(f.dump[1], v) + Count(f.dump[2], v)
<1>1. f.cards \in Pair /\ f.dump \in [Players -> Seq(Card)]
  BY DEF Frame
<1>2. f.cards \in Seq(Card) /\ f.dump[1] \in Seq(Card) /\ f.dump[2] \in Seq(Card)
  BY <1>1 DEF Pair, Players
<1> DEFINE c == f.cards
           d1 == f.dump[1]
           d2 == f.dump[2]
           played == c \o d1
<1>3. c \in Seq(Card) /\ d1 \in Seq(Card) /\ d2 \in Seq(Card) /\ Held(f) = played \o d2
  BY <1>2 DEF Held
<1> HIDE DEF c, d1, d2
<1>4. played \in Seq(Card) /\ Count(played, v) = Count(c, v) + Count(d1, v)
  BY <1>3, ConcatProperties, CountConcat
<1> HIDE DEF played
<1>5. played \o d2 \in Seq(Card) /\ Count(played \o d2, v) = Count(played, v) + Count(d2, v)
  BY <1>3, <1>4, ConcatProperties, CountConcat
<1>6. \A p \in Players : f.dump[p] \in Seq(Card) /\ Len(f.dump[p]) \in Nat
  BY <1>1
<1> QED
  BY <1>1, <1>3, <1>4, <1>5, <1>6 DEF c, d1, d2

\* The cards in the frames can be counted.
LEMMA FramesType ==
    ASSUME NEW st \in Seq(Frame)
    PROVE  /\ Len(st) \in Nat
           /\ \A v : FramesOf(st, v) \in Nat
           /\ \A p \in Players : DumpsOf(st, p) \in Nat
<1> DEFINE n == Len(st)
<1>1. n \in Nat /\ \A i \in 1 .. n : st[i] \in Frame
  OBVIOUS
<1> HIDE DEF n
<1>2. ASSUME NEW v PROVE FramesOf(st, v) \in Nat
  <2> DEFINE A == [i \in 1 .. n |-> Places(Held(st[i]), v)]
  <2>1. \A i \in 1 .. n : IsFiniteSet(Places(Held(st[i]), v))
    BY <1>1, HeldCount, CountType
  <2>2. DOMAIN A = 1 .. n /\ \A i \in 1 .. n : IsFiniteSet(A[i])
    BY <2>1
  <2>3. FramesOf(st, v) = Cardinality(Stacked(A))
    BY DEF FramesOf, n
  <2> HIDE DEF A
  <2> QED
    BY <1>1, <2>2, <2>3, StackedFinite
<1>3. ASSUME NEW p \in Players PROVE DumpsOf(st, p) \in Nat
  <2> DEFINE A == [i \in 1 .. n |-> 1 .. Len(st[i].dump[p])]
  <2>1. \A i \in 1 .. n : Len(st[i].dump[p]) \in Nat
    BY <1>1, HeldCount
  <2>2. DOMAIN A = 1 .. n /\ \A i \in 1 .. n : IsFiniteSet(A[i])
    <3>1. ASSUME NEW i \in 1 .. n PROVE IsFiniteSet(1 .. Len(st[i].dump[p]))
      BY <2>1, IntervalSize, Zenon
    <3> QED
      BY <3>1
  <2>3. DumpsOf(st, p) = Cardinality(Stacked(A))
    BY DEF DumpsOf, n
  <2> HIDE DEF A
  <2> QED
    BY <1>1, <2>2, <2>3, StackedFinite
<1> QED
  BY <1>1, <1>2, <1>3 DEF n

\* A frame pushed adds its own cards.
LEMMA PushFrame ==
    ASSUME NEW st \in Seq(Frame), NEW f \in Frame
    PROVE  /\ \A v : FramesOf(Append(st, f), v) = FramesOf(st, v) + Count(Held(f), v)
           /\ \A p \in Players :
                  DumpsOf(Append(st, f), p) = DumpsOf(st, p) + Len(f.dump[p])
<1> DEFINE n == Len(st)
           st2 == Append(st, f)
<1>1. /\ n \in Nat /\ st2 \in Seq(Frame) /\ Len(st2) = n + 1 /\ st2[n + 1] = f
      /\ \A i \in 1 .. n : st2[i] = st[i]
      /\ \A i \in 1 .. n + 1 : st2[i] \in Frame
  BY AppendProperties
<1> HIDE DEF n, st2
<1>2. ASSUME NEW v
      PROVE  FramesOf(st2, v) = FramesOf(st, v) + Count(Held(f), v)
  <2> DEFINE A == [i \in 1 .. n |-> Places(Held(st[i]), v)]
             B == [i \in 1 .. n + 1 |-> Places(Held(st2[i]), v)]
  <2>1. \A i \in 1 .. n + 1 : IsFiniteSet(Places(Held(st2[i]), v))
    BY <1>1, HeldCount, CountType
  <2>2. \A i \in 1 .. n + 1 : IsFiniteSet(B[i])
    BY <2>1
  <2>3. \A i \in 1 .. n : A[i] = B[i]
    BY <1>1
  <2>4. DOMAIN A = 1 .. n /\ DOMAIN B = 1 .. n + 1
    OBVIOUS
  <2>5. B[n + 1] = Places(Held(f), v)
    BY <1>1
  <2>6. FramesOf(st, v) = Cardinality(Stacked(A)) /\ FramesOf(st2, v) = Cardinality(Stacked(B))
    BY <1>1 DEF FramesOf, n
  <2> HIDE DEF A, B
  <2>7. Cardinality(Stacked(B)) = Cardinality(Stacked(A)) + Cardinality(B[n + 1])
    BY <1>1, <2>2, <2>3, <2>4, StackedPush
  <2> QED
    BY <2>5, <2>6, <2>7 DEF Count
<1>3. ASSUME NEW p \in Players
      PROVE  DumpsOf(st2, p) = DumpsOf(st, p) + Len(f.dump[p])
  <2> DEFINE A == [i \in 1 .. n |-> 1 .. Len(st[i].dump[p])]
             B == [i \in 1 .. n + 1 |-> 1 .. Len(st2[i].dump[p])]
  <2>1. \A i \in 1 .. n + 1 : Len(st2[i].dump[p]) \in Nat
    BY <1>1, HeldCount
  <2>2. \A i \in 1 .. n + 1 : IsFiniteSet(B[i])
    BY <2>1, FS_Interval
  <2>3. \A i \in 1 .. n : A[i] = B[i]
    BY <1>1
  <2>4. DOMAIN A = 1 .. n /\ DOMAIN B = 1 .. n + 1
    OBVIOUS
  <2>5. Cardinality(B[n + 1]) = Len(f.dump[p])
    <3>1. B[n + 1] = 1 .. Len(f.dump[p]) /\ Len(f.dump[p]) \in Nat
      BY <1>1, <2>1
    <3> QED
      BY <3>1, FS_Interval
  <2>6. DumpsOf(st, p) = Cardinality(Stacked(A)) /\ DumpsOf(st2, p) = Cardinality(Stacked(B))
    BY <1>1 DEF DumpsOf, n
  <2> HIDE DEF A, B
  <2>7. Cardinality(Stacked(B)) = Cardinality(Stacked(A)) + Cardinality(B[n + 1])
    BY <1>1, <2>2, <2>3, <2>4, StackedPush
  <2> QED
    BY <2>5, <2>6, <2>7
<1> QED
  BY <1>2, <1>3 DEF st2

\* A stack that is not empty is its last frame on top of the others.
LEMMA PopFrame ==
    ASSUME NEW st \in Seq(Frame), st # <<>>
    PROVE  /\ SubSeq(st, 1, Len(st) - 1) \in Seq(Frame)
           /\ Len(SubSeq(st, 1, Len(st) - 1)) = Len(st) - 1
           /\ st[Len(st)] \in Frame
           /\ st = Append(SubSeq(st, 1, Len(st) - 1), st[Len(st)])
<1>1. Len(st) \in Nat \ {0} /\ \A i \in 1 .. Len(st) : st[i] \in Frame
  BY EmptySeq
<1> DEFINE below == SubSeq(st, 1, Len(st) - 1)
<1>2. /\ below \in Seq(Frame) /\ Len(below) = Len(st) - 1
      /\ \A i \in 1 .. Len(st) - 1 : below[i] = st[i]
  <2> DEFINE k == Len(st) - 1
  <2>1. k \in Nat /\ \A i \in 1 .. k : st[i] \in Frame
    BY <1>1
  <2> HIDE DEF k
  <2>2. /\ SubSeq(st, 1, k) \in Seq(Frame)
        /\ Len(SubSeq(st, 1, k)) = IF 1 <= k THEN k - 1 + 1 ELSE 0
        /\ \A i \in 1 .. k - 1 + 1 : SubSeq(st, 1, k)[i] = st[1 + i - 1]
    BY <2>1, SubSeqProperties
  <2>3. /\ Len(SubSeq(st, 1, k)) = k
        /\ \A i \in 1 .. k : SubSeq(st, 1, k)[i] = st[i]
    BY <2>1, <2>2
  <2> QED
    BY <2>2, <2>3 DEF k
<1> HIDE DEF below
<1>3. /\ Append(below, st[Len(st)]) \in Seq(Frame)
      /\ Len(Append(below, st[Len(st)])) = Len(st)
      /\ \A i \in 1 .. Len(st) : Append(below, st[Len(st)])[i] = st[i]
  BY <1>1, <1>2, AppendProperties
<1>4. st = Append(below, st[Len(st)])
  BY <1>3, SeqEqual
<1> QED
  BY <1>1, <1>2, <1>4 DEF below

\* An empty stack holds nothing.
LEMMA EmptyStack ==
    /\ \A v : FramesOf(<<>>, v) = 0
    /\ \A p : DumpsOf(<<>>, p) = 0
<1>1. ASSUME NEW A, DOMAIN A = {} PROVE Cardinality(Stacked(A)) = 0
  <2>1. Stacked(A) = {}
    BY <1>1 DEF Stacked
  <2> QED
    BY <2>1, FS_EmptySet
<1>2. ASSUME NEW v PROVE FramesOf(<<>>, v) = 0
  <2> DEFINE A == [n \in 1 .. Len(<<>>) |-> Places(Held(<<>>[n]), v)]
  <2>1. DOMAIN A = {}
    OBVIOUS
  <2> HIDE DEF A
  <2>2. Cardinality(Stacked(A)) = 0
    BY <1>1, <2>1
  <2> QED
    BY <2>2 DEF A, FramesOf
<1>3. ASSUME NEW p PROVE DumpsOf(<<>>, p) = 0
  <2> DEFINE A == [n \in 1 .. Len(<<>>) |-> 1 .. Len(<<>>[n].dump[p])]
  <2>1. DOMAIN A = {}
    OBVIOUS
  <2> HIDE DEF A
  <2>2. Cardinality(Stacked(A)) = 0
    BY <1>1, <2>1
  <2> QED
    BY <2>2 DEF A, DumpsOf
<1> QED
  BY <1>2, <1>3

-----------------------------------------------------------------------------
(* Strategies and draws.                                                   *)

\* r is what a strategy may leave of hand h and pile p when n cards are wanted:
\* the same cards, and either n of them in the hand or all of them.
Arranged(h, p, n, r) ==
    /\ r[1] \in Seq(Card) /\ r[2] \in Seq(Card)
    /\ Len(r[1]) + Len(r[2]) = Len(h) + Len(p)
    /\ \A v \in Card : Count(r[1], v) + Count(r[2], v) = Count(h, v) + Count(p, v)
    /\ Len(r[1]) >= n \/ r[2] = <<>>

\* A shuffle keeps the cards.
LEMMA ShuffleCards ==
    ASSUME NEW s \in Seq(Card), NEW t \in shuffle_hand(s)
    PROVE  /\ t \in Seq(Card) /\ Len(t) = Len(s)
           /\ \A v \in Card : Count(t, v) = Count(s, v)
<1>1. Len(s) \in Nat
  OBVIOUS
<1>2. t \in [1 .. Len(s) -> Card] /\ \A v \in Card : Count(t, v) = Count(s, v)
  BY DEF shuffle_hand
<1>3. t \in Seq(Card) /\ Len(t) = Len(s)
  BY <1>1, <1>2
<1> QED
  BY <1>2, <1>3

\* Hand and pile put together are all the cards.
LEMMA CombineCards ==
    ASSUME NEW h \in Seq(Card), NEW p \in Seq(Card)
    PROVE  /\ combine_pile(h, p)[1] \in Seq(Card) /\ combine_pile(h, p)[2] = <<>>
           /\ Len(combine_pile(h, p)[1]) = Len(h) + Len(p)
           /\ \A v \in Card : Count(combine_pile(h, p)[1], v) = Count(h, v) + Count(p, v)
<1>1. combine_pile(h, p)[1] = h \o p /\ combine_pile(h, p)[2] = <<>>
  BY DEF combine_pile
<1>2. h \o p \in Seq(Card) /\ Len(h \o p) = Len(h) + Len(p)
  BY ConcatProperties
<1>3. \A v \in Card : Count(h \o p, v) = Count(h, v) + Count(p, v)
  BY CountConcat
<1> QED
  BY <1>1, <1>2, <1>3

\* All cards shuffled into the hand are an arrangement.
LEMMA AlwaysShuffleArranges ==
    ASSUME NEW h \in Seq(Card), NEW p \in Seq(Card), NEW n \in Nat,
           NEW r \in always_shuffle_strategy(h, p)
    PROVE  Arranged(h, p, n, r)
<1> DEFINE all == combine_pile(h, p)[1]
<1>1. /\ all \in Seq(Card) /\ Len(all) = Len(h) + Len(p)
      /\ \A v \in Card : Count(all, v) = Count(h, v) + Count(p, v)
  BY CombineCards
<1>2. PICK t \in shuffle_hand(all) : r = <<t, <<>>>>
  BY DEF always_shuffle_strategy
<1> HIDE DEF all
<1>3. /\ t \in Seq(Card) /\ Len(t) = Len(all)
      /\ \A v \in Card : Count(t, v) = Count(all, v)
  BY <1>1, ShuffleCards
<1>4. r[1] = t /\ r[2] = <<>>
  BY <1>2
<1>5. <<>> \in Seq(Card) /\ Len(<<>>) = 0 /\ \A v : Count(<<>>, v) = 0
  BY EmptySeq, CountEmpty
<1>6. \A v \in Card : Count(t, v) \in Nat
  BY <1>3, CountType
<1>7. Len(t) + Len(<<>>) = Len(h) + Len(p)
  BY <1>1, <1>3, <1>5
<1>8. \A v \in Card : Count(t, v) + Count(<<>>, v) = Count(h, v) + Count(p, v)
  BY <1>1, <1>3, <1>5, <1>6
<1> QED
  BY <1>3, <1>4, <1>5, <1>7, <1>8 DEF Arranged

\* Combining only when the hand is short is an arrangement.
LEMMA CombineOnlyArranges ==
    ASSUME NEW h \in Seq(Card), NEW p \in Seq(Card), NEW n \in Nat
    PROVE  Arranged(h, p, n, combine_only_strategy(h, p, n))
<1> DEFINE r == combine_only_strategy(h, p, n)
           all == combine_pile(h, p)
<1>1. CASE Len(h) < n /\ p # <<>>
  <2>1. r = all
    BY <1>1 DEF combine_only_strategy
  <2>2. /\ all[1] \in Seq(Card) /\ all[2] = <<>> /\ Len(all[1]) = Len(h) + Len(p)
        /\ \A v \in Card : Count(all[1], v) = Count(h, v) + Count(p, v)
    BY CombineCards
  <2>3. <<>> \in Seq(Card) /\ Len(<<>>) = 0 /\ \A v : Count(<<>>, v) = 0
    BY EmptySeq, CountEmpty
  <2> HIDE DEF r, all
  <2>4. \A v \in Card : Count(all[1], v) \in Nat
    BY <2>2, CountType
  <2>5. Len(all[1]) + Len(<<>>) = Len(h) + Len(p)
    BY <2>2, <2>3
  <2>6. \A v \in Card : Count(all[1], v) + Count(<<>>, v) = Count(h, v) + Count(p, v)
    BY <2>2, <2>3, <2>4
  <2>7. Arranged(h, p, n, all)
    BY <2>2, <2>3, <2>5, <2>6 DEF Arranged
  <2> QED
    BY <2>1, <2>7 DEF r
<1>2. CASE ~(Len(h) < n /\ p # <<>>)
  <2>1. r[1] = h /\ r[2] = p
    BY <1>2 DEF combine_only_strategy
  <2>2. Len(h) >= n \/ p = <<>>
    BY <1>2
  <2> HIDE DEF r
  <2>3. Arranged(h, p, n, r)
    BY <2>1, <2>2 DEF Arranged
  <2> QED
    BY <2>3 DEF r
<1> QED
  BY <1>1, <1>2

\* Shuffling the hand afterwards keeps the arrangement.
LEMMA CombineAndShuffleArranges ==
    ASSUME NEW h \in Seq(Card), NEW p \in Seq(Card), NEW n \in Nat,
           NEW r \in combine_and_shuffle_strategy(h, p, n)
    PROVE  Arranged(h, p, n, r)
<1> DEFINE c == combine_only_strategy(h, p, n)
<1>1. Arranged(h, p, n, c)
  BY CombineOnlyArranges
<1>2. PICK t \in shuffle_hand(c[1]) : r = <<t, c[2]>>
  BY DEF combine_and_shuffle_strategy
<1> HIDE DEF c
<1>3. c[1] \in Seq(Card)
  BY <1>1 DEF Arranged
<1>4. /\ t \in Seq(Card) /\ Len(t) = Len(c[1])
      /\ \A v \in Card : Count(t, v) = Count(c[1], v)
  BY <1>3, ShuffleCards
<1>5. r[1] = t /\ r[2] = c[2]
  BY <1>2
<1> QED
  BY <1>1, <1>4, <1>5 DEF Arranged

\* Whatever a strategy decides, it arranges the player's own cards.
LEMMA StrategyArranges ==
    ASSUME NEW id \in 0 .. 8, NEW h \in Seq(Card), NEW p \in Seq(Card), NEW n \in Nat,
           NEW r \in apply_strategy(id, h, p, n)
    PROVE  Arranged(h, p, n, r)
<1>1. \/ r \in combine_and_shuffle_strategy(h, p, n)
      \/ r \in always_shuffle_strategy(h, p)
      \/ r \in {combine_only_strategy(h, p, n)}
      \/ r \in combine_strategy(id, h, p, n)
  BY DEF apply_strategy
<1>2. ASSUME r \in combine_strategy(id, h, p, n)
      PROVE  r \in always_shuffle_strategy(h, p) \/ r = combine_only_strategy(h, p, n)
  BY <1>2, Zenon DEF combine_strategy
<1> QED
  BY <1>1, <1>2, CombineAndShuffleArranges, AlwaysShuffleArranges, CombineOnlyArranges

\* A player with cards left has one in the hand after a strategy.
LEMMA ArrangedCanDraw ==
    ASSUME NEW h \in Seq(Card), NEW p \in Seq(Card), NEW n \in Nat \ {0}, NEW r,
           Arranged(h, p, n, r), Len(h) + Len(p) > 0
    PROVE  r[1] # <<>>
<1>1. r[1] \in Seq(Card) /\ Len(r[1]) \in Nat
  BY DEF Arranged
<1>2. CASE Len(r[1]) >= n
  BY <1>1, <1>2
<1>3. CASE r[2] = <<>>
  <2>1. Len(r[2]) = 0
    BY <1>3
  <2>2. Len(r[1]) + Len(r[2]) > 0
    BY DEF Arranged
  <2> QED
    BY <1>1, <2>1, <2>2
<1> QED
  BY <1>2, <1>3 DEF Arranged

\* decide_shuffle leaves both players their own cards, and both can draw when
\* both have a card left.
LEMMA DecideArranges ==
    ASSUME WarTypeOK, NEW n \in Nat \ {0}, NEW after \in decide_shuffle(n)
    PROVE  /\ \A p \in Players : Arranged(hand[p], pile[p], n, after[p])
           /\ (\A p \in Players : ncards(p) > 0) => Ready(after, n)
<1>1. ASSUME NEW p \in Players
      PROVE  hand[p] \in Seq(Card) /\ pile[p] \in Seq(Card) /\ strategy[p] \in 0 .. 8
  BY WarAssumption DEF WarTypeOK
<1>2. ASSUME NEW p \in Players PROVE Arranged(hand[p], pile[p], n, after[p])
  <2>1. CASE \E q \in Players : Len(hand[q]) < n
    <3>1. after \in apply_strategy(strategy[1], hand[1], pile[1], n)
                      \X apply_strategy(strategy[2], hand[2], pile[2], n)
      BY <2>1 DEF decide_shuffle
    <3>2. /\ after[1] \in apply_strategy(strategy[1], hand[1], pile[1], n)
          /\ after[2] \in apply_strategy(strategy[2], hand[2], pile[2], n)
      BY <3>1
    <3>3. after[p] \in apply_strategy(strategy[p], hand[p], pile[p], n)
      BY <3>2 DEF Players
    <3> QED
      BY <1>1, <3>3, StrategyArranges
  <2>2. CASE ~(\E q \in Players : Len(hand[q]) < n)
    <3>1. after = <<<<hand[1], pile[1]>>, <<hand[2], pile[2]>>>>
      BY <2>2, Zenon DEF decide_shuffle
    <3>2. after[p][1] = hand[p] /\ after[p][2] = pile[p]
      BY <3>1 DEF Players
    <3>3. Len(hand[p]) >= n
      BY <1>1, <2>2
    <3> QED
      BY <1>1, <3>2, <3>3 DEF Arranged
  <2> QED
    BY <2>1, <2>2
<1>3. ASSUME NEW p \in Players, ncards(p) > 0
      PROVE  /\ Len(after[p][1]) >= n \/ after[p][2] = <<>>
             /\ after[p][1] # <<>>
  <2>1. Len(hand[p]) + Len(pile[p]) > 0
    BY <1>3 DEF ncards
  <2>2. after[p][1] # <<>>
    BY <1>1, <1>2, <2>1, ArrangedCanDraw
  <2>3. Len(after[p][1]) >= n \/ after[p][2] = <<>>
    BY <1>2 DEF Arranged
  <2> QED
    BY <2>2, <2>3
<1> QED
  BY <1>2, <1>3 DEF Ready

\* WarHand parts a hand that is not empty into dump, flipped card and rest.
LEMMA WarHandParts ==
    ASSUME NEW h \in Seq(Card), h # <<>>
    PROVE  /\ WarHand(h).dump \in Seq(Card) /\ WarHand(h).flip \in Card
           /\ WarHand(h).rest \in Seq(Card)
           /\ Len(WarHand(h).dump) + 1 + Len(WarHand(h).rest) = Len(h)
           /\ \A v : Count(h, v) = Count(WarHand(h).dump, v) + Count(<<WarHand(h).flip>>, v)
                                     + Count(WarHand(h).rest, v)
<1> DEFINE n == IF Len(h) < kWarSize THEN Len(h) ELSE kWarSize
<1>1. n \in 1 .. Len(h)
  <2>1. Len(h) \in Nat \ {0} /\ kWarSize \in Nat \ {0}
    BY EmptySeq, WarAssumption
  <2> QED
    BY <2>1
<1>2. /\ WarHand(h).dump = SubSeq(h, 1, n - 1)
      /\ WarHand(h).flip = h[n]
      /\ WarHand(h).rest = SubSeq(h, n + 1, Len(h))
  BY DEF WarHand
<1> HIDE DEF n
<1>3. Len(h) \in Nat
  OBVIOUS
<1>4. ASSUME NEW v
      PROVE  /\ SubSeq(h, 1, n - 1) \in Seq(Card)
             /\ Len(SubSeq(h, 1, n - 1)) = n - 1
             /\ h[n] \in Card
             /\ SubSeq(h, n + 1, Len(h)) \in Seq(Card)
             /\ Len(SubSeq(h, n + 1, Len(h))) = Len(h) - n
             /\ Count(h, v) = Count(SubSeq(h, 1, n - 1), v) + Count(<<h[n]>>, v)
                                + Count(SubSeq(h, n + 1, Len(h)), v)
  BY <1>1, CountCut
<1>5. (n - 1) + 1 + (Len(h) - n) = Len(h)
  BY <1>1, <1>3
<1> QED
  BY <1>2, <1>4, <1>5

\* The top card drawn and the rest are the hand.
LEMMA DrawParts ==
    ASSUME NEW h \in Seq(Card), h # <<>>
    PROVE  /\ Head(h) \in Card /\ Tail(h) \in Seq(Card)
           /\ 1 + Len(Tail(h)) = Len(h)
           /\ \A v : Count(h, v) = Count(<<Head(h)>>, v) + Count(Tail(h), v)
<1> DEFINE top == <<Head(h)>>
           rest == Tail(h)
<1>1. Head(h) \in Card /\ rest \in Seq(Card) /\ Len(rest) = Len(h) - 1
  BY HeadTailProperties
<1>2. top \in Seq(Card)
  BY <1>1
<1>3. h = top \o rest
  OBVIOUS
<1> HIDE DEF top, rest
<1>4. \A v : Count(top \o rest, v) = Count(top, v) + Count(rest, v)
  BY <1>1, <1>2, CountConcat
<1>5. \A v : Count(h, v) = Count(top, v) + Count(rest, v)
  BY <1>3, <1>4, Zenon
<1>6. 1 + Len(rest) = Len(h)
  BY <1>1
<1> QED
  BY <1>1, <1>5, <1>6 DEF top, rest

\* The top card of r's hand and the cards left are those of h and p.
Drawn(h, p, r) ==
    /\ Head(r[1]) \in Card /\ Tail(r[1]) \in Seq(Card) /\ r[2] \in Seq(Card)
    /\ Len(Tail(r[1])) + Len(r[2]) + 1 = Len(h) + Len(p)
    /\ \A v \in Card : Count(Tail(r[1]), v) + Count(r[2], v) + Count(<<Head(r[1])>>, v)
                         = Count(h, v) + Count(p, v)

\* The same for the dump, the flipped card and the cards left.
DrawnForWar(h, p, r) ==
    LET wh == WarHand(r[1])
    IN  /\ wh.flip \in Card /\ wh.rest \in Seq(Card)
        /\ wh.dump \in Seq(Card) /\ r[2] \in Seq(Card)
        /\ Len(wh.rest) + Len(r[2]) + 1 + Len(wh.dump) = Len(h) + Len(p)
        /\ \A v \in Card : Count(wh.rest, v) + Count(r[2], v) + Count(<<wh.flip>>, v)
                             + Count(wh.dump, v) = Count(h, v) + Count(p, v)

\* Drawing a card for a round takes one card from the player.
LEMMA PlayerDraws ==
    ASSUME NEW h \in Seq(Card), NEW p \in Seq(Card), NEW n \in Nat \ {0}, NEW r,
           Arranged(h, p, n, r), Len(h) + Len(p) > 0
    PROVE  Drawn(h, p, r)
<1> DEFINE a == r[1]
           b == r[2]
<1>1. /\ a \in Seq(Card) /\ b \in Seq(Card) /\ a # <<>>
      /\ Len(a) + Len(b) = Len(h) + Len(p)
      /\ \A v \in Card : Count(a, v) + Count(b, v) = Count(h, v) + Count(p, v)
  BY ArrangedCanDraw DEF Arranged
<1> HIDE DEF a, b
<1>2. /\ Head(a) \in Card /\ Tail(a) \in Seq(Card) /\ 1 + Len(Tail(a)) = Len(a)
      /\ \A v : Count(a, v) = Count(<<Head(a)>>, v) + Count(Tail(a), v)
  BY <1>1, DrawParts
<1>3. Len(Tail(a)) + Len(b) + 1 = Len(h) + Len(p)
  BY <1>1, <1>2
<1>4. ASSUME NEW v \in Card
      PROVE  Count(Tail(a), v) + Count(b, v) + Count(<<Head(a)>>, v) = Count(h, v) + Count(p, v)
  <2>1. <<Head(a)>> \in Seq(Card)
    BY <1>2
  <2>2. Count(Tail(a), v) \in Nat /\ Count(b, v) \in Nat /\ Count(<<Head(a)>>, v) \in Nat
    BY <1>1, <1>2, <2>1, CountType
  <2>3. /\ Count(a, v) + Count(b, v) = Count(h, v) + Count(p, v)
        /\ Count(a, v) = Count(<<Head(a)>>, v) + Count(Tail(a), v)
    BY <1>1, <1>2
  <2> QED
    BY <2>2, <2>3
<1> QED
  BY <1>1, <1>2, <1>3, <1>4 DEF a, b, Drawn

\* Drawing for a war parts the player's cards in dump, flipped card and rest.
LEMMA PlayerDrawsForWar ==
    ASSUME NEW h \in Seq(Card), NEW p \in Seq(Card), NEW n \in Nat \ {0}, NEW r,
           Arranged(h, p, n, r), Len(h) + Len(p) > 0
    PROVE  DrawnForWar(h, p, r)
<1> DEFINE a == r[1]
           b == r[2]
           rest == WarHand(a).rest
           dump == WarHand(a).dump
           flip == <<WarHand(a).flip>>
<1>1. /\ a \in Seq(Card) /\ b \in Seq(Card) /\ a # <<>>
      /\ Len(a) + Len(b) = Len(h) + Len(p)
      /\ \A v \in Card : Count(a, v) + Count(b, v) = Count(h, v) + Count(p, v)
  BY ArrangedCanDraw DEF Arranged
<1> HIDE DEF a, b
<1>2. /\ dump \in Seq(Card) /\ rest \in Seq(Card) /\ WarHand(a).flip \in Card
      /\ Len(dump) + 1 + Len(rest) = Len(a)
      /\ \A v : Count(a, v) = Count(dump, v) + Count(flip, v) + Count(rest, v)
  BY <1>1, WarHandParts
<1>3. flip \in Seq(Card)
  BY <1>2
<1> HIDE DEF rest, dump, flip
<1>4. Len(rest) + Len(b) + 1 + Len(dump) = Len(h) + Len(p)
  <2>1. a \in Seq(Card) /\ b \in Seq(Card) /\ rest \in Seq(Card) /\ dump \in Seq(Card)
    BY <1>1, <1>2
  <2>2. Len(a) + Len(b) = Len(h) + Len(p) /\ Len(dump) + 1 + Len(rest) = Len(a)
    BY <1>1, <1>2
  <2>3. Len(a) \in Nat /\ Len(b) \in Nat /\ Len(rest) \in Nat /\ Len(dump) \in Nat
    BY <2>1
  <2> DEFINE x == Len(rest)
             y == Len(dump)
             z == Len(b)
  <2>4. Len(a) + z = Len(h) + Len(p) /\ y + 1 + x = Len(a)
        /\ x \in Nat /\ y \in Nat /\ z \in Nat
    BY <2>2, <2>3
  <2> HIDE DEF x, y, z
  <2>5. x + z + 1 + y = Len(h) + Len(p)
    BY <2>4
  <2> QED
    BY <2>5 DEF x, y, z
<1>5. ASSUME NEW v \in Card
      PROVE  Count(rest, v) + Count(b, v) + Count(flip, v) + Count(dump, v)
               = Count(h, v) + Count(p, v)
  <2>1. /\ Count(rest, v) \in Nat /\ Count(b, v) \in Nat
        /\ Count(flip, v) \in Nat /\ Count(dump, v) \in Nat
    BY <1>1, <1>2, <1>3, CountType
  <2>2. /\ Count(a, v) + Count(b, v) = Count(h, v) + Count(p, v)
        /\ Count(a, v) = Count(dump, v) + Count(flip, v) + Count(rest, v)
    BY <1>1, <1>2
  <2> QED
    BY <2>1, <2>2
<1> QED
  BY <1>1, <1>2, <1>4, <1>5 DEF a, b, rest, dump, flip, DrawnForWar

-----------------------------------------------------------------------------
(* What the type invariant gives, and what take does.                      *)

\* Everything that is counted is a number.
LEMMA WarFacts ==
    ASSUME WarTypeOK
    PROVE  /\ \A p \in Players :
                  /\ hand[p] \in Seq(Card) /\ Len(hand[p]) \in Nat
                  /\ pile[p] \in Seq(Card) /\ Len(pile[p]) \in Nat
                  /\ \A v : Count(hand[p], v) \in Nat /\ Count(pile[p], v) \in Nat
                  /\ Dumped(p) \in Nat
                  /\ result.lost[p] \in Nat /\ mark.result.lost[p] \in Nat
                  /\ mark.owned[p] \in Nat
           /\ \A v : FramesOf(stack, v) \in Nat
           /\ Len(stack) \in Nat
           /\ result.nhands \in Nat /\ mark.result.nhands \in Nat
<1>1. ASSUME NEW p \in Players
      PROVE  /\ hand[p] \in Seq(Card) /\ pile[p] \in Seq(Card)
             /\ Len(hand[p]) \in Nat /\ Len(pile[p]) \in Nat
  BY DEF WarTypeOK
<1>2. ASSUME NEW p \in Players
      PROVE  \A v : Count(hand[p], v) \in Nat /\ Count(pile[p], v) \in Nat
  BY <1>1, CountType
<1>3. /\ Len(stack) \in Nat /\ \A v : FramesOf(stack, v) \in Nat
      /\ \A p \in Players : Dumped(p) \in Nat
  BY FramesType DEF WarTypeOK, Dumped
<1>4. /\ result.nhands \in Nat /\ mark.result.nhands \in Nat
      /\ \A p \in Players : /\ result.lost[p] \in Nat /\ mark.result.lost[p] \in Nat
                            /\ mark.owned[p] \in Nat
  BY DEF WarTypeOK, Outcome
<1> QED
  BY <1>1, <1>2, <1>3, <1>4

\* The entries of the accounts are numbers.
LEMMA LedgerTypes ==
    WarTypeOK => /\ \A p \in Players : ncards(p) \in Nat /\ Dumped(p) \in Nat /\ Lost(p) \in Int
                 /\ Hands \in Int
                 /\ \A p \in Players : mark.owned[p] \in Nat
                 /\ Len(stack) \in Nat
<1> SUFFICES ASSUME WarTypeOK
             PROVE  /\ \A p \in Players : ncards(p) \in Nat /\ Dumped(p) \in Nat /\ Lost(p) \in Int
                    /\ Hands \in Int
                    /\ \A p \in Players : mark.owned[p] \in Nat
                    /\ Len(stack) \in Nat
  OBVIOUS
<1>1. ASSUME NEW p \in Players PROVE ncards(p) \in Nat
  BY DEF WarTypeOK, ncards
<1>2. ASSUME NEW p \in Players PROVE Lost(p) \in Int
  BY WarFacts DEF Lost
<1>3. Hands \in Int
  BY WarFacts DEF Hands
<1> QED
  BY <1>1, <1>2, <1>3, WarFacts

\* Each player is one of the two, and so is the other one.
LEMMA OtherPlayer ==
    ASSUME NEW p \in Players
    PROVE  /\ Other(p) \in Players /\ Other(p) # p /\ Other(Other(p)) = p
           /\ 1 \in Players /\ 2 \in Players
           /\ \/ p = 1 /\ Other(p) = 2
              \/ p = 2 /\ Other(p) = 1
BY DEF Players, Other

\* Counting a hand changes one entry of the result.
LEMMA HandIsCounted ==
    ASSUME WarTypeOK, CountHand, mark' = mark
    PROVE  /\ result' \in Outcome /\ result'.winner = result.winner
           /\ Hands' = Hands + 1 /\ \A p : Lost(p)' = Lost(p)
<1>1. /\ result' \in Outcome /\ result'.winner = result.winner
      /\ result'.lost = result.lost /\ result'.nhands = result.nhands + 1
  <2>1. result \in Outcome
    BY DEF WarTypeOK
  <2>2. result' = [result EXCEPT !.nhands = @ + 1]
    BY DEF CountHand
  <2> QED
    BY <2>1, <2>2 DEF Outcome
<1>2. result.nhands \in Nat /\ mark.result.nhands \in Nat
  BY WarFacts
<1>3. Hands' = Hands + 1
  BY <1>1, <1>2 DEF Hands
<1>4. \A p : Lost(p)' = Lost(p)
  BY <1>1 DEF Lost
<1> QED
  BY <1>1, <1>3, <1>4

\* The player who takes cards owns them afterwards, in the pile.
LEMMA TakeCards ==
    ASSUME WarTypeOK, NEW w \in Players, NEW s \in Seq(Card), take(w, s)
    PROVE  /\ pile' \in [Players -> Seq(Card)]
           /\ pile'[Other(w)] = pile[Other(w)]
           /\ Len(pile'[1]) + Len(pile'[2]) = Len(pile[1]) + Len(pile[2]) + Len(s)
           /\ \A v : Count(pile'[1], v) + Count(pile'[2], v)
                       = Count(pile[1], v) + Count(pile[2], v) + Count(s, v)
<1> DEFINE both == pile[w] \o s
<1>1. pile \in [Players -> Seq(Card)] /\ pile[1] \in Seq(Card) /\ pile[2] \in Seq(Card)
  BY DEF WarTypeOK, Players
<1>2. pile[w] \in Seq(Card)
  BY <1>1
<1>3. both \in Seq(Card) /\ Len(both) = Len(pile[w]) + Len(s)
  BY <1>2, ConcatProperties
<1>4. \A v : Count(both, v) = Count(pile[w], v) + Count(s, v)
  BY <1>2, CountConcat
<1>5. pile' = [pile EXCEPT ![w] = both]
  BY DEF take
<1> HIDE DEF both
<1>6. /\ pile' \in [Players -> Seq(Card)]
      /\ pile'[w] = both /\ pile'[Other(w)] = pile[Other(w)]
  BY <1>1, <1>3, <1>5 DEF Players, Other
<1>7. Len(pile[1]) \in Nat /\ Len(pile[2]) \in Nat /\ Len(s) \in Nat
  BY <1>1
<1>8. \A v : Count(pile[1], v) \in Nat /\ Count(pile[2], v) \in Nat /\ Count(s, v) \in Nat
  BY <1>1, CountType
<1>9. CASE w = 1
  <2>1. pile'[1] = both /\ pile'[2] = pile[2]
    BY <1>6, <1>9 DEF Other
  <2>2. Len(pile'[1]) + Len(pile'[2]) = Len(pile[1]) + Len(pile[2]) + Len(s)
    <3>1. Len(pile'[1]) = Len(pile[1]) + Len(s)
      BY <1>3, <1>9, <2>1, Zenon
    <3>2. Len(pile'[2]) = Len(pile[2])
      BY <2>1, Zenon
    <3> QED
      BY <1>1, <1>6, <3>1, <3>2 DEF Players
  <2>3. ASSUME NEW v
        PROVE  Count(pile'[1], v) + Count(pile'[2], v)
                 = Count(pile[1], v) + Count(pile[2], v) + Count(s, v)
    <3>1. Count(both, v) = Count(pile[1], v) + Count(s, v)
      BY <1>4, <1>9
    <3>2. Count(pile[1], v) \in Nat /\ Count(pile[2], v) \in Nat /\ Count(s, v) \in Nat
      BY <1>8
    <3> QED
      BY <2>1, <3>1, <3>2
  <2> QED
    BY <1>6, <2>2, <2>3
<1>10. CASE w = 2
  <2>1. pile'[2] = both /\ pile'[1] = pile[1]
    BY <1>6, <1>10 DEF Other
  <2>2. Len(pile'[1]) + Len(pile'[2]) = Len(pile[1]) + Len(pile[2]) + Len(s)
    <3>1. Len(pile'[2]) = Len(pile[2]) + Len(s)
      BY <1>3, <1>10, <2>1, Zenon
    <3>2. Len(pile'[1]) = Len(pile[1])
      BY <2>1, Zenon
    <3> QED
      BY <1>1, <1>6, <3>1, <3>2 DEF Players
  <2>3. ASSUME NEW v
        PROVE  Count(pile'[1], v) + Count(pile'[2], v)
                 = Count(pile[1], v) + Count(pile[2], v) + Count(s, v)
    <3>1. Count(both, v) = Count(pile[2], v) + Count(s, v)
      BY <1>4, <1>10
    <3>2. Count(pile[1], v) \in Nat /\ Count(pile[2], v) \in Nat /\ Count(s, v) \in Nat
      BY <1>8
    <3> QED
      BY <2>1, <3>1, <3>2
  <2> QED
    BY <1>6, <2>2, <2>3
<1> QED
  BY <1>9, <1>10 DEF Players

\* Copies of card v with the players.
OwnedCount(v) ==
    Count(hand[1], v) + Count(pile[1], v) + Count(hand[2], v) + Count(pile[2], v)

\* What the winner takes adds to what the players own, and the loser has the
\* cards it had.
LEMMA TakeAdds ==
    ASSUME WarTypeOK, NEW w \in Players, NEW s \in Seq(Card), take(w, s), hand' = hand
    PROVE  /\ pile' \in [Players -> Seq(Card)]
           /\ ncards(Other(w))' = ncards(Other(w))
           /\ ncards(1)' + ncards(2)' = ncards(1) + ncards(2) + Len(s)
           /\ \A v : /\ OwnedCount(v)' = OwnedCount(v) + Count(s, v)
                     /\ OwnedCount(v) \in Nat /\ Count(s, v) \in Nat
<1>1. /\ hand \in [Players -> Seq(Card)] /\ pile \in [Players -> Seq(Card)]
      /\ pile' \in [Players -> Seq(Card)] /\ pile'[Other(w)] = pile[Other(w)]
      /\ Len(pile'[1]) + Len(pile'[2]) = Len(pile[1]) + Len(pile[2]) + Len(s)
      /\ \A v : Count(pile'[1], v) + Count(pile'[2], v)
                  = Count(pile[1], v) + Count(pile[2], v) + Count(s, v)
  BY TakeCards DEF WarTypeOK
<1>2. ncards(Other(w))' = ncards(Other(w))
  BY <1>1 DEF ncards
<1>3. ncards(1)' + ncards(2)' = ncards(1) + ncards(2) + Len(s)
  <2>1. /\ ncards(1)' = Len(hand[1]) + Len(pile'[1]) /\ ncards(1) = Len(hand[1]) + Len(pile[1])
        /\ ncards(2)' = Len(hand[2]) + Len(pile'[2]) /\ ncards(2) = Len(hand[2]) + Len(pile[2])
    BY DEF ncards
  <2>2. /\ Len(hand[1]) \in Nat /\ Len(pile[1]) \in Nat /\ Len(pile'[1]) \in Nat
        /\ Len(hand[2]) \in Nat /\ Len(pile[2]) \in Nat /\ Len(pile'[2]) \in Nat
    BY <1>1 DEF Players
  <2>3. /\ hand \in [Players -> Seq(Card)] /\ pile \in [Players -> Seq(Card)]
        /\ pile' \in [Players -> Seq(Card)]
        /\ Len(pile'[1]) + Len(pile'[2]) = Len(pile[1]) + Len(pile[2]) + Len(s)
    BY <1>1
  <2> DEFINE n == Len(s)
             h1 == Len(hand[1])
             h2 == Len(hand[2])
             p1 == Len(pile[1])
             p2 == Len(pile[2])
             q1 == Len(pile'[1])
             q2 == Len(pile'[2])
  <2>4. /\ h1 \in Nat /\ h2 \in Nat /\ p1 \in Nat /\ p2 \in Nat /\ q1 \in Nat /\ q2 \in Nat
        /\ q1 + q2 = p1 + p2 + n
        /\ ncards(1)' = h1 + q1 /\ ncards(1) = h1 + p1
        /\ ncards(2)' = h2 + q2 /\ ncards(2) = h2 + p2
    BY <2>1, <2>2, <2>3, Zenon
  <2>5. n \in Nat
    OBVIOUS
  <2> HIDE DEF n, h1, h2, p1, p2, q1, q2
  <2>6. ncards(1)' + ncards(2)' = ncards(1) + ncards(2) + n
    BY <2>4, <2>5
  <2> QED
    BY <2>6, Zenon DEF n
<1>4. ASSUME NEW v
      PROVE  /\ OwnedCount(v)' = OwnedCount(v) + Count(s, v)
             /\ OwnedCount(v) \in Nat /\ Count(s, v) \in Nat
  <2>1. /\ pile[1] \in Seq(Card) /\ pile[2] \in Seq(Card)
        /\ pile'[1] \in Seq(Card) /\ pile'[2] \in Seq(Card)
        /\ hand[1] \in Seq(Card) /\ hand[2] \in Seq(Card)
    BY <1>1 DEF Players
  <2>2. /\ Count(hand[1], v) \in Nat /\ Count(hand[2], v) \in Nat
        /\ Count(pile[1], v) \in Nat /\ Count(pile[2], v) \in Nat /\ Count(s, v) \in Nat
        /\ Count(pile'[1], v) \in Nat /\ Count(pile'[2], v) \in Nat
    BY <2>1, CountType
  <2>3. Count(pile'[1], v) + Count(pile'[2], v)
          = Count(pile[1], v) + Count(pile[2], v) + Count(s, v)
    BY <1>1
  <2>4. OwnedCount(v)' = Count(hand[1], v) + Count(pile'[1], v) + Count(hand[2], v)
                           + Count(pile'[2], v)
    BY DEF OwnedCount
  <2>5. OwnedCount(v) = Count(hand[1], v) + Count(pile[1], v) + Count(hand[2], v)
                          + Count(pile[2], v)
    BY DEF OwnedCount
  <2> QED
    BY <2>2, <2>3, <2>4, <2>5, SMTT(30)
<1> QED
  BY <1>1, <1>2, <1>3, <1>4

-----------------------------------------------------------------------------
(* The invariant holds at the start.                                       *)

\* make_deck yields kDeckSize cards.
LEMMA DeckType == make_deck \in Seq(Card) /\ Len(make_deck) = kDeckSize
<1>1. ASSUME NEW i \in 1 .. kDeckSize
      PROVE  2 + ((i - 1) % (kMaxCard - 1)) \in Card
  <2>1. i - 1 \in Int /\ kMaxCard - 1 \in Nat /\ kMaxCard - 1 > 0
    BY WarAssumption
  <2>2. (i - 1) % (kMaxCard - 1) \in 0 .. (kMaxCard - 1) - 1
    BY <2>1
  <2> QED
    BY <2>1, <2>2, WarAssumption DEF Card
<1>2. make_deck \in [1 .. kDeckSize -> Card]
  BY <1>1 DEF make_deck
<1> QED
  BY <1>2, WarAssumption

\* A dealt deck is two halves with all the cards.
LEMMA DealtHalves ==
    ASSUME NEW deck \in shuffle_hand(make_deck)
    PROVE  LET k == kDeckSize \div 2
               first == SubSeq(deck, 1, k)
               second == SubSeq(deck, k + 1, kDeckSize)
           IN  /\ k \in Nat /\ k + k = kDeckSize
               /\ first \in Seq(Card) /\ Len(first) = k
               /\ second \in Seq(Card) /\ Len(second) = k
               /\ \A v \in Card : Count(first, v) + Count(second, v) = Count(make_deck, v)
<1> DEFINE k == kDeckSize \div 2
           first == SubSeq(deck, 1, k)
           second == SubSeq(deck, k + 1, kDeckSize)
<1>1. k \in Nat /\ k + k = kDeckSize
  BY WarAssumption
<1>2. /\ deck \in Seq(Card) /\ Len(deck) = kDeckSize
      /\ \A v \in Card : Count(deck, v) = Count(make_deck, v)
  BY DeckType, ShuffleCards
<1> HIDE DEF k
<1>3. \A i \in 1 .. kDeckSize : deck[i] \in Card
  BY <1>2
<1>4. first \in Seq(Card) /\ Len(first) = k
  <2>1. \A i \in 1 .. k : deck[i] \in Card
    BY <1>1, <1>3
  <2>2. first \in Seq(Card) /\ Len(first) = IF 1 <= k THEN k - 1 + 1 ELSE 0
    BY <1>1, <2>1, SubSeqProperties
  <2> QED
    BY <1>1, <2>2
<1>5. second \in Seq(Card) /\ Len(second) = k
  <2>1. \A i \in k + 1 .. kDeckSize : deck[i] \in Card
    BY <1>1, <1>3
  <2>2. /\ second \in Seq(Card)
        /\ Len(second) = IF k + 1 <= kDeckSize THEN kDeckSize - (k + 1) + 1 ELSE 0
    BY <1>1, <2>1, SubSeqProperties
  <2> QED
    BY <1>1, <2>2
<1>6. first \o second = deck
  <2>1. first \o second = SubSeq(deck, 1, Len(deck))
    <3>1. 1 \in 1 .. Len(deck) + 1 /\ k \in 1 - 1 .. Len(deck) /\ Len(deck) \in k .. Len(deck)
      BY <1>1, <1>2
    <3>2. SubSeq(deck, 1, k) \o SubSeq(deck, k + 1, Len(deck)) = SubSeq(deck, 1, Len(deck))
      BY <1>2, <3>1, ConcatAdjacentSubSeq
    <3> QED
      BY <1>2, <3>2
  <2> QED
    BY <1>2, <2>1, SubSeqFull
<1> HIDE DEF first, second
<1>7. \A v \in Card : Count(first \o second, v) = Count(first, v) + Count(second, v)
  BY <1>4, <1>5, CountConcat
<1>8. \A v \in Card : Count(first, v) + Count(second, v) = Count(make_deck, v)
  BY <1>2, <1>6, <1>7
<1> QED
  BY <1>1, <1>4, <1>5, <1>8 DEF k, first, second

\* The players of a fresh game own half the deck each.
LEMMA WarInit == Init => WarInv
<1> SUFFICES ASSUME Init PROVE WarInv
  OBVIOUS
<1> DEFINE k == kDeckSize \div 2
<1>1. PICK deck \in shuffle_hand(make_deck) :
          hand = <<SubSeq(deck, 1, k), SubSeq(deck, k + 1, kDeckSize)>>
  BY DEF Init
<1> DEFINE first == SubSeq(deck, 1, k)
           second == SubSeq(deck, k + 1, kDeckSize)
<1>2. /\ k \in Nat /\ k + k = kDeckSize
      /\ first \in Seq(Card) /\ Len(first) = k
      /\ second \in Seq(Card) /\ Len(second) = k
      /\ \A v \in Card : Count(first, v) + Count(second, v) = Count(make_deck, v)
  BY DealtHalves
<1>3. /\ pile = <<<<>>, <<>>>> /\ strategy \in [Players -> Strategies]
      /\ pc = "round" /\ stack = <<>> /\ winner = None /\ result = NoResult
      /\ mark = [owned |-> <<k, k>>, result |-> NoResult]
  BY DEF Init
<1>4. hand = <<first, second>>
  BY <1>1
<1> HIDE DEF k, first, second
<1>5. /\ hand \in [Players -> Seq(Card)] /\ hand[1] = first /\ hand[2] = second
  BY <1>2, <1>4, PairIsFunction
<1>6. /\ pile \in [Players -> Seq(Card)] /\ pile[1] = <<>> /\ pile[2] = <<>>
  BY <1>3, PairIsFunction, EmptySeq
<1>7. NoResult \in Outcome /\ NoResult.winner = None
  <2>1. <<0, 0>> \in [Players -> Nat]
    BY PairIsFunction
  <2> QED
    BY <2>1 DEF NoResult, Outcome
<1>8. <<k, k>> \in [Players -> Nat] /\ <<k, k>>[1] = k /\ <<k, k>>[2] = k
  BY <1>2, PairIsFunction
<1>9. WarTypeOK
  <2>1. mark \in [owned : [Players -> Nat], result : Outcome]
    BY <1>3, <1>7, <1>8
  <2>2. stack \in Seq(Frame)
    BY <1>3, EmptySeq
  <2> QED
    BY <1>3, <1>5, <1>6, <1>7, <2>1, <2>2 DEF WarTypeOK
<1>10. NoAssertFails
  BY <1>3 DEF NoAssertFails
<1>11. CardsConserved
  <2> SUFFICES ASSUME NEW v \in Card PROVE InHands(v) + InFrames(v) = Count(make_deck, v)
    BY DEF CardsConserved
  <2>1. InFrames(v) = 0
    BY <1>3, EmptyStack DEF InFrames, FramesOf
  <2>2. InHands(v) = Count(first, v) + 0 + Count(second, v) + 0 + 0
    BY <1>3, <1>5, <1>6, CountEmpty DEF InHands
  <2>3. Count(first, v) \in Nat /\ Count(second, v) \in Nat
    BY <1>2, CountType
  <2> QED
    BY <1>2, <2>1, <2>2, <2>3
<1>12. ncards(1) + ncards(2) = kDeckSize
  <2>1. ncards(1) = k + 0 /\ ncards(2) = k + 0
    BY <1>2, <1>5, <1>6, EmptySeq DEF ncards
  <2> QED
    BY <1>2, <2>1
<1>13. RoundInv
  <2>1. mark.owned[1] + mark.owned[2] = kDeckSize
    BY <1>2, <1>3, <1>8
  <2>2. RoundLedger
    BY <1>3 DEF RoundLedger
  <2> QED
    BY <1>3, <1>12, <2>1, <2>2 DEF RoundInv
<1>14. PlayInv /\ UnwindInv
  BY <1>3 DEF PlayInv, UnwindInv
<1>15. WinnerInv
  BY <1>3, <1>7 DEF WinnerInv, WinnerOwnsDeck
<1> QED
  BY <1>9, <1>10, <1>11, <1>13, <1>14, <1>15 DEF WarInv

-----------------------------------------------------------------------------
(* Every action keeps the invariant.                                       *)

\* The game ends undecided.
LEMMA GiveUpStep == WarInv /\ GiveUp => WarInv'
<1> SUFFICES ASSUME WarInv, GiveUp PROVE WarInv'
  OBVIOUS
<1>1. /\ pc = "round" /\ pc' = "done"
      /\ hand' = hand /\ pile' = pile /\ strategy' = strategy /\ cards' = cards
      /\ stack' = stack /\ winner' = winner /\ result' = result /\ mark' = mark
  BY DEF GiveUp
<1>2. WarTypeOK' /\ NoAssertFails'
  BY <1>1 DEF WarInv, WarTypeOK, NoAssertFails
<1>3. CardsConserved'
  BY <1>1 DEF WarInv, CardsConserved, InHands, InFrames
<1>4. RoundInv' /\ PlayInv' /\ UnwindInv'
  BY <1>1 DEF WarInv, RoundInv, RoundLedger, PlayInv, UnwindInv
<1>5. WinnerInv'
  BY <1>1 DEF WarInv, WinnerInv, WinnerOwnsDeck
<1> QED
  BY <1>2, <1>3, <1>4, <1>5 DEF WarInv

\* The player left with cards owns the deck.
LEMMA DecideStep ==
    ASSUME WarInv, NEW loser \in Players, Decide(loser)
    PROVE  WarInv'
<1>1. /\ pc = "round" /\ pc' = "done" /\ ncards(loser) = 0
      /\ hand' = hand /\ pile' = pile /\ strategy' = strategy /\ cards' = cards
      /\ stack' = stack /\ winner' = winner /\ mark' = mark
      /\ result' = [result EXCEPT !.winner = Other(loser)]
  BY DEF Decide
<1>2. Other(loser) \in Players
  BY DEF Players, Other
<1>3. result \in Outcome /\ result' \in Outcome /\ result'.winner = Other(loser)
  BY <1>1, <1>2 DEF WarInv, WarTypeOK, Outcome
<1>4. WarTypeOK' /\ NoAssertFails'
  BY <1>1, <1>3 DEF WarInv, WarTypeOK, NoAssertFails
<1>5. CardsConserved'
  BY <1>1 DEF WarInv, CardsConserved, InHands, InFrames
<1>6. RoundInv' /\ PlayInv' /\ UnwindInv'
  BY <1>1 DEF WarInv, RoundInv, RoundLedger, PlayInv, UnwindInv
<1>7. ncards(Other(loser)) = kDeckSize
  <2>1. ncards(1) + ncards(2) = kDeckSize
    BY <1>1 DEF WarInv, RoundInv
  <2>2. ncards(1) \in Nat /\ ncards(2) \in Nat
    BY DEF WarInv, WarTypeOK, ncards, Players
  <2> QED
    BY <1>1, <2>1, <2>2 DEF Players, Other
<1>8. WinnerInv'
  <2>1. ncards(Other(loser))' = kDeckSize
    BY <1>1, <1>7 DEF ncards
  <2> QED
    BY <1>1, <1>3, <2>1 DEF WinnerInv, WinnerOwnsDeck
<1> QED
  BY <1>4, <1>5, <1>6, <1>8 DEF WarInv

\* A round starts: each player gives one card, and the accounts are opened.
LEMMA StartRoundStep ==
    ASSUME WarInv, StartRound
    PROVE  WarInv'
<1>1. WarTypeOK
  BY DEF WarInv
<1>2. /\ pc = "round" /\ strategy' = strategy /\ stack' = stack /\ winner' = winner
      /\ result' = result /\ mark' = [owned |-> <<ncards(1), ncards(2)>>, result |-> result]
      /\ \A p \in Players : ncards(p) > 0
  BY DEF StartRound
<1>3. stack = <<>> /\ ncards(1) + ncards(2) = kDeckSize
  BY <1>2 DEF WarInv, RoundInv
<1>4. PICK after \in decide_shuffle(1) :
          IF Ready(after, 1) /\ ncards(1) + ncards(2) = kDeckSize
          THEN /\ cards' = <<Head(after[1][1]), Head(after[2][1])>>
               /\ hand' = <<Tail(after[1][1]), Tail(after[2][1])>>
               /\ pile' = <<after[1][2], after[2][2]>>
               /\ pc' = "play"
          ELSE pc' = "abort" /\ UNCHANGED <<hand, pile, cards>>
  BY DEF StartRound
<1>5. /\ \A p \in Players : Arranged(hand[p], pile[p], 1, after[p])
      /\ (\A p \in Players : ncards(p) > 0) => Ready(after, 1)
  BY <1>1, DecideArranges
<1>6. /\ cards' = <<Head(after[1][1]), Head(after[2][1])>>
      /\ hand' = <<Tail(after[1][1]), Tail(after[2][1])>>
      /\ pile' = <<after[1][2], after[2][2]>>
      /\ pc' = "play"
  BY <1>2, <1>3, <1>4, <1>5, Zenon
<1> DEFINE t(p) == Tail(after[p][1])
           b(p) == after[p][2]
           c(p) == Head(after[p][1])
<1>7. ASSUME NEW p \in Players
      PROVE  /\ c(p) \in Card /\ t(p) \in Seq(Card) /\ b(p) \in Seq(Card)
             /\ Len(t(p)) + Len(b(p)) + 1 = ncards(p)
             /\ \A v \in Card : Count(t(p), v) + Count(b(p), v) + Count(<<c(p)>>, v)
                                  = Count(hand[p], v) + Count(pile[p], v)
  <2>1. hand[p] \in Seq(Card) /\ pile[p] \in Seq(Card)
    BY <1>1, WarFacts
  <2>2. Len(hand[p]) + Len(pile[p]) > 0
    BY <1>2 DEF ncards
  <2>3. Arranged(hand[p], pile[p], 1, after[p])
    BY <1>5
  <2>4. /\ c(p) \in Card /\ t(p) \in Seq(Card) /\ b(p) \in Seq(Card)
        /\ Len(t(p)) + Len(b(p)) + 1 = Len(hand[p]) + Len(pile[p])
        /\ \A v \in Card : Count(t(p), v) + Count(b(p), v) + Count(<<c(p)>>, v)
                             = Count(hand[p], v) + Count(pile[p], v)
    <3>1. 1 \in Nat \ {0}
      OBVIOUS
    <3>2. Drawn(hand[p], pile[p], after[p])
      BY <2>1, <2>2, <2>3, <3>1, PlayerDraws
    <3> QED
      BY <3>2, Zenon DEF Drawn
  <2> HIDE DEF t, b, c
  <2> QED
    BY <2>4, Zenon DEF ncards
<1>8. 1 \in Players /\ 2 \in Players
  BY DEF Players
<1> HIDE DEF t, b, c
<1>9. cards' = <<c(1), c(2)>> /\ hand' = <<t(1), t(2)>> /\ pile' = <<b(1), b(2)>>
  BY <1>6 DEF t, b, c
<1>10. /\ hand' \in [Players -> Seq(Card)] /\ pile' \in [Players -> Seq(Card)]
       /\ cards' \in Pair
       /\ \A p \in Players : hand'[p] = t(p) /\ pile'[p] = b(p) /\ cards'[p] = c(p)
  <2>1. c(1) \in Card /\ c(2) \in Card
    BY <1>7, <1>8
  <2>2. /\ t(1) \in Seq(Card) /\ t(2) \in Seq(Card)
        /\ b(1) \in Seq(Card) /\ b(2) \in Seq(Card)
    BY <1>7, <1>8
  <2>3. hand' \in [Players -> Seq(Card)] /\ hand'[1] = t(1) /\ hand'[2] = t(2)
    BY <1>9, <2>2, PairIsFunction
  <2>4. pile' \in [Players -> Seq(Card)] /\ pile'[1] = b(1) /\ pile'[2] = b(2)
    BY <1>9, <2>2, PairIsFunction
  <2>5. cards' \in Pair /\ cards'[1] = c(1) /\ cards'[2] = c(2)
    BY <1>9, <2>1 DEF Pair
  <2> QED
    BY <2>3, <2>4, <2>5 DEF Players
<1>11. ASSUME NEW p \in Players PROVE ncards(p)' + 1 = ncards(p) /\ ncards(p) \in Nat
  <2>1. ncards(p)' = Len(t(p)) + Len(b(p))
    BY <1>10 DEF ncards
  <2>2. Len(t(p)) + Len(b(p)) + 1 = ncards(p)
    BY <1>7
  <2>3. ncards(p) \in Nat
    BY <1>1 DEF WarTypeOK, ncards
  <2> QED
    BY <2>1, <2>2, <2>3, Zenon
<1>12. /\ mark' \in [owned : [Players -> Nat], result : Outcome]
       /\ \A p \in Players : mark'.owned[p] = ncards(p)
       /\ mark'.result = result
  <2>1. <<ncards(1), ncards(2)>> \in [Players -> Nat]
    BY <1>8, <1>11, PairIsFunction
  <2> QED
    BY <1>1, <1>2, <2>1 DEF WarTypeOK, Players
<1>13. WarTypeOK' /\ NoAssertFails'
  BY <1>1, <1>2, <1>6, <1>10, <1>12 DEF WarTypeOK, NoAssertFails
<1>14. CardsConserved'
  <2> SUFFICES ASSUME NEW v \in Card
               PROVE  InHands(v)' + InFrames(v)' = InHands(v) + InFrames(v)
    BY DEF WarInv, CardsConserved
  <2>1. InFrames(v)' = InFrames(v)
    BY <1>2 DEF InFrames
  <2>2. InHands(v) = Count(hand[1], v) + Count(pile[1], v) + Count(hand[2], v)
                       + Count(pile[2], v) + 0
    BY <1>2 DEF InHands
  <2>3. InHands(v)' = Count(hand'[1], v) + Count(pile'[1], v) + Count(hand'[2], v)
                        + Count(pile'[2], v) + Count(cards', v)
    BY <1>6 DEF InHands
  <2>4. Count(cards', v) = Count(<<cards'[1]>>, v) + Count(<<cards'[2]>>, v)
    BY <1>10, CountPair
  <2>5. ASSUME NEW p \in Players
        PROVE  /\ Count(hand'[p], v) + Count(pile'[p], v) + Count(<<cards'[p]>>, v)
                    = Count(hand[p], v) + Count(pile[p], v)
               /\ Count(hand'[p], v) \in Nat /\ Count(pile'[p], v) \in Nat
               /\ Count(<<cards'[p]>>, v) \in Nat
               /\ Count(hand[p], v) \in Nat /\ Count(pile[p], v) \in Nat
    <3>1. hand'[p] = t(p) /\ pile'[p] = b(p) /\ cards'[p] = c(p)
      BY <1>10
    <3>2. t(p) \in Seq(Card) /\ b(p) \in Seq(Card) /\ <<c(p)>> \in Seq(Card)
      <4>1. c(p) \in Card /\ t(p) \in Seq(Card) /\ b(p) \in Seq(Card)
        BY <1>7
      <4> QED
        BY <4>1
    <3>3. Count(t(p), v) \in Nat /\ Count(b(p), v) \in Nat /\ Count(<<c(p)>>, v) \in Nat
      BY <3>2, CountType
    <3>4. Count(hand[p], v) \in Nat /\ Count(pile[p], v) \in Nat
      BY <1>1, WarFacts
    <3>5. Count(t(p), v) + Count(b(p), v) + Count(<<c(p)>>, v) = Count(hand[p], v) + Count(pile[p], v)
      BY <1>7
    <3> QED
      BY <3>1, <3>3, <3>4, <3>5, Zenon
  <2>6. InHands(v)' = InHands(v)
    BY <1>8, <2>2, <2>3, <2>4, <2>5
  <2> QED
    BY <2>1, <2>6
<1>15. RoundInv'
  BY <1>3, <1>6, <1>8, <1>12 DEF RoundInv, RoundLedger
<1>16. PlayInv'
  <2>1. Hands' = Len(stack') /\ Len(stack') = 0
    BY <1>1, <1>2, <1>3, <1>12, WarFacts DEF Hands
  <2>2. ASSUME NEW p \in Players
        PROVE  Lost(p)' = 0 /\ ncards(p)' + 1 + Len(stack') + Dumped(p)' = mark'.owned[p]
    <3>1. Lost(p)' = 0
      BY <1>1, <1>2, <1>12, WarFacts DEF Lost
    <3>2. Dumped(p)' = 0
      BY <1>2, <1>3, EmptyStack DEF Dumped
    <3>3. ncards(p)' \in Nat
      BY <1>10 DEF ncards
    <3> QED
      BY <1>11, <1>12, <2>1, <3>1, <3>2, <3>3
  <2> QED
    BY <2>1, <2>2 DEF PlayInv
<1>17. UnwindInv' /\ WinnerInv'
  <2>1. result.winner = None
    BY <1>2 DEF WarInv, WinnerInv
  <2> QED
    BY <1>2, <1>6, <2>1 DEF UnwindInv, WinnerInv, WinnerOwnsDeck
<1> QED
  BY <1>13, <1>14, <1>15, <1>16, <1>17 DEF WarInv

\* The hand is decided: the loser's account is settled, the cards still lie.
LEMMA HigherCardStep ==
    ASSUME WarInv, HigherCard
    PROVE  WarInv'
<1>1. WarTypeOK /\ PlayInv /\ RoundInv
  BY DEF WarInv
<1>2. /\ pc = "play" /\ pc' = "collect" /\ winner' \in Players
      /\ hand' = hand /\ pile' = pile /\ strategy' = strategy /\ cards' = cards
      /\ stack' = stack /\ mark' = mark /\ CountHand
  BY DEF HigherCard, Players
<1>3. /\ result' \in Outcome /\ result'.winner = result.winner
      /\ Hands' = Hands + 1 /\ \A p : Lost(p)' = Lost(p)
  BY <1>1, <1>2, HandIsCounted
<1>4. WarTypeOK' /\ NoAssertFails'
  BY <1>1, <1>2, <1>3 DEF WarTypeOK, NoAssertFails
<1>5. CardsConserved'
  BY <1>2 DEF WarInv, CardsConserved, InHands, InFrames
<1>6. RoundInv' /\ PlayInv'
  BY <1>1, <1>2 DEF RoundInv, RoundLedger, PlayInv
<1>7. WinnerInv'
  BY <1>2, <1>3 DEF WarInv, WinnerInv, WinnerOwnsDeck
<1>8. UnwindInv'
  <2> PICK w \in Players : winner' = w
    BY <1>2
  <2> DEFINE l == Other(w)
  <2>1. l \in Players /\ 1 \in Players /\ 2 \in Players
    BY OtherPlayer
  <2>2. /\ Hands = Len(stack)
        /\ \A p \in Players : Lost(p) = 0 /\ ncards(p) + 1 + Len(stack) + Dumped(p) = mark.owned[p]
    BY <1>1, <1>2 DEF PlayInv
  <2>3. /\ \A p \in Players : ncards(p) \in Nat /\ Dumped(p) \in Nat
        /\ Len(stack) \in Nat
    BY <1>1, LedgerTypes
  <2>4. /\ \A p \in Players : ncards(p)' = ncards(p) /\ Dumped(p)' = Dumped(p)
        /\ mark'.owned = mark.owned /\ Len(stack') = Len(stack)
    BY <1>2 DEF ncards, Dumped
  <2>5. mark.owned[1] + mark.owned[2] = kDeckSize
    BY <1>1 DEF RoundInv
  <2>6. ncards(1)' + ncards(2)' + Dumped(1)' + Dumped(2)' + 2 * (Len(stack') + 1) = kDeckSize
    <3>1. /\ ncards(1) + 1 + Len(stack) + Dumped(1) = mark.owned[1]
          /\ ncards(2) + 1 + Len(stack) + Dumped(2) = mark.owned[2]
      BY <2>1, <2>2
    <3>2. /\ ncards(1) \in Nat /\ ncards(2) \in Nat /\ Dumped(1) \in Nat /\ Dumped(2) \in Nat
          /\ Len(stack) \in Nat
      BY <2>1, <2>3
    <3>3. ncards(1) + ncards(2) + Dumped(1) + Dumped(2) + 2 * (Len(stack) + 1) = kDeckSize
      BY <2>5, <3>1, <3>2
    <3> QED
      BY <2>1, <2>4, <3>3
  <2> HIDE DEF l
  <2>7. Lost(w)' = 0
    BY <1>3, <2>1, <2>2
  <2>8. ncards(l)' + Hands' + Lost(l)' + Dumped(l)' = mark'.owned[l]
    <3>1. /\ ncards(l) + 1 + Len(stack) + Dumped(l) = mark.owned[l] /\ Lost(l)' = 0
          /\ Hands' = Len(stack) + 1
      BY <1>3, <2>1, <2>2
    <3>2. ncards(l) \in Nat /\ Dumped(l) \in Nat /\ Len(stack) \in Nat
      BY <2>1, <2>3
    <3>3. ncards(l) + (Len(stack) + 1) + 0 + Dumped(l) = mark.owned[l]
      BY <3>1, <3>2
    <3> QED
      BY <2>1, <2>4, <3>1, <3>3
  <2> QED
    BY <1>2, <2>6, <2>7, <2>8 DEF UnwindInv, l
<1> QED
  BY <1>4, <1>5, <1>6, <1>7, <1>8 DEF WarInv

\* A war on a player's last card: the other takes both cards at once.
LEMMA LastCardWarStep ==
    ASSUME WarInv, NEW p \in Players, LastCardWar(p)
    PROVE  WarInv'
<1> DEFINE w == Other(p)
<1>1. WarTypeOK /\ PlayInv /\ RoundInv
  BY DEF WarInv
<1>2. /\ pc = "play" /\ pc' = "unwind" /\ winner' = w /\ ncards(p) = 0
      /\ hand' = hand /\ strategy' = strategy /\ cards' = cards
      /\ stack' = stack /\ mark' = mark /\ CountHand /\ take(w, cards)
  BY DEF LastCardWar
<1>3. /\ result' \in Outcome /\ result'.winner = result.winner
      /\ Hands' = Hands + 1 /\ \A q : Lost(q)' = Lost(q)
  BY <1>1, <1>2, HandIsCounted
<1>4. /\ w \in Players /\ Other(w) = p /\ 1 \in Players /\ 2 \in Players
  BY OtherPlayer
<1> HIDE DEF w
<1>5. cards \in Seq(Card) /\ Len(cards) = 2
  BY <1>1, <1>2 DEF WarTypeOK, Pair
<1>6. /\ pile' \in [Players -> Seq(Card)] /\ ncards(p)' = ncards(p)
      /\ ncards(1)' + ncards(2)' = ncards(1) + ncards(2) + 2
      /\ \A v : /\ OwnedCount(v)' = OwnedCount(v) + Count(cards, v)
                /\ OwnedCount(v) \in Nat /\ Count(cards, v) \in Nat
  BY <1>1, <1>2, <1>4, <1>5, TakeAdds
<1>7. WarTypeOK' /\ NoAssertFails'
  BY <1>1, <1>2, <1>3, <1>4, <1>6 DEF WarTypeOK, NoAssertFails
<1>8. CardsConserved'
  <2> SUFFICES ASSUME NEW v \in Card
               PROVE  InHands(v)' + InFrames(v)' = InHands(v) + InFrames(v)
    BY DEF WarInv, CardsConserved
  <2>1. InFrames(v)' = InFrames(v)
    BY <1>2 DEF InFrames
  <2>2. InHands(v) = OwnedCount(v) + Count(cards, v) /\ InHands(v)' = OwnedCount(v)' + 0
    BY <1>2 DEF InHands, OwnedCount
  <2>3. InHands(v)' = InHands(v)
    BY <1>6, <2>2
  <2> QED
    BY <2>1, <2>3
<1>9. RoundInv' /\ PlayInv'
  BY <1>1, <1>2 DEF RoundInv, RoundLedger, PlayInv
<1>10. WinnerInv'
  BY <1>2, <1>3 DEF WarInv, WinnerInv, WinnerOwnsDeck
<1>11. UnwindInv'
  <2>1. /\ Hands = Len(stack)
        /\ \A q \in Players : Lost(q) = 0 /\ ncards(q) + 1 + Len(stack) + Dumped(q) = mark.owned[q]
    BY <1>1, <1>2 DEF PlayInv
  <2>2. /\ \A q \in Players : ncards(q) \in Nat /\ Dumped(q) \in Nat
        /\ Len(stack) \in Nat
    BY <1>1, LedgerTypes
  <2>3. /\ \A q : Dumped(q)' = Dumped(q)
        /\ mark'.owned = mark.owned /\ Len(stack') = Len(stack) /\ ncards(p)' = 0
    BY <1>2, <1>6 DEF Dumped
  <2>4. ncards(1)' + ncards(2)' = ncards(1) + ncards(2) + 2
    BY <1>6
  <2>5. mark.owned[1] + mark.owned[2] = kDeckSize
    BY <1>1 DEF RoundInv
  <2>6. ncards(1)' + ncards(2)' + Dumped(1)' + Dumped(2)' + 2 * (Len(stack') + 0) = kDeckSize
    <3>1. /\ ncards(1) + 1 + Len(stack) + Dumped(1) = mark.owned[1]
          /\ ncards(2) + 1 + Len(stack) + Dumped(2) = mark.owned[2]
      BY <1>4, <2>1
    <3>2. ncards(1) + ncards(2) + 2 + Dumped(1) + Dumped(2) + 2 * Len(stack) = kDeckSize
      <4>1. /\ ncards(1) \in Nat /\ ncards(2) \in Nat /\ Dumped(1) \in Nat /\ Dumped(2) \in Nat
            /\ Len(stack) \in Nat
        BY <1>4, <2>2
      <4> QED
        BY <2>5, <3>1, <4>1, SMTT(30)
    <3> QED
      BY <1>4, <2>2, <2>3, <2>4, <3>2
  <2>7. Lost(w)' = 0
    BY <1>3, <1>4, <2>1
  <2>8. ncards(p)' + Hands' + Lost(p)' + Dumped(p)' = mark'.owned[p]
    <3>1. 0 + 1 + Len(stack) + Dumped(p) = mark.owned[p] /\ Lost(p)' = 0
          /\ Hands' = Len(stack) + 1
      BY <1>2, <1>3, <2>1
    <3> QED
      BY <2>2, <2>3, <3>1
  <2> QED
    BY <1>2, <1>4, <2>6, <2>7, <2>8 DEF UnwindInv
<1> QED
  BY <1>7, <1>8, <1>9, <1>10, <1>11 DEF WarInv

\* The winner picks up the cards of the running call.
LEMMA CollectStep ==
    ASSUME WarInv, Collect
    PROVE  WarInv'
<1>1. WarTypeOK /\ UnwindInv /\ RoundInv
  BY DEF WarInv
<1>2. /\ pc = "collect" /\ pc' = "unwind" /\ hand' = hand /\ strategy' = strategy
      /\ cards' = cards /\ stack' = stack /\ winner' = winner /\ result' = result
      /\ mark' = mark
      /\ take(winner, cards) \/ take(winner, <<cards[2], cards[1]>>)
  BY DEF Collect
<1>3. cards \in Pair /\ winner \in Players
  BY <1>1, <1>2 DEF WarTypeOK, UnwindInv
<1>4. PICK w \in Players : winner = w
  BY <1>3
<1>5. PICK s : /\ s \in Seq(Card) /\ Len(s) = 2 /\ take(w, s)
               /\ \A v : Count(s, v) = Count(cards, v)
  <2>1. cards \in Seq(Card) /\ Len(cards) = 2 /\ cards[1] \in Card /\ cards[2] \in Card
    <3>1. cards \in Seq(Card) /\ Len(cards) = 2
      BY <1>3, Zenon DEF Pair
    <3>2. cards[1] \in Card /\ cards[2] \in Card
      BY <1>3, CountPair
    <3> QED
      BY <3>1, <3>2
  <2>2. <<cards[2], cards[1]>> \in Seq(Card) /\ Len(<<cards[2], cards[1]>>) = 2
    BY <2>1
  <2>3. \A v : Count(<<cards[2], cards[1]>>, v) = Count(cards, v)
    BY <1>3, CountPair
  <2>4. CASE take(w, cards)
    BY <2>1, <2>4, Zenon
  <2>5. CASE take(w, <<cards[2], cards[1]>>)
    BY <2>2, <2>3, <2>5, Zenon
  <2> QED
    BY <1>2, <1>4, <2>4, <2>5
<1>6. /\ pile' \in [Players -> Seq(Card)] /\ ncards(Other(w))' = ncards(Other(w))
      /\ ncards(1)' + ncards(2)' = ncards(1) + ncards(2) + 2
      /\ \A v : /\ OwnedCount(v)' = OwnedCount(v) + Count(s, v)
                /\ OwnedCount(v) \in Nat /\ Count(s, v) \in Nat
  <2>1. s \in Seq(Card) /\ Len(s) = 2 /\ take(w, s)
    BY <1>5
  <2>2. /\ pile' \in [Players -> Seq(Card)] /\ ncards(Other(w))' = ncards(Other(w))
        /\ ncards(1)' + ncards(2)' = ncards(1) + ncards(2) + Len(s)
        /\ \A v : /\ OwnedCount(v)' = OwnedCount(v) + Count(s, v)
                  /\ OwnedCount(v) \in Nat /\ Count(s, v) \in Nat
    BY <1>1, <1>2, <2>1, TakeAdds, Zenon
  <2> QED
    BY <2>1, <2>2, Zenon
<1>7. WarTypeOK' /\ NoAssertFails'
  BY <1>1, <1>2, <1>6 DEF WarTypeOK, NoAssertFails
<1>8. CardsConserved'
  <2> SUFFICES ASSUME NEW v \in Card
               PROVE  InHands(v)' + InFrames(v)' = InHands(v) + InFrames(v)
    BY DEF WarInv, CardsConserved
  <2>1. InFrames(v)' = InFrames(v)
    BY <1>2 DEF InFrames
  <2>2. InHands(v) = OwnedCount(v) + Count(cards, v) /\ InHands(v)' = OwnedCount(v)' + 0
    BY <1>2 DEF InHands, OwnedCount
  <2>3. InHands(v)' = InHands(v)
    BY <1>5, <1>6, <2>2
  <2> QED
    BY <2>1, <2>3
<1>9. RoundInv' /\ PlayInv'
  BY <1>1, <1>2 DEF RoundInv, RoundLedger, PlayInv
<1>10. WinnerInv'
  BY <1>2 DEF WarInv, WinnerInv, WinnerOwnsDeck
<1>11. UnwindInv'
  <2> DEFINE l == Other(w)
  <2>1. /\ Lost(w) = 0 /\ ncards(l) + Hands + Lost(l) + Dumped(l) = mark.owned[l]
        /\ ncards(1) + ncards(2) + Dumped(1) + Dumped(2) + 2 * (Len(stack) + 1) = kDeckSize
    BY <1>1, <1>2, <1>4 DEF UnwindInv
  <2>2. /\ \A q : Dumped(q)' = Dumped(q) /\ Lost(q)' = Lost(q)
        /\ Hands' = Hands /\ mark'.owned = mark.owned /\ Len(stack') = Len(stack)
    BY <1>2 DEF Dumped, Lost, Hands
  <2>3. /\ ncards(1) \in Nat /\ ncards(2) \in Nat /\ Dumped(1) \in Nat /\ Dumped(2) \in Nat
        /\ Len(stack) \in Nat
    BY <1>1, <1>4, OtherPlayer, LedgerTypes
  <2>4. ncards(1)' + ncards(2)' + Dumped(1)' + Dumped(2)' + 2 * (Len(stack') + 0) = kDeckSize
    <3>1. ncards(1) + ncards(2) + 2 + Dumped(1) + Dumped(2) + 2 * (Len(stack) + 0) = kDeckSize
      BY <2>1, <2>3
    <3> QED
      BY <1>6, <2>2, <3>1
  <2>5. Lost(w)' = 0 /\ ncards(l)' + Hands' + Lost(l)' + Dumped(l)' = mark'.owned[l]
    BY <1>6, <2>1, <2>2, Zenon
  <2> QED
    BY <1>2, <1>4, <2>4, <2>5 DEF UnwindInv
<1> QED
  BY <1>7, <1>8, <1>9, <1>10, <1>11 DEF WarInv

\* A war is over: the winner takes both dumps, and the loser's is recorded.
LEMMA ReturnToWarStep ==
    ASSUME WarInv, ReturnToWar
    PROVE  WarInv'
<1> DEFINE f == stack[Len(stack)]
           below == SubSeq(stack, 1, Len(stack) - 1)
<1>1. WarTypeOK /\ UnwindInv /\ RoundInv
  BY DEF WarInv
<1>2. /\ pc = "unwind" /\ pc' = "collect" /\ hand' = hand /\ strategy' = strategy
      /\ cards' = f.cards /\ stack # <<>> /\ stack' = below /\ winner' = winner
      /\ mark' = mark /\ result' = RecordLoss(f)
      /\ \E s \in shuffle_hand(f.dump[1] \o f.dump[2]) : take(winner, s)
  BY DEF ReturnToWar
<1>3. PICK w \in Players : winner = w
  BY <1>1, <1>2 DEF UnwindInv
<1>4. /\ below \in Seq(Frame) /\ Len(below) = Len(stack) - 1
      /\ f \in Frame /\ stack = Append(below, f)
  BY <1>1, <1>2, PopFrame DEF WarTypeOK
<1> HIDE DEF f, below
<1> DEFINE l == Other(w)
           d1 == f.dump[1]
           d2 == f.dump[2]
<1>5. l \in Players /\ w # l /\ 1 \in Players /\ 2 \in Players
  BY OtherPlayer
<1>6. /\ f.cards \in Pair /\ d1 \in Seq(Card) /\ d2 \in Seq(Card)
      /\ \A q \in Players : Len(f.dump[q]) \in Nat
      /\ \A v : Count(Held(f), v) = Count(f.cards, v) + Count(d1, v) + Count(d2, v)
  BY <1>4, <1>5, HeldCount
<1>7. /\ \A v : FramesOf(stack, v) = FramesOf(below, v) + Count(Held(f), v)
      /\ \A q \in Players : DumpsOf(stack, q) = DumpsOf(below, q) + Len(f.dump[q])
  BY <1>4, PushFrame
<1>8. /\ \A v : FramesOf(below, v) \in Nat
      /\ \A q \in Players : DumpsOf(below, q) \in Nat
      /\ Len(below) \in Nat
  BY <1>4, FramesType
<1>9. PICK s \in shuffle_hand(d1 \o d2) : take(w, s)
  BY <1>2, <1>3
<1>10. /\ s \in Seq(Card) /\ Len(s) = Len(d1) + Len(d2)
       /\ \A v \in Card : Count(s, v) = Count(d1, v) + Count(d2, v)
  <2> HIDE DEF d1, d2
  <2> DEFINE d == d1 \o d2
  <2>1. /\ d \in Seq(Card) /\ Len(d) = Len(d1) + Len(d2)
        /\ \A v : Count(d, v) = Count(d1, v) + Count(d2, v)
    BY <1>6, ConcatProperties, CountConcat
  <2>2. s \in shuffle_hand(d)
    BY <1>9
  <2> HIDE DEF d
  <2>3. s \in Seq(Card) /\ Len(s) = Len(d) /\ \A v \in Card : Count(s, v) = Count(d, v)
    BY <2>1, <2>2, ShuffleCards
  <2> QED
    BY <2>1, <2>3, Zenon
<1>11. /\ pile' \in [Players -> Seq(Card)] /\ ncards(l)' = ncards(l)
       /\ ncards(1)' + ncards(2)' = ncards(1) + ncards(2) + Len(s)
       /\ \A v : /\ OwnedCount(v)' = OwnedCount(v) + Count(s, v)
                 /\ OwnedCount(v) \in Nat /\ Count(s, v) \in Nat
  BY <1>1, <1>2, <1>9, <1>10, TakeAdds
<1>12. /\ result' \in Outcome /\ result'.winner = result.winner
       /\ result'.nhands = result.nhands
       /\ result'.lost[l] = result.lost[l] + Len(f.dump[l])
       /\ result'.lost[w] = result.lost[w]
  <2>1. result' = [result EXCEPT !.lost[l] = @ + Len(f.dump[l])]
    BY <1>2, <1>3 DEF RecordLoss
  <2>2. result \in Outcome /\ result.lost \in [Players -> Nat] /\ Len(f.dump[l]) \in Nat
    BY <1>1, <1>5, <1>6 DEF WarTypeOK, Outcome
  <2> DEFINE n == Len(f.dump[l])
             lost == [result.lost EXCEPT ![l] = @ + n]
  <2> HIDE DEF l
  <2>3. lost \in [Players -> Nat] /\ lost[l] = result.lost[l] + n /\ lost[w] = result.lost[w]
    BY <1>5, <2>2
  <2>4. result' = [result EXCEPT !.lost = lost]
    BY <2>1, <2>2 DEF Outcome
  <2> HIDE DEF n, lost
  <2>5. /\ result' \in Outcome /\ result'.winner = result.winner
        /\ result'.nhands = result.nhands /\ result'.lost = lost
    BY <2>2, <2>3, <2>4 DEF Outcome
  <2> QED
    BY <2>3, <2>5 DEF n
<1>13. WarTypeOK' /\ NoAssertFails'
  BY <1>1, <1>2, <1>4, <1>6, <1>11, <1>12 DEF WarTypeOK, NoAssertFails
<1>14. CardsConserved'
  <2> SUFFICES ASSUME NEW v \in Card
               PROVE  InHands(v)' + InFrames(v)' = InHands(v) + InFrames(v)
    BY DEF WarInv, CardsConserved
  <2>1. InFrames(v) = FramesOf(stack, v) /\ InFrames(v)' = FramesOf(below, v)
    BY <1>2 DEF InFrames, FramesOf
  <2>2. InHands(v) = OwnedCount(v) + 0 /\ InHands(v)' = OwnedCount(v)' + Count(f.cards, v)
    BY <1>2 DEF InHands, OwnedCount
  <2>3. /\ FramesOf(stack, v) = FramesOf(below, v) + Count(Held(f), v)
        /\ Count(Held(f), v) = Count(f.cards, v) + Count(d1, v) + Count(d2, v)
        /\ OwnedCount(v)' = OwnedCount(v) + Count(s, v)
        /\ Count(s, v) = Count(d1, v) + Count(d2, v)
    BY <1>6, <1>7, <1>10, <1>11
  <2>4. /\ FramesOf(below, v) \in Nat /\ OwnedCount(v) \in Nat
        /\ Count(d1, v) \in Nat /\ Count(d2, v) \in Nat
    BY <1>6, <1>8, <1>11, CountType
  <2>5. Count(f.cards, v) \in Nat
    BY <1>6, CountType DEF Pair
  <2> HIDE DEF d1, d2
  <2> QED
    BY <2>1, <2>2, <2>3, <2>4, <2>5
<1>15. RoundInv' /\ PlayInv'
  BY <1>1, <1>2 DEF RoundInv, RoundLedger, PlayInv
<1>16. WinnerInv'
  BY <1>2, <1>12 DEF WarInv, WinnerInv, WinnerOwnsDeck
<1>17. UnwindInv'
  <2>1. /\ Lost(w) = 0 /\ ncards(l) + Hands + Lost(l) + Dumped(l) = mark.owned[l]
        /\ ncards(1) + ncards(2) + Dumped(1) + Dumped(2) + 2 * (Len(stack) + 0) = kDeckSize
    BY <1>1, <1>2, <1>3 DEF UnwindInv
  <2>2. ASSUME NEW q \in Players
        PROVE  Dumped(q) = Dumped(q)' + Len(f.dump[q]) /\ Dumped(q)' \in Nat
    BY <1>2, <1>7, <1>8 DEF Dumped
  <2>3. Hands' = Hands /\ Lost(w)' = Lost(w) /\ mark'.owned = mark.owned
    BY <1>2, <1>12 DEF Hands, Lost
  <2>4. Lost(l)' = Lost(l) + Len(f.dump[l])
    <3> DEFINE a == result.lost[l]
               b == mark.result.lost[l]
               n == Len(f.dump[l])
    <3>1. a \in Nat /\ b \in Nat /\ n \in Nat
      BY <1>1, <1>5, <1>6, WarFacts
    <3>2. Lost(l)' = (a + n) - b /\ Lost(l) = a - b
      BY <1>2, <1>12 DEF Lost
    <3> HIDE DEF a, b, n
    <3>3. Lost(l)' = Lost(l) + n
      BY <3>1, <3>2
    <3> QED
      BY <3>3 DEF n
  <2>5. /\ ncards(1) \in Nat /\ ncards(2) \in Nat /\ Len(stack) \in Nat
        /\ ncards(l) \in Nat /\ Lost(l) \in Int /\ Hands \in Int
    BY <1>1, <1>5, LedgerTypes
  <2>6. ncards(1)' + ncards(2)' + Dumped(1)' + Dumped(2)' + 2 * (Len(stack') + 1) = kDeckSize
    <3> DEFINE n1 == Len(d1)
               n2 == Len(d2)
    <3>1. n1 \in Nat /\ n2 \in Nat /\ ncards(1)' + ncards(2)' = ncards(1) + ncards(2) + (n1 + n2)
      BY <1>5, <1>6, <1>10, <1>11
    <3>2. /\ Dumped(1) = Dumped(1)' + n1 /\ Dumped(2) = Dumped(2)' + n2
          /\ Dumped(1)' \in Nat /\ Dumped(2)' \in Nat
      BY <1>5, <2>2
    <3> HIDE DEF n1, n2
    <3>3. ncards(1) + ncards(2) + (n1 + n2) + Dumped(1)' + Dumped(2)' + 2 * (Len(stack) + 0)
            = kDeckSize
      BY <2>1, <2>5, <3>1, <3>2, SMTT(30)
    <3>4. Len(stack') + 1 = Len(stack) + 0
      BY <1>2, <1>4, <2>5
    <3> QED
      BY <3>1, <3>3, <3>4, Zenon
  <2>7. ncards(l)' + Hands' + Lost(l)' + Dumped(l)' = mark'.owned[l]
    <3> DEFINE n == Len(f.dump[l])
    <3>1. n \in Nat /\ Dumped(l) = Dumped(l)' + n /\ Dumped(l)' \in Nat /\ Lost(l)' = Lost(l) + n
      BY <1>5, <1>6, <2>2, <2>4
    <3> HIDE DEF n
    <3>2. ncards(l) + Hands + (Lost(l) + n) + Dumped(l)' = mark.owned[l]
      BY <2>1, <2>5, <3>1
    <3> QED
      BY <1>11, <2>3, <3>1, <3>2, Zenon
  <2> QED
    BY <1>2, <1>3, <2>1, <2>3, <2>6, <2>7 DEF UnwindInv
<1> QED
  BY <1>13, <1>14, <1>15, <1>16, <1>17 DEF WarInv

\* The round is over: no card is left in a frame, so both accounts balance.
LEMMA EndRoundStep ==
    ASSUME WarInv, EndRound
    PROVE  WarInv'
<1>1. WarTypeOK /\ UnwindInv /\ RoundInv
  BY DEF WarInv
<1>2. /\ pc = "unwind" /\ pc' = "round" /\ stack = <<>> /\ stack' = stack /\ hand' = hand
      /\ pile' = pile /\ strategy' = strategy /\ winner' = winner /\ result' = result
      /\ mark' = mark
  BY DEF EndRound
<1>3. PICK w \in Players : winner = w
  BY <1>1, <1>2 DEF UnwindInv
<1> DEFINE l == Other(w)
<1>4. WarTypeOK' /\ NoAssertFails'
  BY <1>1, <1>2 DEF WarTypeOK, NoAssertFails
<1>5. CardsConserved'
  BY <1>2 DEF WarInv, CardsConserved, InHands, InFrames
<1>6. /\ Lost(w) = 0 /\ ncards(l) + Hands + Lost(l) + Dumped(l) = mark.owned[l]
      /\ ncards(1) + ncards(2) + Dumped(1) + Dumped(2) + 2 * (Len(stack) + 0) = kDeckSize
  BY <1>1, <1>2, <1>3 DEF UnwindInv
<1>7. Dumped(1) = 0 /\ Dumped(2) = 0 /\ Dumped(l) = 0 /\ Len(stack) = 0
  BY <1>2, EmptyStack DEF Dumped
<1>8. /\ ncards(1) \in Nat /\ ncards(2) \in Nat /\ ncards(l) \in Nat /\ ncards(w) \in Nat
      /\ Lost(l) \in Int /\ Hands \in Int
      /\ mark.owned[l] \in Nat /\ mark.owned[w] \in Nat
  BY <1>1, OtherPlayer, LedgerTypes
<1>9. ncards(1) + ncards(2) = kDeckSize
  BY <1>6, <1>7, <1>8
<1>10. ncards(l) + ncards(w) = kDeckSize /\ mark.owned[l] + mark.owned[w] = kDeckSize
  <2>1. mark.owned[1] + mark.owned[2] = kDeckSize
    BY <1>1 DEF RoundInv
  <2>2. CASE w = 1 /\ l = 2
    BY <1>8, <1>9, <2>1, <2>2
  <2>3. CASE w = 2 /\ l = 1
    BY <1>8, <1>9, <2>1, <2>3
  <2> QED
    BY <2>2, <2>3, OtherPlayer
<1>11. /\ ncards(l) = mark.owned[l] - (Hands + Lost(l))
       /\ ncards(w) = mark.owned[w] + (Hands + Lost(l))
  <2> DEFINE a == mark.owned[l]
             b == mark.owned[w]
  <2>1. ncards(l) + Hands + Lost(l) + 0 = a /\ a + b = kDeckSize /\ a \in Nat /\ b \in Nat
    BY <1>6, <1>7, <1>8, <1>10
  <2> HIDE DEF a, b, l
  <2>2. ncards(l) = a - (Hands + Lost(l)) /\ ncards(w) = b + (Hands + Lost(l))
    BY <1>8, <1>10, <2>1
  <2> QED
    BY <2>2 DEF a, b
<1>12. RoundLedger'
  <2>1. result.lost[w] = mark.result.lost[w]
    <3>1. result.lost[w] \in Nat /\ mark.result.lost[w] \in Nat
      BY <1>1, WarFacts
    <3> QED
      BY <1>6, <3>1 DEF Lost
  <2>2. ncards(l)' = ncards(l) /\ ncards(w)' = ncards(w)
    BY <1>2 DEF ncards
  <2> QED
    BY <1>2, <1>3, <1>11, <2>1, <2>2 DEF RoundLedger, Hands, Lost
<1>13. RoundInv'
  <2>1. ncards(1)' = ncards(1) /\ ncards(2)' = ncards(2)
    BY <1>2 DEF ncards
  <2> QED
    BY <1>1, <1>2, <1>9, <1>12, <2>1 DEF RoundInv
<1>14. PlayInv' /\ UnwindInv' /\ WinnerInv'
  BY <1>2 DEF WarInv, PlayInv, UnwindInv, WinnerInv, WinnerOwnsDeck
<1> QED
  BY <1>4, <1>5, <1>13, <1>14 DEF WarInv

\* A war: each player's dump is suspended with the cards of the running call.
LEMMA WarStep ==
    ASSUME WarInv, War
    PROVE  WarInv'
<1>1. WarTypeOK /\ PlayInv /\ RoundInv
  BY DEF WarInv
<1>2. /\ pc = "play" /\ strategy' = strategy /\ winner' = winner /\ mark' = mark /\ CountHand
      /\ \A p \in Players : ncards(p) > 0
  BY DEF War
<1>3. PICK after \in decide_shuffle(kWarSize) :
          IF Ready(after, kWarSize)
          THEN LET wh1 == WarHand(after[1][1])
                   wh2 == WarHand(after[2][1])
               IN  /\ stack' = Append(stack, [cards |-> cards, dump |-> <<wh1.dump, wh2.dump>>])
                   /\ cards' = <<wh1.flip, wh2.flip>>
                   /\ hand' = <<wh1.rest, wh2.rest>>
                   /\ pile' = <<after[1][2], after[2][2]>>
                   /\ pc' = "play"
          ELSE pc' = "abort" /\ UNCHANGED <<hand, pile, cards, stack>>
  BY DEF War
<1>4. kWarSize \in Nat \ {0}
  BY WarAssumption
<1>5. /\ \A p \in Players : Arranged(hand[p], pile[p], kWarSize, after[p])
      /\ (\A p \in Players : ncards(p) > 0) => Ready(after, kWarSize)
  BY <1>1, <1>4, DecideArranges
<1> DEFINE d(p) == WarHand(after[p][1]).dump
           c(p) == WarHand(after[p][1]).flip
           t(p) == WarHand(after[p][1]).rest
           b(p) == after[p][2]
           f == [cards |-> cards, dump |-> <<d(1), d(2)>>]
<1>6. /\ stack' = Append(stack, f)
      /\ cards' = <<c(1), c(2)>> /\ hand' = <<t(1), t(2)>> /\ pile' = <<b(1), b(2)>>
      /\ pc' = "play"
  BY <1>2, <1>3, <1>5, Zenon
<1>7. ASSUME NEW p \in Players
      PROVE  /\ c(p) \in Card /\ t(p) \in Seq(Card) /\ d(p) \in Seq(Card) /\ b(p) \in Seq(Card)
             /\ Len(t(p)) + Len(b(p)) + 1 + Len(d(p)) = ncards(p)
             /\ \A v \in Card : Count(t(p), v) + Count(b(p), v) + Count(<<c(p)>>, v)
                                  + Count(d(p), v) = Count(hand[p], v) + Count(pile[p], v)
  <2>1. hand[p] \in Seq(Card) /\ pile[p] \in Seq(Card)
    BY <1>1, WarFacts
  <2>2. Len(hand[p]) + Len(pile[p]) > 0
    BY <1>2 DEF ncards
  <2>3. Arranged(hand[p], pile[p], kWarSize, after[p])
    BY <1>5
  <2>4. DrawnForWar(hand[p], pile[p], after[p])
    BY <1>4, <2>1, <2>2, <2>3, PlayerDrawsForWar
  <2> QED
    BY <2>4, Zenon DEF DrawnForWar, ncards
<1>8. 1 \in Players /\ 2 \in Players
  BY DEF Players
<1> HIDE DEF d, c, t, b
<1>9. /\ hand' \in [Players -> Seq(Card)] /\ pile' \in [Players -> Seq(Card)]
      /\ cards' \in Pair
      /\ \A p \in Players : hand'[p] = t(p) /\ pile'[p] = b(p) /\ cards'[p] = c(p)
  <2>1. c(1) \in Card /\ c(2) \in Card
    BY <1>7, <1>8
  <2>2. /\ t(1) \in Seq(Card) /\ t(2) \in Seq(Card)
        /\ b(1) \in Seq(Card) /\ b(2) \in Seq(Card)
    BY <1>7, <1>8
  <2>3. hand' \in [Players -> Seq(Card)] /\ hand'[1] = t(1) /\ hand'[2] = t(2)
    BY <1>6, <2>2, PairIsFunction
  <2>4. pile' \in [Players -> Seq(Card)] /\ pile'[1] = b(1) /\ pile'[2] = b(2)
    BY <1>6, <2>2, PairIsFunction
  <2>5. cards' \in Pair /\ cards'[1] = c(1) /\ cards'[2] = c(2)
    BY <1>6, <2>1 DEF Pair
  <2> QED
    BY <2>3, <2>4, <2>5 DEF Players
<1>10. /\ cards \in Pair /\ f \in Frame /\ f.cards = cards
       /\ \A p \in Players : f.dump[p] = d(p)
  <2>1. cards \in Pair
    BY <1>1, <1>2 DEF WarTypeOK
  <2>2. d(1) \in Seq(Card) /\ d(2) \in Seq(Card)
    BY <1>7, <1>8
  <2>3. <<d(1), d(2)>> \in [Players -> Seq(Card)]
    BY <2>2, PairIsFunction
  <2> QED
    BY <2>1, <2>3 DEF Frame, Players
<1> HIDE DEF f
<1>11. stack \in Seq(Frame) /\ stack' \in Seq(Frame) /\ Len(stack') = Len(stack) + 1
  BY <1>1, <1>6, <1>10, AppendProperties DEF WarTypeOK
<1>12. /\ \A v : FramesOf(stack', v) = FramesOf(stack, v) + Count(Held(f), v)
       /\ \A p \in Players : Dumped(p)' = Dumped(p) + Len(d(p))
  BY <1>6, <1>10, <1>11, PushFrame DEF Dumped
<1>13. /\ result' \in Outcome /\ result'.winner = result.winner
       /\ Hands' = Hands + 1 /\ \A p : Lost(p)' = Lost(p)
  BY <1>1, <1>2, HandIsCounted
<1>14. WarTypeOK' /\ NoAssertFails'
  BY <1>1, <1>2, <1>6, <1>9, <1>11, <1>13 DEF WarTypeOK, NoAssertFails
<1>15. CardsConserved'
  <2> SUFFICES ASSUME NEW v \in Card
               PROVE  InHands(v)' + InFrames(v)' = InHands(v) + InFrames(v)
    BY DEF WarInv, CardsConserved
  <2>1. /\ InFrames(v) = FramesOf(stack, v) /\ InFrames(v)' = FramesOf(stack', v)
        /\ FramesOf(stack, v) \in Nat
    BY <1>1, WarFacts DEF InFrames, FramesOf
  <2>2. /\ FramesOf(stack', v) = FramesOf(stack, v) + Count(Held(f), v)
        /\ Count(Held(f), v) = Count(cards, v) + Count(d(1), v) + Count(d(2), v)
    BY <1>8, <1>10, <1>12, HeldCount
  <2>3. InHands(v) = Count(hand[1], v) + Count(pile[1], v) + Count(hand[2], v)
                       + Count(pile[2], v) + Count(cards, v)
    BY <1>2 DEF InHands
  <2>4. InHands(v)' = Count(t(1), v) + Count(b(1), v) + Count(t(2), v)
                        + Count(b(2), v) + Count(cards', v)
    BY <1>6, <1>8, <1>9 DEF InHands
  <2>5. Count(cards', v) = Count(<<c(1)>>, v) + Count(<<c(2)>>, v)
    <3>1. Count(cards', v) = Count(<<cards'[1]>>, v) + Count(<<cards'[2]>>, v)
      BY <1>9, CountPair
    <3> QED
      BY <1>8, <1>9, <3>1
  <2>6. ASSUME NEW p \in Players
        PROVE  /\ Count(t(p), v) + Count(b(p), v) + Count(<<c(p)>>, v) + Count(d(p), v)
                    = Count(hand[p], v) + Count(pile[p], v)
               /\ Count(t(p), v) \in Nat /\ Count(b(p), v) \in Nat
               /\ Count(<<c(p)>>, v) \in Nat /\ Count(d(p), v) \in Nat
               /\ Count(hand[p], v) \in Nat /\ Count(pile[p], v) \in Nat
    <3>1. c(p) \in Card /\ t(p) \in Seq(Card) /\ d(p) \in Seq(Card) /\ b(p) \in Seq(Card)
      BY <1>7
    <3>2. <<c(p)>> \in Seq(Card)
      BY <3>1
    <3>3. /\ Count(t(p), v) \in Nat /\ Count(b(p), v) \in Nat
          /\ Count(<<c(p)>>, v) \in Nat /\ Count(d(p), v) \in Nat
      BY <3>1, <3>2, CountType
    <3>4. Count(hand[p], v) \in Nat /\ Count(pile[p], v) \in Nat
      BY <1>1, WarFacts
    <3> QED
      BY <1>7, <3>3, <3>4, Zenon
  <2>7. Count(cards, v) \in Nat
    BY <1>10, CountType DEF Pair
  <2>8. InHands(v)' + (Count(cards, v) + Count(d(1), v) + Count(d(2), v)) = InHands(v)
    BY <1>8, <2>3, <2>4, <2>5, <2>6, <2>7, SMTT(30)
  <2>9. InHands(v)' \in Nat
    BY <1>8, <2>4, <2>5, <2>6
  <2>10. Count(d(1), v) \in Nat /\ Count(d(2), v) \in Nat
    BY <1>8, <2>6
  <2> QED
    BY <2>1, <2>2, <2>7, <2>8, <2>9, <2>10
<1>16. RoundInv' /\ UnwindInv'
  BY <1>1, <1>2, <1>6 DEF RoundInv, RoundLedger, UnwindInv
<1>17. WinnerInv'
  BY <1>2, <1>6, <1>13 DEF WarInv, WinnerInv, WinnerOwnsDeck
<1>18. PlayInv'
  <2>1. /\ Hands = Len(stack)
        /\ \A p \in Players : Lost(p) = 0 /\ ncards(p) + 1 + Len(stack) + Dumped(p) = mark.owned[p]
    BY <1>1, <1>2 DEF PlayInv
  <2>2. Hands' = Len(stack')
    BY <1>11, <1>13, <2>1
  <2>3. ASSUME NEW p \in Players
        PROVE  ncards(p)' + 1 + Len(stack') + Dumped(p)' = mark'.owned[p]
    <3> DEFINE x == Len(t(p))
               y == Len(b(p))
               z == Len(d(p))
               m == Len(stack)
    <3>1. t(p) \in Seq(Card) /\ b(p) \in Seq(Card) /\ d(p) \in Seq(Card)
      BY <1>7
    <3>2. x \in Nat /\ y \in Nat /\ z \in Nat
      BY <3>1
    <3>3. Dumped(p) \in Nat /\ m \in Nat
      BY <1>1, LedgerTypes
    <3>4. ncards(p)' = x + y
      BY <1>9 DEF ncards
    <3>5. x + y + 1 + z = ncards(p)
      BY <1>7
    <3>6. Dumped(p)' = Dumped(p) + z /\ Len(stack') = m + 1
      BY <1>11, <1>12
    <3>7. ncards(p) + 1 + m + Dumped(p) = mark.owned[p]
      BY <2>1
    <3> HIDE DEF x, y, z, m
    <3>8. (x + y) + 1 + (m + 1) + (Dumped(p) + z) = ncards(p) + 1 + m + Dumped(p)
      BY <3>2, <3>3, <3>5
    <3>9. mark'.owned[p] = mark.owned[p]
      BY <1>2
    <3> QED
      BY <3>4, <3>6, <3>7, <3>8, <3>9, Zenon
  <2>4. \A p \in Players : Lost(p)' = 0
    BY <1>13, <2>1
  <2> QED
    BY <2>2, <2>3, <2>4 DEF PlayInv
<1> QED
  BY <1>14, <1>15, <1>16, <1>17, <1>18 DEF WarInv

-----------------------------------------------------------------------------
(* The theorems.                                                           *)

\* Every step of a game keeps the books.
LEMMA WarInvStep == WarInv /\ [Next]_vars => WarInv'
<1> SUFFICES ASSUME WarInv, [Next]_vars PROVE WarInv'
  OBVIOUS
<1>1. ASSUME NEW p \in Players, Decide(p) PROVE WarInv'
  BY <1>1, DecideStep
<1>2. ASSUME NEW p \in Players, LastCardWar(p) PROVE WarInv'
  BY <1>2, LastCardWarStep
<1>3. CASE UNCHANGED vars
  BY <1>3 DEF vars, WarInv, WarTypeOK, NoAssertFails, CardsConserved, InHands, InFrames,
              RoundInv, RoundLedger, PlayInv, UnwindInv, WinnerInv, WinnerOwnsDeck, ncards,
              Hands, Lost, Dumped
<1> QED
  BY <1>1, <1>2, <1>3, GiveUpStep, StartRoundStep, HigherCardStep, WarStep, CollectStep,
     ReturnToWarStep, EndRoundStep
     DEF Next, Play, Finished

\* The invariant holds throughout every game.
THEOREM WarInvariant == Spec => []WarInv
BY WarInit, WarInvStep, PTL DEF Spec

\* For every deck, war size and pair of strategies no card is lost, duplicated
\* or changed, however deep the wars nest (play_hand and WarHand).
THEOREM WarCardsConserved == Spec => []CardsConserved
<1>1. WarInv => CardsConserved
  BY DEF WarInv
<1> QED
  BY <1>1, WarInvariant, PTL

\* No assertion of decide_shuffle, WarHand, play_hand and simulate fails,
\* whichever strategies meet: a strategy is only asked to draw for a player
\* who has cards, and leaves either enough in the hand or all of them.
THEOREM WarNoAssertFails == Spec => []NoAssertFails
<1>1. WarInv => NoAssertFails
  BY DEF WarInv
<1> QED
  BY <1>1, WarInvariant, PTL

\* After every round the loser is poorer, and the winner richer, by the hands
\* played and the war cards recorded in GameResult.
THEOREM WarRoundLedger == Spec => []RoundLedger
<1>1. WarInv => RoundLedger
  BY DEF WarInv, RoundInv
<1> QED
  BY <1>1, WarInvariant, PTL

\* The winner simulate reports owns the whole deck.
THEOREM WarWinnerOwnsDeck == Spec => []WinnerOwnsDeck
<1>1. WarInv => WinnerOwnsDeck
  BY DEF WarInv, WinnerInv
<1> QED
  BY <1>1, WarInvariant, PTL
=============================================================================
