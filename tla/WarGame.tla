------------------------------- MODULE WarGame -------------------------------
(***************************************************************************)
(* One game of the War simulator: the two players' hands and piles, their  *)
(* strategies, a round with its recursive wars, and the loop of simulate.  *)
(* Source: war-card-game-monte-carlo/include/war-simulator/                *)
(* war-simulator.hpp.                                                      *)
(*                                                                         *)
(* play_hand is recursive: a war plays the flipped cards with a new call.  *)
(* The suspended calls are a stack of frames with the cards they hold.  A  *)
(* shuffle yields any arrangement of the same cards.                       *)
(***************************************************************************)
EXTENDS Integers, Sequences, FiniteSets

CONSTANTS
    kMaxCard,    \* the ace, 14 in the code
    kDeckSize,   \* 52 in the code
    kWarSize,    \* cards drawn for a war, 4 in the code
    kMaxRounds,  \* 100000 in the code
    Strategies   \* the identifiers the players may use, 0 .. 8 in the code

ASSUME WarAssumption ==
    /\ kMaxCard \in Nat /\ kMaxCard > 2
    /\ kDeckSize \in Nat /\ kDeckSize % 2 = 0
    /\ kWarSize \in Nat \ {0}
    /\ kMaxRounds \in Nat
    /\ Strategies \subseteq 0 .. 8

VARIABLES
    hand, pile,  \* hand_ and pile_ of each player
    strategy,    \* strategy_ of each player
    pc,          \* "round", "play", "collect", "unwind", "done" or "abort"
    cards,       \* c1 and c2 of the running play_hand
    stack,       \* the suspended calls: their c1, c2 and both dumps
    winner,      \* what the last play_hand returned
    rounds,      \* the loop index of simulate
    result,      \* GameResult: winner, nhands, cards lost in wars (counted)
    mark         \* history: cards owned and result when the round began

vars == <<hand, pile, strategy, pc, cards, stack, winner, rounds, result, mark>>

Players == {1, 2}
Other(p) == 3 - p
Card == 2 .. kMaxCard
None == 0

\* Player::ncards
ncards(p) == Len(hand[p]) + Len(pile[p])

\* make_deck
make_deck == [i \in 1 .. kDeckSize |-> 2 + ((i - 1) % (kMaxCard - 1))]

\* Where card v lies in s, and how many of it there are.
Places(s, v) == {i \in 1 .. Len(s) : s[i] = v}
Count(s, v) == Cardinality(Places(s, v))

\* shuffle_hand: every arrangement of the cards of s.
shuffle_hand(s) ==
    {t \in [1 .. Len(s) -> Card] : \A v \in Card : Count(t, v) = Count(s, v)}

-----------------------------------------------------------------------------
(* Strategies.                                                             *)

SumOf(s) ==
    LET sum[n \in 0 .. Len(s)] == IF n = 0 THEN 0 ELSE sum[n - 1] + s[n]
    IN  sum[Len(s)]

\* average of an empty container is 0.
AverageGreater(h, p) ==
    IF h = <<>> THEN FALSE
    ELSE IF p = <<>> THEN SumOf(h) > 0
    ELSE SumOf(h) * Len(p) > SumOf(p) * Len(h)

count_card_type(s, types) == Cardinality({i \in 1 .. Len(s) : s[i] \in types})

\* The share of the given cards in the hand against the pile.  A share of an
\* empty container is 0/0; how it compares is open under -ffast-math.
ShareGreater(h, p, types) ==
    IF h = <<>> \/ p = <<>> THEN BOOLEAN
    ELSE {count_card_type(h, types) * Len(p) > count_card_type(p, types) * Len(h)}

\* What EnrichmentPolicy::enriched may return for each strategy.
enriched(id, h, p) ==
    CASE id \in {3, 4} -> {AverageGreater(h, p)}
      [] id \in {5, 6} -> ShareGreater(h, p, {kMaxCard})
      [] id \in {7, 8} -> ShareGreater(h, p, kMaxCard - 3 .. kMaxCard)

\* Mutant: the pile is combined only when the hand is to be shuffled.
combine_only_to_shuffle(id, h, p, n) ==
    UNION {IF e = (id \in {3, 5, 7})
           THEN {<<t, <<>>>> : t \in shuffle_hand(h \o p)}
           ELSE {<<h, p>>} : e \in enriched(id, h, p)}

\* Player::combine_pile: the hand and the pile after.
combine_pile(h, p) == <<h \o p, <<>>>>

combine_only_strategy(h, p, n) ==
    IF Len(h) < n /\ p # <<>> THEN combine_pile(h, p) ELSE <<h, p>>

always_shuffle_strategy(h, p) == {<<t, <<>>>> : t \in shuffle_hand(combine_pile(h, p)[1])}

combine_and_shuffle_strategy(h, p, n) ==
    LET r == combine_only_strategy(h, p, n) IN {<<t, r[2]>> : t \in shuffle_hand(r[1])}

\* combine_strategy<EnrichmentPolicy, ShuffleWhenEnriched>
combine_strategy(id, h, p, n) ==
    UNION {IF e = (id \in {3, 5, 7}) THEN always_shuffle_strategy(h, p)
           ELSE {combine_only_strategy(h, p, n)} : e \in enriched(id, h, p)}

\* The table of strategies.
apply_strategy(id, h, p, n) ==
    CASE id = 0 -> combine_and_shuffle_strategy(h, p, n)
      [] id = 1 -> always_shuffle_strategy(h, p)
      [] id = 2 -> {combine_only_strategy(h, p, n)}
      [] OTHER  -> combine_strategy(id, h, p, n)

\* decide_shuffle: both strategies run as soon as one hand is short of n.
decide_shuffle(n) ==
    IF \E p \in Players : Len(hand[p]) < n
    THEN apply_strategy(strategy[1], hand[1], pile[1], n)
           \X apply_strategy(strategy[2], hand[2], pile[2], n)
    ELSE {<<<<hand[1], pile[1]>>, <<hand[2], pile[2]>>>>}

\* The assertions at its end, and that both players can draw.
Ready(after, n) ==
    \A p \in Players :
        /\ Len(after[p][1]) >= n \/ after[p][2] = <<>>
        /\ after[p][1] # <<>>

-----------------------------------------------------------------------------
(* simulate.                                                               *)

NoResult == [winner |-> None, nhands |-> 0, lost |-> <<0, 0>>]

\* make_players: a shuffled deck dealt in two halves.
Init ==
    /\ \E deck \in shuffle_hand(make_deck) :
           hand = <<SubSeq(deck, 1, kDeckSize \div 2),
                    SubSeq(deck, kDeckSize \div 2 + 1, kDeckSize)>>
    /\ pile = <<<<>>, <<>>>>
    /\ strategy \in [Players -> Strategies]
    /\ pc = "round" /\ cards = <<0, 0>> /\ stack = <<>> /\ winner = None
    /\ rounds = 0 /\ result = NoResult
    /\ mark = [owned |-> <<kDeckSize \div 2, kDeckSize \div 2>>, result |-> NoResult]

\* The loop ends after kMaxRounds rounds; the result keeps kNone.
GiveUp ==
    /\ pc = "round" /\ rounds = kMaxRounds
    /\ pc' = "done"
    /\ UNCHANGED <<hand, pile, strategy, cards, stack, winner, rounds, result, mark>>

\* Mutant: the player looked at is reported as the winner.
DecideForLoser(loser) ==
    /\ pc = "round" /\ rounds < kMaxRounds
    /\ ncards(loser) = 0
    /\ loser = 2 => ncards(1) > 0
    /\ result' = [result EXCEPT !.winner = loser]
    /\ pc' = "done"
    /\ UNCHANGED <<hand, pile, strategy, cards, stack, winner, rounds, mark>>

\* A player without cards has lost, player one being looked at first.
Decide(loser) ==
    /\ pc = "round" /\ rounds < kMaxRounds
    /\ ncards(loser) = 0
    /\ loser = 2 => ncards(1) > 0
    /\ result' = [result EXCEPT !.winner = Other(loser)]
    /\ pc' = "done"
    /\ UNCHANGED <<hand, pile, strategy, cards, stack, winner, rounds, mark>>

\* A round: both draw a card and play it.
StartRound ==
    /\ pc = "round" /\ rounds < kMaxRounds
    /\ \A p \in Players : ncards(p) > 0
    /\ mark' = [owned |-> <<ncards(1), ncards(2)>>, result |-> result]
    /\ \E after \in decide_shuffle(1) :
           IF Ready(after, 1) /\ ncards(1) + ncards(2) = kDeckSize
           THEN /\ cards' = <<Head(after[1][1]), Head(after[2][1])>>
                /\ hand' = <<Tail(after[1][1]), Tail(after[2][1])>>
                /\ pile' = <<after[1][2], after[2][2]>>
                /\ pc' = "play"
           ELSE pc' = "abort" /\ UNCHANGED <<hand, pile, cards>>
    /\ UNCHANGED <<strategy, stack, winner, rounds, result>>

-----------------------------------------------------------------------------
(* play_hand.                                                              *)

CountHand == result' = [result EXCEPT !.nhands = @ + 1]

\* p takes the cards of s, in that order.
take(p, s) == pile' = [pile EXCEPT ![p] = @ \o s]

\* The higher card wins.
HigherCard ==
    /\ pc = "play" /\ cards[1] # cards[2]
    /\ winner' = IF cards[1] > cards[2] THEN 1 ELSE 2
    /\ CountHand
    /\ pc' = "collect"
    /\ UNCHANGED <<hand, pile, strategy, cards, stack, rounds, mark>>

\* A player whose last card is a war loses it, and the call returns at once.
LastCardWar(p) ==
    /\ pc = "play" /\ cards[1] = cards[2]
    /\ ncards(p) = 0
    /\ p = 2 => ncards(1) > 0
    /\ take(Other(p), cards)
    /\ winner' = Other(p)
    /\ CountHand
    /\ pc' = "unwind"
    /\ UNCHANGED <<hand, strategy, cards, stack, rounds, mark>>

\* Mutant: the flipped card stays in the dump.
WarDumpAndFlip(h) ==
    LET n == IF Len(h) < kWarSize THEN Len(h) ELSE kWarSize
    IN  [dump |-> SubSeq(h, 1, n), flip |-> h[n], rest |-> SubSeq(h, n + 1, Len(h))]

\* WarHand: up to kWarSize cards are drawn, the last of them is flipped.
WarHand(h) ==
    LET n == IF Len(h) < kWarSize THEN Len(h) ELSE kWarSize
    IN  [dump |-> SubSeq(h, 1, n - 1), flip |-> h[n], rest |-> SubSeq(h, n + 1, Len(h))]

\* War: the call is suspended and the flipped cards are played.
War ==
    /\ pc = "play" /\ cards[1] = cards[2]
    /\ \A p \in Players : ncards(p) > 0
    /\ CountHand
    /\ \E after \in decide_shuffle(kWarSize) :
           IF Ready(after, kWarSize)
           THEN LET wh1 == WarHand(after[1][1])
                    wh2 == WarHand(after[2][1])
                IN  /\ stack' = Append(stack, [cards |-> cards, dump |-> <<wh1.dump, wh2.dump>>])
                    /\ cards' = <<wh1.flip, wh2.flip>>
                    /\ hand' = <<wh1.rest, wh2.rest>>
                    /\ pile' = <<after[1][2], after[2][2]>>
                    /\ pc' = "play"
           ELSE pc' = "abort" /\ UNCHANGED <<hand, pile, cards, stack>>
    /\ UNCHANGED <<strategy, winner, rounds, mark>>

\* The end of play_hand: the winner takes both cards in either order.
Collect ==
    /\ pc = "collect"
    /\ \/ take(winner, cards)
       \/ take(winner, <<cards[2], cards[1]>>)
    /\ pc' = "unwind"
    /\ UNCHANGED <<hand, strategy, cards, stack, winner, rounds, result, mark>>

\* Mutant: the winner's own dump is recorded as lost.
LostOfWinner(f) == [result EXCEPT !.lost[winner] = @ + Len(f.dump[winner])]

\* war_hands_p1_lost and war_hands_p2_lost record the loser's dump.
RecordLoss(f) ==
    [result EXCEPT !.lost[Other(winner)] = @ + Len(f.dump[Other(winner)])]

\* A war's inner call has returned: the winner takes the shuffled dumps.
ReturnToWar ==
    /\ pc = "unwind" /\ stack # <<>>
    /\ LET f == stack[Len(stack)] IN
           /\ \E s \in shuffle_hand(f.dump[1] \o f.dump[2]) : take(winner, s)
           /\ result' = RecordLoss(f)
           /\ cards' = f.cards
    /\ stack' = SubSeq(stack, 1, Len(stack) - 1)
    /\ pc' = "collect"
    /\ UNCHANGED <<hand, strategy, winner, rounds, mark>>

\* The round's call has returned to simulate.
EndRound ==
    /\ pc = "unwind" /\ stack = <<>>
    /\ rounds' = rounds + 1
    /\ cards' = <<0, 0>>
    /\ pc' = "round"
    /\ UNCHANGED <<hand, pile, strategy, stack, winner, result, mark>>

-----------------------------------------------------------------------------
Finished == pc \in {"done", "abort"} /\ UNCHANGED vars

Play ==
    \/ GiveUp \/ StartRound \/ HigherCard \/ War \/ Collect \/ ReturnToWar \/ EndRound
    \/ \E p \in Players : Decide(p) \/ LastCardWar(p)

Next == Play \/ Finished

Spec == Init /\ [][Next]_vars

-----------------------------------------------------------------------------
(* Properties.                                                             *)

\* The cards a suspended call holds.
Held(f) == f.cards \o f.dump[1] \o f.dump[2]

\* One set at each level of the stack, kept apart by the level.
Stacked(A) == UNION {{n} \X A[n] : n \in DOMAIN A}

\* Copies of card v in the frames of the suspended calls.
InFrames(v) ==
    Cardinality(Stacked([n \in 1 .. Len(stack) |-> Places(Held(stack[n]), v)]))

\* Copies of card v with the players and in the running call.
InHands(v) ==
    Count(hand[1], v) + Count(pile[1], v) + Count(hand[2], v) + Count(pile[2], v)
      + (IF pc \in {"play", "collect"} THEN Count(cards, v) ELSE 0)

\* No card is ever lost, duplicated or changed, wars within wars included
\* (war-simulator.hpp:260-358; the test at test_main.cpp:305 counts cards at
\* the end of a game).
CardsConserved == \A v \in Card : InHands(v) + InFrames(v) = Count(make_deck, v)

\* No assertion of decide_shuffle, WarHand, play_hand and simulate fails,
\* whichever strategies meet (war-simulator.hpp:230-231, 295-296, 379-382).
NoAssertFails == pc # "abort"

\* After every round the loser is poorer by exactly one card per hand played
\* plus the cards recorded as lost in its wars, and the winner richer by as
\* many (war-simulator.hpp:266, 318-329).
RoundLedger ==
    pc = "round" /\ winner # None =>
        LET loser == Other(winner)
            gone == (result.nhands - mark.result.nhands)
                      + (result.lost[loser] - mark.result.lost[loser])
        IN  /\ ncards(loser) = mark.owned[loser] - gone
            /\ ncards(winner) = mark.owned[winner] + gone
            /\ result.lost[winner] = mark.result.lost[winner]

\* The winner reported is the player who owns the whole deck.
WinnerOwnsDeck == result.winner # None => ncards(result.winner) = kDeckSize

\* A game that is over has a winner, as the tests of simulate expect
\* ("EXPECT_NE(result.winner, PlayerEnum::kNone)", test_main.cpp:306).
FinishedGameHasWinner ==
    pc = "done" /\ (\E p \in Players : ncards(p) = 0) => result.winner # None
=============================================================================
