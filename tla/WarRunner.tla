------------------------------ MODULE WarRunner ------------------------------
(***************************************************************************)
(* The tournament of the War simulator: main reads the arguments, starts   *)
(* one asynchronous task for each ordered pair of chosen strategies, takes *)
(* their results in the order of submission and prints the table.          *)
(* Source: war-card-game-monte-carlo/src/main.cpp and simulate_strategy of *)
(* include/war-simulator/war-simulator.hpp.                                *)
(*                                                                         *)
(* What a game reports is a free choice among GameResults, so whatever the *)
(* tasks draw from the generator they share, torn or repeated draws        *)
(* included, is covered.  WarGame models the game itself.                  *)
(***************************************************************************)
EXTENDS Naturals, Sequences, FiniteSets

CONSTANTS
    NStrategies,  \* strategies.size(), 9 in the code
    kGameCount,   \* the games when no number is given, 1000000 in the code
    Uint32,       \* the values of a uint32_t, 2^32 in the code
    GameResults,  \* what simulate may report of one game
    Arguments,    \* the command lines: sequences of numbers and words
    Word          \* an argument that is not a number

ASSUME RunnerAssumption ==
    /\ NStrategies \in Nat \ {0}
    /\ kGameCount \in Nat \ {0} /\ Uint32 \in Nat \ {0}
    /\ Word \notin Nat
    /\ \A a \in Arguments : a \in Seq(Nat \cup {Word})
    /\ \A g \in GameResults :
         /\ g.winner \in 0 .. 2 /\ g.nhands \in Nat
         /\ g.war_hands_p1_lost \in Seq(Nat) /\ g.war_hands_p2_lost \in Seq(Nat)

VARIABLES
    pc,        \* "start", "launch", "collect", "printed", "refused" or "abort"
    args,      \* argv from argv[1] on
    n_games, selected_indices,
    futures,   \* the tasks in the order they were started
    results,   \* the rows main has collected
    played     \* history: the games each task has played

vars == <<pc, args, n_games, selected_indices, futures, results, played>>

-----------------------------------------------------------------------------
(* Arguments.                                                              *)

\* strtoul returns 0 for an argument that is not a number.
strtoul(a) == IF a = Word THEN 0 ELSE a

\* The number of games: 0, and so a word, stands for the default.
GamesWanted(a) == IF strtoul(a[1]) = 0 THEN kGameCount ELSE strtoul(a[1])

\* The strategies asked for, all of them when none is.
IndicesWanted(a) ==
    IF Len(a) > 1 THEN [k \in 1 .. Len(a) - 1 |-> strtoul(a[k + 1])]
                  ELSE [k \in 1 .. NStrategies |-> k - 1]

Usable(a) ==
    /\ a # <<>>
    /\ \A k \in DOMAIN IndicesWanted(a) : IndicesWanted(a)[k] < NStrategies

Init ==
    /\ pc = "start" /\ args \in Arguments
    /\ n_games = 0 /\ selected_indices = <<>>
    /\ futures = <<>> /\ results = <<>> /\ played = <<>>

\* Too few arguments or an unknown strategy: a message, and return 1.
Refuse ==
    /\ pc = "start" /\ ~Usable(args)
    /\ pc' = "refused"
    /\ UNCHANGED <<args, n_games, selected_indices, futures, results, played>>

ReadArguments ==
    /\ pc = "start" /\ Usable(args)
    /\ n_games' = GamesWanted(args) /\ selected_indices' = IndicesWanted(args)
    /\ pc' = "launch"
    /\ UNCHANGED <<args, futures, results, played>>

-----------------------------------------------------------------------------
(* Tasks.                                                                  *)

\* The number of tasks, and the pair of strategies of the k-th: j is the inner
\* loop of main.
NTasks == Len(selected_indices) * Len(selected_indices)
PairOf(k) ==
    LET n == Len(selected_indices)
    IN  <<selected_indices[1 + ((k - 1) \div n)], selected_indices[1 + ((k - 1) % n)]>>

\* The locals of simulate_strategy when it begins.
NewTask(pair) ==
    [s1 |-> pair[1], s2 |-> pair[2], i |-> 0, p1 |-> 0, p2 |-> 0, tie |-> 0, nhands |-> 0,
     total_p1_war_cards |-> 0, total_p1_war_count |-> 0,
     total_p2_war_cards |-> 0, total_p2_war_count |-> 0]

\* std::async with launch::async: the task runs from now on.
Launch ==
    /\ pc = "launch" /\ Len(futures) < NTasks
    /\ futures' = Append(futures, NewTask(PairOf(Len(futures) + 1)))
    /\ played' = Append(played, <<>>)
    /\ UNCHANGED <<pc, args, n_games, selected_indices, results>>

\* std::async cannot start a thread and throws; nothing catches it.
LaunchFails ==
    /\ pc = "launch" /\ Len(futures) < NTasks
    /\ pc' = "abort"
    /\ UNCHANGED <<args, n_games, selected_indices, futures, results, played>>

LaunchDone ==
    /\ pc = "launch" /\ Len(futures) = NTasks
    /\ pc' = "collect"
    /\ UNCHANGED <<args, n_games, selected_indices, futures, results, played>>

\* The sum of the numbers of s, added one after the other.
Total(s) ==
    LET sum[k \in 0 .. Len(s)] == IF k = 0 THEN 0 ELSE sum[k - 1] + s[k]
    IN  sum[Len(s)]

\* A counter of Results, p1 += 1.
Increment(count) == (count + 1) % Uint32

\* Mutant: the switch without its default branch, and no war counted.
AddGameNoTie(t, g) ==
    [t EXCEPT !.i = @ + 1, !.nhands = @ + g.nhands,
              !.p1 = IF g.winner = 1 THEN Increment(@) ELSE @,
              !.p2 = IF g.winner = 2 THEN Increment(@) ELSE @]

\* Mutant: the switch without its first break, a win of one side counted for
\* both.
AddGameFallsThrough(t, g) ==
    [t EXCEPT !.i = @ + 1, !.nhands = @ + g.nhands,
              !.p1 = IF g.winner = 1 THEN Increment(@) ELSE @,
              !.p2 = IF g.winner \in {1, 2} THEN Increment(@) ELSE @,
              !.tie = IF g.winner \notin {1, 2} THEN Increment(@) ELSE @]

\* The loop body: what one game adds to the task's accounts.  The wins and ties
\* are uint32_t and wrap; the other counters have 64 bits and are not bounded.
AddGame(t, g) ==
    [t EXCEPT !.i = @ + 1,
              !.nhands = @ + g.nhands,
              !.total_p1_war_cards = @ + Total(g.war_hands_p1_lost),
              !.total_p1_war_count = @ + Len(g.war_hands_p1_lost),
              !.total_p2_war_cards = @ + Total(g.war_hands_p2_lost),
              !.total_p2_war_count = @ + Len(g.war_hands_p2_lost),
              !.p1 = IF g.winner = 1 THEN Increment(@) ELSE @,
              !.p2 = IF g.winner = 2 THEN Increment(@) ELSE @,
              !.tie = IF g.winner \notin {1, 2} THEN Increment(@) ELSE @]

\* One game of the k-th task.
PlayGame(k) ==
    /\ pc \in {"launch", "collect"} /\ futures[k].i < n_games
    /\ \E g \in GameResults :
         /\ futures' = [futures EXCEPT ![k] = AddGame(@, g)]
         /\ played' = [played EXCEPT ![k] = Append(@, g)]
    /\ UNCHANGED <<pc, args, n_games, selected_indices, results>>

\* Mutant: one game too many is waited for.
FinishedLate(t) == t.i > n_games

\* The loop has ended and the future is ready.
Finished(t) == t.i = n_games

\* simulate_strategy divides the totals; without a lost war that is 0/0, which
\* prints as a not-a-number.  The average is kept as its two parts.
RowOf(t) ==
    [s1 |-> t.s1, s2 |-> t.s2, p1 |-> t.p1, p2 |-> t.p2, tie |-> t.tie,
     average_p1_war_lost |-> <<t.total_p1_war_cards, t.total_p1_war_count>>,
     average_p2_war_lost |-> <<t.total_p2_war_cards, t.total_p2_war_count>>,
     nhands |-> t.nhands, ngames |-> n_games]

-----------------------------------------------------------------------------
(* Collection.                                                             *)

\* Mutant: whichever task is ready first is collected first.
CollectReady ==
    /\ pc = "collect" /\ Len(results) < Len(futures)
    /\ \E k \in DOMAIN futures :
         Finished(futures[k]) /\ results' = Append(results, RowOf(futures[k]))
    /\ UNCHANGED <<pc, args, n_games, selected_indices, futures, played>>

\* fut.get(): waits for the next task in the order of submission.
Collect ==
    /\ pc = "collect" /\ Len(results) < Len(futures)
    /\ Finished(futures[Len(results) + 1])
    /\ results' = Append(results, RowOf(futures[Len(results) + 1]))
    /\ UNCHANGED <<pc, args, n_games, selected_indices, futures, played>>

\* print_vector, and return 0.
PrintTable ==
    /\ pc = "collect" /\ Len(results) = Len(futures)
    /\ pc' = "printed"
    /\ UNCHANGED <<args, n_games, selected_indices, futures, results, played>>

Main == Refuse \/ ReadArguments \/ Launch \/ LaunchFails \/ LaunchDone \/ Collect \/ PrintTable

Next == Main \/ \E k \in DOMAIN futures : PlayGame(k)

Spec == Init /\ [][Next]_vars

\* The scheduler: main runs on whenever it is not waiting, and while tasks have
\* games to play some of them runs on.
FairSpec ==
    /\ Spec /\ WF_vars(Main)
    /\ WF_vars(\E k \in DOMAIN futures : PlayGame(k))

-----------------------------------------------------------------------------
(* Properties.                                                             *)

\* Whatever order the tasks finish in, the rows main has collected are those of
\* the pairs in the order of the nested loops, and a printed table has a row
\* for every ordered pair (the two loops of main, fut.get).
RowsInOrder ==
    LET n == Len(selected_indices)
    IN  /\ \A i, j \in 1 .. n :
             LET k == (i - 1) * n + j
             IN  k <= Len(results) => /\ results[k].s1 = selected_indices[i]
                                      /\ results[k].s2 = selected_indices[j]
        /\ pc = "printed" => Len(results) = n * n

Wins(games, w) == Cardinality({g \in DOMAIN games : games[g].winner = w})
Hands(games) == Total([g \in DOMAIN games |-> games[g].nhands])

\* What a side lost in the wars of each game, and the average over all of them
\* as its two parts: the cards and the wars.
Lost1(games) == [g \in DOMAIN games |-> games[g].war_hands_p1_lost]
Lost2(games) == [g \in DOMAIN games |-> games[g].war_hands_p2_lost]
Average(lost) == <<Total([g \in DOMAIN lost |-> Total(lost[g])]),
                   Total([g \in DOMAIN lost |-> Len(lost[g])])>>

\* What a task has counted of the games it played, in counters that wrap.
CountsMatch(row, games) ==
    /\ row.p1 = Wins(games, 1) % Uint32 /\ row.p2 = Wins(games, 2) % Uint32
    /\ row.tie = Wins(games, 0) % Uint32

\* Every collected row is the account of the games its own task played: each
\* game is a win of one side or a tie, counted in 32 bits and so exact below
\* 2^32 games, the hands add up, and the averages are over all wars that side
\* lost (simulate_strategy).
RowsMatchGames ==
    \A k \in DOMAIN results :
        LET row == results[k]
            games == played[k]
        IN  /\ Len(games) = row.ngames
            /\ CountsMatch(row, games)
            /\ row.nhands = Hands(games)
            /\ row.average_p1_war_lost = Average(Lost1(games))
            /\ row.average_p2_war_lost = Average(Lost2(games))

\* The program always comes to an end: the table, a refusal of the arguments,
\* or the exception of a thread that could not be started (fut.get waits for
\* one task after the other).
Terminates == <>(pc \in {"printed", "refused", "abort"})

=============================================================================
