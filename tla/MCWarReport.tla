----------------------------- MODULE MCWarReport -----------------------------
(***************************************************************************)
(* A tournament of two strategies.  The command lines reach every branch   *)
(* of the argument parser: none at all, a number alone, a word for the     *)
(* default number of games, a repeated strategy, a word for a strategy and *)
(* a strategy that does not exist.  Other files have up to three rows over *)
(* the columns the formatter sorts by, numbers and texts.                  *)
(***************************************************************************)
EXTENDS WarReport

Game(w, h, l1, l2) ==
    [winner |-> w, nhands |-> h, war_hands_p1_lost |-> l1, war_hands_p2_lost |-> l2]

MCGameResults ==
    {Game(1, 2, <<>>, <<5>>), Game(2, 3, <<3, 5>>, <<4>>), Game(0, 1, <<>>, <<>>)}

MCArguments ==
    {<<>>, <<1>>, <<2>>, <<Word, 1>>, <<2, 1, 1>>, <<1, Word, 1>>, <<1, 0, 2>>}

MCNumbers == 0 .. 8
MCCellWidth == [x \in 0 .. 9 |-> IF x = 9 THEN 3 ELSE IF x = 2 THEN 2 ELSE 1]
MCHeaderWidth == [column \in {"S1", "S2", "P1", "P2"} |-> 2]
MCOtherFiles ==
    UNION {UNION {{[rows |-> rows, columns |-> columns] :
                     rows \in [1 .. n -> [columns -> {1, 2, 9}]]} : n \in 0 .. 3} :
           columns \in SUBSET {"S2", "P2"} \ {{}}}
=============================================================================
