------------------------------ MODULE MCWarGame ------------------------------
(* Small decks of two values, so that wars are frequent and nest; a war    *)
(* draws two cards.                                                          *)
EXTENDS WarGame

MCAllStrategies == 0 .. 8
MCUnshuffled == {2}
=============================================================================
