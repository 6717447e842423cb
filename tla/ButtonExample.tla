---------------------------- MODULE ButtonExample ---------------------------
(***************************************************************************)
(* The button example, renode-docker/project/source/renode-example.c: one  *)
(* loop that samples the pin, reports a press when it is released, and     *)
(* prints its counter.  The pin moves between any two of its steps, also   *)
(* while a line goes out over the blocking USART.                          *)
(***************************************************************************)
EXTENDS Naturals

VARIABLES
    pc,                 \* "setup", "sample", "report", "count" or "print"
    pin,                \* GPIOA0
    button_is_pressed,
    i,
    presses,            \* history: how often the pin went high
    lines               \* history: lines "button pressed" sent

vars == <<pc, pin, button_is_pressed, i, presses, lines>>

Init ==
    /\ pc = "setup" /\ pin = FALSE /\ button_is_pressed = FALSE /\ i = 0
    /\ presses = 0 /\ lines = 0

\* The user.
Press ==
    /\ ~pin /\ pin' = TRUE /\ presses' = presses + 1
    /\ UNCHANGED <<pc, button_is_pressed, i, lines>>

Release == pin /\ pin' = FALSE /\ UNCHANGED <<pc, button_is_pressed, i, presses, lines>>

\* The main program, from one statement that touches the pin, the flag or the
\* USART to the next.
Step(from, to) == pc = from /\ pc' = to

\* clock_setup, gpio_setup, usart_setup, button_setup, and "hello world!".
Setup == Step("setup", "sample") /\ UNCHANGED <<pin, button_is_pressed, i, presses, lines>>

\* The flag decides which of the two conditions reads the pin, so that it is
\* read once.
Sample ==
    /\ Step("sample", IF button_is_pressed /\ ~pin THEN "report" ELSE "count")
    /\ button_is_pressed' = (button_is_pressed \/ pin)
    /\ UNCHANGED <<pin, i, presses, lines>>

Report ==
    /\ Step("report", "count")
    /\ lines' = lines + 1 /\ button_is_pressed' = FALSE
    /\ UNCHANGED <<pin, i, presses>>

Count ==
    /\ Step("count", IF i' % 100000 = 0 THEN "print" ELSE "sample")
    /\ i' = (i + 1) % 4294967296
    /\ UNCHANGED <<pin, button_is_pressed, presses, lines>>

PrintCounter == Step("print", "sample") /\ UNCHANGED <<pin, button_is_pressed, i, presses, lines>>

Main == Setup \/ Sample \/ Report \/ Count \/ PrintCounter

Next == Main \/ Press \/ Release

Spec == Init /\ [][Next]_vars

-----------------------------------------------------------------------------
(* Properties.                                                             *)

\* Every line "button pressed" stands for a press of its own, and a press that
\* was sampled and is not reported yet for one more: none is reported twice or
\* for a press that came while a line went out (renode-example.c:84-89).
OnePressOneLine == lines + (IF button_is_pressed THEN 1 ELSE 0) <= presses
=============================================================================
