--------------------------- MODULE MCUartConsole ---------------------------
(* Instances of the console input path for TLC.                            *)
EXTENDS UartConsole

\* Three slots, so that a waiting byte can be at the head, in the middle and at
\* the end; five bytes fill the ring, overflow it and go around it.
MCRing == 3
MCBytes == {"a", "b"}
=============================================================================
