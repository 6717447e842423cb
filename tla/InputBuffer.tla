----------------------------- MODULE InputBuffer -----------------------------
(***************************************************************************)
(* What the console input buffer gives its reader, however fast the        *)
(* terminal sends: a bounded queue that is exact in its length, whose      *)
(* content is exact only for a byte that waits alone.                      *)
(*                                                                         *)
(* The writer stores every byte where the READER is (shell_port.c:27).  A  *)
(* byte put into an empty queue is therefore what the reader gets; a byte  *)
(* put behind others may replace the oldest of them, and the queue grows   *)
(* at its end by whatever the slot there still holds.                      *)
(***************************************************************************)
EXTENDS Integers, Sequences

CONSTANTS
    Capacity,  \* how many bytes can wait
    Value,     \* what the terminal sends
    NUL        \* what a slot holds before anything was put

VARIABLES
    queue,     \* what the reader would get, the next one first
    put,       \* every byte put so far
    delivered  \* every byte the reader got

Init == queue = <<>> /\ put = <<>> /\ delivered = <<>>

\* What a slot can hold: nothing but bytes that were put, or NUL.
Leftover(s) == {NUL} \cup {s[i] : i \in 1 .. Len(s)}

\* A byte is put while there is room; a full queue drops it, which is no step.
Put(v) ==
    /\ Len(queue) < Capacity
    /\ put' = Append(put, v)
    /\ IF queue = <<>>
       THEN queue' = <<v>>
       ELSE \E h \in {Head(queue), v}, x \in Leftover(put) :
                queue' = Append([queue EXCEPT ![1] = h], x)
    /\ UNCHANGED delivered

\* The reader gets the head of the queue.
Get ==
    /\ queue # <<>>
    /\ delivered' = Append(delivered, Head(queue))
    /\ queue' = Tail(queue)
    /\ UNCHANGED put

Next == Get \/ \E v \in Value : Put(v)

Spec == Init /\ [][Next]_<<queue, put, delivered>>
=============================================================================
