----------------------------- MODULE MCHandover -----------------------------
(* The two images lie over each other in seven cells: the application's     *)
(* read_idx is where the bootloader's ring keeps its first byte, and its    *)
(* receive buffer is the bootloader's num_bytes.                            *)
EXTENDS Handover

MCRam == 1 .. 7
MCLayout ==
    [img \in Image |-> IF img = "bootloader" THEN [rx |-> 7, ring |-> 1]
                                             ELSE [rx |-> 2, ring |-> 3]]
MCBytes == {3, 4}
=============================================================================
