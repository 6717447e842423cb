----------------------------- MODULE MCBootFlow -----------------------------
(* One image that works, one that verifies and hangs, one that does not     *)
(* verify, another that works.                                              *)
EXTENDS BootFlow

MCImages == {"old", "new", "hangs", "corrupt"}
MCValid == {"old", "new", "hangs"}
MCHealthy == {"old", "new"}
=============================================================================
