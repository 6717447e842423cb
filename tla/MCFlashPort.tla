----------------------------- MODULE MCFlashPort -----------------------------
(* A small memory for TLC: one-bit bytes, two-byte words and pages, a       *)
(* one-page bootloader and two-page slots.                                  *)
EXTENDS FlashPort

MCBits == {0}
=============================================================================
