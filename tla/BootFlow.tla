------------------------------ MODULE BootFlow ------------------------------
(***************************************************************************)
(* The update cycle: a swap asked for at a console, the bootloader's test  *)
(* swap, the trial run of the new image and its confirmation or return.    *)
(* Sources: bootloader/src/main.c, application/src/main.c, and prv_reboot, *)
(* prv_swap_images of shell_commands.c.  boot_go, boot_set_pending and     *)
(* boot_set_confirmed are MCUboot's and modelled from their use here and   *)
(* from mcuboot_config.h (swap using move, validated primary, bootstrap).  *)
(*                                                                         *)
(* Slots and trailers are flash and survive a reset; everything else is    *)
(* forgotten.  A swap that a power loss cuts is taken up by the next boot. *)
(***************************************************************************)
EXTENDS Naturals

CONSTANTS
    Images,       \* the images flashed by hand before the first boot
    Valid,        \* those whose signature verifies
    Healthy,      \* those whose initialisation completes
    Empty,        \* an erased slot
    MaxPowerLoss  \* bound: power losses in a behaviour

ASSUME BootFlowAssumption ==
    Valid \subseteq Images /\ Healthy \subseteq Valid /\ Empty \notin Images
    /\ MaxPowerLoss \in Nat

VARIABLES
    slot,     \* the image in "primary" and "secondary"
    trailer,  \* primary's magic, copy_done and image_ok; secondary's pending mark
    swap,     \* the swap under way: "none", "test", "perm" or "revert"
    pc,
    losses,
    proven,   \* history: images that reached their confirmation step
    asked     \* history: a swap was asked for since an image was last started

vars == <<slot, trailer, swap, pc, losses, proven, asked>>

\* Two different images or erased slots, without trailers.
Init ==
    /\ slot \in [{"primary", "secondary"} -> Images \cup {Empty}]
    /\ slot["primary"] = slot["secondary"] => slot["primary"] = Empty
    /\ trailer = [magic |-> FALSE, copy_done |-> FALSE, image_ok |-> FALSE, pending |-> "no"]
    /\ swap = "none" /\ pc = "boot_go" /\ losses = 0 /\ proven = {} /\ asked = FALSE

-----------------------------------------------------------------------------
(* MCUboot: boot_go.                                                       *)

SwapType ==
    IF trailer.pending # "no" THEN trailer.pending
    ELSE IF trailer.magic /\ trailer.copy_done /\ ~trailer.image_ok THEN "revert"
    \* MCUBOOT_BOOTSTRAP
    ELSE IF slot["primary"] \notin Valid /\ slot["secondary"] \in Valid THEN "perm"
    ELSE "none"

\* A new swap starts, or the interrupted one goes on.
StartSwap ==
    /\ pc = "boot_go" /\ pc' = "swap"
    /\ \/ swap # "none" /\ UNCHANGED swap
       \/ swap = "none" /\ SwapType # "none" /\ slot["secondary"] \in Valid /\ swap' = SwapType
    /\ UNCHANGED <<slot, trailer, losses, proven, asked>>

\* An invalid secondary image is erased instead, and the primary one kept.
RefuseSwap ==
    /\ pc = "boot_go" /\ swap = "none" /\ SwapType # "none" /\ slot["secondary"] \notin Valid
    /\ pc' = "validate"
    /\ slot' = [slot EXCEPT !["secondary"] = Empty]
    /\ trailer' = [trailer EXCEPT !.pending = "no", !.image_ok = TRUE]
    /\ UNCHANGED <<swap, losses, proven, asked>>

NoSwap ==
    /\ pc = "boot_go" /\ swap = "none" /\ SwapType = "none"
    /\ pc' = "validate"
    /\ UNCHANGED <<slot, trailer, swap, losses, proven, asked>>

FinishSwap ==
    /\ pc = "swap" /\ pc' = "validate"
    /\ slot' = [primary |-> slot["secondary"], secondary |-> slot["primary"]]
    /\ trailer' = [magic |-> TRUE, copy_done |-> TRUE, image_ok |-> swap # "test",
                   pending |-> "no"]
    /\ swap' = "none"
    /\ UNCHANGED <<losses, proven, asked>>

boot_go == StartSwap \/ RefuseSwap \/ NoSwap \/ FinishSwap

-----------------------------------------------------------------------------
(* The bootloader's main, with what boot_go returned.                      *)

\* Mutant: the image is started whatever boot_go returned.
do_boot_unchecked ==
    /\ pc = "validate" /\ pc' = "init" /\ asked' = FALSE
    /\ UNCHANGED <<slot, trailer, swap, losses, proven>>

do_boot ==
    /\ pc = "validate" /\ slot["primary"] \in Valid
    /\ pc' = "init" /\ asked' = FALSE
    /\ UNCHANGED <<slot, trailer, swap, losses, proven>>

\* "No bootable image found. Falling into Bootloader CLI"
FallIntoCli ==
    /\ pc = "validate" /\ slot["primary"] \notin Valid
    /\ pc' = "cli"
    /\ UNCHANGED <<slot, trailer, swap, losses, proven, asked>>

-----------------------------------------------------------------------------
(* The application's main.                                                 *)

\* Mutant: the image is marked stable before its initialisation.
CompleteInit_confirming_first ==
    /\ pc = "init"
    /\ trailer' = [trailer EXCEPT !.image_ok = TRUE]
    /\ \/ slot["primary"] \in Healthy /\ pc' = "confirm"
             /\ proven' = proven \cup {slot["primary"]}
       \/ slot["primary"] \notin Healthy /\ UNCHANGED <<pc, proven>>
    /\ UNCHANGED <<slot, swap, losses, asked>>

\* prv_enable_vfp, uart_boot, cli_idn.  An image that is not healthy stops here.
CompleteInit ==
    /\ pc = "init" /\ slot["primary"] \in Healthy
    /\ pc' = "confirm" /\ proven' = proven \cup {slot["primary"]}
    /\ UNCHANGED <<slot, trailer, swap, losses, asked>>

\* boot_set_confirmed, twice: each writes image_ok, finds nothing to confirm or
\* fails, and either way the console comes next.
boot_set_confirmed ==
    /\ pc = "confirm" /\ pc' = "console"
    /\ \/ trailer' = [trailer EXCEPT !.image_ok = @ \/ trailer.magic]
       \/ UNCHANGED trailer
    /\ UNCHANGED <<slot, swap, losses, proven, asked>>

-----------------------------------------------------------------------------
(* Either console, and the power.                                          *)

prv_reboot ==
    /\ pc \in {"console", "cli"} /\ pc' = "boot_go"
    /\ UNCHANGED <<slot, trailer, swap, losses, proven, asked>>

\* Mutant: const int permanent = 1.
prv_swap_images_permanent ==
    /\ pc \in {"console", "cli"}
    /\ \/ /\ trailer' = [trailer EXCEPT !.pending = "perm"]
          /\ asked' = TRUE /\ pc' = "boot_go"
       \/ UNCHANGED <<trailer, asked, pc>>
    /\ UNCHANGED <<slot, swap, losses, proven>>

\* boot_set_pending(0) marks the secondary image and the system reboots, or
\* fails and the console goes on.
prv_swap_images ==
    /\ pc \in {"console", "cli"}
    /\ \/ /\ trailer' = [trailer EXCEPT !.pending = IF @ = "no" THEN "test" ELSE @]
          /\ asked' = TRUE /\ pc' = "boot_go"
       \/ UNCHANGED <<trailer, asked, pc>>
    /\ UNCHANGED <<slot, swap, losses, proven>>

PowerLoss ==
    /\ losses < MaxPowerLoss /\ losses' = losses + 1
    /\ pc' = "boot_go"
    /\ UNCHANGED <<slot, trailer, swap, proven, asked>>

\* Somebody may reset a system that hangs in its initialisation.  Nothing in the
\* code starts or feeds a watchdog, so this need never happen.
ResetHung ==
    /\ pc = "init" /\ slot["primary"] \notin Healthy
    /\ pc' = "boot_go"
    /\ UNCHANGED <<slot, trailer, swap, losses, proven, asked>>

Boot == boot_go \/ do_boot \/ FallIntoCli \/ CompleteInit \/ boot_set_confirmed

Next == Boot \/ ResetHung \/ prv_reboot \/ prv_swap_images \/ PowerLoss

Spec == Init /\ [][Next]_vars

\* The processor runs on; nobody has to type or to press the reset button.
FairSpec == Spec /\ WF_vars(Boot)

-----------------------------------------------------------------------------
(* Properties.                                                             *)

\* While some image has shown that it can reach its confirmation, another one
\* is started only after somebody asked for a swap, and once for each time:
\* a failed trial is not repeated (shell_commands.c:37, application main.c:43-45).
TrialOnlyOnRequest ==
    [][pc' = "init" /\ pc # "init" /\ (\E i \in proven : \E s \in DOMAIN slot : slot[s] = i)
         => slot["primary"] \in proven \/ asked]_vars

\* The bootloader's own console means that no slot held an image it could
\* start, and the application's never runs from an image that did not verify
\* (bootloader main.c:83-89, mcuboot_config.h:12-13, 77).
CliIsLastResort ==
    /\ pc = "cli" => \A s \in DOMAIN slot : slot[s] \notin Valid
    /\ pc \in {"init", "confirm", "console"} => slot["primary"] \in Valid

\* Once an image has worked, every reset with no new swap asked for leads to an
\* application's console with nobody's help: one reset brings back a system
\* that hangs in a trial, wherever the power failed on the way.  Nothing is
\* said of a hung system nobody resets (shell_commands.c:37-40, application
\* main.c:45-50).
ComesBack == (pc = "boot_go" /\ proven # {} /\ ~asked) ~> pc = "console"
=============================================================================
