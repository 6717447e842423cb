--------------------------- MODULE BootFlowProofs ---------------------------
(***************************************************************************)
(* Proofs about the update cycle, for any images and any number of power   *)
(* losses.                                                                 *)
(***************************************************************************)
EXTENDS BootFlow, TLAPS

Slots == {"primary", "secondary"}

\* What is written to flash and where the boot stands.
BootTypeOK ==
    /\ slot \in [Slots -> Images \cup {Empty}]
    /\ trailer \in [magic : BOOLEAN, copy_done : BOOLEAN, image_ok : BOOLEAN,
                    pending : {"no", "test"}]
    /\ swap \in {"none", "test", "perm", "revert"}
    /\ pc \in {"boot_go", "swap", "validate", "init", "confirm", "console", "cli"}
    /\ proven \subseteq Images

\* The primary image is on trial.
OnTrial == trailer.magic /\ trailer.copy_done /\ ~trailer.image_ok

\* A swap under way has a verified image to bring in; once boot_go has looked,
\* the primary slot holds a verified image or no slot does.
ValidInv ==
    /\ swap # "none" => slot["secondary"] \in Valid
    /\ pc = "swap" => swap # "none"
    /\ pc = "validate" => slot["primary"] \in Valid \/ slot["secondary"] \notin Valid
    /\ pc \in {"validate", "init", "confirm", "console", "cli"} => swap = "none"

\* Where a proven image is while another one is tried: a test swap begins from
\* its console, so it is the image a trial would return to.
ProvenInv ==
    /\ proven \subseteq Valid
    /\ pc \in {"confirm", "console"} => slot["primary"] \in proven
    /\ trailer.pending # "no" =>
           asked /\ (slot["primary"] \in proven \/ slot["secondary"] \notin Valid)
    /\ pc \in {"validate", "init", "confirm"} => trailer.pending = "no"
    /\ swap = "test" => asked /\ slot["primary"] \in proven
    /\ swap = "revert" => slot["secondary"] \in proven
    /\ swap = "perm" => slot["primary"] \notin Valid
    /\ OnTrial => slot["secondary"] \in proven
    /\ slot["secondary"] \in proven => slot["primary"] \in proven \/ OnTrial
    /\ pc = "validate" /\ slot["secondary"] \in proven => slot["primary"] \in proven \/ asked

BootInv == BootTypeOK /\ ValidInv /\ CliIsLastResort /\ ProvenInv
-----------------------------------------------------------------------------
USE DEF Slots

\* The invariant holds in every reachable state.
LEMMA BootInvariant == Spec => []BootInv
<1> USE BootFlowAssumption
<1>1. Init => BootInv
  BY DEF Init, BootInv, BootTypeOK, ValidInv, CliIsLastResort, ProvenInv, OnTrial
<1>2. BootInv /\ [Next]_vars => BootInv'
  <2> SUFFICES ASSUME BootInv, [Next]_vars PROVE BootInv'
    OBVIOUS
  <2>1. CASE StartSwap
    <3>1. BootTypeOK'
      BY <2>1 DEF StartSwap, SwapType, BootInv, BootTypeOK
    <3>2. ValidInv' /\ CliIsLastResort'
      BY <2>1 DEF StartSwap, SwapType, BootInv, BootTypeOK, ValidInv, CliIsLastResort
    <3>3. ProvenInv'
      BY <2>1 DEF StartSwap, SwapType, BootInv, BootTypeOK, ValidInv, ProvenInv, OnTrial
    <3>4. QED
      BY <3>1, <3>2, <3>3 DEF BootInv
  <2>2. CASE RefuseSwap
    <3>1. BootTypeOK'
      BY <2>2 DEF RefuseSwap, SwapType, BootInv, BootTypeOK
    <3>2. ValidInv' /\ CliIsLastResort'
      BY <2>2 DEF RefuseSwap, SwapType, BootInv, BootTypeOK, ValidInv, CliIsLastResort
    <3>3. ProvenInv'
      BY <2>2 DEF RefuseSwap, SwapType, BootInv, BootTypeOK, ValidInv, ProvenInv, OnTrial
    <3>4. QED
      BY <3>1, <3>2, <3>3 DEF BootInv
  <2>3. CASE NoSwap
    <3>1. BootTypeOK'
      BY <2>3 DEF NoSwap, SwapType, BootInv, BootTypeOK
    <3>2. ValidInv' /\ CliIsLastResort'
      BY <2>3 DEF NoSwap, SwapType, BootInv, BootTypeOK, ValidInv, CliIsLastResort
    <3>3. ProvenInv'
      BY <2>3 DEF NoSwap, SwapType, BootInv, BootTypeOK, ValidInv, ProvenInv, OnTrial
    <3>4. QED
      BY <3>1, <3>2, <3>3 DEF BootInv
  <2>4. CASE FinishSwap
    <3>1. BootTypeOK'
      BY <2>4 DEF FinishSwap, BootInv, BootTypeOK
    <3>2. ValidInv' /\ CliIsLastResort'
      BY <2>4 DEF FinishSwap, BootInv, BootTypeOK, ValidInv, CliIsLastResort
    <3>3. ProvenInv'
      BY <2>4 DEF FinishSwap, BootInv, BootTypeOK, ValidInv, ProvenInv, OnTrial
    <3>4. QED
      BY <3>1, <3>2, <3>3 DEF BootInv
  <2>5. CASE do_boot
    <3>1. BootTypeOK'
      BY <2>5 DEF do_boot, BootInv, BootTypeOK
    <3>2. ValidInv' /\ CliIsLastResort'
      BY <2>5 DEF do_boot, BootInv, BootTypeOK, ValidInv, CliIsLastResort
    <3>3. ProvenInv'
      BY <2>5 DEF do_boot, BootInv, BootTypeOK, ValidInv, ProvenInv, OnTrial
    <3>4. QED
      BY <3>1, <3>2, <3>3 DEF BootInv
  <2>6. CASE FallIntoCli
    <3>1. BootTypeOK'
      BY <2>6 DEF FallIntoCli, BootInv, BootTypeOK
    <3>2. ValidInv' /\ CliIsLastResort'
      BY <2>6 DEF FallIntoCli, BootInv, BootTypeOK, ValidInv, CliIsLastResort
    <3>3. ProvenInv'
      BY <2>6 DEF FallIntoCli, BootInv, BootTypeOK, ValidInv, ProvenInv, OnTrial
    <3>4. QED
      BY <3>1, <3>2, <3>3 DEF BootInv
  <2>7. CASE CompleteInit
    <3>1. BootTypeOK'
      BY <2>7 DEF CompleteInit, BootInv, BootTypeOK
    <3>2. ValidInv' /\ CliIsLastResort'
      BY <2>7 DEF CompleteInit, BootInv, BootTypeOK, ValidInv, CliIsLastResort
    <3>3. ProvenInv'
      BY <2>7 DEF CompleteInit, BootInv, BootTypeOK, ValidInv, ProvenInv, OnTrial
    <3>4. QED
      BY <3>1, <3>2, <3>3 DEF BootInv
  <2>8. CASE boot_set_confirmed
    <3>1. BootTypeOK'
      BY <2>8 DEF boot_set_confirmed, BootInv, BootTypeOK
    <3>2. ValidInv' /\ CliIsLastResort'
      BY <2>8 DEF boot_set_confirmed, BootInv, BootTypeOK, ValidInv, CliIsLastResort
    <3>3. ProvenInv'
      BY <2>8 DEF boot_set_confirmed, BootInv, BootTypeOK, ValidInv, ProvenInv, OnTrial
    <3>4. QED
      BY <3>1, <3>2, <3>3 DEF BootInv
  <2>9. CASE ResetHung
    <3>1. BootTypeOK'
      BY <2>9 DEF ResetHung, BootInv, BootTypeOK
    <3>2. ValidInv' /\ CliIsLastResort'
      BY <2>9 DEF ResetHung, BootInv, BootTypeOK, ValidInv, CliIsLastResort
    <3>3. ProvenInv'
      BY <2>9 DEF ResetHung, BootInv, BootTypeOK, ValidInv, ProvenInv, OnTrial
    <3>4. QED
      BY <3>1, <3>2, <3>3 DEF BootInv
  <2>10. CASE prv_reboot
    <3>1. BootTypeOK'
      BY <2>10 DEF prv_reboot, BootInv, BootTypeOK
    <3>2. ValidInv' /\ CliIsLastResort'
      BY <2>10 DEF prv_reboot, BootInv, BootTypeOK, ValidInv, CliIsLastResort
    <3>3. ProvenInv'
      BY <2>10 DEF prv_reboot, BootInv, BootTypeOK, ValidInv, ProvenInv, OnTrial
    <3>4. QED
      BY <3>1, <3>2, <3>3 DEF BootInv
  <2>11. CASE prv_swap_images
    <3>1. BootTypeOK'
      BY <2>11 DEF prv_swap_images, BootInv, BootTypeOK
    <3>2. ValidInv' /\ CliIsLastResort'
      BY <2>11 DEF prv_swap_images, BootInv, BootTypeOK, ValidInv, CliIsLastResort
    <3>3. ProvenInv'
      BY <2>11 DEF prv_swap_images, BootInv, BootTypeOK, ValidInv, CliIsLastResort, ProvenInv, OnTrial
    <3>4. QED
      BY <3>1, <3>2, <3>3 DEF BootInv
  <2>12. CASE PowerLoss
    <3>1. BootTypeOK'
      BY <2>12 DEF PowerLoss, BootInv, BootTypeOK
    <3>2. ValidInv' /\ CliIsLastResort'
      BY <2>12 DEF PowerLoss, BootInv, BootTypeOK, ValidInv, CliIsLastResort
    <3>3. ProvenInv'
      BY <2>12 DEF PowerLoss, BootInv, BootTypeOK, ValidInv, ProvenInv, OnTrial
    <3>4. QED
      BY <3>1, <3>2, <3>3 DEF BootInv
  <2>13. CASE UNCHANGED vars
    BY <2>13 DEF vars, BootInv, BootTypeOK, ValidInv, CliIsLastResort, ProvenInv, OnTrial
  <2>14. QED
    BY <2>1, <2>2, <2>3, <2>4, <2>5, <2>6, <2>7, <2>8, <2>9, <2>10, <2>11, <2>12, <2>13
       DEF Next, Boot, boot_go
<1>3. QED
  BY <1>1, <1>2, PTL DEF Spec

\* The bootloader's console means that no slot held an image that verifies, and
\* the application's never runs from one that does not, for any images, any
\* history of swaps and any number of power losses
\* (bootloader main.c:83-89, mcuboot_config.h:12-13, 77).
THEOREM BootCliIsLastResort == Spec => []CliIsLastResort
<1>1. BootInv => CliIsLastResort
  BY DEF BootInv
<1>2. QED
  BY <1>1, BootInvariant, PTL

\* While a proven image is in a slot another one is started only after somebody
\* asked for a swap, once for each time: a trial that failed is not repeated
\* (shell_commands.c:37, application main.c:43-45).
THEOREM BootTrialOnlyOnRequest == Spec => TrialOnlyOnRequest
<1> DEFINE Start == pc' = "init" /\ pc # "init"
           Here == \E i \in proven : \E s \in DOMAIN slot : slot[s] = i
<1>1. BootInv /\ [Next]_vars => (Start /\ Here => slot["primary"] \in proven \/ asked)
  <2> SUFFICES ASSUME BootInv, [Next]_vars, Start, Here
               PROVE  slot["primary"] \in proven \/ asked
    OBVIOUS
  <2>1. do_boot
    BY DEF Next, Boot, boot_go, StartSwap, RefuseSwap,
           NoSwap, FinishSwap, FallIntoCli, CompleteInit,
           boot_set_confirmed, ResetHung, prv_reboot,
           prv_swap_images, PowerLoss, vars
  <2>2. slot["primary"] \in proven \/ slot["secondary"] \in proven
    BY DEF BootInv, BootTypeOK
  <2>3. QED
    BY <2>1, <2>2 DEF do_boot, BootInv, ProvenInv
<1>2. QED
  BY <1>1, BootInvariant, PTL DEF Spec, TrialOnlyOnRequest
=============================================================================
