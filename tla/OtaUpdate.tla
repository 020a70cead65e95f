----------------------------- MODULE OtaUpdate -----------------------------
(***************************************************************************)
(* What a dual-bank firmware update promises, apart from how the option    *)
(* bytes, the littlefs record and the RAM context achieve it.              *)
(*                                                                         *)
(* Two flash banks hold images.  One bank is mapped at reset.  An image    *)
(* that was accepted may stay there for ever; one that was not is only     *)
(* ever mapped on trial, while the other bank keeps an accepted image to   *)
(* go back to.  OtaPal implements this module.                             *)
(***************************************************************************)
CONSTANT Bank                  \* the flash banks

VARIABLES
  booted,                      \* the bank mapped at the next reset
  good,                        \* the banks that hold an accepted image
  trial                        \* TRUE while the booted image is on trial

avars == <<booted, good, trial>>

AInit == /\ booted \in Bank
         /\ good = {booted}
         /\ trial = FALSE

(* The other bank is erased to receive a new image: the fallback is lost.  *)
Overwrite == /\ ~trial
             /\ good' = {booted}
             /\ UNCHANGED <<booted, trial>>

(* The staged image is mapped; the image it replaces stays as fallback.    *)
StartTrial(b) == /\ ~trial
                 /\ b \notin good
                 /\ booted' = b
                 /\ trial' = TRUE
                 /\ UNCHANGED good

Accept == /\ trial
          /\ good' = good \cup {booted}
          /\ trial' = FALSE
          /\ UNCHANGED booted

(* Only an accepted image is ever gone back to, from a trial or not.       *)
GoBack(b) == /\ b \in good
             /\ booted' = b
             /\ trial' = FALSE
             /\ UNCHANGED good

ANext == \/ Overwrite
         \/ Accept
         \/ \E b \in Bank : StartTrial(b) \/ GoBack(b)

ASpec == AInit /\ [][ANext]_avars

(* Whatever is booted, an accepted image is at hand.                       *)
Recoverable == /\ good # {}
               /\ trial \/ booted \in good
=============================================================================
