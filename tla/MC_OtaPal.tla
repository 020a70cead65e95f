----------------------------- MODULE MC_OtaPal -----------------------------
(* OtaPal on small instances.                                              *)
EXTENDS OtaPal

(* Everywhere but between the change of the record and that of the bank.   *)
OutsideBankSwitch == Interruptible \ {"selectBank"}
=============================================================================
