------------------------------ MODULE MC_MxIpc ------------------------------
(* MxIpc with the bounds given in the configurations.                      *)
EXTENDS MxIpc
=============================================================================
