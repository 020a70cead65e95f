---------------------------- MODULE MC_MxNetconn ----------------------------
(* MxNetconn with the bounds given in the configurations.                  *)
EXTENDS MxNetconn
=============================================================================
