--------------------------- MODULE MC_MxDataplane ---------------------------
(* MxDataplane with model values for the two producers.                    *)
EXTENDS MxDataplane

CONSTANTS net, tcpip

Tcpip == {tcpip}
=============================================================================
