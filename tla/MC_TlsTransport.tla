--------------------------- MODULE MC_TlsTransport ---------------------------
(* TlsTransport with the bounds given in the configurations.               *)
EXTENDS TlsTransport
=============================================================================
