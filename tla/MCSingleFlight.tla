--------------------------- MODULE MCSingleFlight ---------------------------
(* TLC instances of SingleFlight: three request calls of one page.           *)
EXTENDS SingleFlight
=============================================================================
