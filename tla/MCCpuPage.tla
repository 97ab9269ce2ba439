----------------------------- MODULE MCCpuPage -----------------------------
(* TLC instances of CpuPage: one or two topologies that come and go.         *)
EXTENDS CpuPage
=============================================================================
