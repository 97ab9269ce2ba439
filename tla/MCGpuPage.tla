------------------------------ MODULE MCGpuPage ------------------------------
(* TLC instances of GpuPage: two adapters, at most two hardware changes.     *)
EXTENDS GpuPage, TLC

AdapterSymmetry == Permutations(Adapters)
=============================================================================
