--------------------------- MODULE MCProcessTree ---------------------------
(* Instances of ProcessTree: PIDs other than the selected one are alike.    *)
EXTENDS ProcessTree, TLC

Symmetry == Permutations(Pids \ {Root})

=============================================================================
