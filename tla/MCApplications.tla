--------------------------- MODULE MCApplications ---------------------------
(* TLC instance of Applications: three windows, two of them open at first.   *)
EXTENDS Applications
W == 1..3
Two == {1, 2}
Titles == [w \in W |-> CASE w = 1 -> 2 [] w = 2 -> 1 [] w = 3 -> 2]
Plain == {2}
=============================================================================
