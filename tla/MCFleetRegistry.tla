--------------------------- MODULE MCFleetRegistry ---------------------------
(* Instances of FleetRegistry for TLC.  Machines are interchangeable, and so  *)
(* are provisioners; symmetry is for safety only.                             *)
EXTENDS FleetRegistry, TLC

CONSTANTS m1, m2, p1, p2, b1

TwoMachines == {m1, m2}
TwoProvisioners == {p1, p2}
OneBoard == {b1}

Interchangeable == Permutations(Machines) \cup Permutations(Provisioners)
=============================================================================
