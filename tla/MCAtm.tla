------------------------------- MODULE MCAtm --------------------------------
(* AtmServer on small instances. *)
EXTENDS AtmServer

OneAmount == {1}
ZeroOrAbsent == {0, Absent}
=============================================================================
