-------------------------------- MODULE MCIpc --------------------------------
(* SortInChild on small instances. *)
EXTENDS SortInChild

ThreeElements == <<2, 3, 1>>
=============================================================================
