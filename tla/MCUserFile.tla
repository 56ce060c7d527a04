----------------------------- MODULE MCUserFile -----------------------------
(* UserFile on small instances. *)
EXTENDS UserFile, TLC

Symmetric == Permutations(Data) \union Permutations(Ids)
=============================================================================
