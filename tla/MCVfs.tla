------------------------------- MODULE MCVfs --------------------------------
(* VirtualFileSystem on small instances. *)
EXTENDS VirtualFileSystem, TLC

(* Names that are all stored as they are. *)
Whole(s) == s

Symmetric == Permutations(FileNodes \ {root})
=============================================================================
