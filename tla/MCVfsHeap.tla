----------------------------- MODULE MCVfsHeap ------------------------------
(* VfsHeap on small instances. *)
EXTENDS VfsHeap

CONSTANTS long1, long2   \* two names that differ after 49 characters

Common(s) == IF s = long2 THEN long1 ELSE s

Symmetric == Permutations(FileNodes \ {root}) \union Permutations(FreeBlocks)
=============================================================================
