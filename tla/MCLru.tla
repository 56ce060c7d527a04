------------------------------- MODULE MCLru --------------------------------
(* LRU_cache on small instances. *)
EXTENDS LRU_cache

(* The keys and the capacities a user types. *)
SmallKeys == -1 .. 4
AnyCapacities == -1 .. 4

Symmetric == Permutations(Addresses) \union Permutations(Values)
=============================================================================
