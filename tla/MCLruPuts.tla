----------------------------- MODULE MCLruPuts ------------------------------
(* LRU_cache on small instances, with the value last put for each key      *)
(* remembered in "latest".                                                 *)
EXTENDS MCLru

VARIABLE latest

PutInit == Init /\ latest = [k \in Keys |-> NULL]

PutNext ==
  \/ \E k \in Keys, v \in Values : Put(k, v) /\ latest' = [latest EXCEPT ![k] = v]
  \/ /\ \/ \E c \in Capacities : createCache(c) \/ CreateRefused(c)
        \/ \E k \in Keys : get(k) \/ PutRefused(k) \/ Undefined(k)
        \/ NoCache \/ Exit
     /\ UNCHANGED latest

PutSpec == PutInit /\ [][PutNext]_<<vars, latest>>

(* A get never answers with an older value than the last one put, even     *)
(* when mallocs of nodes or entries have failed and a key is in the queue  *)
(* twice (lines 183-227, 240-247).                                         *)
NeverStale ==
  \A k \in Keys : mode = "ready" /\ Reachable(k) /\ findInHashMap(cache, k) # NULL
    => node[findInHashMap(cache, k)].value = latest[k]

FewerKeys == -1 .. 3
FewerCapacities == {0, 1, 3}
=============================================================================
