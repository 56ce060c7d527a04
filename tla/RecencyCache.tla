---------------------------- MODULE RecencyCache ----------------------------
(***************************************************************************)
(* What the program of LRU_cache.c promises its user: a cache of a fixed   *)
(* number of keys that forgets the key used longest ago.                   *)
(***************************************************************************)
EXTENDS Integers, Sequences, FiniteSets, SequencesExt

CONSTANTS
  Keys,          \* integers a user may type as a key
  Values,
  Capacities,    \* integers a user may type as a capacity
  CACHE_CAPACITY \* keys and capacities are below it

VARIABLES
  mode,      \* "none", "ready", "broken", "exited" or "undefined"
  capacity,
  recent,    \* the keys kept, the one used last first
  store,     \* their values
  reply      \* what the last command printed

vars == <<mode, capacity, recent, store, reply>>

Says(what)     == [says |-> what]
Shows(v)       == [says |-> "value", value |-> v]
Added(k)       == [says |-> "added", key |-> k]

Init == /\ mode = "none" /\ capacity = 0 /\ recent = <<>> /\ store = <<>>
        /\ reply = Says("nothing")

(* A C remainder has the sign of the dividend. *)
Remainder(a, b) == IF a >= 0 THEN a % b ELSE -((-a) % b)

(* There is a cache, and it can look for k. *)
Serves(k) == mode = "ready" /\ Remainder(k, capacity) >= 0

Without(k) == RemoveAt(recent, CHOOSE i \in DOMAIN recent : recent[i] = k)

Create(c) ==
  /\ mode = "none" /\ c < CACHE_CAPACITY
  /\ mode' \in IF c > 0 THEN {"ready", "broken"} ELSE {"broken"}
  /\ capacity' = c /\ reply' = Says("nothing")
  /\ UNCHANGED <<recent, store>>

Hit(k) ==
  /\ Serves(k) /\ k \in ToSet(recent)
  /\ recent' = <<k>> \o Without(k) /\ reply' = Shows(store[k])
  /\ UNCHANGED <<mode, capacity, store>>

Miss(k) ==
  /\ mode = "none" \/ (Serves(k) /\ k \notin ToSet(recent))
  /\ reply' = Says("null")
  /\ UNCHANGED <<mode, capacity, recent, store>>

Update(k, v) ==
  /\ Serves(k) /\ k \in ToSet(recent)
  /\ recent' = <<k>> \o Without(k) /\ store' = [store EXCEPT ![k] = v]
  /\ reply' = Says("nothing")
  /\ UNCHANGED <<mode, capacity>>

(* What is kept when one more key comes: all but the least recent, if full. *)
Kept == IF Len(recent) >= capacity THEN Front(recent) ELSE recent
Keep(s) == [h \in ToSet(s) |-> store[h]]

Add(k, v) ==
  /\ Serves(k) /\ k >= 0 /\ k < CACHE_CAPACITY /\ k \notin ToSet(recent)
  /\ recent' = <<k>> \o Kept
  /\ store' = [h \in ToSet(recent') |-> IF h = k THEN v ELSE store[h]]
  /\ reply' = Added(k)
  /\ UNCHANGED <<mode, capacity>>

(* Out of memory after the least recent key made room. *)
AddFails(k) ==
  /\ Serves(k) /\ k >= 0 /\ k < CACHE_CAPACITY /\ k \notin ToSet(recent)
  /\ recent' = Kept /\ store' = Keep(Kept)
  /\ reply' = Says("no memory")
  /\ UNCHANGED <<mode, capacity>>

Refuse ==
  /\ mode \in {"none", "ready", "broken"}
  /\ \/ reply' \in {Says("invalid"), Says("too big"), Says("exists"), Says("no cache")}
     \/ mode = "none" /\ reply' = Says("no memory")
  /\ UNCHANGED <<mode, capacity, recent, store>>

(* Only a cache that could not be made, or a key below 0, may bring the    *)
(* program down.                                                           *)
Falls ==
  /\ \/ mode = "broken"
     \/ mode = "ready" /\ \E k \in Keys : ~Serves(k)
  /\ mode' = "undefined"
  /\ UNCHANGED <<capacity, recent, store, reply>>

Exit ==
  /\ mode \in {"none", "ready", "broken"}
  /\ mode' = "exited" /\ recent' = <<>> /\ store' = <<>> /\ reply' = Says("nothing")
  /\ UNCHANGED capacity

Next == \/ \E c \in Capacities : Create(c)
        \/ \E k \in Keys : Hit(k) \/ Miss(k) \/ AddFails(k)
        \/ \E k \in Keys, v \in Values : Update(k, v) \/ Add(k, v)
        \/ Refuse \/ Falls \/ Exit

Spec == Init /\ [][Next]_vars
=============================================================================
