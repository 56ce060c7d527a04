------------------------------ MODULE LRU_cache ------------------------------
(***************************************************************************)
(* LRU_cache.c: a doubly linked queue of nodes in the heap, most recent    *)
(* first, and a chained hash map from keys to those nodes.  A bucket is a  *)
(* sequence, head first.                                                   *)
(***************************************************************************)
EXTENDS Integers, Sequences, FiniteSets, SequencesExt

CONSTANTS
  Keys, Values, Capacities, CACHE_CAPACITY,
  Addresses,     \* where malloc may put a queue node
  NULL,
  NoMemory       \* which mallocs may fail: "cache", "node", "entry"

ASSUME CacheAssumption ==
  /\ Keys \subseteq Int /\ Capacities \subseteq Int /\ CACHE_CAPACITY \in Nat
  /\ NULL \notin Addresses /\ NoMemory \subseteq {"cache", "node", "entry"}

VARIABLES
  mode,     \* "none", "ready", "broken" (no hash map), "exited", "undefined"
  cache,    \* the LRUCache structure
  node,     \* the queue nodes that are allocated
  reply     \* what the last command printed

vars == <<mode, cache, node, reply>>

Says(what)     == [says |-> what]
Shows(v)       == [says |-> "value", value |-> v]
Added(k)       == [says |-> "added", key |-> k]

Emptied(c, h) == [capacity |-> c, currentSize |-> 0, front |-> NULL, rear |-> NULL, hashMap |-> h]

Init == /\ mode = "none" /\ cache = Emptied(0, <<>>) /\ node = <<>>
        /\ reply = Says("nothing")

-----------------------------------------------------------------------------
(* The hash map. *)

(* A C remainder has the sign of the dividend. *)
hashValue(k) == IF k >= 0 THEN k % cache.capacity ELSE -((-k) % cache.capacity)

(* Nothing is defined of a division by zero, a bucket before the first, or *)
(* a hash map that was not allocated.                                      *)
Reachable(k) == mode = "ready" /\ hashValue(k) >= 0

Bucket(c, k) == c.hashMap[hashValue(k)]

findInHashMap(c, k) ==
  LET hits == {i \in DOMAIN Bucket(c, k) : Bucket(c, k)[i].key = k}
  IN  IF hits = {} THEN NULL ELSE Bucket(c, k)[CHOOSE i \in hits : \A h \in hits : i <= h].address

(* Slip: the new entry takes the place of its bucket's chain. *)
InsertSlip(c, k, a) ==
  IF findInHashMap(c, k) # NULL THEN c
  ELSE [c EXCEPT !.hashMap[hashValue(k)] = <<[key |-> k, address |-> a]>>]

insertToHashMap(c, k, a) ==
  IF findInHashMap(c, k) # NULL THEN c
  ELSE [c EXCEPT !.hashMap[hashValue(k)] = <<[key |-> k, address |-> a]>> \o @]

deleteFromHashMap(c, k) ==
  IF findInHashMap(c, k) = NULL THEN c
  ELSE LET b == Bucket(c, k)
           i == CHOOSE i \in DOMAIN b : b[i].key = k /\ \A h \in 1 .. i - 1 : b[h].key # k
       IN  [c EXCEPT !.hashMap[hashValue(k)] = RemoveAt(@, i)]

-----------------------------------------------------------------------------
(* The queue.  Each operator gives the structure and the nodes it leaves.  *)

State(c, n) == [cache |-> c, node |-> n]

SetNext(n, a, x)     == [n EXCEPT ![a].next = x]
SetPrevious(n, a, x) == [n EXCEPT ![a].previous = x]

(* Slip: the rear stays where it was when the last node moves. *)
MoveSlip(c, n, a) ==
  IF c.front = a THEN State(c, n)
  ELSE LET p  == n[a].previous
           x  == n[a].next
           n1 == IF p # NULL THEN SetNext(n, p, x) ELSE n
           n2 == IF x # NULL THEN SetPrevious(n1, x, p) ELSE n1
           n3 == SetPrevious(SetNext(n2, a, c.front), a, NULL)
           n4 == IF c.front # NULL THEN SetPrevious(n3, c.front, a) ELSE n3
       IN  State([c EXCEPT !.front = a], n4)

moveToHead(c, n, a) ==
  IF c.front = a THEN State(c, n)
  ELSE LET p  == n[a].previous
           x  == n[a].next
           n1 == IF p # NULL THEN SetNext(n, p, x) ELSE n
           n2 == IF x # NULL THEN SetPrevious(n1, x, p) ELSE n1
           r  == IF c.rear = a THEN p ELSE c.rear
           n3 == IF c.rear = a /\ r # NULL THEN SetNext(n2, r, NULL) ELSE n2
           n4 == SetPrevious(SetNext(n3, a, c.front), a, NULL)
           n5 == IF c.front # NULL THEN SetPrevious(n4, c.front, a) ELSE n4
       IN  State([c EXCEPT !.front = a, !.rear = r], n5)

Free(n, s) == [a \in DOMAIN n \ s |-> n[a]]

(* Slip: the front is forgotten but not the rear of a queue of one. *)
TailSlip(c, n) ==
  IF c.rear = NULL THEN State(c, n)
  ELSE IF c.front = c.rear
  THEN State([c EXCEPT !.front = NULL, !.currentSize = @ - 1], Free(n, {c.rear}))
  ELSE LET r == n[c.rear].previous
       IN  State([c EXCEPT !.rear = r, !.currentSize = @ - 1],
                 Free(SetNext(n, r, NULL), {c.rear}))

deleteFromTail(c, n) ==
  IF c.rear = NULL THEN State(c, n)
  ELSE IF c.front = c.rear
  THEN State([c EXCEPT !.front = NULL, !.rear = NULL, !.currentSize = @ - 1], Free(n, {c.rear}))
  ELSE LET r == n[c.rear].previous
       IN  State([c EXCEPT !.rear = r, !.currentSize = @ - 1],
                 Free(SetNext(n, r, NULL), {c.rear}))

(* Slip: the entry of the evicted key stays in the hash map. *)
RoomSlip(c, n) ==
  IF c.currentSize >= c.capacity THEN deleteFromTail(c, n) ELSE State(c, n)

(* A full queue loses its last node and that node's hash entry. *)
MakeRoom(c, n) ==
  IF c.currentSize >= c.capacity
  THEN deleteFromTail(deleteFromHashMap(c, n[c.rear].key), n)
  ELSE State(c, n)

PushFront(c, n, a, k, v) ==
  LET new == [key |-> k, value |-> v, previous |-> NULL, next |-> c.front]
      n1  == [b \in DOMAIN n \union {a} |-> IF b = a THEN new ELSE n[b]]
      n2  == IF c.front # NULL THEN SetPrevious(n1, c.front, a) ELSE n1
  IN  State([c EXCEPT !.front = a, !.rear = IF @ = NULL THEN a ELSE @], n2)

-----------------------------------------------------------------------------
(* The commands. *)

Becomes(s) == cache' = s.cache /\ node' = s.node

(* A capacity of 0 gets no buckets; a negative one asks malloc for more    *)
(* than there is.  Whatever becomes of the hash map, the cache stays.      *)
createCache(c) ==
  /\ mode = "none" /\ c < CACHE_CAPACITY
  /\ \/ c > 0 /\ mode' = "ready" /\ cache' = Emptied(c, [b \in 0 .. c - 1 |-> <<>>])
     \/ (c <= 0 \/ "cache" \in NoMemory) /\ mode' = "broken" /\ cache' = Emptied(c, <<>>)
  /\ reply' = Says("nothing") /\ UNCHANGED node

(* Too big, there is one already, or no memory for it (lines 253-264). *)
CreateRefused(c) ==
  /\ mode \in {"none", "ready", "broken"}
  /\ \/ c >= CACHE_CAPACITY /\ reply' = Says("too big")
     \/ c < CACHE_CAPACITY /\ mode # "none" /\ reply' = Says("exists")
     \/ /\ c < CACHE_CAPACITY /\ mode = "none" /\ "cache" \in NoMemory
        /\ reply' = Says("no memory")
  /\ UNCHANGED <<mode, cache, node>>

NoCache ==
  /\ mode = "none"
  /\ reply' = Says("no cache")
  /\ UNCHANGED <<mode, cache, node>>

(* Slip: what is read stays where it is in the queue. *)
GetSlip(k) ==
  /\ mode = "none" \/ Reachable(k)
  /\ LET a == IF mode = "none" THEN NULL ELSE findInHashMap(cache, k)
     IN  reply' = IF a = NULL THEN Says("null") ELSE Shows(node[a].value)
  /\ UNCHANGED <<mode, cache, node>>

get(k) ==
  /\ mode = "none" \/ Reachable(k)
  /\ LET a == IF mode = "none" THEN NULL ELSE findInHashMap(cache, k) IN
       IF a = NULL
       THEN reply' = Says("null") /\ UNCHANGED <<cache, node>>
       ELSE reply' = Shows(node[a].value) /\ Becomes(moveToHead(cache, node, a))
  /\ UNCHANGED mode

Acceptable(k) == k >= 0 /\ k < CACHE_CAPACITY

PutRefused(k) ==
  /\ mode \in {"none", "ready", "broken"} /\ ~Acceptable(k)
  /\ reply' = Says("invalid")
  /\ UNCHANGED <<mode, cache, node>>

(* Slip: the node moves to the front with the value it had. *)
PutExistingSlip(k, v) ==
  /\ Acceptable(k) /\ Reachable(k) /\ findInHashMap(cache, k) # NULL
  /\ Becomes(moveToHead(cache, node, findInHashMap(cache, k)))
  /\ reply' = Says("nothing") /\ UNCHANGED mode

PutExisting(k, v) ==
  /\ Acceptable(k) /\ Reachable(k) /\ findInHashMap(cache, k) # NULL
  /\ LET a == findInHashMap(cache, k)
     IN  Becomes(moveToHead(cache, [node EXCEPT ![a].value = v], a))
  /\ reply' = Says("nothing") /\ UNCHANGED mode

(* The key is new: the queue gets its node even when the hash map gets no  *)
(* entry, and loses its last node even when there is no memory for either. *)
PutNew(k, v) ==
  /\ Acceptable(k) /\ Reachable(k) /\ findInHashMap(cache, k) = NULL
  /\ LET s == MakeRoom(cache, node) IN
       \/ "node" \in NoMemory /\ reply' = Says("no memory") /\ Becomes(s)
       \/ \E a \in Addresses \ DOMAIN s.node :
            /\ reply' = Added(k)
            /\ LET t == PushFront(s.cache, s.node, a, k, v)
                   entered == {insertToHashMap(t.cache, k, a)}
                                \union IF "entry" \in NoMemory THEN {t.cache} ELSE {}
               IN  \E c \in entered : Becomes(State([c EXCEPT !.currentSize = @ + 1], t.node))
  /\ UNCHANGED mode

(* A command that reaches for a bucket that is not there. *)
Undefined(k) ==
  /\ mode \in {"ready", "broken"} /\ ~(mode = "ready" /\ Reachable(k))
  /\ mode' = "undefined"
  /\ UNCHANGED <<cache, node, reply>>

(* The nodes met from a on. *)
From(a, n) ==
  LET last == Cardinality(DOMAIN n) + 1
      at[i \in 1 .. last] ==
        IF i = 1 THEN a ELSE IF at[i - 1] \in DOMAIN n THEN n[at[i - 1]].next ELSE NULL
  IN  SubSeq(at, 1, Cardinality({i \in 1 .. last : at[i] # NULL}))

Queue == From(cache.front, node)

(* Without buckets, freeMemory goes astray unless it expects none. *)
Exit ==
  /\ mode \in {"none", "ready", "broken"}
  /\ IF mode = "broken" /\ cache.capacity > 0
     THEN mode' = "undefined" /\ UNCHANGED <<cache, node, reply>>
     ELSE /\ mode' = "exited" /\ reply' = Says("nothing")
          /\ node' = Free(node, ToSet(Queue))
          /\ cache' = Emptied(cache.capacity, <<>>)

Put(k, v) == PutExisting(k, v) \/ PutNew(k, v)

Next == \/ \E c \in Capacities : createCache(c) \/ CreateRefused(c)
        \/ \E k \in Keys : get(k) \/ PutRefused(k) \/ Undefined(k)
        \/ \E k \in Keys, v \in Values : Put(k, v)
        \/ NoCache \/ Exit

Spec == Init /\ [][Next]_vars

-----------------------------------------------------------------------------
(* Every variable has its type. *)
Pointers  == Addresses \union {NULL}
QueueNode == [key : Keys, value : Values, previous : Pointers, next : Pointers]
HashNode  == [key : Keys, address : Addresses]
LRUCache  == [capacity : Capacities \union {0}, currentSize : Nat, front : Pointers, rear : Pointers,
              hashMap : [DOMAIN cache.hashMap -> Seq(HashNode)]]

TypeOK ==
  /\ mode \in {"none", "ready", "broken", "exited", "undefined"}
  /\ cache \in LRUCache /\ {cache.front, cache.rear} \subseteq DOMAIN node \union {NULL}
  /\ mode = "ready" => cache.capacity > 0 /\ DOMAIN cache.hashMap = 0 .. cache.capacity - 1
  /\ DOMAIN node \subseteq Addresses /\ node \in [DOMAIN node -> QueueNode]

(* The queue is one doubly linked list: read forwards from the front it    *)
(* goes through every allocated node and ends at the rear, its backward    *)
(* links are the same list reversed, and currentSize is its length and at  *)
(* most the capacity (lines 110-172, 195-223).                             *)
WellLinked ==
  LET q == Queue IN
  /\ Len(q) = cache.currentSize /\ ToSet(q) = DOMAIN node
  /\ Cardinality(ToSet(q)) = Len(q)
  /\ mode = "ready" => Len(q) <= cache.capacity
  /\ cache.rear = IF q = <<>> THEN NULL ELSE Last(q)
  /\ \A i \in DOMAIN q : node[q[i]].previous = IF i = 1 THEN NULL ELSE q[i - 1]

Entries == UNION {ToSet(cache.hashMap[b]) : b \in DOMAIN cache.hashMap}

(* A lookup never follows a pointer to freed memory: each entry of the     *)
(* hash map is in its key's bucket and points to an allocated node of that *)
(* key, and no key has two, even when mallocs of nodes or entries have     *)
(* failed (lines 37-108, 195-200).                                         *)
NoDangling ==
  /\ \A e \in Entries : e.address \in DOMAIN node /\ node[e.address].key = e.key
  /\ \A b \in DOMAIN cache.hashMap : \A e \in ToSet(cache.hashMap[b]) : hashValue(e.key) = b
  /\ \A b \in DOMAIN cache.hashMap : \A i, h \in DOMAIN cache.hashMap[b] :
       cache.hashMap[b][i].key = cache.hashMap[b][h].key => i = h

(* As long as there is memory for entries, every node can be looked up as  *)
(* well: queue and hash map hold the same keys, each once (lines 183-200,  *)
(* 226).                                                                   *)
Indexed ==
  /\ NoDangling
  /\ \A a \in DOMAIN node : [key |-> node[a].key, address |-> a] \in Entries

(* The program keeps the promise of RecencyCache: the keys of the queue in *)
(* its order, with their values.                                           *)
Recent == LET q == Queue IN [i \in DOMAIN q |-> node[q[i]].key]
Store  == [k \in {node[a].key : a \in DOMAIN node} |->
             node[CHOOSE a \in DOMAIN node : node[a].key = k].value]

Promise == INSTANCE RecencyCache WITH capacity <- cache.capacity, recent <- Recent, store <- Store

KeepsPromise == Promise!Spec
=============================================================================
