------------------------------ MODULE LRUProofs ------------------------------
(***************************************************************************)
(* What holds of LRU_cache for any keys, values, capacities and addresses. *)
(***************************************************************************)
EXTENDS MCLruPuts, QueueLemmas, FiniteSetTheorems, FunctionTheorems, WellFoundedInduction

-----------------------------------------------------------------------------
(* The m nodes of n are the queue q, from the node at f to that at r.      *)
Linked(f, r, n, m, q) ==
  /\ m \in Nat /\ q \in [1 .. m -> DOMAIN n]
  /\ \A i, h \in 1 .. m : q[i] = q[h] => i = h
  /\ \A a \in DOMAIN n : \E i \in 1 .. m : q[i] = a
  /\ f = (IF m = 0 THEN NULL ELSE q[1]) /\ r = (IF m = 0 THEN NULL ELSE q[m])
  /\ \A i \in 1 .. m : /\ n[q[i]].previous = IF i = 1 THEN NULL ELSE q[i - 1]
                       /\ n[q[i]].next = IF i = m THEN NULL ELSE q[i + 1]

(* Nodes in the heap.                                                      *)
Heap(n) == /\ DOMAIN n \subseteq Addresses /\ n \in [DOMAIN n -> QueueNode]
           /\ \A a \in DOMAIN n : n[a].key >= 0

(* The same nodes, of the same keys.                                       *)
SameKeys(n, n2) == DOMAIN n2 = DOMAIN n /\ \A a \in DOMAIN n : n2[a].key = n[a].key

(* What one assignment to a link does.                                     *)
LEMMA NextSet ==
  ASSUME NEW n, Heap(n), NEW a \in DOMAIN n, NEW x \in Pointers
  PROVE  /\ Heap(SetNext(n, a, x)) /\ SameKeys(n, SetNext(n, a, x))
         /\ \A b \in DOMAIN n : /\ SetNext(n, a, x)[b].next = IF b = a THEN x ELSE n[b].next
                                /\ SetNext(n, a, x)[b].previous = n[b].previous
                                /\ SetNext(n, a, x)[b].value = n[b].value
<1>0. PICK n2 : n2 = SetNext(n, a, x)
  OBVIOUS
<1>1. n[a] \in QueueNode
  BY DEF Heap
<1>2. [n[a] EXCEPT !.next = x] \in QueueNode
  BY <1>1 DEF QueueNode
<1>3. /\ DOMAIN n2 = DOMAIN n /\ n2 \in [DOMAIN n -> QueueNode]
      /\ n2[a] = [n[a] EXCEPT !.next = x]
      /\ \A b \in DOMAIN n \ {a} : n2[b] = n[b]
  BY <1>0, <1>2 DEF Heap, SetNext
<1>4. /\ Heap(n2) /\ SameKeys(n, n2)
      /\ \A b \in DOMAIN n : /\ n2[b].next = IF b = a THEN x ELSE n[b].next
                             /\ n2[b].previous = n[b].previous /\ n2[b].value = n[b].value
  BY <1>1, <1>3 DEF Heap, SameKeys, QueueNode
<1> QED BY <1>0, <1>4

(* Likewise of the link backwards.                                         *)
LEMMA PreviousSet ==
  ASSUME NEW n, Heap(n), NEW a \in DOMAIN n, NEW x \in Pointers
  PROVE  /\ Heap(SetPrevious(n, a, x)) /\ SameKeys(n, SetPrevious(n, a, x))
         /\ \A b \in DOMAIN n : /\ SetPrevious(n, a, x)[b].previous = IF b = a THEN x ELSE n[b].previous
                                /\ SetPrevious(n, a, x)[b].next = n[b].next
                                /\ SetPrevious(n, a, x)[b].value = n[b].value
<1>0. PICK n2 : n2 = SetPrevious(n, a, x)
  OBVIOUS
<1>1. n[a] \in QueueNode
  BY DEF Heap
<1>2. [n[a] EXCEPT !.previous = x] \in QueueNode
  BY <1>1 DEF QueueNode
<1>3. /\ DOMAIN n2 = DOMAIN n /\ n2 \in [DOMAIN n -> QueueNode]
      /\ n2[a] = [n[a] EXCEPT !.previous = x]
      /\ \A b \in DOMAIN n \ {a} : n2[b] = n[b]
  BY <1>0, <1>2 DEF Heap, SetPrevious
<1>4. /\ Heap(n2) /\ SameKeys(n, n2)
      /\ \A b \in DOMAIN n : /\ n2[b].previous = IF b = a THEN x ELSE n[b].previous
                             /\ n2[b].next = n[b].next /\ n2[b].value = n[b].value
  BY <1>1, <1>3 DEF Heap, SameKeys, QueueNode
<1> QED BY <1>0, <1>4

(* The ends of the queue, in the structure.                                *)
Ends(c, f, e) == [c EXCEPT !.front = f, !.rear = e]

(* The node at place i goes to the front: the queue afterwards.            *)
Moved(q, m, i) == [h \in 1 .. m |-> IF h = 1 THEN q[i] ELSE IF h <= i THEN q[h - 1] ELSE q[h]]

SameValues(n, n2) == \A a \in DOMAIN n : n2[a].value = n[a].value

(* moveToHead (lines 110-148) does that.                                   *)
LEMMA Moves ==
  ASSUME NEW c \in LRUCache, NEW n, Heap(n), NEW m, NEW q,
         Linked(c.front, c.rear, n, m, q), NEW i \in 1 .. m, CacheAssumption
  PROVE  LET s == moveToHead(c, n, q[i]) IN
         /\ Heap(s.node) /\ SameKeys(n, s.node) /\ SameValues(n, s.node)
         /\ s.cache = Ends(c, s.cache.front, s.cache.rear)
         /\ s.cache \in LRUCache
         /\ Linked(s.cache.front, s.cache.rear, s.node, m, Moved(q, m, i))
<1> DEFINE a == q[i]
           s == moveToHead(c, n, a)
           z == Moved(q, m, i)
<1>1. /\ m \in Nat /\ i \in Nat /\ 1 <= i /\ i <= m /\ m # 0
      /\ \A h \in 1 .. m : q[h] \in DOMAIN n
      /\ q \in [1 .. m -> DOMAIN n] /\ DOMAIN n \subseteq Addresses /\ NULL \notin DOMAIN n
      /\ c.front = q[1] /\ c.rear = q[m]
  BY DEF Linked, Heap, CacheAssumption
<1>2. CASE i = 1
  <2>1. s = State(c, n)
    BY <1>1, <1>2 DEF moveToHead
  <2>2. z = q
    <3>1. \A h \in 1 .. m : (IF h = 1 THEN q[i] ELSE IF h <= i THEN q[h - 1] ELSE q[h]) = q[h]
      BY <1>1, <1>2
    <3> QED BY <1>1, <3>1 DEF Moved
  <2>3. c = Ends(c, c.front, c.rear)
    BY DEF LRUCache, Ends
  <2> QED BY <2>1, <2>2, <2>3 DEF State, SameKeys, SameValues
<1>3. CASE i # 1
  <2> DEFINE p  == n[a].previous
             x  == n[a].next
             n1 == IF p # NULL THEN SetNext(n, p, x) ELSE n
             n2 == IF x # NULL THEN SetPrevious(n1, x, p) ELSE n1
             r  == IF c.rear = a THEN p ELSE c.rear
             n3 == IF c.rear = a /\ r # NULL THEN SetNext(n2, r, NULL) ELSE n2
             k  == SetNext(n3, a, c.front)
             n4 == SetPrevious(k, a, NULL)
             n5 == IF c.front # NULL THEN SetPrevious(n4, c.front, a) ELSE n4

  <2>1. /\ a \in DOMAIN n /\ a # c.front /\ c.front \in DOMAIN n
        /\ p = q[i - 1] /\ p \in DOMAIN n /\ p # NULL /\ p # a
        /\ x = (IF i = m THEN NULL ELSE q[i + 1])
        /\ x # NULL => x \in DOMAIN n /\ x # c.front /\ x # a /\ x # p /\ i < m
        /\ c.rear = a <=> i = m
    <3>1. i - 1 \in 1 .. m /\ i - 1 # i /\ 1 \in 1 .. m /\ m \in 1 .. m
      BY <1>1, <1>3
    <3>2. i # m => i + 1 \in 1 .. m /\ i + 1 # 1 /\ i + 1 # i /\ i + 1 # i - 1 /\ i < m
      BY <1>1
    <3>3. \A g, h \in 1 .. m : q[g] = q[h] <=> g = h
      BY DEF Linked
    <3>4. p = q[i - 1] /\ x = (IF i = m THEN NULL ELSE q[i + 1])
      BY <1>3 DEF Linked
    <3> HIDE DEF p, x
    <3> QED BY <1>1, <1>3, <3>1, <3>2, <3>3, <3>4
  <2>0. /\ a \in Pointers /\ p \in Pointers /\ x \in Pointers /\ NULL \in Pointers
        /\ c.front \in Pointers
    <3> HIDE DEF p, x
    <3> QED BY <1>1, <2>1 DEF Pointers
  <2>2. s = State([c EXCEPT !.front = a, !.rear = r], n5)
    BY <2>1, Zenon DEF moveToHead
  <2> HIDE DEF p, x
  <2>3. /\ Heap(n1) /\ SameKeys(n, n1)
        /\ \A b \in DOMAIN n : /\ n1[b].next = IF b = p THEN x ELSE n[b].next
                               /\ n1[b].previous = n[b].previous /\ n1[b].value = n[b].value
    <3>1. n1 = SetNext(n, p, x)
      BY <2>1
    <3> HIDE DEF n1
    <3> QED BY <2>0, <2>1, <3>1, NextSet
  <2> HIDE DEF n1
  <2>4. /\ Heap(n2) /\ SameKeys(n, n2)
        /\ \A b \in DOMAIN n : /\ n2[b].next = n1[b].next
                               /\ n2[b].previous = IF b = x THEN p ELSE n[b].previous
                               /\ n2[b].value = n[b].value
    <3>1. CASE x = NULL
      BY <1>1, <2>3, <3>1
    <3>2. CASE x # NULL
      <4>1. n2 = SetPrevious(n1, x, p) /\ x \in DOMAIN n1
        BY <2>1, <2>3, <3>2 DEF SameKeys
      <4> HIDE DEF n2
      <4>2. /\ Heap(n2) /\ SameKeys(n1, n2)
            /\ \A b \in DOMAIN n1 : /\ n2[b].previous = IF b = x THEN p ELSE n1[b].previous
                                    /\ n2[b].next = n1[b].next /\ n2[b].value = n1[b].value
        BY <2>0, <2>3, <4>1, PreviousSet
      <4> QED BY <2>3, <4>2 DEF SameKeys
    <3> QED BY <3>1, <3>2
  <2> HIDE DEF n2
  <2>5. /\ Heap(n3) /\ SameKeys(n, n3)
        /\ \A b \in DOMAIN n : /\ n3[b].next = IF b = p THEN x ELSE n[b].next
                               /\ n3[b].previous = n2[b].previous /\ n3[b].value = n[b].value
    <3>1. CASE c.rear # a
      BY <2>3, <2>4, <3>1
    <3>2. CASE c.rear = a
      <4>1. n3 = SetNext(n2, p, NULL) /\ x = NULL /\ p \in DOMAIN n2
        BY <2>1, <2>4, <3>2 DEF SameKeys
      <4> HIDE DEF n3
      <4>2. /\ Heap(n3) /\ SameKeys(n2, n3)
            /\ \A b \in DOMAIN n2 : /\ n3[b].next = IF b = p THEN NULL ELSE n2[b].next
                                    /\ n3[b].previous = n2[b].previous /\ n3[b].value = n2[b].value
        BY <2>0, <2>4, <4>1, NextSet
      <4> QED BY <2>3, <2>4, <4>1, <4>2 DEF SameKeys
    <3> QED BY <3>1, <3>2
  <2>6. /\ Heap(k) /\ SameKeys(n, k)
        /\ \A b \in DOMAIN n : /\ k[b].next = IF b = a THEN c.front ELSE n3[b].next
                               /\ k[b].previous = n2[b].previous /\ k[b].value = n[b].value
    <3>1. k = SetNext(n3, a, c.front) /\ a \in DOMAIN n3
      BY <2>1, <2>5 DEF SameKeys
    <3> HIDE DEF n3, k
    <3>2. /\ Heap(k) /\ SameKeys(n3, k)
          /\ \A b \in DOMAIN n3 : /\ k[b].next = IF b = a THEN c.front ELSE n3[b].next
                                  /\ k[b].previous = n3[b].previous /\ k[b].value = n3[b].value
      BY <2>0, <2>5, <3>1, NextSet
    <3> QED BY <2>5, <3>2 DEF SameKeys
  <2> HIDE DEF n3
  <2> HIDE DEF k
  <2>8. /\ Heap(n4) /\ SameKeys(n, n4)
        /\ \A b \in DOMAIN n : /\ n4[b].next = k[b].next
                               /\ n4[b].previous = IF b = a THEN NULL ELSE n2[b].previous
                               /\ n4[b].value = n[b].value
    <3>1. n4 = SetPrevious(k, a, NULL) /\ a \in DOMAIN k
      BY <2>1, <2>6 DEF SameKeys
    <3>2. /\ Heap(n4) /\ SameKeys(k, n4)
          /\ \A b \in DOMAIN k : /\ n4[b].previous = IF b = a THEN NULL ELSE k[b].previous
                                 /\ n4[b].next = k[b].next /\ n4[b].value = k[b].value
      BY <2>0, <2>6, <3>1, PreviousSet
    <3> QED BY <2>6, <3>2 DEF SameKeys
  <2>9. /\ Heap(n5) /\ SameKeys(n, n5)
        /\ \A b \in DOMAIN n : /\ n5[b].next = k[b].next
                               /\ n5[b].previous = IF b = c.front THEN a ELSE n4[b].previous
                               /\ n5[b].value = n[b].value
    <3>1. n5 = SetPrevious(n4, c.front, a) /\ c.front \in DOMAIN n4
      BY <1>1, <2>1, <2>8 DEF SameKeys
    <3> HIDE DEF n5
    <3>2. /\ Heap(n5) /\ SameKeys(n4, n5)
          /\ \A b \in DOMAIN n4 : /\ n5[b].previous = IF b = c.front THEN a ELSE n4[b].previous
                                  /\ n5[b].next = n4[b].next /\ n5[b].value = n4[b].value
      BY <2>0, <2>8, <3>1, PreviousSet
    <3> QED BY <2>8, <3>2 DEF SameKeys
  <2> HIDE DEF n5
  <2>10. ASSUME NEW b \in DOMAIN n
         PROVE  /\ n5[b].next = IF b = a THEN c.front ELSE IF b = p THEN x ELSE n[b].next
                /\ n5[b].previous = IF b = a THEN NULL ELSE IF b = c.front THEN a
                                    ELSE IF b = x THEN p ELSE n[b].previous
    BY <2>1, <2>4, <2>5, <2>6, <2>8, <2>9
  <2>11. /\ z \in [1 .. m -> DOMAIN n] /\ z[1] = a
         /\ \A h \in 2 .. m : z[h] = IF h <= i THEN q[h - 1] ELSE q[h]
    <3>1. \A h \in 1 .. m : (IF h = 1 THEN q[i] ELSE IF h <= i THEN q[h - 1] ELSE q[h]) \in DOMAIN n
      BY <1>1
    <3> QED BY <1>1, <3>1 DEF Moved
  <2> HIDE DEF z
  <2>12. Linked(a, r, n5, m, z)
    <3>0. \A h \in 1 .. m : /\ h = 1 \/ h \in 2 .. m
                            /\ h # 1 /\ h <= i => h - 1 \in 1 .. m
      BY <1>1
    <3>1. ASSUME NEW g \in 1 .. m, NEW h \in 1 .. m, z[g] = z[h] PROVE g = h
      <4> DEFINE P(d) == IF d = 1 THEN i ELSE IF d <= i THEN d - 1 ELSE d
      <4>1. z[g] = q[P(g)] /\ z[h] = q[P(h)] /\ P(g) \in 1 .. m /\ P(h) \in 1 .. m
        BY <2>11, <3>0
      <4> HIDE DEF P
      <4>2. P(g) = P(h)
        BY <3>1, <4>1 DEF Linked
      <4> QED BY <1>1, <4>2 DEF P
    <3>2. ASSUME NEW b \in DOMAIN n PROVE \E h \in 1 .. m : z[h] = b
      <4>1. PICK h \in 1 .. m : q[h] = b
        BY DEF Linked
      <4>2. CASE h = i
        BY <1>1, <2>11, <4>1, <4>2
      <4>3. CASE h < i
        <5>1. h + 1 \in 2 .. m /\ h + 1 <= i /\ (h + 1) - 1 = h
          BY <1>1, <4>3
        <5>2. z[h + 1] = b
          BY <2>11, <4>1, <5>1
        <5> QED BY <1>1, <4>3, <5>2
      <4>4. CASE h > i
        <5>1. h \in 2 .. m /\ ~(h <= i)
          BY <1>1, <4>4
        <5>2. z[h] = b
          BY <2>11, <4>1, <5>1
        <5> QED BY <5>2
      <4> QED BY <1>1, <4>2, <4>3, <4>4
    <3>3. r = z[m]
      <4>1. m \in 2 .. m
        BY <1>1, <1>3
      <4> QED BY <1>1, <2>1, <2>11, <4>1
    <3>4. ASSUME NEW h \in 1 .. m
          PROVE  /\ n5[z[h]].previous = IF h = 1 THEN NULL ELSE z[h - 1]
                 /\ n5[z[h]].next = IF h = m THEN NULL ELSE z[h + 1]
      <4> DEFINE g == IF h <= i THEN h - 1 ELSE h
      <4>1. CASE h = 1
        <5>1. z[h] = a /\ h # m /\ h + 1 \in 2 .. m /\ h + 1 <= i /\ (h + 1) - 1 = 1
          BY <1>1, <1>3, <2>11, <4>1
        <5>2. z[h + 1] = c.front
          BY <1>1, <2>11, <5>1
        <5> QED BY <2>1, <2>10, <4>1, <5>1, <5>2
      <4>2. CASE h # 1
        <5>1. h \in 2 .. m /\ g \in 1 .. m /\ g # i /\ z[h] = q[g] /\ q[g] \in DOMAIN n
          BY <1>1, <2>11, <4>2
        <5>2. q[g] # a
          BY <5>1 DEF Linked
        <5>3. \A d \in 1 .. m : q[g] = q[d] <=> g = d
          BY <5>1 DEF Linked
        <5>4. n5[z[h]].previous = z[h - 1]
          <6>1. CASE g = 1
            <7>1. q[g] = c.front /\ h = 2
              BY <1>1, <1>3, <4>2, <6>1
            <7> QED BY <2>10, <2>11, <5>1, <5>2, <7>1
          <6>2. CASE g = i + 1
            <7>1. q[g] = x /\ q[g] # c.front /\ h - 1 \in 2 .. m /\ h - 1 = i
              BY <1>1, <1>3, <2>1, <5>1, <5>3, <6>2
            <7>2. n5[z[h]].previous = p
              BY <2>10, <5>1, <5>2, <7>1
            <7> QED BY <1>1, <2>1, <2>11, <7>1, <7>2
          <6>3. CASE g # 1 /\ g # i + 1
            <7>1. q[g] # x /\ q[g] # c.front
              <8>1. i # m => i + 1 \in 1 .. m
                BY <1>1
              <8> QED BY <1>1, <2>1, <5>1, <5>3, <6>3, <8>1
            <7>2. n5[z[h]].previous = n[q[g]].previous
              BY <2>10, <5>1, <5>2, <7>1
            <7>3. n[q[g]].previous = q[g - 1]
              BY <5>1, <6>3 DEF Linked
            <7>4. z[h - 1] = q[g - 1]
              BY <1>1, <2>11, <4>2, <6>3
            <7> QED BY <7>2, <7>3, <7>4
          <6> QED BY <6>1, <6>2, <6>3
        <5>5. n5[z[h]].next = IF h = m THEN NULL ELSE z[h + 1]
          <6>1. CASE g = i - 1
            <7>1. q[g] = p /\ h = i
              BY <1>1, <2>1, <4>2, <6>1
            <7>2. n5[z[h]].next = x
              BY <2>10, <5>1, <5>2, <7>1
            <7>3. h # m => z[h + 1] = q[i + 1]
              BY <1>1, <2>11, <7>1
            <7> QED BY <2>1, <7>1, <7>2, <7>3
          <6>2. CASE g # i - 1
            <7>1. q[g] # p
              <8>1. i - 1 \in 1 .. m
                BY <1>1, <1>3
              <8> QED BY <2>1, <5>3, <6>2, <8>1
            <7>2. n5[z[h]].next = n[q[g]].next
              BY <2>10, <5>1, <5>2, <7>1
            <7>3. n[q[g]].next = IF g = m THEN NULL ELSE q[g + 1]
              BY <5>1 DEF Linked
            <7>4. g = m <=> h = m
              BY <1>1, <5>1, <6>2
            <7>5. h # m => z[h + 1] = q[g + 1]
              <8>1. h # m => h + 1 \in 2 .. m
                BY <1>1, <5>1
              <8>2. h + 1 <= i => g + 1 = (h + 1) - 1
                BY <1>1, <4>2
              <8>3. ~(h + 1 <= i) => g + 1 = h + 1
                BY <1>1, <4>2, <6>2
              <8> HIDE DEF g
              <8> QED BY <2>11, <8>1, <8>2, <8>3
            <7> QED BY <7>2, <7>3, <7>4, <7>5
          <6> QED BY <6>1, <6>2
        <5> QED BY <4>2, <5>4, <5>5
      <4> QED BY <4>1, <4>2
    <3> QED BY <1>1, <2>9, <2>11, <3>1, <3>2, <3>3, <3>4 DEF Linked, SameKeys
  <2>13. r \in Pointers
    BY <1>1, <2>1 DEF Pointers, LRUCache
  <2> HIDE DEF r, s
  <2>14. s = State(Ends(c, a, r), n5)
    BY <2>2 DEF Ends
  <2>15. Ends(c, a, r) \in LRUCache /\ Ends(c, a, r).front = a /\ Ends(c, a, r).rear = r
    BY <2>0, <2>13 DEF Ends, LRUCache
  <2>16. s.cache = Ends(c, a, r) /\ s.node = n5
    BY <2>14 DEF State
  <2>17. /\ Heap(s.node) /\ SameKeys(n, s.node) /\ SameValues(n, s.node)
         /\ s.cache = Ends(c, s.cache.front, s.cache.rear)
         /\ s.cache \in LRUCache
         /\ Linked(s.cache.front, s.cache.rear, s.node, m, z)
    BY <2>9, <2>12, <2>15, <2>16 DEF SameValues
  <2> QED BY <2>17 DEF s, z
<1> QED BY <1>2, <1>3

(* The queue without its last node.                                        *)
Shorter(q, m) == [h \in 1 .. m - 1 |-> q[h]]

Smaller(c, f, e) == [c EXCEPT !.front = f, !.rear = e, !.currentSize = c.currentSize - 1]

(* deleteFromTail (lines 150-172) frees that.                              *)
LEMMA Shortens ==
  ASSUME NEW c \in LRUCache, NEW n, Heap(n), NEW m, m # 0, c.currentSize # 0, NEW q,
         Linked(c.front, c.rear, n, m, q), CacheAssumption
  PROVE  LET s == deleteFromTail(c, n) IN
         /\ DOMAIN s.node = DOMAIN n \ {c.rear} /\ c.rear \in DOMAIN n /\ c.rear = q[m]
         /\ \A b \in DOMAIN s.node : s.node[b].key = n[b].key /\ s.node[b].value = n[b].value
         /\ Heap(s.node)
         /\ s.cache = Smaller(c, s.cache.front, s.cache.rear)
         /\ s.cache \in LRUCache
         /\ Linked(s.cache.front, s.cache.rear, s.node, m - 1, Shorter(q, m))
<1> DEFINE s == deleteFromTail(c, n)
           r == n[c.rear].previous
           n1 == IF m = 1 THEN n ELSE SetNext(n, r, NULL)
           n2 == Free(n1, {c.rear})
           f == IF m = 1 THEN NULL ELSE c.front
           e == IF m = 1 THEN NULL ELSE r
           z == Shorter(q, m)
<1>1. /\ m \in Nat \ {0} /\ q \in [1 .. m -> DOMAIN n] /\ NULL \notin DOMAIN n
      /\ DOMAIN n \subseteq Addresses
      /\ c.front = q[1] /\ c.rear = q[m] /\ c.front \in DOMAIN n /\ c.rear \in DOMAIN n
      /\ \A g, h \in 1 .. m : q[g] = q[h] <=> g = h
  BY DEF Linked, Heap, CacheAssumption
<1>2. c.front = c.rear <=> m = 1
  BY <1>1
<1>3. m # 1 => r = q[m - 1] /\ r \in DOMAIN n
  BY <1>1 DEF Linked
<1>4. f \in Pointers /\ e \in Pointers /\ NULL \in Pointers
  BY <1>1, <1>3 DEF Pointers
<1>5. /\ Heap(n1) /\ SameKeys(n, n1)
      /\ \A b \in DOMAIN n : /\ n1[b].next = IF m # 1 /\ b = r THEN NULL ELSE n[b].next
                             /\ n1[b].previous = n[b].previous /\ n1[b].value = n[b].value
  <2>1. CASE m = 1
    BY <2>1 DEF SameKeys
  <2>2. CASE m # 1
    BY <1>3, <1>4, <2>2, NextSet
  <2> QED BY <2>1, <2>2
<1>6. s = State(Smaller(c, f, e), n2)
  <2>1. CASE m = 1
    <3>1. [c EXCEPT !.front = NULL, !.rear = NULL, !.currentSize = @ - 1]
            = Smaller(c, f, e)
      BY <2>1 DEF LRUCache, Smaller
    <3> QED BY <1>1, <1>2, <2>1, <3>1 DEF deleteFromTail
  <2>2. CASE m # 1
    <3>1. [c EXCEPT !.rear = r, !.currentSize = @ - 1]
            = Smaller(c, f, e)
      <4> HIDE DEF r
      <4> QED BY <2>2 DEF LRUCache, Smaller
    <3> QED BY <1>1, <1>2, <2>2, <3>1, Zenon DEF deleteFromTail
  <2> QED BY <2>1, <2>2
<1> HIDE DEF s, n1, f, e
<1>7. /\ s.node = n2 /\ s.cache \in LRUCache /\ s.cache.front = f /\ s.cache.rear = e
      /\ s.cache = Smaller(c, f, e)
  <2>1. c.currentSize - 1 \in Nat
    BY DEF LRUCache
  <2> QED BY <1>4, <1>6, <2>1 DEF State, Smaller, LRUCache
<1>8. /\ DOMAIN n2 = DOMAIN n \ {c.rear} /\ Heap(n2)
      /\ \A b \in DOMAIN n \ {c.rear} : n2[b] = n1[b]
  BY <1>5 DEF Free, Heap, SameKeys
<1> HIDE DEF n2
<1>9. Linked(f, e, n2, m - 1, z)
  <2>1. m - 1 \in Nat /\ \A h \in 1 .. m - 1 : h \in 1 .. m /\ h # m
    BY <1>1
  <2>2. z \in [1 .. m - 1 -> DOMAIN n2] /\ \A h \in 1 .. m - 1 : z[h] = q[h]
    <3>1. \A h \in 1 .. m - 1 : q[h] \in DOMAIN n2
      BY <1>1, <1>8, <2>1
    <3> QED BY <3>1 DEF Shorter
  <2> HIDE DEF z
  <2>3. \A g, h \in 1 .. m - 1 : z[g] = z[h] => g = h
    BY <1>1, <2>1, <2>2
  <2>4. ASSUME NEW b \in DOMAIN n2 PROVE \E h \in 1 .. m - 1 : z[h] = b
    <3>1. PICK h \in 1 .. m : q[h] = b
      BY <1>8 DEF Linked
    <3>2. h # m
      BY <1>1, <1>8, <3>1
    <3>3. h \in 1 .. m - 1
      BY <1>1, <3>2
    <3> QED BY <2>2, <3>1, <3>3
  <2>5. /\ f = IF m - 1 = 0 THEN NULL ELSE z[1]
        /\ e = IF m - 1 = 0 THEN NULL ELSE z[m - 1]
    <3>1. m # 1 => 1 \in 1 .. m - 1 /\ m - 1 \in 1 .. m - 1
      BY <1>1
    <3>2. m - 1 = 0 <=> m = 1
      BY <1>1
    <3> QED BY <1>1, <1>3, <2>2, <3>1, <3>2 DEF f, e
  <2>6. ASSUME NEW h \in 1 .. m - 1
        PROVE  /\ n2[z[h]].previous = IF h = 1 THEN NULL ELSE z[h - 1]
               /\ n2[z[h]].next = IF h = m - 1 THEN NULL ELSE z[h + 1]
    <3>1. h \in 1 .. m /\ h # m /\ m # 1 /\ m - 1 \in 1 .. m
      BY <1>1
    <3>2. z[h] = q[h] /\ q[h] \in DOMAIN n \ {c.rear}
      BY <1>1, <2>2, <3>1
    <3>3. /\ n2[z[h]].previous = n[q[h]].previous
          /\ n2[z[h]].next = IF q[h] = r THEN NULL ELSE n[q[h]].next
      BY <1>5, <1>8, <3>1, <3>2
    <3>4. /\ n[q[h]].previous = IF h = 1 THEN NULL ELSE q[h - 1]
          /\ n[q[h]].next = q[h + 1]
      BY <3>1 DEF Linked
    <3>5. q[h] = r <=> h = m - 1
      BY <1>1, <1>3, <3>1
    <3>6. /\ h # 1 => z[h - 1] = q[h - 1]
          /\ h # m - 1 => z[h + 1] = q[h + 1]
      <4>1. /\ h # 1 => h - 1 \in 1 .. m - 1
            /\ h # m - 1 => h + 1 \in 1 .. m - 1
        BY <1>1
      <4> QED BY <2>2, <4>1
    <3> QED BY <3>3, <3>4, <3>5, <3>6
  <2> QED BY <2>1, <2>2, <2>3, <2>4, <2>5, <2>6 DEF Linked
<1>10. \A b \in DOMAIN s.node : s.node[b].key = n[b].key /\ s.node[b].value = n[b].value
  BY <1>5, <1>7, <1>8 DEF SameKeys
<1>11. /\ DOMAIN s.node = DOMAIN n \ {c.rear} /\ c.rear \in DOMAIN n /\ c.rear = q[m]
       /\ \A b \in DOMAIN s.node : s.node[b].key = n[b].key /\ s.node[b].value = n[b].value
       /\ Heap(s.node)
       /\ s.cache = Smaller(c, s.cache.front, s.cache.rear)
       /\ s.cache \in LRUCache
       /\ Linked(s.cache.front, s.cache.rear, s.node, m - 1, z)
  BY <1>1, <1>7, <1>8, <1>9, <1>10
<1> QED BY <1>11 DEF s, z

(* The queue with one more node in front.                                  *)
Longer(q, m, a) == [h \in 1 .. m + 1 |-> IF h = 1 THEN a ELSE q[h - 1]]

(* The end of put (lines 209-224) links it.                                *)
LEMMA Lengthens ==
  ASSUME NEW c \in LRUCache, NEW n, Heap(n), NEW m, NEW q,
         Linked(c.front, c.rear, n, m, q), NEW a \in Addresses \ DOMAIN n,
         NEW k \in Keys, k >= 0, NEW v \in Values, CacheAssumption
  PROVE  LET s == PushFront(c, n, a, k, v) IN
         /\ DOMAIN s.node = DOMAIN n \union {a} /\ s.node[a].key = k /\ s.node[a].value = v
         /\ \A b \in DOMAIN n : s.node[b].key = n[b].key /\ s.node[b].value = n[b].value
         /\ Heap(s.node)
         /\ s.cache = Ends(c, s.cache.front, s.cache.rear) /\ s.cache \in LRUCache
         /\ Linked(s.cache.front, s.cache.rear, s.node, m + 1, Longer(q, m, a))
<1> DEFINE s == PushFront(c, n, a, k, v)
           new == [key |-> k, value |-> v, previous |-> NULL, next |-> c.front]
           n1 == [b \in DOMAIN n \union {a} |-> IF b = a THEN new ELSE n[b]]
           n2 == IF c.front # NULL THEN SetPrevious(n1, c.front, a) ELSE n1
           e == IF c.rear = NULL THEN a ELSE c.rear
           z == Longer(q, m, a)
<1>1. /\ m \in Nat /\ q \in [1 .. m -> DOMAIN n] /\ NULL \notin DOMAIN n
      /\ DOMAIN n \subseteq Addresses /\ a # NULL
      /\ m = 0 => c.front = NULL /\ c.rear = NULL
      /\ m # 0 => c.front = q[1] /\ c.rear = q[m] /\ c.front \in DOMAIN n /\ c.rear \in DOMAIN n
      /\ \A g, h \in 1 .. m : q[g] = q[h] <=> g = h
  BY DEF Linked, Heap, CacheAssumption
<1>2. a \in Pointers /\ c.front \in Pointers /\ c.rear \in Pointers /\ NULL \in Pointers
  BY DEF LRUCache, Pointers
<1>3. /\ Heap(n1) /\ DOMAIN n1 = DOMAIN n \union {a} /\ n1[a] = new
      /\ \A b \in DOMAIN n : n1[b] = n[b]
  <2>1. new \in QueueNode /\ new.key = k
    BY <1>2 DEF QueueNode
  <2> HIDE DEF new
  <2> QED BY <2>1 DEF Heap
<1>4. /\ Heap(n2) /\ SameKeys(n1, n2)
      /\ \A b \in DOMAIN n1 : /\ n2[b].previous = IF m # 0 /\ b = c.front THEN a ELSE n1[b].previous
                              /\ n2[b].next = n1[b].next /\ n2[b].value = n1[b].value
  <2> HIDE DEF n1
  <2>1. CASE m = 0
    BY <1>1, <1>3, <2>1 DEF SameKeys
  <2>2. CASE m # 0
    <3>1. c.front \in DOMAIN n1 /\ n2 = SetPrevious(n1, c.front, a)
      BY <1>1, <1>3, <2>2
    <3> HIDE DEF n2
    <3>2. PICK x : x = c.front
      OBVIOUS
    <3>3. Heap(n1) /\ x \in DOMAIN n1 /\ a \in Pointers /\ n2 = SetPrevious(n1, x, a)
      BY <1>2, <1>3, <3>1, <3>2
    <3>4. /\ Heap(n2) /\ SameKeys(n1, n2)
          /\ \A b \in DOMAIN n1 : /\ n2[b].previous = IF b = x THEN a ELSE n1[b].previous
                                  /\ n2[b].next = n1[b].next /\ n2[b].value = n1[b].value
      BY ONLY <3>3, PreviousSet
    <3> QED BY <2>2, <3>2, <3>4
  <2> QED BY <2>1, <2>2
<1>5. s = State(Ends(c, a, e), n2)
  BY Zenon DEF PushFront, Ends
<1> HIDE DEF s, n1, n2, e
<1>6. /\ s.node = n2 /\ s.cache = Ends(c, a, e) /\ s.cache \in LRUCache
      /\ s.cache.front = a /\ s.cache.rear = e
  <2>1. e \in Pointers
    BY <1>2 DEF e
  <2> QED BY <1>2, <1>5, <2>1 DEF State, Ends, LRUCache
<1>7. /\ z \in [1 .. m + 1 -> DOMAIN n2] /\ z[1] = a
      /\ \A h \in 1 .. m : z[h + 1] = q[h] /\ q[h] # a
  <2>1. \A h \in 1 .. m + 1 : (IF h = 1 THEN a ELSE q[h - 1]) \in DOMAIN n2
    BY <1>1, <1>3, <1>4 DEF SameKeys
  <2>2. z \in [1 .. m + 1 -> DOMAIN n2] /\ z[1] = a
    BY <1>1, <2>1 DEF Longer
  <2>3. ASSUME NEW h \in 1 .. m PROVE z[h + 1] = q[h] /\ q[h] # a
    <3>1. h + 1 \in 1 .. m + 1 /\ h + 1 # 1 /\ (h + 1) - 1 = h
      BY <1>1
    <3> QED BY <1>1, <3>1 DEF Longer
  <2> QED BY <2>2, <2>3
<1> HIDE DEF z
<1>8. Linked(a, e, n2, m + 1, z)
  <2>0. \A h \in 1 .. m + 1 : h # 1 => h - 1 \in 1 .. m /\ h = (h - 1) + 1
    BY <1>1
  <2>1. ASSUME NEW g \in 1 .. m + 1, NEW h \in 1 .. m + 1, z[g] = z[h] PROVE g = h
    <3>1. CASE g = 1
      BY <1>7, <2>0, <2>1, <3>1
    <3>2. CASE h = 1
      BY <1>7, <2>0, <2>1, <3>2
    <3>3. CASE g # 1 /\ h # 1
      <4>1. q[g - 1] = q[h - 1]
        BY <1>7, <2>0, <2>1, <3>3
      <4>2. g - 1 = h - 1
        BY <1>1, <2>0, <3>3, <4>1
      <4> QED BY <2>0, <3>3, <4>2
    <3> QED BY <3>1, <3>2, <3>3
  <2>2. ASSUME NEW b \in DOMAIN n2 PROVE \E h \in 1 .. m + 1 : z[h] = b
    <3>1. CASE b = a
      BY <1>1, <1>7, <3>1
    <3>2. CASE b # a
      <4>1. PICK h \in 1 .. m : q[h] = b
        BY <1>3, <1>4, <3>2 DEF Linked, SameKeys
      <4>2. z[h + 1] = b /\ h + 1 \in 1 .. m + 1
        BY <1>1, <1>7, <4>1
      <4> QED BY <4>2
    <3> QED BY <3>1, <3>2
  <2>3. e = z[m + 1]
    BY <1>1, <1>7 DEF e
  <2>4. ASSUME NEW h \in 1 .. m + 1
        PROVE  /\ n2[z[h]].previous = IF h = 1 THEN NULL ELSE z[h - 1]
               /\ n2[z[h]].next = IF h = m + 1 THEN NULL ELSE z[h + 1]
    <3>1. CASE h = 1
      <4>1. n2[a].previous = NULL /\ n2[a].next = c.front
        BY <1>1, <1>3, <1>4
      <4>2. c.front = IF m = 0 THEN NULL ELSE z[2]
        <5>1. m # 0 => 1 \in 1 .. m /\ 1 + 1 = 2
          BY <1>1
        <5> QED BY <1>1, <1>7, <5>1
      <4>3. h = m + 1 <=> m = 0
        BY <1>1, <3>1
      <4> QED BY <1>7, <3>1, <4>1, <4>2, <4>3
    <3>2. CASE h # 1
      <4> DEFINE g == h - 1
      <4>1. g \in 1 .. m /\ h = g + 1 /\ z[h] = q[g] /\ q[g] # a /\ q[g] \in DOMAIN n /\ m # 0
        BY <1>1, <1>7, <2>0, <3>2
      <4> HIDE DEF g
      <4>2. /\ n2[q[g]].previous = IF q[g] = c.front THEN a ELSE n[q[g]].previous
            /\ n2[q[g]].next = n[q[g]].next
        BY <1>3, <1>4, <4>1
      <4>3. /\ n[q[g]].previous = IF g = 1 THEN NULL ELSE q[g - 1]
            /\ n[q[g]].next = IF g = m THEN NULL ELSE q[g + 1]
        BY <4>1 DEF Linked
      <4>4. q[g] = c.front <=> g = 1
        BY <1>1, <4>1
      <4>5. z[h - 1] = IF g = 1 THEN a ELSE q[g - 1]
        <5>1. h - 1 = g /\ (g # 1 => g - 1 \in 1 .. m /\ g = (g - 1) + 1)
          BY <1>1, <4>1
        <5> QED BY <1>7, <5>1
      <4>6. g # m => z[h + 1] = q[g + 1]
        <5>1. g # m => g + 1 \in 1 .. m
          BY <1>1, <4>1
        <5> QED BY <1>7, <4>1, <5>1
      <4>7. g = m <=> h = m + 1
        BY <1>1, <4>1
      <4> QED BY <3>2, <4>1, <4>2, <4>3, <4>4, <4>5, <4>6, <4>7
    <3> QED BY <3>1, <3>2
  <2> QED BY <1>1, <1>7, <2>1, <2>2, <2>3, <2>4 DEF Linked
<1>9. /\ n2[a].key = k /\ n2[a].value = v
      /\ \A b \in DOMAIN n : n2[b].key = n[b].key /\ n2[b].value = n[b].value
  BY <1>3, <1>4 DEF SameKeys
<1>10. /\ DOMAIN s.node = DOMAIN n \union {a} /\ s.node[a].key = k /\ s.node[a].value = v
       /\ \A b \in DOMAIN n : s.node[b].key = n[b].key /\ s.node[b].value = n[b].value
       /\ Heap(s.node)
       /\ s.cache = Ends(c, s.cache.front, s.cache.rear) /\ s.cache \in LRUCache
       /\ Linked(s.cache.front, s.cache.rear, s.node, m + 1, z)
  BY <1>3, <1>4, <1>6, <1>8, <1>9 DEF SameKeys
<1> QED BY <1>10 DEF s, z

-----------------------------------------------------------------------------
(* The entries of a hash map h point to nodes of n with their keys, are in *)
(* the buckets of these, and no key has two.                               *)
Hashed(h, n) ==
  /\ \A b \in DOMAIN h : \A i \in DOMAIN h[b] :
       /\ h[b][i].address \in DOMAIN n /\ n[h[b][i].address].key = h[b][i].key
       /\ hashValue(h[b][i].key) = b
  /\ \A b \in DOMAIN h : \A i, j \in DOMAIN h[b] : h[b][i].key = h[b][j].key => i = j

Lists(h, k, a) == \E b \in DOMAIN h : \E i \in DOMAIN h[b] : h[b][i].key = k /\ h[b][i].address = a

Complete(h, n) == \A a \in DOMAIN n : Lists(h, n[a].key, a)

(* The bucket of a key that may be looked for (lines 32-35).               *)
LEMMA BucketIs ==
  ASSUME NEW k \in Int, cache.capacity \in Int, cache.capacity > 0, k >= 0 \/ hashValue(k) >= 0
  PROVE  hashValue(k) \in 0 .. cache.capacity - 1
<1>1. ASSUME NEW i \in Nat, NEW d \in Int, d > 0 PROVE i % d \in 0 .. d - 1
  BY <1>1
<1>2. CASE k >= 0
  BY <1>1, <1>2 DEF hashValue
<1>3. CASE ~(k >= 0)
  <2>1. (-k) % cache.capacity \in 0 .. cache.capacity - 1 /\ -k \in Nat
    BY <1>1, <1>3
  <2>2. hashValue(k) = -((-k) % cache.capacity)
    BY <1>3 DEF hashValue
  <2> QED BY <1>3, <2>1, <2>2
<1> QED BY <1>2, <1>3

(* findInHashMap (lines 68-82).                                            *)
LEMMA FindIs ==
  ASSUME NEW c \in LRUCache, NEW n, Heap(n), Hashed(c.hashMap, n),
         NEW k, hashValue(k) \in DOMAIN c.hashMap, CacheAssumption
  PROVE  /\ findInHashMap(c, k) = NULL => \A a : ~Lists(c.hashMap, k, a)
         /\ findInHashMap(c, k) # NULL => /\ findInHashMap(c, k) \in DOMAIN n
                                          /\ n[findInHashMap(c, k)].key = k
                                          /\ Lists(c.hashMap, k, findInHashMap(c, k))
<1> DEFINE b == hashValue(k)
           l == c.hashMap[b]
           hits == {i \in DOMAIN l : l[i].key = k}
           first == CHOOSE i \in hits : \A h \in hits : i <= h
<1>1. findInHashMap(c, k) = IF hits = {} THEN NULL ELSE l[first].address
  BY Zenon DEF findInHashMap, Bucket
<1>2. CASE hits = {}
  <2>1. findInHashMap(c, k) = NULL
    BY <1>1, <1>2
  <2>2. ASSUME NEW a, Lists(c.hashMap, k, a) PROVE FALSE
    <3>1. PICK d \in DOMAIN c.hashMap : \E i \in DOMAIN c.hashMap[d] : c.hashMap[d][i].key = k
      BY <2>2 DEF Lists
    <3>2. d = b
      BY <3>1 DEF Hashed
    <3> QED BY <1>2, <3>1, <3>2
  <2> QED BY <2>1, <2>2
<1>3. CASE hits # {}
  <2>1. l \in Seq(HashNode)
    BY DEF LRUCache
  <2>2. hits \subseteq Nat
    BY <2>1, LenProperties
  <2>3. \E i \in hits : \A h \in hits : i <= h
    <3> HIDE DEF hits
    <3>1. PICK x \in hits : \A y \in hits : ~(<<y, x>> \in OpToRel(<, Nat))
      BY <1>3, <2>2, NatLessThanWellFounded, WFMin
    <3>2. ASSUME NEW y \in hits PROVE x <= y
      <4>1. ~(<<y, x>> \in {ss \in Nat \X Nat : ss[1] < ss[2]})
        BY <3>1, Zenon DEF OpToRel
      <4> QED BY <2>2, <4>1
    <3> QED BY <3>2
  <2>4. first \in hits
    BY <2>3
  <2> HIDE DEF first
  <2>5. findInHashMap(c, k) = l[first].address
    BY <1>1, <1>3
  <2>6. l[first].address \in DOMAIN n /\ n[l[first].address].key = k
    BY <2>4 DEF Hashed
  <2>7. NULL \notin DOMAIN n
    BY DEF Heap, CacheAssumption
  <2>8. Lists(c.hashMap, k, l[first].address)
    BY <2>4 DEF Lists
  <2> QED BY <2>5, <2>6, <2>7, <2>8
<1> QED BY <1>2, <1>3

(* One bucket changed.                                                     *)
Rehashed(c, b, l) == [c EXCEPT !.hashMap[b] = l]

SameQueue(c, d) == /\ d.front = c.front /\ d.rear = c.rear /\ d.capacity = c.capacity
                   /\ d.currentSize = c.currentSize

(* What changing one bucket does.                                          *)
LEMMA RehashIs ==
  ASSUME NEW c \in LRUCache, NEW b \in DOMAIN c.hashMap, NEW l \in Seq(HashNode)
  PROVE  /\ Rehashed(c, b, l) \in LRUCache /\ SameQueue(c, Rehashed(c, b, l))
         /\ DOMAIN Rehashed(c, b, l).hashMap = DOMAIN c.hashMap
         /\ Rehashed(c, b, l).hashMap[b] = l
         /\ \A d \in DOMAIN c.hashMap \ {b} : Rehashed(c, b, l).hashMap[d] = c.hashMap[d]
<1>1. [c.hashMap EXCEPT ![b] = l] \in [DOMAIN cache.hashMap -> Seq(HashNode)]
  BY DEF LRUCache
<1>2. Rehashed(c, b, l) = [c EXCEPT !.hashMap = [c.hashMap EXCEPT ![b] = l]]
  BY DEF Rehashed
<1> QED BY <1>1, <1>2 DEF LRUCache, SameQueue

(* insertToHashMap (lines 37-66) of a new key.                             *)
LEMMA InsertIs ==
  ASSUME NEW c \in LRUCache, NEW n, Heap(n), Hashed(c.hashMap, n), NEW a \in DOMAIN n,
         NEW k \in Keys, n[a].key = k, hashValue(k) \in DOMAIN c.hashMap,
         findInHashMap(c, k) = NULL, CacheAssumption
  PROVE  LET d == insertToHashMap(c, k, a) IN
         /\ d \in LRUCache /\ SameQueue(c, d) /\ DOMAIN d.hashMap = DOMAIN c.hashMap
         /\ Hashed(d.hashMap, n)
         /\ \A j, x : Lists(d.hashMap, j, x) <=> Lists(c.hashMap, j, x) \/ (j = k /\ x = a)
<1> DEFINE b == hashValue(k)
           l == c.hashMap[b]
           e == [key |-> k, address |-> a]
<1>1. PICK z : z = <<e>> \o l
  OBVIOUS
<1> DEFINE d == Rehashed(c, b, z)
<1>2. insertToHashMap(c, k, a) = d
  BY <1>1, Zenon DEF insertToHashMap, Rehashed
<1>3. e \in HashNode /\ e.key = k /\ e.address = a
  BY DEF HashNode, Heap
<1> HIDE DEF e
<1>4. l \in Seq(HashNode)
  BY DEF LRUCache
<1>5. /\ Len(l) \in Nat /\ DOMAIN l = 1 .. Len(l) /\ DOMAIN z = 1 .. 1 + Len(l)
      /\ z[1] = e /\ \A i \in DOMAIN l : i + 1 \in DOMAIN z /\ z[i + 1] = l[i]
      /\ \A i \in DOMAIN z : i = 1 \/ (i - 1 \in DOMAIN l /\ z[i] = l[i - 1])
      /\ z \in Seq(HashNode)
  <2>1. ASSUME NEW t \in Seq(HashNode)
        PROVE  /\ <<e>> \o t \in Seq(HashNode) /\ Len(<<e>> \o t) = 1 + Len(t)
               /\ \A i \in 1 .. 1 + Len(t) : (<<e>> \o t)[i] = IF i = 1 THEN e ELSE t[i - 1]
    <3>1. /\ <<e>> \in Seq(HashNode) /\ Len(<<e>>) = 1 /\ <<e>>[1] = e
      BY <1>3
    <3>2. PICK u : u = <<e>>
      OBVIOUS
    <3>3. /\ u \o t \in Seq(HashNode) /\ Len(u \o t) = Len(u) + Len(t)
          /\ \A i \in 1 .. Len(u) + Len(t) : (u \o t)[i] = IF i <= Len(u) THEN u[i] ELSE t[i - Len(u)]
      BY <3>1, <3>2, ConcatProperties
    <3>4. Len(t) \in Nat
      BY LenProperties
    <3>5. \A i \in 1 .. 1 + Len(t) : i <= 1 <=> i = 1
      BY <3>4
    <3> QED BY <3>1, <3>2, <3>3, <3>5
  <2>2. /\ z \in Seq(HashNode) /\ Len(z) = 1 + Len(l)
        /\ \A i \in 1 .. 1 + Len(l) : z[i] = IF i = 1 THEN e ELSE l[i - 1]
    BY <1>1, <1>4, <2>1, Zenon
  <2>3. Len(l) \in Nat /\ DOMAIN l = 1 .. Len(l) /\ DOMAIN z = 1 .. Len(z)
    BY <1>4, <2>2, LenProperties
  <2> HIDE DEF l
  <2>4. z[1] = e
    BY <2>2, <2>3
  <2>5. ASSUME NEW i \in DOMAIN l PROVE i + 1 \in DOMAIN z /\ z[i + 1] = l[i]
    <3>1. i + 1 \in 1 .. 1 + Len(l) /\ i + 1 # 1 /\ (i + 1) - 1 = i
      BY <2>3
    <3> QED BY <2>2, <2>3, <3>1
  <2>6. \A i \in DOMAIN z : i = 1 \/ (i - 1 \in DOMAIN l /\ z[i] = l[i - 1])
    BY <2>2, <2>3
  <2> QED BY <2>2, <2>3, <2>4, <2>5, <2>6
<1>6. /\ d \in LRUCache /\ SameQueue(c, d) /\ DOMAIN d.hashMap = DOMAIN c.hashMap
      /\ d.hashMap[b] = z
      /\ \A g \in DOMAIN c.hashMap \ {b} : d.hashMap[g] = c.hashMap[g]
  BY <1>5, RehashIs
<1>7. \A x : ~Lists(c.hashMap, k, x)
  BY FindIs
<1>8. \A i \in DOMAIN l : l[i].key # k
  BY <1>7 DEF Lists
<1> HIDE DEF d
<1>9. Hashed(d.hashMap, n)
  <2>1. ASSUME NEW g \in DOMAIN d.hashMap, NEW i \in DOMAIN d.hashMap[g]
        PROVE  LET f == d.hashMap[g][i] IN
               f.address \in DOMAIN n /\ n[f.address].key = f.key /\ hashValue(f.key) = g
    <3>1. CASE g # b
      BY <1>6, <2>1, <3>1 DEF Hashed
    <3>2. CASE g = b
      <4>1. CASE i = 1
        BY <1>3, <1>5, <1>6, <3>2, <4>1
      <4>2. CASE i # 1
        <5>1. i - 1 \in DOMAIN l /\ d.hashMap[g][i] = l[i - 1]
          BY <1>5, <1>6, <2>1, <3>2, <4>2
        <5> QED BY <3>2, <5>1 DEF Hashed
      <4> QED BY <4>1, <4>2
    <3> QED BY <3>1, <3>2
  <2>2. ASSUME NEW g \in DOMAIN d.hashMap, NEW i \in DOMAIN d.hashMap[g],
               NEW j \in DOMAIN d.hashMap[g], d.hashMap[g][i].key = d.hashMap[g][j].key
        PROVE  i = j
    <3>1. CASE g # b
      BY <1>6, <2>2, <3>1 DEF Hashed
    <3>2. CASE g = b
      <4>1. CASE i = 1 \/ j = 1
        <5>1. i \in DOMAIN z /\ j \in DOMAIN z /\ z[i].key = z[j].key
          BY <1>6, <2>2, <3>2
        <5>2. \A h \in DOMAIN z : h = 1 <=> z[h].key = k
          BY <1>3, <1>5, <1>8
        <5> QED BY <4>1, <5>1, <5>2
      <4>2. CASE i # 1 /\ j # 1
        <5>1. i - 1 \in DOMAIN l /\ j - 1 \in DOMAIN l /\ l[i - 1].key = l[j - 1].key
          BY <1>5, <1>6, <2>2, <3>2, <4>2
        <5>2. i - 1 = j - 1
          BY <5>1 DEF Hashed
        <5> QED BY <1>5, <1>6, <2>2, <3>2, <5>2
      <4> QED BY <4>1, <4>2
    <3> QED BY <3>1, <3>2
  <2> QED BY <2>1, <2>2 DEF Hashed
<1>10. ASSUME NEW j, NEW x
       PROVE  Lists(d.hashMap, j, x) <=> Lists(c.hashMap, j, x) \/ (j = k /\ x = a)
  <2>1. ASSUME Lists(d.hashMap, j, x) PROVE Lists(c.hashMap, j, x) \/ (j = k /\ x = a)
    <3>1. PICK g, i :
            /\ g \in DOMAIN d.hashMap /\ i \in DOMAIN d.hashMap[g]
            /\ d.hashMap[g][i].key = j /\ d.hashMap[g][i].address = x
      BY <2>1 DEF Lists
    <3>2. CASE g # b
      BY <1>6, <3>1, <3>2 DEF Lists
    <3>3. CASE g = b
      <4>1. CASE i = 1
        BY <1>3, <1>5, <1>6, <3>1, <3>3, <4>1
      <4>2. CASE i # 1
        BY <1>5, <1>6, <3>1, <3>3, <4>2 DEF Lists
      <4> QED BY <4>1, <4>2
    <3> QED BY <3>2, <3>3
  <2>2. Lists(d.hashMap, k, a)
    BY <1>3, <1>5, <1>6 DEF Lists
  <2>3. ASSUME Lists(c.hashMap, j, x) PROVE Lists(d.hashMap, j, x)
    <3>1. PICK g, i :
            /\ g \in DOMAIN c.hashMap /\ i \in DOMAIN c.hashMap[g]
            /\ c.hashMap[g][i].key = j /\ c.hashMap[g][i].address = x
      BY <2>3 DEF Lists
    <3>2. CASE g # b
      BY <1>6, <3>1, <3>2 DEF Lists
    <3>3. CASE g = b
      BY <1>5, <1>6, <3>1, <3>3 DEF Lists
    <3> QED BY <3>2, <3>3
  <2> QED BY <2>1, <2>2, <2>3
<1> QED BY <1>2, <1>6, <1>9, <1>10

(* deleteFromHashMap (lines 84-108).                                       *)
LEMMA DeleteIs ==
  ASSUME NEW c \in LRUCache, NEW n, Heap(n), Hashed(c.hashMap, n),
         NEW k, hashValue(k) \in DOMAIN c.hashMap, CacheAssumption
  PROVE  LET d == deleteFromHashMap(c, k) IN
         /\ d \in LRUCache /\ SameQueue(c, d) /\ DOMAIN d.hashMap = DOMAIN c.hashMap
         /\ Hashed(d.hashMap, n)
         /\ \A j, x : Lists(d.hashMap, j, x) <=> Lists(c.hashMap, j, x) /\ j # k
<1>1. CASE findInHashMap(c, k) = NULL
  <2>1. deleteFromHashMap(c, k) = c
    BY <1>1 DEF deleteFromHashMap
  <2>2. \A x : ~Lists(c.hashMap, k, x)
    BY <1>1, FindIs
  <2> QED BY <2>1, <2>2 DEF SameQueue
<1>2. CASE findInHashMap(c, k) # NULL
  <2> DEFINE b == hashValue(k)
             l == c.hashMap[b]
             p == CHOOSE i \in DOMAIN l : l[i].key = k /\ \A h \in 1 .. i - 1 : l[h].key # k
             d == Rehashed(c, b, RemoveAt(l, p))
  <2>1. deleteFromHashMap(c, k) = d
    BY <1>2, Zenon DEF deleteFromHashMap, Rehashed, Bucket
  <2>2. l \in Seq(HashNode) /\ Len(l) \in Nat /\ DOMAIN l = 1 .. Len(l)
    BY LenProperties DEF LRUCache
  <2>3. \A i, j \in DOMAIN l : l[i].key = l[j].key => i = j
    BY DEF Hashed
  <2>4. p \in DOMAIN l /\ l[p].key = k
    <3>1. \E i \in DOMAIN l : l[i].key = k
      <4> DEFINE hits == {i \in DOMAIN l : l[i].key = k}
      <4>1. hits # {}
        BY <1>2, Zenon DEF findInHashMap, Bucket
      <4> QED BY <4>1
    <3>2. PICK i \in DOMAIN l : l[i].key = k
      BY <3>1
    <3>3. \A h \in 1 .. i - 1 : l[h].key # k
      BY <2>2, <2>3, <3>2
    <3> QED BY <3>2, <3>3
  <2> HIDE DEF p
  <2>5. PICK z : z = RemoveAt(l, p)
    OBVIOUS
  <2>6. /\ z \in Seq(HashNode) /\ Len(z) = Len(l) - 1 /\ DOMAIN z = 1 .. Len(z)
        /\ \A i \in DOMAIN z : z[i] = IF i < p THEN l[i] ELSE l[i + 1]
    BY <2>2, <2>4, <2>5, RemoveNode
  <2> DEFINE P(i) == IF i < p THEN i ELSE i + 1
  <2>7. \A i \in DOMAIN z : P(i) \in DOMAIN l /\ P(i) # p /\ z[i] = l[P(i)]
    BY <2>2, <2>4, <2>6
  <2>8. \A i \in DOMAIN l : i # p => \E h \in DOMAIN z : z[h] = l[i]
    <3>1. SUFFICES ASSUME NEW i \in DOMAIN l, i # p PROVE \E h \in DOMAIN z : z[h] = l[i]
      OBVIOUS
    <3>2. CASE i < p
      <4>1. i \in DOMAIN z /\ z[i] = l[i]
        BY <2>2, <2>4, <2>6, <3>2
      <4> QED BY <4>1
    <3>3. CASE i > p
      <4>1. i - 1 \in DOMAIN z /\ ~(i - 1 < p) /\ (i - 1) + 1 = i
        BY <2>2, <2>4, <2>6, <3>3
      <4>2. z[i - 1] = l[i]
        BY <2>6, <4>1
      <4> QED BY <4>1, <4>2
    <3> QED BY <2>2, <2>4, <3>1, <3>2, <3>3
  <2>9. /\ d \in LRUCache /\ SameQueue(c, d) /\ DOMAIN d.hashMap = DOMAIN c.hashMap
        /\ d.hashMap[b] = z
        /\ \A g \in DOMAIN c.hashMap \ {b} : d.hashMap[g] = c.hashMap[g]
    BY <2>5, <2>6, RehashIs
  <2> HIDE DEF d
  <2>10. Hashed(d.hashMap, n)
    <3>1. ASSUME NEW g \in DOMAIN d.hashMap, NEW i \in DOMAIN d.hashMap[g]
          PROVE  LET f == d.hashMap[g][i] IN
                 f.address \in DOMAIN n /\ n[f.address].key = f.key /\ hashValue(f.key) = g
      <4>1. CASE g # b
        BY <2>9, <3>1, <4>1 DEF Hashed
      <4>2. CASE g = b
        BY <2>7, <2>9, <3>1, <4>2 DEF Hashed
      <4> QED BY <4>1, <4>2
    <3>2. ASSUME NEW g \in DOMAIN d.hashMap, NEW i \in DOMAIN d.hashMap[g],
                 NEW j \in DOMAIN d.hashMap[g], d.hashMap[g][i].key = d.hashMap[g][j].key
          PROVE  i = j
      <4>1. CASE g # b
        BY <2>9, <3>2, <4>1 DEF Hashed
      <4>2. CASE g = b
        <5>1. P(i) = P(j) /\ i \in 1 .. Len(z) /\ j \in 1 .. Len(z)
          <6>1. i \in DOMAIN z /\ j \in DOMAIN z /\ z[i].key = z[j].key
            BY <2>9, <3>2, <4>2
          <6> HIDE DEF P
          <6> QED BY <2>3, <2>6, <2>7, <6>1
        <5> QED BY <2>2, <2>4, <2>6, <5>1
      <4> QED BY <4>1, <4>2
    <3> QED BY <3>1, <3>2 DEF Hashed
  <2>11. ASSUME NEW j, NEW x
         PROVE  Lists(d.hashMap, j, x) <=> Lists(c.hashMap, j, x) /\ j # k
    <3>1. ASSUME Lists(d.hashMap, j, x) PROVE Lists(c.hashMap, j, x) /\ j # k
      <4>1. PICK g, i :
              /\ g \in DOMAIN d.hashMap /\ i \in DOMAIN d.hashMap[g]
              /\ d.hashMap[g][i].key = j /\ d.hashMap[g][i].address = x
        BY <3>1 DEF Lists
      <4>2. CASE g # b
        <5>1. j # k
          BY <2>9, <4>1, <4>2 DEF Hashed
        <5> QED BY <2>9, <4>1, <4>2, <5>1 DEF Lists
      <4>3. CASE g = b
        <5>1. P(i) \in DOMAIN l /\ P(i) # p /\ l[P(i)].key = j /\ l[P(i)].address = x
          BY <2>7, <2>9, <4>1, <4>3
        <5> HIDE DEF P
        <5>2. j # k
          BY <2>3, <2>4, <5>1
        <5> QED BY <2>9, <4>3, <5>1, <5>2 DEF Lists
      <4> QED BY <4>2, <4>3
    <3>2. ASSUME Lists(c.hashMap, j, x), j # k PROVE Lists(d.hashMap, j, x)
      <4>1. PICK g, i :
              /\ g \in DOMAIN c.hashMap /\ i \in DOMAIN c.hashMap[g]
              /\ c.hashMap[g][i].key = j /\ c.hashMap[g][i].address = x
        BY <3>2 DEF Lists
      <4>2. CASE g # b
        BY <2>9, <4>1, <4>2 DEF Lists
      <4>3. CASE g = b
        <5>1. i # p
          BY <2>4, <3>2, <4>1, <4>3
        <5>2. PICK h \in DOMAIN z : z[h] = l[i]
          BY <2>8, <4>1, <4>3, <5>1
        <5> QED BY <2>9, <4>1, <4>3, <5>2 DEF Lists
      <4> QED BY <4>2, <4>3
    <3> QED BY <3>1, <3>2
  <2> QED BY <2>1, <2>9, <2>10, <2>11
<1> QED BY <1>1, <1>2

(* The same nodes as far as the hash map goes.                             *)
LEMMA KeysKept ==
  ASSUME NEW h, NEW n, NEW n2, SameKeys(n, n2), Hashed(h, n)
  PROVE  Hashed(h, n2) /\ (Complete(h, n) => Complete(h, n2))
  BY DEF SameKeys, Hashed, Complete

-----------------------------------------------------------------------------
(* What every command leaves of the structure and its nodes: a queue, and  *)
(* a hash map of it.                                                       *)
Sound(c, n, q) ==
  /\ c \in LRUCache /\ Heap(n) /\ Hashed(c.hashMap, n)
  /\ "entry" \notin NoMemory => Complete(c.hashMap, n)
  /\ Linked(c.front, c.rear, n, c.currentSize, q)

IInv ==
  /\ mode \in {"none", "ready", "broken", "exited", "undefined"}
  /\ \E q : Sound(cache, node, q)
  /\ mode = "ready" => /\ cache.capacity > 0 /\ DOMAIN cache.hashMap = 0 .. cache.capacity - 1
                       /\ cache.currentSize <= cache.capacity
  /\ mode \in {"none", "broken"} => cache.currentSize = 0

(* A full queue loses its last node (lines 194-200).                       *)
Full == cache.currentSize >= cache.capacity
Room(q) == IF Full THEN Shorter(q, cache.currentSize) ELSE q
Left == IF Full THEN cache.currentSize - 1 ELSE cache.currentSize

(* What is left of a sound structure is sound, and has room for a node.    *)
LEMMA RoomIs ==
  ASSUME IInv, mode = "ready", NEW q, Sound(cache, node, q)
  PROVE  LET s == MakeRoom(cache, node) IN
         /\ Sound(s.cache, s.node, Room(q))
         /\ s.cache.capacity = cache.capacity /\ s.cache.currentSize < cache.capacity
         /\ s.cache.currentSize = Left
         /\ DOMAIN s.node = IF Full THEN DOMAIN node \ {q[cache.currentSize]} ELSE DOMAIN node
         /\ \A b \in DOMAIN s.node : s.node[b].key = node[b].key /\ s.node[b].value = node[b].value
         /\ \A j, x : Lists(s.cache.hashMap, j, x) => Lists(cache.hashMap, j, x)
<1> DEFINE s == MakeRoom(cache, node)
           m == cache.currentSize
<1>1. /\ cache \in LRUCache /\ Heap(node) /\ Hashed(cache.hashMap, node)
      /\ Linked(cache.front, cache.rear, node, m, q) /\ m \in Nat
      /\ cache.capacity \in Int /\ cache.capacity > 0 /\ m <= cache.capacity
      /\ DOMAIN cache.hashMap = 0 .. cache.capacity - 1
  BY CacheAssumption DEF IInv, Sound, LRUCache
<1>2. CASE ~Full
  <2>1. s = State(cache, node)
    BY <1>2 DEF MakeRoom, Full
  <2> HIDE DEF s
  <2>2. s.cache = cache /\ s.node = node
    BY <2>1 DEF State
  <2> QED BY <1>1, <1>2, <2>2 DEF Full, Room, Left, s
<1>3. CASE Full
  <2> DEFINE k == node[cache.rear].key
             d == deleteFromHashMap(cache, k)
  <2>1. m # 0 /\ cache.rear = q[m] /\ cache.rear \in DOMAIN node
    BY <1>1, <1>3 DEF Full, Linked
  <2>2. k \in Int /\ k >= 0
    BY <1>1, <2>1, CacheAssumption DEF Heap, QueueNode
  <2>3. hashValue(k) \in DOMAIN cache.hashMap
    <3> HIDE DEF k
    <3> QED BY <1>1, <2>2, BucketIs
  <2>4. /\ d \in LRUCache /\ SameQueue(cache, d) /\ DOMAIN d.hashMap = DOMAIN cache.hashMap
        /\ Hashed(d.hashMap, node)
        /\ \A j, x : Lists(d.hashMap, j, x) <=> Lists(cache.hashMap, j, x) /\ j # k
    BY <1>1, <2>3, DeleteIs, CacheAssumption
  <2>5. s = deleteFromTail(d, node)
    BY <1>3 DEF MakeRoom, Full
  <2> HIDE DEF s, d
  <2>6. /\ d.front = cache.front /\ d.rear = cache.rear /\ d.currentSize = m
        /\ d.capacity = cache.capacity
    BY <2>4 DEF SameQueue
  <2>7. /\ DOMAIN s.node = DOMAIN node \ {d.rear}
        /\ \A b \in DOMAIN s.node : s.node[b].key = node[b].key /\ s.node[b].value = node[b].value
        /\ Heap(s.node)
        /\ s.cache = Smaller(d, s.cache.front, s.cache.rear)
        /\ s.cache \in LRUCache
        /\ Linked(s.cache.front, s.cache.rear, s.node, m - 1, Shorter(q, m))
    <3>1. Linked(d.front, d.rear, node, m, q) /\ d.currentSize # 0 /\ m # 0
      BY <1>1, <2>1, <2>6
    <3> HIDE DEF m
    <3>2. d \in LRUCache /\ Heap(node) /\ CacheAssumption
      BY <1>1, <2>4, CacheAssumption
    <3> QED BY <2>5, <3>1, <3>2, Shortens
  <2>8. s.cache.hashMap = d.hashMap /\ s.cache.capacity = d.capacity /\ s.cache.currentSize = m - 1
    BY <2>4, <2>6, <2>7 DEF Smaller, LRUCache
  <2>9. Hashed(s.cache.hashMap, s.node)
    <3>1. ASSUME NEW b \in DOMAIN d.hashMap, NEW i \in DOMAIN d.hashMap[b]
          PROVE  d.hashMap[b][i].address # cache.rear
      <4>1. Lists(d.hashMap, d.hashMap[b][i].key, d.hashMap[b][i].address)
        BY <3>1 DEF Lists
      <4>2. d.hashMap[b][i].key # k
        BY <2>4, <4>1
      <4> QED BY <2>4, <4>2 DEF Hashed
    <3> QED BY <2>4, <2>6, <2>7, <2>8, <3>1 DEF Hashed
  <2>10. "entry" \notin NoMemory => Complete(s.cache.hashMap, s.node)
    <3>1. SUFFICES ASSUME "entry" \notin NoMemory, NEW b \in DOMAIN s.node
                   PROVE  Lists(d.hashMap, node[b].key, b)
      BY <2>7, <2>8 DEF Complete
    <3>2. b \in DOMAIN node /\ b # cache.rear
      BY <2>6, <2>7
    <3>3. Lists(cache.hashMap, node[b].key, b) /\ Lists(cache.hashMap, k, cache.rear)
      BY <2>1, <3>1, <3>2 DEF Sound, Complete
    <3>4. node[b].key # k
      <4> HIDE DEF k
      <4>1. SUFFICES ASSUME node[b].key = k PROVE FALSE
        OBVIOUS
      <4>2. PICK g, i : /\ g \in DOMAIN cache.hashMap /\ i \in DOMAIN cache.hashMap[g]
                        /\ cache.hashMap[g][i].key = k /\ cache.hashMap[g][i].address = b
        BY <3>3, <4>1 DEF Lists
      <4>3. PICK h, j : /\ h \in DOMAIN cache.hashMap /\ j \in DOMAIN cache.hashMap[h]
                        /\ cache.hashMap[h][j].key = k /\ cache.hashMap[h][j].address = cache.rear
        BY <3>3 DEF Lists
      <4>4. g = hashValue(k) /\ h = hashValue(k)
        BY <1>1, <4>2, <4>3 DEF Hashed
      <4>5. i = j
        BY <1>1, <4>2, <4>3, <4>4 DEF Hashed
      <4> QED BY <3>2, <4>2, <4>3, <4>4, <4>5
    <3> QED BY <2>4, <3>3, <3>4
  <2>11. Sound(s.cache, s.node, Room(q))
    BY <1>3, <2>7, <2>8, <2>9, <2>10 DEF Sound, Room
  <2>12. s.cache.currentSize < cache.capacity
    BY <1>1, <2>8
  <2> QED BY <1>3, <2>1, <2>4, <2>6, <2>7, <2>8, <2>11, <2>12 DEF Left, s
<1> QED BY <1>2, <1>3

(* A node's value is written (lines 187-188).                              *)
SetValue(n, a, v) == [n EXCEPT ![a].value = v]

(* That leaves the queue and the hash map as they were.                    *)
LEMMA ValueSet ==
  ASSUME NEW n, NEW q, Sound(cache, n, q), NEW a \in DOMAIN n, NEW v \in Values,
         NEW n2, n2 = SetValue(n, a, v)
  PROVE  /\ Sound(cache, n2, q) /\ SameKeys(n, n2)
         /\ \A b \in DOMAIN n : n2[b].value = IF b = a THEN v ELSE n[b].value
<1>1. n \in [DOMAIN n -> QueueNode] /\ n[a] \in QueueNode
  BY DEF Sound, Heap
<1>2. [n[a] EXCEPT !.value = v] \in QueueNode
  BY <1>1 DEF QueueNode
<1>3. /\ DOMAIN n2 = DOMAIN n /\ n2 \in [DOMAIN n -> QueueNode]
      /\ n2[a] = [n[a] EXCEPT !.value = v]
      /\ \A b \in DOMAIN n \ {a} : n2[b] = n[b]
  BY <1>1, <1>2 DEF SetValue
<1>4. \A b \in DOMAIN n : /\ n2[b].key = n[b].key /\ n2[b].previous = n[b].previous
                          /\ n2[b].next = n[b].next
                          /\ n2[b].value = IF b = a THEN v ELSE n[b].value
  BY <1>1, <1>3 DEF QueueNode
<1>5. SameKeys(n, n2) /\ Heap(n2)
  BY <1>3, <1>4 DEF SameKeys, Heap, Sound
<1>6. /\ Hashed(cache.hashMap, n2)
      /\ "entry" \notin NoMemory => Complete(cache.hashMap, n2)
  BY <1>5, KeysKept DEF Sound
<1>7. Linked(cache.front, cache.rear, n2, cache.currentSize, q)
  BY <1>3, <1>4 DEF Linked, Sound
<1> QED BY <1>4, <1>5, <1>6, <1>7 DEF Sound

(* A node is used (lines 190, 245).                                        *)
LEMMA UseIs ==
  ASSUME NEW n, NEW q, Sound(cache, n, q), NEW i \in 1 .. cache.currentSize
  PROVE  LET s == moveToHead(cache, n, q[i]) IN
         /\ Sound(s.cache, s.node, Moved(q, cache.currentSize, i))
         /\ s.cache.capacity = cache.capacity /\ s.cache.currentSize = cache.currentSize
         /\ s.cache.hashMap = cache.hashMap
         /\ SameKeys(n, s.node) /\ SameValues(n, s.node)
<1> DEFINE s == moveToHead(cache, n, q[i])
           z == Moved(q, cache.currentSize, i)
<1>1. /\ cache \in LRUCache /\ Heap(n) /\ Linked(cache.front, cache.rear, n, cache.currentSize, q)
      /\ CacheAssumption
  BY CacheAssumption DEF Sound
<1>2. /\ Heap(s.node) /\ SameKeys(n, s.node) /\ SameValues(n, s.node)
      /\ s.cache = Ends(cache, s.cache.front, s.cache.rear)
      /\ s.cache \in LRUCache
      /\ Linked(s.cache.front, s.cache.rear, s.node, cache.currentSize, z)
  BY <1>1, Moves
<1> HIDE DEF s, z
<1>3. /\ s.cache.capacity = cache.capacity /\ s.cache.currentSize = cache.currentSize
      /\ s.cache.hashMap = cache.hashMap
  BY <1>1, <1>2 DEF Ends, LRUCache
<1>4. /\ Hashed(cache.hashMap, s.node)
      /\ "entry" \notin NoMemory => Complete(cache.hashMap, s.node)
  BY <1>2, KeysKept DEF Sound
<1> QED BY <1>2, <1>3, <1>4 DEF Sound, s, z

(* A node is added, with its entry when there is memory for that.          *)
Entered(c, k, a) ==
  {insertToHashMap(c, k, a)} \union IF "entry" \in NoMemory THEN {c} ELSE {}

Counted(c) == [c EXCEPT !.currentSize = @ + 1]

(* The structure stays sound, with the new node in front.                  *)
LEMMA AddIs ==
  ASSUME IInv, mode = "ready", NEW c, NEW n, NEW q, Sound(c, n, q), c.capacity = cache.capacity,
         NEW k \in Keys, k >= 0, \A x : ~Lists(c.hashMap, k, x), NEW v \in Values,
         NEW a \in Addresses \ DOMAIN n,
         NEW d \in Entered(PushFront(c, n, a, k, v).cache, k, a),
         NEW e, e = Counted(d)
  PROVE  LET t == PushFront(c, n, a, k, v) IN
         /\ Sound(e, t.node, Longer(q, c.currentSize, a))
         /\ e.capacity = c.capacity /\ e.currentSize = c.currentSize + 1
         /\ DOMAIN t.node = DOMAIN n \union {a} /\ t.node[a].key = k /\ t.node[a].value = v
         /\ \A b \in DOMAIN n : t.node[b].key = n[b].key /\ t.node[b].value = n[b].value
         /\ \A j, x : Lists(e.hashMap, j, x) => Lists(c.hashMap, j, x) \/ (j = k /\ x = a)
<1> DEFINE t == PushFront(c, n, a, k, v)
           z == Longer(q, c.currentSize, a)
           m == c.currentSize
<1>1. /\ c \in LRUCache /\ Heap(n) /\ Hashed(c.hashMap, n) /\ Linked(c.front, c.rear, n, m, q)
      /\ CacheAssumption
  BY CacheAssumption DEF Sound
<1>2. /\ DOMAIN t.node = DOMAIN n \union {a} /\ t.node[a].key = k /\ t.node[a].value = v
      /\ \A b \in DOMAIN n : t.node[b].key = n[b].key /\ t.node[b].value = n[b].value
      /\ Heap(t.node)
      /\ t.cache = Ends(c, t.cache.front, t.cache.rear) /\ t.cache \in LRUCache
      /\ Linked(t.cache.front, t.cache.rear, t.node, m + 1, z)
  BY <1>1, Lengthens
<1>3. d \in Entered(t.cache, k, a)
  OBVIOUS
<1> HIDE DEF t, z
<1>4. /\ t.cache.hashMap = c.hashMap /\ t.cache.capacity = c.capacity
      /\ t.cache.currentSize = m
  BY <1>1, <1>2 DEF Ends, LRUCache
<1>5. Hashed(t.cache.hashMap, t.node)
  BY <1>1, <1>2, <1>4 DEF Hashed
<1>6. hashValue(k) \in DOMAIN t.cache.hashMap
  <2>1. hashValue(k) \in 0 .. cache.capacity - 1
    BY BucketIs, CacheAssumption DEF IInv, Sound, LRUCache
  <2> QED BY <1>2, <2>1 DEF IInv, LRUCache
<1>7. findInHashMap(t.cache, k) = NULL
  BY <1>1, <1>2, <1>4, <1>5, <1>6, FindIs
<1>8. CASE d = insertToHashMap(t.cache, k, a)
  <2>1. /\ d \in LRUCache /\ SameQueue(t.cache, d) /\ DOMAIN d.hashMap = DOMAIN t.cache.hashMap
        /\ Hashed(d.hashMap, t.node)
        /\ \A j, x : Lists(d.hashMap, j, x) <=> Lists(t.cache.hashMap, j, x) \/ (j = k /\ x = a)
    <3>1. PICK u, w : u = t.cache /\ w = t.node
      OBVIOUS
    <3>2. /\ u \in LRUCache /\ Heap(w) /\ Hashed(u.hashMap, w) /\ a \in DOMAIN w /\ k \in Keys
          /\ w[a].key = k /\ hashValue(k) \in DOMAIN u.hashMap /\ findInHashMap(u, k) = NULL
          /\ CacheAssumption /\ d = insertToHashMap(u, k, a)
      BY <1>1, <1>2, <1>5, <1>6, <1>7, <1>8, <3>1
    <3>3. /\ d \in LRUCache /\ SameQueue(u, d) /\ DOMAIN d.hashMap = DOMAIN u.hashMap
          /\ Hashed(d.hashMap, w)
          /\ \A j, x : Lists(d.hashMap, j, x) <=> Lists(u.hashMap, j, x) \/ (j = k /\ x = a)
      BY ONLY <3>2, InsertIs
    <3> QED BY <3>1, <3>3
  <2>2. "entry" \notin NoMemory => Complete(d.hashMap, t.node)
    BY <1>2, <1>4, <2>1 DEF Complete, Sound
  <2>3. /\ e \in LRUCache /\ e.front = d.front /\ e.rear = d.rear /\ e.hashMap = d.hashMap
        /\ e.capacity = d.capacity /\ e.currentSize = d.currentSize + 1
    BY <2>1 DEF Counted, LRUCache
  <2>4. Linked(e.front, e.rear, t.node, e.currentSize, z)
    BY <1>2, <1>4, <2>1, <2>3 DEF SameQueue
  <2>5. Sound(e, t.node, z)
    BY <1>2, <2>1, <2>2, <2>3, <2>4 DEF Sound
  <2> QED BY <1>2, <1>4, <2>1, <2>3, <2>5 DEF SameQueue, t, z
<1>9. CASE "entry" \in NoMemory /\ d = t.cache
  <2>1. /\ e \in LRUCache /\ e.front = d.front /\ e.rear = d.rear /\ e.hashMap = d.hashMap
        /\ e.capacity = d.capacity /\ e.currentSize = d.currentSize + 1
    BY <1>2, <1>9 DEF Counted, LRUCache
  <2>2. Sound(e, t.node, z)
    BY <1>2, <1>4, <1>5, <1>9, <2>1 DEF Sound
  <2> QED BY <1>2, <1>4, <1>9, <2>1, <2>2 DEF t, z
<1> QED BY <1>3, <1>8, <1>9 DEF Entered

-----------------------------------------------------------------------------
(* Every move leaves the invariant in place.                               *)
LEMMA Kept ==
  ASSUME IInv, mode = "ready", mode' = mode, NEW q, Sound(cache', node', q),
         cache'.capacity = cache.capacity, cache'.currentSize <= cache.capacity
  PROVE  IInv'
<1>1. cache' \in LRUCache /\ cache \in LRUCache
  BY DEF Sound, IInv
<1>2. DOMAIN cache'.hashMap = DOMAIN cache.hashMap
  BY <1>1 DEF LRUCache
<1>3. cache' \in LRUCache'
  BY <1>1, <1>2 DEF LRUCache, Pointers
<1>4. Heap(node)'
  BY DEF Sound, Heap, QueueNode, Pointers
<1>5. Hashed(cache.hashMap, node)'
  BY DEF Sound, Hashed, hashValue
<1>6. "entry" \notin NoMemory => Complete(cache.hashMap, node)'
  BY DEF Sound, Complete, Lists
<1>7. Linked(cache.front, cache.rear, node, cache.currentSize, q)'
  BY DEF Sound, Linked
<1>8. Sound(cache, node, q)'
  BY <1>3, <1>4, <1>5, <1>6, <1>7 DEF Sound
<1> QED BY <1>2, <1>8 DEF IInv

(* Nor is anything lost when the structure stays as it is.                 *)
LEMMA Still ==
  ASSUME IInv, cache' = cache, node' = node, mode' \in {mode, "undefined"}
  PROVE  IInv'
<1>1. PICK q : Sound(cache, node, q)
  BY DEF IInv
<1>2. Sound(cache, node, q)'
  BY <1>1 DEF Sound, LRUCache, Heap, QueueNode, Pointers, Hashed, hashValue, Complete, Lists, Linked
<1> QED BY <1>2 DEF IInv

(* The structure with no node.                                             *)
LEMMA Nothing ==
  ASSUME CacheAssumption, NEW c \in Capacities \union {0}, NEW h,
         cache' = Emptied(c, h), DOMAIN node' = {}, \A b \in DOMAIN h : h[b] = <<>>,
         h \in [DOMAIN h -> {<<>>}], mode' \in {"none", "ready", "broken", "exited", "undefined"},
         mode' = "ready" => c > 0 /\ DOMAIN h = 0 .. c - 1, node' \in [{} -> QueueNode]
  PROVE  IInv'
<1>1. /\ cache'.capacity = c /\ cache'.currentSize = 0 /\ cache'.front = NULL
      /\ cache'.rear = NULL /\ cache'.hashMap = h
  BY DEF Emptied
<1>2. cache' \in LRUCache'
  <2>1. <<>> \in Seq(HashNode) /\ h \in [DOMAIN h -> Seq(HashNode)]
    BY EmptySeq
  <2> QED BY <1>1, <2>1 DEF Emptied, LRUCache, Pointers
<1>3. Heap(node)'
  BY DEF Heap, QueueNode, Pointers
<1>4. Hashed(cache.hashMap, node)' /\ Complete(cache.hashMap, node)'
  BY <1>1, EmptySeq DEF Hashed, Complete
<1>5. Linked(cache.front, cache.rear, node, cache.currentSize, <<>>)'
  <2>1. <<>> \in [1 .. 0 -> {}] /\ 0 \in Nat /\ 1 .. 0 = {}
    OBVIOUS
  <2> QED BY <1>1, <2>1 DEF Linked
<1>6. Sound(cache, node, <<>>)'
  BY <1>2, <1>3, <1>4, <1>5 DEF Sound
<1> QED BY <1>1, <1>6, CacheAssumption DEF IInv

(* From meets the nodes of the queue, in its order.                        *)
LEMMA Walk ==
  ASSUME NEW f, NEW r, NEW n, NEW m, NEW q, Linked(f, r, n, m, q), NULL \notin DOMAIN n
  PROVE  From(f, n) = q
<1>1. /\ m \in Nat /\ q \in [1 .. m -> DOMAIN n]
      /\ \A i, h \in 1 .. m : q[i] = q[h] => i = h
      /\ \A a \in DOMAIN n : \E i \in 1 .. m : q[i] = a
  BY DEF Linked
<1>2. Cardinality(DOMAIN n) = m
  <2>1. q \in Bijection(1 .. m, DOMAIN n)
    BY <1>1 DEF Bijection, Injection, Surjection, IsInjective
  <2> QED BY <1>1, <2>1, FS_CountingElements DEF ExistsBijection
<1> DEFINE Follows(h) ==
             h = [i \in 1 .. Cardinality(DOMAIN n) + 1 |->
                    IF i = 1 THEN f ELSE IF h[i - 1] \in DOMAIN n THEN n[h[i - 1]].next ELSE NULL]
           at == CHOOSE h : Follows(h)
           g == [i \in 1 .. m + 1 |-> IF i <= m THEN q[i] ELSE NULL]
<1>3. ASSUME NEW i \in 1 .. m + 1
      PROVE  g[i] = IF i = 1 THEN f ELSE IF g[i - 1] \in DOMAIN n THEN n[g[i - 1]].next ELSE NULL
  <2>1. CASE i = 1
    BY <1>1, <2>1 DEF Linked
  <2>2. CASE i # 1
    <3>1. i - 1 \in 1 .. m /\ i - 1 \in 1 .. m + 1 /\ g[i - 1] = q[i - 1] /\ q[i - 1] \in DOMAIN n
      BY <1>1, <2>2
    <3>2. n[q[i - 1]].next = IF i - 1 = m THEN NULL ELSE q[i]
      BY <3>1 DEF Linked
    <3>3. g[i] = IF i - 1 = m THEN NULL ELSE q[i]
      BY <1>1, <2>2
    <3> QED BY <2>2, <3>1, <3>2, <3>3
  <2> QED BY <2>1, <2>2
<1> HIDE DEF Follows
<1>4. Follows(g)
  <2> HIDE DEF g
  <2>1. g = [i \in 1 .. m + 1 |-> g[i]]
    BY DEF g
  <2>2. g = [i \in 1 .. m + 1 |->
              IF i = 1 THEN f ELSE IF g[i - 1] \in DOMAIN n THEN n[g[i - 1]].next ELSE NULL]
    BY <1>3, <2>1
  <2> QED BY <1>2, <2>2 DEF Follows
<1>5. ASSUME NEW h, Follows(h) PROVE h = g
  <2> DEFINE S == {i \in 1 .. m + 1 : h[i] # g[i]}
  <2>1. /\ h = [i \in 1 .. m + 1 |->
                 IF i = 1 THEN f ELSE IF h[i - 1] \in DOMAIN n THEN n[h[i - 1]].next ELSE NULL]
    BY <1>2, <1>5 DEF Follows
  <2>2. ASSUME NEW i \in 1 .. m + 1
        PROVE  h[i] = IF i = 1 THEN f ELSE IF h[i - 1] \in DOMAIN n THEN n[h[i - 1]].next ELSE NULL
    BY <2>1
  <2>3. S = {}
    <3> HIDE DEF g
    <3>1. SUFFICES ASSUME S # {} PROVE FALSE
      OBVIOUS
    <3>2. S \subseteq Nat
      BY <1>1
    <3> HIDE DEF S
    <3>3. PICK x \in S : \A y \in S : ~(<<y, x>> \in OpToRel(<, Nat))
      BY <3>1, <3>2, NatLessThanWellFounded, WFMin
    <3>4. ASSUME NEW y \in S PROVE x <= y
      <4>1. ~(<<y, x>> \in {ss \in Nat \X Nat : ss[1] < ss[2]})
        BY <3>3, Zenon DEF OpToRel
      <4> QED BY <3>2, <4>1
    <3>5. x \in 1 .. m + 1 /\ h[x] # g[x]
      BY DEF S
    <3>6. x # 1
      BY <1>3, <2>2, <3>5
    <3>7. x - 1 \in 1 .. m + 1 /\ x - 1 \notin S
      BY <1>1, <3>2, <3>4, <3>5, <3>6
    <3>8. h[x - 1] = g[x - 1]
      BY <3>7 DEF S
    <3> QED BY <1>3, <2>2, <3>5, <3>6, <3>8
  <2>4. DOMAIN h = 1 .. m + 1 /\ h = [i \in 1 .. m + 1 |-> h[i]]
    BY <2>1
  <2>5. g = [i \in 1 .. m + 1 |-> g[i]]
    OBVIOUS
  <2> HIDE DEF g
  <2> QED BY <2>3, <2>4, <2>5
<1>6. at = g
  <2> HIDE DEF g
  <2>1. Follows(at)
    BY <1>4, Zenon
  <2> QED BY <1>5, <2>1
<1>7. Cardinality({i \in 1 .. m + 1 : g[i] # NULL}) = m
  <2>1. \A i \in 1 .. m + 1 : g[i] # NULL <=> i \in 1 .. m
    BY <1>1
  <2>2. {i \in 1 .. m + 1 : g[i] # NULL} = 1 .. m
    <3> HIDE DEF g
    <3> QED BY <1>1, <2>1
  <2>3. Cardinality(1 .. m) = m
    BY <1>1, FS_Interval
  <2> QED BY <2>2, <2>3
<1>8. SubSeq(g, 1, m) = q
  <2>1. \A i \in 1 .. m : g[i] = q[i] /\ g[i] \in DOMAIN n
    BY <1>1
  <2> HIDE DEF g
  <2>2. PICK z : z = SubSeq(g, 1, m)
    OBVIOUS
  <2>3. /\ z \in Seq(DOMAIN n) /\ Len(z) = (IF 1 <= m THEN m - 1 + 1 ELSE 0)
        /\ \A i \in 1 .. m - 1 + 1 : z[i] = g[1 + i - 1]
    <3>1. 1 \in Int /\ m \in Int /\ \A i \in 1 .. m : g[i] \in DOMAIN n
      BY <1>1, <2>1
    <3> QED BY ONLY <2>2, <3>1, SubSeqProperties
  <2>4. Len(z) = m /\ \A i \in 1 .. m : z[i] = q[i]
    <3>1. Len(z) = m
      BY <1>1, <2>3
    <3>2. ASSUME NEW i \in 1 .. m PROVE z[i] = q[i]
      <4>1. i \in 1 .. m - 1 + 1 /\ 1 + i - 1 = i
        BY <1>1
      <4>2. z[i] = g[1 + i - 1]
        BY <2>3, <4>1
      <4> QED BY <2>1, <4>1, <4>2
    <3> QED BY <3>1, <3>2
  <2>5. z = [i \in 1 .. m |-> z[i]] /\ q = [i \in 1 .. m |-> q[i]]
    BY <1>1, <2>3, <2>4
  <2> QED BY <2>2, <2>4, <2>5
<1>9. From(f, n) = SubSeq(at, 1, Cardinality({i \in 1 .. m + 1 : at[i] # NULL}))
  BY <1>2, Zenon DEF From, Follows
<1> HIDE DEF g, at
<1> QED BY <1>6, <1>7, <1>8, <1>9

(* What Exit frees (lines 290-296).                                        *)
LEMMA QueueIs ==
  ASSUME NEW q, Sound(cache, node, q), CacheAssumption
  PROVE  Queue = q /\ NULL \notin DOMAIN node
<1>1. NULL \notin DOMAIN node
  BY DEF Sound, Heap, CacheAssumption
<1> QED BY <1>1, Walk DEF Queue, Sound

-----------------------------------------------------------------------------
(* The invariant holds at the start. *)
LEMMA StartsSound == Init => IInv
<1> SUFFICES ASSUME Init PROVE IInv
  OBVIOUS
<1>1. /\ cache.capacity = 0 /\ cache.currentSize = 0 /\ cache.front = NULL
      /\ cache.rear = NULL /\ cache.hashMap = <<>> /\ DOMAIN node = {} /\ node = <<>>
  BY DEF Init, Emptied
<1>2. cache \in LRUCache
  <2>1. <<>> \in [{} -> Seq(HashNode)]
    OBVIOUS
  <2> QED BY <1>1, <2>1 DEF Init, Emptied, LRUCache, Pointers
<1>3. Heap(node)
  <2>1. <<>> \in [{} -> QueueNode]
    OBVIOUS
  <2> QED BY <1>1, <2>1 DEF Heap
<1>4. Hashed(cache.hashMap, node) /\ Complete(cache.hashMap, node)
  BY <1>1 DEF Hashed, Complete
<1>5. Linked(cache.front, cache.rear, node, cache.currentSize, <<>>)
  <2>1. <<>> \in [1 .. 0 -> {}] /\ 0 \in Nat /\ 1 .. 0 = {}
    OBVIOUS
  <2> QED BY <1>1, <2>1 DEF Linked
<1>6. Sound(cache, node, <<>>)
  BY <1>2, <1>3, <1>4, <1>5 DEF Sound
<1> QED BY <1>1, <1>6 DEF IInv, Init

(* A key that may be looked for has a bucket.                              *)
LEMMA HasBucket ==
  ASSUME IInv, NEW k \in Keys, Reachable(k), CacheAssumption
  PROVE  mode = "ready" /\ hashValue(k) \in DOMAIN cache.hashMap
<1>1. /\ mode = "ready" /\ hashValue(k) >= 0 /\ k \in Int /\ cache.capacity \in Int
      /\ cache.capacity > 0 /\ DOMAIN cache.hashMap = 0 .. cache.capacity - 1
  BY DEF IInv, Reachable, CacheAssumption, Sound, LRUCache
<1> QED BY <1>1, BucketIs

(* A node that is found goes to the front (lines 185-191, 240-247).        *)
LEMMA FoundStep ==
  ASSUME IInv, NEW k \in Keys, Reachable(k), findInHashMap(cache, k) # NULL, CacheAssumption,
         NEW n, NEW q, Sound(cache, n, q), SameKeys(node, n), mode' = mode,
         Becomes(moveToHead(cache, n, findInHashMap(cache, k)))
  PROVE  \E i \in 1 .. cache.currentSize :
           /\ q[i] = findInHashMap(cache, k) /\ n[q[i]].key = k
           /\ Sound(cache', node', Moved(q, cache.currentSize, i))
           /\ cache'.capacity = cache.capacity /\ cache'.currentSize = cache.currentSize
           /\ cache'.hashMap = cache.hashMap
           /\ SameKeys(n, node') /\ SameValues(n, node')
           /\ IInv'
<1>1. mode = "ready" /\ hashValue(k) \in DOMAIN cache.hashMap
  BY HasBucket
<1>2. PICK a : a = findInHashMap(cache, k)
  OBVIOUS
<1>3. a \in DOMAIN n /\ n[a].key = k
  <2>1. cache \in LRUCache /\ Heap(n) /\ Hashed(cache.hashMap, n)
    BY DEF Sound
  <2> QED BY <1>1, <1>2, <2>1, FindIs
<1>4. PICK i \in 1 .. cache.currentSize : q[i] = a
  BY <1>3 DEF Sound, Linked
<1>5. PICK s : s = moveToHead(cache, n, q[i])
  OBVIOUS
<1>6. /\ Sound(s.cache, s.node, Moved(q, cache.currentSize, i))
      /\ s.cache.capacity = cache.capacity /\ s.cache.currentSize = cache.currentSize
      /\ s.cache.hashMap = cache.hashMap
      /\ SameKeys(n, s.node) /\ SameValues(n, s.node)
  BY <1>5, UseIs
<1>7. cache' = s.cache /\ node' = s.node
  BY <1>2, <1>4, <1>5 DEF Becomes
<1>8. IInv'
  <2>1. cache'.currentSize <= cache.capacity
    BY <1>1, <1>6, <1>7 DEF IInv
  <2> QED BY <1>1, <1>6, <1>7, <2>1, Kept
<1> QED BY <1>2, <1>3, <1>4, <1>6, <1>7, <1>8

(* What put does for a key that is not there (lines 194-227): a node less  *)
(* when the queue was full, and at best one more.                          *)
AsBefore(s) == \A b \in s : node'[b].key = node[b].key /\ node'[b].value = node[b].value

NoneCame(q) == /\ reply' = Says("no memory") /\ Sound(cache', node', Room(q))
               /\ AsBefore(DOMAIN node')
               /\ \A j, x : Lists(cache'.hashMap, j, x) => Lists(cache.hashMap, j, x)

Came(k, v, q, a) == /\ reply' = Added(k) /\ Sound(cache', node', Longer(Room(q), Left, a))
                    /\ node'[a].key = k /\ node'[a].value = v /\ AsBefore(DOMAIN node' \ {a})
                    /\ \A j, x : Lists(cache'.hashMap, j, x)
                                  => Lists(cache.hashMap, j, x) \/ (j = k /\ x = a)

(* put does one of these.                                                  *)
LEMMA NewStep ==
  ASSUME IInv, NEW k \in Keys, NEW v \in Values, PutNew(k, v), CacheAssumption,
         NEW q, Sound(cache, node, q)
  PROVE  /\ IInv' /\ cache'.capacity = cache.capacity /\ mode' = mode
         /\ NoneCame(q) \/ \E a : Came(k, v, q, a)
<1>1. /\ mode = "ready" /\ hashValue(k) \in DOMAIN cache.hashMap /\ mode' = mode /\ k >= 0
      /\ findInHashMap(cache, k) = NULL
  BY HasBucket DEF PutNew, Acceptable
<1>2. \A x : ~Lists(cache.hashMap, k, x)
  <2>1. cache \in LRUCache /\ Heap(node) /\ Hashed(cache.hashMap, node)
    BY DEF Sound
  <2> QED BY <1>1, <2>1, FindIs
<1>3. PICK s : s = MakeRoom(cache, node)
  OBVIOUS
<1>4. /\ Sound(s.cache, s.node, Room(q))
      /\ s.cache.capacity = cache.capacity /\ s.cache.currentSize < cache.capacity
      /\ s.cache.currentSize = Left
      /\ DOMAIN s.node \subseteq DOMAIN node
      /\ \A b \in DOMAIN s.node : s.node[b].key = node[b].key /\ s.node[b].value = node[b].value
      /\ \A j, x : Lists(s.cache.hashMap, j, x) => Lists(cache.hashMap, j, x)
  BY <1>1, <1>3, RoomIs
<1>5. s.cache.currentSize \in Nat /\ cache.capacity \in Int
  BY <1>4, CacheAssumption DEF Sound, LRUCache
<1>6. CASE reply' = Says("no memory") /\ Becomes(s)
  <2>1. cache' = s.cache /\ node' = s.node
    BY <1>6 DEF Becomes
  <2>2. IInv'
    <3>1. /\ Sound(cache', node', Room(q)) /\ cache'.capacity = cache.capacity
          /\ cache'.currentSize <= cache.capacity
      BY <1>4, <1>5, <2>1
    <3> QED BY <1>1, <3>1, Kept
  <2> QED BY <1>1, <1>4, <1>6, <2>1, <2>2 DEF NoneCame, AsBefore
<1>7. ASSUME NEW a \in Addresses \ DOMAIN s.node, reply' = Added(k),
             NEW t, t = PushFront(s.cache, s.node, a, k, v),
             NEW c \in Entered(t.cache, k, a),
             Becomes(State(Counted(c), t.node))
      PROVE  /\ IInv' /\ cache'.capacity = cache.capacity
             /\ Came(k, v, q, a)
  <2>1. PICK e : e = Counted(c)
    OBVIOUS
  <2>2. cache' = e /\ node' = t.node
    BY <1>7, <2>1 DEF Becomes, State
  <2>3. PICK d, n, p : d = s.cache /\ n = s.node /\ p = Room(q)
    OBVIOUS
  <2>4. /\ IInv /\ mode = "ready" /\ Sound(d, n, p) /\ d.capacity = cache.capacity /\ k \in Keys
        /\ k >= 0 /\ (\A x : ~Lists(d.hashMap, k, x)) /\ v \in Values /\ a \in Addresses \ DOMAIN n
        /\ c \in Entered(PushFront(d, n, a, k, v).cache, k, a)
        /\ e = Counted(c) /\ t = PushFront(d, n, a, k, v)
    BY <1>1, <1>2, <1>4, <1>7, <2>1, <2>3
  <2>5. /\ Sound(e, t.node, Longer(p, d.currentSize, a))
        /\ e.capacity = d.capacity /\ e.currentSize = d.currentSize + 1
        /\ DOMAIN t.node = DOMAIN n \union {a} /\ t.node[a].key = k /\ t.node[a].value = v
        /\ \A b \in DOMAIN n : t.node[b].key = n[b].key /\ t.node[b].value = n[b].value
        /\ \A j, x : Lists(e.hashMap, j, x) => Lists(d.hashMap, j, x) \/ (j = k /\ x = a)
    BY ONLY <2>4, AddIs
  <2>6. d.currentSize = Left /\ cache'.currentSize <= cache.capacity
        /\ cache'.capacity = cache.capacity
    BY <1>4, <1>5, <2>2, <2>3, <2>5
  <2>7. Sound(cache', node', Longer(Room(q), Left, a))
    BY <2>2, <2>3, <2>5, <2>6
  <2>8. IInv'
    BY <1>1, <2>6, <2>7, Kept
  <2>9. \A j, x : Lists(cache'.hashMap, j, x) => Lists(cache.hashMap, j, x) \/ (j = k /\ x = a)
    BY <1>4, <2>2, <2>3, <2>5
  <2> QED BY <1>4, <1>7, <2>2, <2>3, <2>5, <2>6, <2>7, <2>8, <2>9 DEF Came, AsBefore
<1>8. \/ reply' = Says("no memory") /\ Becomes(s)
      \/ \E a \in Addresses \ DOMAIN s.node :
           /\ reply' = Added(k)
           /\ \E c \in Entered(PushFront(s.cache, s.node, a, k, v).cache, k, a) :
                Becomes(State(Counted(c), PushFront(s.cache, s.node, a, k, v).node))
  BY <1>3, Zenon DEF PutNew, Entered, Counted
<1> QED BY <1>1, <1>3, <1>6, <1>7, <1>8

(* Every command leaves the structure sound.                               *)
LEMMA StaysSound == IInv /\ [Next]_vars => IInv'
<1> SUFFICES ASSUME IInv, [Next]_vars PROVE IInv'
  OBVIOUS
<1> USE CacheAssumption
<1>1. PICK q : Sound(cache, node, q)
  BY DEF IInv
<1>2. ASSUME NEW c \in Capacities, createCache(c) PROVE IInv'
  <2>1. DOMAIN node = {} /\ node' = node
    <3>1. mode = "none" /\ cache.currentSize = 0
      BY <1>2 DEF createCache, IInv
    <3>2. \A a \in DOMAIN node : \E i \in 1 .. 0 : q[i] = a
      BY <1>1, <3>1 DEF Sound, Linked
    <3>3. 1 .. 0 = {}
      OBVIOUS
    <3>4. DOMAIN node = {}
      BY <3>2, <3>3, Zenon
    <3>5. node' = node
      BY <1>2 DEF createCache
    <3> QED BY <3>4, <3>5
  <2>2. node' \in [{} -> QueueNode]
    BY <1>1, <2>1 DEF Sound, Heap
  <2>3. CASE c > 0 /\ mode' = "ready" /\ cache' = Emptied(c, [b \in 0 .. c - 1 |-> <<>>])
    <3>1. PICK h : h = [b \in 0 .. c - 1 |-> <<>>]
      OBVIOUS
    <3>2. h \in [DOMAIN h -> {<<>>}] /\ DOMAIN h = 0 .. c - 1 /\ \A b \in DOMAIN h : h[b] = <<>>
      BY <3>1
    <3>3. cache' = Emptied(c, h) /\ DOMAIN node' = {} /\ mode' = "ready" /\ c > 0
      BY <2>1, <2>3, <3>1
    <3> QED BY <2>2, <3>2, <3>3, Nothing
  <2>4. CASE mode' = "broken" /\ cache' = Emptied(c, <<>>)
    <3>1. PICK h : h = <<>>
      OBVIOUS
    <3>2. h \in [DOMAIN h -> {<<>>}] /\ \A b \in DOMAIN h : h[b] = <<>>
      BY <3>1
    <3> QED BY <2>1, <2>2, <2>4, <3>1, <3>2, Nothing
  <2> QED BY <1>2, <2>3, <2>4 DEF createCache
<1>3. ASSUME NEW k \in Keys, get(k) PROVE IInv'
  <2>1. CASE cache' = cache /\ node' = node
    BY <1>3, <2>1, Still DEF get
  <2>2. CASE ~(cache' = cache /\ node' = node)
    <3>1. /\ Reachable(k) /\ findInHashMap(cache, k) # NULL /\ mode' = mode
          /\ Becomes(moveToHead(cache, node, findInHashMap(cache, k)))
      BY <1>3, <2>2 DEF get
    <3> QED BY <1>1, <3>1, FoundStep DEF SameKeys
  <2> QED BY <2>1, <2>2
<1>4. ASSUME NEW k \in Keys, NEW v \in Values, PutExisting(k, v) PROVE IInv'
  <2>1. PICK a, n : a = findInHashMap(cache, k) /\ n = SetValue(node, a, v)
    OBVIOUS
  <2>2. Reachable(k) /\ a # NULL /\ mode' = mode /\ Becomes(moveToHead(cache, n, a))
    BY <1>4, <2>1, Zenon DEF PutExisting, SetValue
  <2>3. a \in DOMAIN node
    <3>1. cache \in LRUCache /\ Heap(node) /\ Hashed(cache.hashMap, node)
      BY <1>1 DEF Sound
    <3> QED BY <2>1, <2>2, <3>1, HasBucket, FindIs
  <2>4. Sound(cache, n, q) /\ SameKeys(node, n)
    BY <1>1, <2>1, <2>3, ValueSet
  <2> QED BY <2>1, <2>2, <2>4, FoundStep
<1>5. ASSUME NEW k \in Keys, NEW v \in Values, PutNew(k, v) PROVE IInv'
  BY <1>1, <1>5, NewStep
<1>6. ASSUME Exit PROVE IInv'
  <2>1. CASE mode' = "undefined" /\ UNCHANGED <<cache, node>>
    BY <2>1, Still
  <2>2. CASE /\ mode' = "exited" /\ node' = Free(node, ToSet(Queue))
             /\ cache' = Emptied(cache.capacity, <<>>)
    <3>1. ToSet(Queue) = DOMAIN node
      <4>1. Queue = q
        BY <1>1, QueueIs
      <4>2. q \in [DOMAIN q -> DOMAIN node] /\ \A a \in DOMAIN node : \E i \in DOMAIN q : q[i] = a
        BY <1>1 DEF Sound, Linked
      <4> QED BY <4>1, <4>2 DEF ToSet
    <3>2. DOMAIN node' = {} /\ node' \in [{} -> QueueNode]
      BY <2>2, <3>1 DEF Free
    <3>3. cache.capacity \in Capacities \union {0}
      BY <1>1 DEF Sound, LRUCache
    <3>4. PICK h : h = <<>>
      OBVIOUS
    <3>5. h \in [DOMAIN h -> {<<>>}] /\ \A b \in DOMAIN h : h[b] = <<>>
      BY <3>4
    <3>6. cache' = Emptied(cache.capacity, h)
      BY <2>2, <3>4
    <3> QED BY <2>2, <3>2, <3>3, <3>5, <3>6, Nothing
  <2> QED BY <1>6, <2>1, <2>2 DEF Exit
<1>7. CASE cache' = cache /\ node' = node /\ mode' \in {mode, "undefined"}
  BY <1>7, Still
<1> QED
  BY <1>2, <1>3, <1>4, <1>5, <1>6, <1>7
  DEF Next, Put, CreateRefused, PutRefused, Undefined, NoCache, vars

(* The structure is sound in every reachable state.                        *)
THEOREM Invariance == Spec => []IInv
  BY StartsSound, StaysSound, PTL DEF Spec

-----------------------------------------------------------------------------
(* What the invariant says: first, that every variable has its type.       *)
LEMMA Types == IInv => TypeOK
<1> SUFFICES ASSUME IInv PROVE TypeOK
  OBVIOUS
<1>1. PICK q : Sound(cache, node, q)
  BY DEF IInv
<1>2. {cache.front, cache.rear} \subseteq DOMAIN node \union {NULL}
  <2>1. \A i \in 1 .. cache.currentSize : q[i] \in DOMAIN node
    BY <1>1 DEF Sound, Linked
  <2>2. cache.currentSize # 0 => 1 \in 1 .. cache.currentSize /\ cache.currentSize \in 1 .. cache.currentSize
    BY <1>1 DEF Sound, Linked
  <2> QED BY <1>1, <2>1, <2>2 DEF Sound, Linked
<1> QED BY <1>1, <1>2 DEF Sound, Heap, IInv, TypeOK

(* The pointers spell one queue.                                           *)
LEMMA Links == IInv => WellLinked
<1> SUFFICES ASSUME IInv PROVE WellLinked
  OBVIOUS
<1> DEFINE m == cache.currentSize
<1>1. PICK q : Sound(cache, node, q)
  BY DEF IInv
<1>2. Queue = q
  BY <1>1, QueueIs, CacheAssumption
<1>3. /\ m \in Nat /\ q \in [1 .. m -> DOMAIN node] /\ DOMAIN q = 1 .. m
      /\ \A i, h \in 1 .. m : q[i] = q[h] => i = h
      /\ \A a \in DOMAIN node : \E i \in 1 .. m : q[i] = a
      /\ \A i \in 1 .. m : node[q[i]].previous = IF i = 1 THEN NULL ELSE q[i - 1]
      /\ cache.rear = IF m = 0 THEN NULL ELSE q[m]
  BY <1>1 DEF Sound, Linked
<1> HIDE DEF m
<1>4. Len(q) = m /\ q \in Seq(DOMAIN node)
  BY <1>3
<1>5. ToSet(q) = DOMAIN node
  <2>1. q \in [DOMAIN q -> DOMAIN node] /\ \A a \in DOMAIN node : \E i \in DOMAIN q : q[i] = a
    BY <1>3
  <2> QED BY <2>1 DEF ToSet
<1>6. Cardinality(ToSet(q)) = m
  <2>1. q \in Bijection(1 .. m, DOMAIN node)
    BY <1>3 DEF Bijection, Injection, Surjection, IsInjective
  <2> QED BY <1>3, <1>5, <2>1, FS_CountingElements DEF ExistsBijection
<1>7. cache.rear = IF q = <<>> THEN NULL ELSE Last(q)
  <2>1. q = <<>> <=> m = 0
    BY <1>3, <1>4, EmptySeq
  <2> QED BY <1>3, <1>4, <2>1 DEF Last
<1>8. mode = "ready" => m <= cache.capacity
  BY DEF IInv, m
<1> QED BY <1>2, <1>3, <1>4, <1>5, <1>6, <1>7, <1>8, Zenon DEF WellLinked, m

(* No entry points to a node that is gone.                                 *)
LEMMA Pointing == IInv => NoDangling
<1> SUFFICES ASSUME IInv PROVE NoDangling
  OBVIOUS
<1>1. Hashed(cache.hashMap, node) /\ cache \in LRUCache
  BY DEF IInv, Sound
<1>2. ASSUME NEW b \in DOMAIN cache.hashMap, NEW e \in ToSet(cache.hashMap[b])
      PROVE  e.address \in DOMAIN node /\ node[e.address].key = e.key /\ hashValue(e.key) = b
  BY <1>1, <1>2 DEF ToSet, Hashed
<1>3. \A e \in Entries : e.address \in DOMAIN node /\ node[e.address].key = e.key
  BY <1>2 DEF Entries
<1> QED BY <1>1, <1>2, <1>3 DEF NoDangling, Hashed

(* Every node has its entry.                                               *)
LEMMA Indexes == ASSUME "entry" \notin NoMemory PROVE IInv => Indexed
<1> SUFFICES ASSUME IInv PROVE Indexed
  OBVIOUS
<1>1. Complete(cache.hashMap, node) /\ cache \in LRUCache
  BY DEF IInv, Sound
<1>2. ASSUME NEW a \in DOMAIN node PROVE [key |-> node[a].key, address |-> a] \in Entries
  <2>1. PICK b, i : /\ b \in DOMAIN cache.hashMap /\ i \in DOMAIN cache.hashMap[b]
                    /\ cache.hashMap[b][i].key = node[a].key /\ cache.hashMap[b][i].address = a
    BY <1>1 DEF Complete, Lists
  <2>2. cache.hashMap[b][i] \in HashNode
    BY <1>1, <2>1, LenProperties DEF LRUCache
  <2>3. cache.hashMap[b][i] = [key |-> node[a].key, address |-> a]
    BY <2>1, <2>2 DEF HashNode
  <2>4. cache.hashMap[b][i] \in ToSet(cache.hashMap[b])
    BY <2>1 DEF ToSet
  <2> QED BY <2>1, <2>3, <2>4 DEF Entries
<1> QED BY <1>2, Pointing DEF Indexed

(* Every variable keeps its type. *)
THEOREM Typing == Spec => []TypeOK
  BY Invariance, Types, PTL

(* The queue stays one doubly linked list of all allocated nodes, at most  *)
(* as many as the capacity, whichever mallocs fail (lines 110-172,         *)
(* 195-224).                                                               *)
THEOREM QueueLinked == Spec => []WellLinked
  BY Invariance, Links, PTL

(* A lookup never follows a pointer to a freed node, nor to the node of    *)
(* another key, whichever mallocs fail (lines 37-108, 195-200).            *)
THEOREM LookupsSafe == Spec => []NoDangling
  BY Invariance, Pointing, PTL

(* As long as there is memory for entries, every node of the queue can be  *)
(* looked up (lines 183-200, 226).                                         *)
THEOREM AllIndexed == ASSUME "entry" \notin NoMemory PROVE Spec => []Indexed
  BY Invariance, Indexes, PTL

-----------------------------------------------------------------------------
(* What the nodes hold, for the refinement of RecencyCache. *)

KeysOf(q, n) == [i \in DOMAIN q |-> n[q[i]].key]
ValuesOf(n) == [k \in {n[a].key : a \in DOMAIN n} |->
                  n[CHOOSE a \in DOMAIN n : n[a].key = k].value]

(* No two nodes have the same key.                                         *)
Separate(n) == \A a, b \in DOMAIN n : n[a].key = n[b].key => a = b

(* A complete hash map sees to that.                                       *)
LEMMA OneEach ==
  ASSUME NEW h, NEW n, Hashed(h, n), Complete(h, n)
  PROVE  Separate(n)
<1>1. SUFFICES ASSUME NEW a \in DOMAIN n, NEW b \in DOMAIN n, n[a].key = n[b].key PROVE a = b
  BY DEF Separate
<1>2. PICK g, i : /\ g \in DOMAIN h /\ i \in DOMAIN h[g]
                  /\ h[g][i].key = n[a].key /\ h[g][i].address = a
  BY DEF Complete, Lists
<1>3. PICK f, j : /\ f \in DOMAIN h /\ j \in DOMAIN h[f]
                  /\ h[f][j].key = n[a].key /\ h[f][j].address = b
  BY <1>1 DEF Complete, Lists
<1>4. g = f
  BY <1>2, <1>3 DEF Hashed
<1>5. i = j
  BY <1>2, <1>3, <1>4 DEF Hashed
<1> QED BY <1>2, <1>3, <1>4, <1>5

(* Recent and Store in any state that is Sound.                            *)
LEMMA ViewIs ==
  ASSUME NEW q, Sound(cache, node, q), CacheAssumption
  PROVE  Recent = KeysOf(q, node) /\ Store = ValuesOf(node)
<1>1. Queue = q
  BY QueueIs
<1> QED BY <1>1, Zenon DEF Recent, Store, KeysOf, ValuesOf

(* The same after a command.                                               *)
LEMMA NextViewIs ==
  ASSUME NEW q, Sound(cache', node', q), CacheAssumption
  PROVE  Recent' = KeysOf(q, node') /\ Store' = ValuesOf(node')
<1>1. NULL \notin DOMAIN node'
  BY DEF Sound, Heap, CacheAssumption
<1>2. From(cache'.front, node') = q
  BY <1>1, Walk DEF Sound
<1>3. Queue' = q
  BY <1>2 DEF Queue
<1>4. Recent' = KeysOf(q, node')
  BY <1>3, Zenon DEF Recent, KeysOf
<1>5. Store' = ValuesOf(node')
  BY Zenon DEF Store, ValuesOf
<1> QED BY <1>4, <1>5

(* With separate keys each node's value is found at its key.               *)
LEMMA ValuesAre ==
  ASSUME NEW n, Separate(n)
  PROVE  /\ ValuesOf(n) = [k \in {n[a].key : a \in DOMAIN n} |-> ValuesOf(n)[k]]
         /\ DOMAIN ValuesOf(n) = {n[a].key : a \in DOMAIN n}
         /\ \A a \in DOMAIN n : ValuesOf(n)[n[a].key] = n[a].value
<1>1. ASSUME NEW a \in DOMAIN n PROVE ValuesOf(n)[n[a].key] = n[a].value
  <2>1. (CHOOSE b \in DOMAIN n : n[b].key = n[a].key) = a
    BY DEF Separate
  <2>2. ValuesOf(n)[n[a].key] = n[CHOOSE b \in DOMAIN n : n[b].key = n[a].key].value
    BY DEF ValuesOf
  <2> QED BY <2>1, <2>2
<1>2. /\ ValuesOf(n) = [k \in {n[a].key : a \in DOMAIN n} |-> ValuesOf(n)[k]]
      /\ DOMAIN ValuesOf(n) = {n[a].key : a \in DOMAIN n}
  BY DEF ValuesOf
<1> QED BY <1>1, <1>2

(* The keys of a queue.                                                    *)
LEMMA KeysAre ==
  ASSUME NEW f, NEW r, NEW n, NEW m, NEW q, Linked(f, r, n, m, q), Heap(n)
  PROVE  /\ KeysOf(q, n) \in Seq(Keys) /\ Len(KeysOf(q, n)) = m /\ DOMAIN KeysOf(q, n) = 1 .. m
         /\ m \in Nat
         /\ \A i \in 1 .. m : q[i] \in DOMAIN n /\ KeysOf(q, n)[i] = n[q[i]].key
         /\ ToSet(KeysOf(q, n)) = {n[a].key : a \in DOMAIN n}
         /\ Separate(n) => \A i, j \in 1 .. m : KeysOf(q, n)[i] = KeysOf(q, n)[j] => i = j
<1>1. /\ m \in Nat /\ DOMAIN q = 1 .. m /\ (\A i \in 1 .. m : q[i] \in DOMAIN n)
      /\ \A i, h \in 1 .. m : q[i] = q[h] => i = h
      /\ \A a \in DOMAIN n : \E i \in 1 .. m : q[i] = a
  BY DEF Linked
<1>2. \A a \in DOMAIN n : n[a].key \in Keys
  BY DEF Heap, QueueNode
<1>3. PICK z : z = KeysOf(q, n)
  OBVIOUS
<1>4. /\ z \in [1 .. m -> Keys] /\ \A i \in 1 .. m : z[i] = n[q[i]].key
  BY <1>1, <1>2, <1>3 DEF KeysOf
<1>5. z \in Seq(Keys) /\ Len(z) = m /\ DOMAIN z = 1 .. m
  BY <1>1, <1>4
<1>6. ToSet(z) = {n[a].key : a \in DOMAIN n}
  <2>1. ToSet(z) = {z[i] : i \in 1 .. m}
    BY <1>5, SetOfQueue
  <2>2. {z[i] : i \in 1 .. m} = {n[a].key : a \in DOMAIN n}
    BY <1>1, <1>4
  <2> QED BY <2>1, <2>2
<1>7. ASSUME Separate(n), NEW i \in 1 .. m, NEW j \in 1 .. m, z[i] = z[j] PROVE i = j
  <2>1. q[i] = q[j]
    BY <1>1, <1>4, <1>7 DEF Separate
  <2> QED BY <1>1, <2>1
<1> QED BY <1>1, <1>3, <1>4, <1>5, <1>6, <1>7

(* A node in front: its key is, too.                                       *)
LEMMA Fronted ==
  ASSUME NEW S, NEW r \in Seq(S), NEW k \in S, NEW z, NEW m \in Nat, z \in [1 .. m -> S],
         m = Len(r) + 1, z[1] = k, \A h \in 2 .. m : z[h] = r[h - 1]
  PROVE  z = <<k>> \o r
<1>1. PICK u : u = <<k>>
  OBVIOUS
<1>2. u \in Seq(S) /\ Len(u) = 1 /\ u[1] = k
  BY <1>1
<1>3. PICK t : t = u \o r
  OBVIOUS
<1>4. /\ t \in Seq(S) /\ Len(t) = Len(u) + Len(r)
      /\ \A i \in 1 .. Len(u) + Len(r) : t[i] = IF i <= Len(u) THEN u[i] ELSE r[i - Len(u)]
  BY <1>2, <1>3, ConcatProperties
<1>5. Len(r) \in Nat /\ Len(t) = m
  BY <1>2, <1>4, LenProperties
<1>6. ASSUME NEW i \in 1 .. m PROVE t[i] = z[i]
  <2>1. i \in 1 .. Len(u) + Len(r)
    BY <1>2, <1>5
  <2>2. CASE i = 1
    BY <1>2, <1>4, <2>1, <2>2
  <2>3. CASE i # 1
    <3>1. i \in 2 .. m /\ ~(i <= 1)
      BY <2>3
    <3> QED BY <1>2, <1>4, <2>1, <3>1
  <2> QED BY <2>2, <2>3
<1>7. t = [i \in 1 .. m |-> t[i]] /\ z = [i \in 1 .. m |-> z[i]]
  BY <1>4, <1>5
<1> QED BY <1>1, <1>3, <1>6, <1>7

(* A node moves to the front: so does its key.                             *)
Refreshed(w, k) == <<k>> \o RemoveAt(w, CHOOSE j \in DOMAIN w : w[j] = k)

LEMMA MovedKeys ==
  ASSUME NEW f, NEW r, NEW n, NEW m, NEW q, Linked(f, r, n, m, q), Heap(n), Separate(n),
         NEW i \in 1 .. m, NEW n2, SameKeys(n, n2), NEW k, k = n[q[i]].key,
         NEW w, w = KeysOf(q, n)
  PROVE  KeysOf(Moved(q, m, i), n2) = Refreshed(w, k)
<1>1. /\ w \in Seq(Keys) /\ Len(w) = m /\ DOMAIN w = 1 .. m /\ m \in Nat
      /\ \A h \in 1 .. m : q[h] \in DOMAIN n /\ w[h] = n[q[h]].key
      /\ \A h, j \in 1 .. m : w[h] = w[j] => h = j
  BY KeysAre
<1>2. (CHOOSE j \in DOMAIN w : w[j] = k) = i
  BY <1>1
<1>3. PICK z : z = RemoveAt(w, i)
  OBVIOUS
<1>4. /\ z \in Seq(Keys) /\ Len(z) = m - 1
      /\ \A h \in DOMAIN z : z[h] = IF h < i THEN w[h] ELSE w[h + 1]
  <2>1. w \in Seq(Keys) /\ i \in DOMAIN w /\ z = RemoveAt(w, i)
    BY <1>1, <1>3
  <2>2. /\ z \in Seq(Keys) /\ Len(z) = Len(w) - 1
        /\ \A h \in DOMAIN z : z[h] = IF h < i THEN w[h] ELSE w[h + 1]
    BY ONLY <2>1, RemoveNode
  <2> QED BY <1>1, <2>2
<1>5. DOMAIN z = 1 .. m - 1
  BY <1>4, LenProperties
<1>6. PICK t : t = KeysOf(Moved(q, m, i), n2)
  OBVIOUS
<1>7. /\ t \in [1 .. m -> Keys] /\ t[1] = k
      /\ \A h \in 2 .. m : t[h] = IF h <= i THEN w[h - 1] ELSE w[h]
  <2>1. PICK p : p = Moved(q, m, i)
    OBVIOUS
  <2>2. /\ DOMAIN p = 1 .. m /\ p[1] = q[i] /\ \A h \in 1 .. m : p[h] \in DOMAIN n
        /\ \A h \in 2 .. m : p[h] = IF h <= i THEN q[h - 1] ELSE q[h]
    BY <1>1, <2>1 DEF Moved
  <2>3. /\ DOMAIN t = 1 .. m /\ \A h \in 1 .. m : t[h] = n[p[h]].key
        /\ t = [h \in 1 .. m |-> t[h]]
    BY <1>6, <2>1, <2>2 DEF KeysOf, SameKeys
  <2>4. \A a \in DOMAIN n : n[a].key \in Keys
    BY DEF Heap, QueueNode
  <2>5. t \in [1 .. m -> Keys]
    BY <2>2, <2>3, <2>4
  <2>6. t[1] = k
    BY <1>1, <2>2, <2>3
  <2>7. ASSUME NEW h \in 2 .. m PROVE t[h] = IF h <= i THEN w[h - 1] ELSE w[h]
    <3>1. h \in 1 .. m /\ h - 1 \in 1 .. m
      BY <1>1
    <3> QED BY <1>1, <2>2, <2>3, <3>1
  <2> QED BY <2>5, <2>6, <2>7
<1>8. t = <<k>> \o z
  <2>1. ASSUME NEW h \in 2 .. m PROVE t[h] = z[h - 1]
    <3>1. h - 1 \in DOMAIN z /\ (h - 1) + 1 = h /\ (h - 1 < i <=> h <= i)
      BY <1>1, <1>5
    <3> QED BY <1>4, <1>7, <3>1
  <2>2. m = Len(z) + 1 /\ k \in Keys
    BY <1>1, <1>4
  <2> QED BY <1>1, <1>4, <1>7, <2>1, <2>2, Fronted
<1> QED BY <1>2, <1>3, <1>6, <1>8 DEF Refreshed

(* The rows of two queues of nodes with the same keys.                     *)
LEMMA SameRow ==
  ASSUME NEW f, NEW r, NEW n, NEW m, NEW q, Linked(f, r, n, m, q), NEW n2,
         \A a \in DOMAIN n : n2[a].key = n[a].key
  PROVE  KeysOf(q, n2) = KeysOf(q, n)
<1>1. \A i \in DOMAIN q : q[i] \in DOMAIN n
  BY DEF Linked
<1> QED BY <1>1 DEF KeysOf

(* What is kept when one more key comes (lines 194-200).                   *)
LEMMA RoomKeys ==
  ASSUME NEW q, Sound(cache, node, q), cache.capacity \in Int, cache.capacity > 0, CacheAssumption
  PROVE  LET w == KeysOf(q, node) IN
         KeysOf(Room(q), node) = IF Len(w) >= cache.capacity THEN Front(w) ELSE w
<1> DEFINE m == cache.currentSize
<1>1. PICK w : w = KeysOf(q, node)
  OBVIOUS
<1>2. /\ w \in Seq(Keys) /\ Len(w) = m /\ DOMAIN w = 1 .. m /\ m \in Nat
      /\ \A h \in 1 .. m : q[h] \in DOMAIN node /\ w[h] = node[q[h]].key
  BY <1>1, KeysAre DEF Sound
<1>3. CASE ~Full
  BY <1>1, <1>2, <1>3 DEF Full, Room
<1>4. CASE Full
  <2>1. m >= cache.capacity /\ Room(q) = Shorter(q, m)
    BY <1>4 DEF Full, Room
  <2>2. Front(w) = SubSeq(w, 1, m - 1)
    BY <1>2 DEF Front
  <2>3. PICK z : z = SubSeq(w, 1, m - 1)
    OBVIOUS
  <2> HIDE DEF m
  <2>4. /\ z \in Seq(Keys) /\ Len(z) = (IF 1 <= m - 1 THEN m - 1 - 1 + 1 ELSE 0)
        /\ \A i \in 1 .. m - 1 - 1 + 1 : z[i] = w[1 + i - 1]
    <3>1. PICK j \in Int : j = m - 1
      BY <1>2
    <3>2. \A i \in 1 .. j : w[i] \in Keys
      BY <1>2, <3>1, ElementOfSeq
    <3>3. 1 \in Int /\ z = SubSeq(w, 1, j)
      BY <2>3, <3>1
    <3>4. /\ z \in Seq(Keys) /\ Len(z) = (IF 1 <= j THEN j - 1 + 1 ELSE 0)
          /\ \A i \in 1 .. j - 1 + 1 : z[i] = w[1 + i - 1]
      BY ONLY <3>2, <3>3, SubSeqProperties
    <3> QED BY <3>1, <3>4
  <2>5. Len(z) = m - 1 /\ z = [i \in 1 .. m - 1 |-> z[i]]
    BY <1>2, <2>1, <2>4
  <2>6. ASSUME NEW i \in 1 .. m - 1 PROVE z[i] = node[Shorter(q, m)[i]].key
    <3>1. i \in 1 .. m /\ i \in 1 .. m - 1 - 1 + 1 /\ 1 + i - 1 = i
      BY <1>2
    <3>2. z[i] = w[1 + i - 1]
      BY <2>4, <3>1
    <3>3. Shorter(q, m)[i] = q[i]
      BY DEF Shorter
    <3> QED BY <1>2, <3>1, <3>2, <3>3
  <2>7. KeysOf(Shorter(q, m), node) = z
    <3>1. DOMAIN Shorter(q, m) = 1 .. m - 1
      BY DEF Shorter
    <3> QED BY <2>5, <2>6, <3>1 DEF KeysOf
  <2> QED BY <1>1, <1>2, <2>1, <2>2, <2>3, <2>7
<1> QED BY <1>3, <1>4

(* A node is added: so is its key.                                         *)
LEMMA LongerKeys ==
  ASSUME NEW p, NEW m \in Nat, NEW a, NEW n, p \in [1 .. m -> DOMAIN n], a \in DOMAIN n,
         Heap(n), NEW k, k = n[a].key
  PROVE  KeysOf(Longer(p, m, a), n) = <<k>> \o KeysOf(p, n)
<1>1. PICK r : r = KeysOf(p, n)
  OBVIOUS
<1>2. \A b \in DOMAIN n : n[b].key \in Keys
  BY DEF Heap, QueueNode
<1>3. r \in [1 .. m -> Keys] /\ \A h \in 1 .. m : r[h] = n[p[h]].key
  BY <1>1, <1>2 DEF KeysOf
<1>4. r \in Seq(Keys) /\ Len(r) = m
  BY <1>3
<1>5. PICK u : u = Longer(p, m, a)
  OBVIOUS
<1>6. /\ DOMAIN u = 1 .. m + 1 /\ u[1] = a /\ \A h \in 2 .. m + 1 : u[h] = p[h - 1]
  BY <1>5 DEF Longer
<1>7. PICK z : z = KeysOf(u, n)
  OBVIOUS
<1>8. /\ z = [h \in 1 .. m + 1 |-> z[h]] /\ \A h \in 1 .. m + 1 : z[h] = n[u[h]].key
  BY <1>6, <1>7 DEF KeysOf
<1>9. z[1] = k
  BY <1>6, <1>8
<1>10. ASSUME NEW h \in 2 .. m + 1 PROVE z[h] = r[h - 1] /\ z[h] \in Keys
  <2>1. h \in 1 .. m + 1 /\ h - 1 \in 1 .. m
    OBVIOUS
  <2> QED BY <1>2, <1>3, <1>6, <1>8, <2>1
<1>11. z \in [1 .. m + 1 -> Keys]
  <2>1. ASSUME NEW h \in 1 .. m + 1 PROVE z[h] \in Keys
    <3>1. h = 1 \/ h \in 2 .. m + 1
      OBVIOUS
    <3> QED BY <1>2, <1>9, <1>10, <3>1
  <2> QED BY <1>8, <2>1
<1>12. PICK j : j = m + 1
  OBVIOUS
<1>13. /\ r \in Seq(Keys) /\ k \in Keys /\ j \in Nat /\ z \in [1 .. j -> Keys] /\ j = Len(r) + 1
       /\ z[1] = k /\ \A h \in 2 .. j : z[h] = r[h - 1]
  BY <1>2, <1>4, <1>9, <1>10, <1>11, <1>12
<1>14. z = <<k>> \o r
  BY ONLY <1>13, Fronted
<1> QED BY <1>1, <1>5, <1>7, <1>14

(* The values, after a node was written.                                   *)
LEMMA StoreSet ==
  ASSUME NEW n, Separate(n), NEW n2, SameKeys(n, n2), NEW a \in DOMAIN n, NEW v,
         \A b \in DOMAIN n : n2[b].value = IF b = a THEN v ELSE n[b].value
  PROVE  ValuesOf(n2) = [ValuesOf(n) EXCEPT ![n[a].key] = v]
<1>1. Separate(n2) /\ DOMAIN n2 = DOMAIN n /\ \A b \in DOMAIN n : n2[b].key = n[b].key
  BY DEF Separate, SameKeys
<1>2. PICK f, g : f = ValuesOf(n) /\ g = ValuesOf(n2)
  OBVIOUS
<1>3. PICK K : K = {n[b].key : b \in DOMAIN n}
  OBVIOUS
<1>4. {n2[b].key : b \in DOMAIN n2} = K
  BY <1>1, <1>3
<1>5. /\ f = [k \in K |-> f[k]] /\ DOMAIN f = K /\ \A b \in DOMAIN n : f[n[b].key] = n[b].value
  BY <1>2, <1>3, ValuesAre
<1>6. /\ g = [k \in K |-> g[k]] /\ \A b \in DOMAIN n2 : g[n2[b].key] = n2[b].value
  BY <1>1, <1>2, <1>4, ValuesAre
<1>7. ASSUME NEW k \in K PROVE g[k] = IF k = n[a].key THEN v ELSE f[k]
  <2>1. PICK b \in DOMAIN n : k = n[b].key
    BY <1>3
  <2>2. k = n[a].key <=> b = a
    BY <2>1 DEF Separate
  <2> QED BY <1>1, <1>5, <1>6, <2>1, <2>2
<1>8. [f EXCEPT ![n[a].key] = v] = [k \in K |-> IF k = n[a].key THEN v ELSE f[k]]
  BY <1>5
<1>9. g = [k \in K |-> IF k = n[a].key THEN v ELSE f[k]]
  BY <1>6, <1>7
<1> QED BY <1>2, <1>8, <1>9

(* No node was written.                                                    *)
LEMMA StoreSame ==
  ASSUME NEW n, Separate(n), NEW n2, SameKeys(n, n2), SameValues(n, n2)
  PROVE  ValuesOf(n2) = ValuesOf(n)
<1>1. Separate(n2) /\ DOMAIN n2 = DOMAIN n
      /\ \A b \in DOMAIN n : n2[b].key = n[b].key /\ n2[b].value = n[b].value
  BY DEF Separate, SameKeys, SameValues
<1>2. PICK f, g : f = ValuesOf(n) /\ g = ValuesOf(n2)
  OBVIOUS
<1>3. PICK K : K = {n[b].key : b \in DOMAIN n}
  OBVIOUS
<1>4. {n2[b].key : b \in DOMAIN n2} = K
  BY <1>1, <1>3
<1>5. /\ f = [k \in K |-> f[k]] /\ \A b \in DOMAIN n : f[n[b].key] = n[b].value
  BY <1>2, <1>3, ValuesAre
<1>6. /\ g = [k \in K |-> g[k]] /\ \A b \in DOMAIN n2 : g[n2[b].key] = n2[b].value
  BY <1>1, <1>2, <1>4, ValuesAre
<1>7. \A k \in K : g[k] = f[k]
  BY <1>1, <1>3, <1>5, <1>6
<1> QED BY <1>2, <1>5, <1>6, <1>7

(* Every key of the queue is in the hash map.                              *)
LEMMA Listed ==
  ASSUME "entry" \notin NoMemory, IInv, NEW q, Sound(cache, node, q), NEW k \in Keys,
         Reachable(k), CacheAssumption
  PROVE  /\ k \in ToSet(Recent) <=> findInHashMap(cache, k) # NULL
         /\ Separate(node)
         /\ Promise!Serves(k)
<1>1. /\ cache \in LRUCache /\ Heap(node) /\ Hashed(cache.hashMap, node)
      /\ Complete(cache.hashMap, node) /\ Linked(cache.front, cache.rear, node, cache.currentSize, q)
  BY DEF Sound
<1>2. hashValue(k) \in DOMAIN cache.hashMap /\ mode = "ready"
  BY HasBucket
<1>3. PICK w : w = Recent
  OBVIOUS
<1>4. ToSet(w) = {node[a].key : a \in DOMAIN node}
  <2>1. w = KeysOf(q, node)
    BY <1>3, ViewIs
  <2> QED BY <1>1, <2>1, KeysAre
<1>5. PICK a : a = findInHashMap(cache, k)
  OBVIOUS
<1>6. /\ a = NULL => \A b : ~Lists(cache.hashMap, k, b)
      /\ a # NULL => a \in DOMAIN node /\ node[a].key = k
  BY <1>1, <1>2, <1>5, FindIs
<1>7. \A b \in DOMAIN node : Lists(cache.hashMap, node[b].key, b)
  BY <1>1 DEF Complete
<1>8. Promise!Serves(k)
  BY <1>2 DEF Reachable, hashValue, Promise!Serves, Promise!Remainder
<1> QED BY <1>1, <1>3, <1>4, <1>5, <1>6, <1>7, <1>8, OneEach

(* RecencyCache's operators on lists are those of this module.             *)
LEMMA SameOperators ==
  /\ \A s : Promise!ToSet(s) = ToSet(s) /\ Promise!Front(s) = Front(s)
  /\ \A s, i : Promise!RemoveAt(s, i) = RemoveAt(s, i)
  BY DEF ToSet, Promise!ToSet, Front, Promise!Front, RemoveAt, Promise!RemoveAt

(* A structure that stays is seen as the same.                             *)
LEMMA ViewStays ==
  ASSUME cache' = cache, node' = node
  PROVE  Recent' = Recent /\ Store' = Store
<1>1. Queue' = Queue
  BY DEF Queue
<1>2. Recent = KeysOf(Queue, node) /\ Store = ValuesOf(node)
  BY Zenon DEF Recent, KeysOf, Store, ValuesOf
<1>3. Recent' = KeysOf(Queue', node') /\ Store' = ValuesOf(node')
  BY Zenon DEF Recent, KeysOf, Store, ValuesOf
<1> QED BY <1>1, <1>2, <1>3

(* get (lines 232-249).                                                    *)
LEMMA GetRefines ==
  ASSUME "entry" \notin NoMemory, IInv, NEW k \in Keys, get(k), CacheAssumption
  PROVE  Promise!Hit(k) \/ Promise!Miss(k)
<1>1. PICK q : Sound(cache, node, q)
  BY DEF IInv
<1>2. mode' = mode
  BY DEF get
<1>3. CASE mode = "none"
  <2>1. reply' = Says("null") /\ cache' = cache /\ node' = node
    BY <1>3 DEF get
  <2> QED BY <1>2, <1>3, <2>1, ViewStays DEF Promise!Miss, Promise!Says, Says
<1>4. CASE mode # "none"
  <2>1. Reachable(k)
    BY <1>4 DEF get
  <2>2. PICK a : a = findInHashMap(cache, k)
    OBVIOUS
  <2>3. /\ a = NULL => reply' = Says("null") /\ cache' = cache /\ node' = node
        /\ a # NULL => reply' = Shows(node[a].value) /\ Becomes(moveToHead(cache, node, a))
    BY <1>4, <2>2 DEF get
  <2>4. CASE a = NULL
    <3>1. Promise!Serves(k) /\ k \notin ToSet(Recent)
      BY <1>1, <2>1, <2>2, <2>4, Listed
    <3>2. k \notin Promise!ToSet(Recent)
      BY <3>1, SameOperators
    <3>3. Recent' = Recent /\ Store' = Store /\ cache' = cache
      BY <2>3, <2>4, ViewStays
    <3> QED BY <1>2, <2>3, <2>4, <3>1, <3>2, <3>3 DEF Promise!Miss, Promise!Says, Says
  <2>5. CASE a # NULL
    <3>0. Separate(node) /\ k \in ToSet(Recent) /\ Promise!Serves(k)
      BY <1>1, <2>1, <2>2, <2>5, Listed
    <3>1. PICK i \in 1 .. cache.currentSize :
            /\ q[i] = a /\ node[q[i]].key = k
            /\ Sound(cache', node', Moved(q, cache.currentSize, i))
            /\ cache'.capacity = cache.capacity
            /\ SameKeys(node, node') /\ SameValues(node, node')
      <4>1. SameKeys(node, node)
        BY DEF SameKeys
      <4> QED BY <1>1, <1>2, <2>1, <2>2, <2>3, <2>5, <4>1, FoundStep
    <3>2. Recent = KeysOf(q, node) /\ Store = ValuesOf(node)
      BY <1>1, ViewIs
    <3>3. Recent' = KeysOf(Moved(q, cache.currentSize, i), node') /\ Store' = ValuesOf(node')
      BY <3>1, NextViewIs
    <3>4. Store' = Store
      BY <3>0, <3>1, <3>2, <3>3, StoreSame
    <3>5. Recent' = <<k>> \o Promise!Without(k)
      <4>1. /\ Linked(cache.front, cache.rear, node, cache.currentSize, q) /\ Heap(node)
            /\ k = node[q[i]].key
        BY <1>1, <3>1 DEF Sound
      <4>2. PICK w, z : w = KeysOf(q, node) /\ z = node'
        OBVIOUS
      <4>3. KeysOf(Moved(q, cache.currentSize, i), z) = Refreshed(w, k)
        <5>1. PICK f, r, n, m : /\ f = cache.front /\ r = cache.rear /\ n = node
                                /\ m = cache.currentSize
          OBVIOUS
        <5>2. /\ Linked(f, r, n, m, q) /\ Heap(n) /\ Separate(n) /\ i \in 1 .. m /\ SameKeys(n, z)
              /\ k = n[q[i]].key /\ w = KeysOf(q, n)
          BY <3>0, <3>1, <4>1, <4>2, <5>1
        <5>3. KeysOf(Moved(q, m, i), z) = Refreshed(w, k)
          BY ONLY <5>2, MovedKeys
        <5> QED BY <5>1, <5>3
      <4>4. <<k>> \o Promise!Without(k) = Refreshed(w, k)
        BY <3>2, <4>2, SameOperators DEF Promise!Without, Refreshed
      <4> QED BY <3>3, <4>2, <4>3, <4>4
    <3>6. reply' = Shows(Store[k])
      <4>1. a \in DOMAIN node
        BY <1>1, <3>1 DEF Sound, Linked
      <4>2. ValuesOf(node)[node[a].key] = node[a].value
        BY <3>0, <4>1, ValuesAre
      <4> QED BY <2>3, <2>5, <3>1, <3>2, <4>2
    <3>7. k \in Promise!ToSet(Recent)
      BY <3>0, SameOperators
    <3> QED BY <1>2, <3>0, <3>1, <3>4, <3>5, <3>6, <3>7 DEF Promise!Hit, Promise!Shows, Shows
  <2> QED BY <2>4, <2>5
<1> QED BY <1>3, <1>4

(* put of a key that is there (lines 185-191).                             *)
LEMMA UpdateRefines ==
  ASSUME "entry" \notin NoMemory, IInv, NEW k \in Keys, NEW v \in Values, PutExisting(k, v),
         CacheAssumption
  PROVE  Promise!Update(k, v)
<1>1. PICK q : Sound(cache, node, q)
  BY DEF IInv
<1>2. PICK a, n : a = findInHashMap(cache, k) /\ n = SetValue(node, a, v)
  OBVIOUS
<1>3. /\ Reachable(k) /\ a # NULL /\ mode' = mode /\ Becomes(moveToHead(cache, n, a))
      /\ reply' = Says("nothing")
  BY <1>2, Zenon DEF PutExisting, SetValue
<1>4. Separate(node) /\ k \in ToSet(Recent) /\ Promise!Serves(k)
  BY <1>1, <1>2, <1>3, Listed
<1>5. a \in DOMAIN node /\ node[a].key = k
  <2>1. cache \in LRUCache /\ Heap(node) /\ Hashed(cache.hashMap, node)
    BY <1>1 DEF Sound
  <2> QED BY <1>2, <1>3, <2>1, HasBucket, FindIs
<1>6. /\ Sound(cache, n, q) /\ SameKeys(node, n)
      /\ \A b \in DOMAIN node : n[b].value = IF b = a THEN v ELSE node[b].value
  BY <1>1, <1>2, <1>5, ValueSet
<1>7. PICK i \in 1 .. cache.currentSize :
        /\ q[i] = a /\ n[q[i]].key = k
        /\ Sound(cache', node', Moved(q, cache.currentSize, i))
        /\ cache'.capacity = cache.capacity
        /\ SameKeys(n, node') /\ SameValues(n, node')
  BY <1>2, <1>3, <1>6, FoundStep
<1>8. Recent = KeysOf(q, node) /\ Store = ValuesOf(node)
  BY <1>1, ViewIs
<1>9. Recent' = KeysOf(Moved(q, cache.currentSize, i), node') /\ Store' = ValuesOf(node')
  BY <1>7, NextViewIs
<1>10. SameKeys(node, node')
  BY <1>6, <1>7 DEF SameKeys
<1>11. Recent' = <<k>> \o Promise!Without(k)
  <2>1. /\ Linked(cache.front, cache.rear, node, cache.currentSize, q) /\ Heap(node)
        /\ k = node[q[i]].key
    BY <1>1, <1>5, <1>7 DEF Sound
  <2>2. PICK w, z : w = KeysOf(q, node) /\ z = node'
    OBVIOUS
  <2>3. KeysOf(Moved(q, cache.currentSize, i), z) = Refreshed(w, k)
    <3>1. PICK f, r, n2, m : /\ f = cache.front /\ r = cache.rear /\ n2 = node
                             /\ m = cache.currentSize
      OBVIOUS
    <3>2. /\ Linked(f, r, n2, m, q) /\ Heap(n2) /\ Separate(n2) /\ i \in 1 .. m /\ SameKeys(n2, z)
          /\ k = n2[q[i]].key /\ w = KeysOf(q, n2)
      BY <1>4, <1>10, <2>1, <2>2, <3>1
    <3>3. KeysOf(Moved(q, m, i), z) = Refreshed(w, k)
      BY ONLY <3>2, MovedKeys
    <3> QED BY <3>1, <3>3
  <2>4. <<k>> \o Promise!Without(k) = Refreshed(w, k)
    BY <1>8, <2>2, SameOperators DEF Promise!Without, Refreshed
  <2> QED BY <1>9, <2>2, <2>3, <2>4
<1>12. Store' = [Store EXCEPT ![k] = v]
  <2>1. \A b \in DOMAIN node : node'[b].value = IF b = a THEN v ELSE node[b].value
    BY <1>6, <1>7 DEF SameKeys, SameValues
  <2>2. PICK z : z = node'
    OBVIOUS
  <2>3. ValuesOf(z) = [ValuesOf(node) EXCEPT ![node[a].key] = v]
    BY <1>4, <1>5, <1>10, <2>1, <2>2, StoreSet
  <2> QED BY <1>5, <1>8, <1>9, <2>2, <2>3
<1>13. k \in Promise!ToSet(Recent)
  BY <1>4, SameOperators
<1> QED BY <1>3, <1>4, <1>7, <1>11, <1>12, <1>13 DEF Promise!Update, Promise!Says, Says

(* put of a key that is not there (lines 194-227).                         *)
LEMMA AddRefines ==
  ASSUME "entry" \notin NoMemory, IInv, NEW k \in Keys, NEW v \in Values, PutNew(k, v),
         CacheAssumption
  PROVE  Promise!Add(k, v) \/ Promise!AddFails(k)
<1>1. PICK q : Sound(cache, node, q)
  BY DEF IInv
<1>2. Reachable(k) /\ findInHashMap(cache, k) = NULL /\ k >= 0 /\ k < CACHE_CAPACITY
  BY DEF PutNew, Acceptable
<1>3. Separate(node) /\ k \notin ToSet(Recent) /\ Promise!Serves(k)
  BY <1>1, <1>2, Listed
<1>4. Recent = KeysOf(q, node) /\ Store = ValuesOf(node)
  BY <1>1, ViewIs
<1>5. PICK w, c : w = KeysOf(Room(q), node) /\ c = cache.capacity
  OBVIOUS
<1>6. w = Promise!Kept
  <2>1. cache.capacity \in Int /\ cache.capacity > 0
    BY <1>1, <1>2, HasBucket, CacheAssumption DEF IInv, Sound, LRUCache
  <2>2. w = IF Len(Recent) >= cache.capacity THEN Front(Recent) ELSE Recent
    BY <1>1, <1>4, <1>5, <2>1, RoomKeys
  <2> QED BY <2>2, SameOperators DEF Promise!Kept
<1>7. \A b \in DOMAIN node : node[b].key # k
  <2>1. ToSet(KeysOf(q, node)) = {node[b].key : b \in DOMAIN node}
    BY <1>1, KeysAre DEF Sound
  <2> QED BY <1>3, <1>4, <2>1
<1>8. /\ cache'.capacity = cache.capacity /\ mode' = mode
      /\ NoneCame(q) \/ \E a : Came(k, v, q, a)
  BY <1>1, NewStep
<1>9. Left \in Nat /\ Room(q) \in [1 .. Left -> DOMAIN node]
  <2>1. q \in [1 .. cache.currentSize -> DOMAIN node] /\ cache.currentSize \in Nat
    BY <1>1 DEF Sound, Linked
  <2>2. CASE ~Full
    BY <2>1, <2>2 DEF Left, Room
  <2>3. CASE Full
    <3>1. cache.currentSize # 0
      BY <1>1, <1>2, <2>3, HasBucket, CacheAssumption DEF IInv, Sound, LRUCache, Full
    <3>2. \A h \in 1 .. cache.currentSize - 1 : h \in 1 .. cache.currentSize /\ q[h] \in DOMAIN node
      BY <2>1
    <3>3. Shorter(q, cache.currentSize) \in [1 .. cache.currentSize - 1 -> DOMAIN node]
      BY <3>2 DEF Shorter
    <3> QED BY <2>1, <2>3, <3>1, <3>3 DEF Left, Room
  <2> QED BY <2>2, <2>3
<1>10. CASE NoneCame(q)
  <2>0. /\ reply' = Says("no memory") /\ Sound(cache', node', Room(q))
        /\ \A b \in DOMAIN node' : node'[b].key = node[b].key /\ node'[b].value = node[b].value
    BY <1>10 DEF NoneCame, AsBefore
  <2>1. PICK z : z = node'
    OBVIOUS
  <2>2. Recent' = KeysOf(Room(q), z) /\ Store' = ValuesOf(z)
    BY <2>0, <2>1, NextViewIs
  <2>3. /\ Heap(z) /\ Linked(cache'.front, cache'.rear, z, cache'.currentSize, Room(q))
        /\ Hashed(cache'.hashMap, z) /\ Complete(cache'.hashMap, z)
    BY <2>0, <2>1 DEF Sound
  <2>4. \A h \in 1 .. Left : Room(q)[h] \in DOMAIN z
    BY <1>9, <2>3 DEF Linked
  <2>5. Recent' = w
    <3>1. DOMAIN Room(q) = 1 .. Left
      BY <1>9
    <3> QED BY <1>5, <2>0, <2>1, <2>2, <2>4, <3>1 DEF KeysOf
  <2>6. DOMAIN z \subseteq DOMAIN node
    <3>1. \A b \in DOMAIN z : \E h \in DOMAIN Room(q) : Room(q)[h] = b
      BY <2>3 DEF Linked
    <3> QED BY <1>9, <3>1
  <2>7. ToSet(KeysOf(Room(q), z)) = {z[b].key : b \in DOMAIN z}
    BY <2>3, KeysAre
  <2>8. Separate(z)
    BY <2>3, OneEach
  <2>9. Store' = [h \in ToSet(w) |-> Store[h]]
    <3>1. PICK K, f, g : K = ToSet(w) /\ f = ValuesOf(node) /\ g = ValuesOf(z)
      OBVIOUS
    <3>2. K = {z[b].key : b \in DOMAIN z}
      BY <2>2, <2>5, <2>7, <3>1
    <3>3. g = [h \in K |-> g[h]] /\ \A b \in DOMAIN z : g[z[b].key] = z[b].value
      BY <2>8, <3>1, <3>2, ValuesAre
    <3>4. \A b \in DOMAIN node : f[node[b].key] = node[b].value
      BY <1>3, <3>1, ValuesAre
    <3>5. ASSUME NEW h \in K PROVE g[h] = f[h]
      <4>1. PICK b \in DOMAIN z : h = z[b].key
        BY <3>2
      <4>2. b \in DOMAIN node /\ z[b].key = node[b].key /\ z[b].value = node[b].value
        BY <2>0, <2>1, <2>6
      <4> QED BY <3>3, <3>4, <4>1, <4>2
    <3> QED BY <1>4, <2>2, <3>1, <3>3, <3>5
  <2>10. Recent' = Promise!Kept /\ Store' = Promise!Keep(Promise!Kept)
    BY <1>6, <2>5, <2>9, SameOperators DEF Promise!Keep
  <2>11. k \notin Promise!ToSet(Recent)
    BY <1>3, SameOperators
  <2> QED BY <1>2, <1>3, <1>8, <2>0, <2>10, <2>11 DEF Promise!AddFails, Promise!Says, Says
<1>11. ASSUME NEW a, Came(k, v, q, a) PROVE Promise!Add(k, v)
  <2>0. /\ reply' = Added(k) /\ Sound(cache', node', Longer(Room(q), Left, a))
        /\ node'[a].key = k /\ node'[a].value = v
        /\ \A b \in DOMAIN node' \ {a} :
             node'[b].key = node[b].key /\ node'[b].value = node[b].value
    BY <1>11 DEF Came, AsBefore
  <2>1. PICK z, p, y : z = node' /\ p = Room(q) /\ y = Longer(p, Left, a)
    OBVIOUS
  <2>2. Recent' = KeysOf(y, z) /\ Store' = ValuesOf(z)
    BY <2>0, <2>1, NextViewIs
  <2>3. /\ Heap(z) /\ Linked(cache'.front, cache'.rear, z, cache'.currentSize, y)
        /\ Hashed(cache'.hashMap, z) /\ Complete(cache'.hashMap, z)
    BY <2>0, <2>1 DEF Sound
  <2>4. /\ DOMAIN y = 1 .. Left + 1 /\ y[1] = a /\ \A h \in 1 .. Left : y[h + 1] = p[h]
    <3>1. DOMAIN y = 1 .. Left + 1 /\ y[1] = a
      BY <1>9, <2>1 DEF Longer
    <3>2. ASSUME NEW h \in 1 .. Left PROVE y[h + 1] = p[h]
      <4>1. h + 1 \in 1 .. Left + 1 /\ h + 1 # 1 /\ (h + 1) - 1 = h
        BY <1>9
      <4> QED BY <2>1, <4>1 DEF Longer
    <3> QED BY <3>1, <3>2
  <2>5. /\ \A i, h \in DOMAIN y : y[i] \in DOMAIN z /\ (y[i] = y[h] => i = h)
        /\ \A b \in DOMAIN z : \E h \in DOMAIN y : y[h] = b
    BY <2>3 DEF Linked
  <2>6. /\ a \in DOMAIN z
        /\ \A h \in 1 .. Left : p[h] \in DOMAIN z /\ p[h] # a
    <3>1. \A h \in 1 .. Left : h + 1 \in DOMAIN y /\ h + 1 # 1
      BY <1>9, <2>4
    <3>2. 1 \in DOMAIN y
      BY <1>9, <2>4
    <3> QED BY <2>4, <2>5, <3>1, <3>2
  <2>7. \A b \in DOMAIN z \ {a} : b \in DOMAIN node
    <3>1. SUFFICES ASSUME NEW b \in DOMAIN z \ {a} PROVE b \in DOMAIN node
      OBVIOUS
    <3>2. PICK h \in DOMAIN y : y[h] = b
      BY <2>5
    <3>3. h - 1 \in 1 .. Left /\ (h - 1) + 1 = h
      BY <1>9, <2>4, <3>2
    <3> QED BY <1>9, <2>1, <2>4, <3>2, <3>3
  <2>8. KeysOf(p, z) = w
    <3>1. DOMAIN p = 1 .. Left
      BY <1>9, <2>1
    <3>2. \A h \in 1 .. Left : z[p[h]].key = node[p[h]].key
      BY <2>0, <2>1, <2>6
    <3> QED BY <1>5, <2>1, <3>1, <3>2 DEF KeysOf
  <2>9. Recent' = <<k>> \o w
    <3>1. PICK m : m = Left
      OBVIOUS
    <3>2. p \in [1 .. m -> DOMAIN z] /\ a \in DOMAIN z /\ Heap(z) /\ k = z[a].key /\ m \in Nat
      BY <1>9, <2>0, <2>1, <2>3, <2>6, <3>1
    <3>3. KeysOf(Longer(p, m, a), z) = <<k>> \o KeysOf(p, z)
      BY ONLY <3>2, LongerKeys
    <3> QED BY <2>1, <2>2, <2>8, <3>1, <3>3
  <2>10. ToSet(Recent') = {z[b].key : b \in DOMAIN z}
    <3>1. ToSet(KeysOf(y, z)) = {z[b].key : b \in DOMAIN z}
      BY <2>3, KeysAre
    <3> QED BY <2>2, <3>1
  <2>11. Separate(z)
    BY <2>3, OneEach
  <2>12. Store' = [h \in ToSet(Recent') |-> IF h = k THEN v ELSE Store[h]]
    <3>1. PICK K, f, g : K = ToSet(Recent') /\ f = ValuesOf(node) /\ g = ValuesOf(z)
      OBVIOUS
    <3>2. K = {z[b].key : b \in DOMAIN z}
      BY <2>10, <3>1
    <3>3. g = [h \in K |-> g[h]] /\ \A b \in DOMAIN z : g[z[b].key] = z[b].value
      BY <2>11, <3>1, <3>2, ValuesAre
    <3>4. \A b \in DOMAIN node : f[node[b].key] = node[b].value
      BY <1>3, <3>1, ValuesAre
    <3>5. ASSUME NEW h \in K PROVE g[h] = IF h = k THEN v ELSE f[h]
      <4>1. PICK b \in DOMAIN z : h = z[b].key
        BY <3>2
      <4>2. CASE b = a
        BY <2>0, <2>1, <3>3, <4>1, <4>2
      <4>3. CASE b # a
        <5>1. b \in DOMAIN node /\ z[b].key = node[b].key /\ z[b].value = node[b].value
          BY <2>0, <2>1, <2>7, <4>3
        <5> QED BY <1>7, <3>3, <3>4, <4>1, <5>1
      <4> QED BY <4>2, <4>3
    <3> QED BY <1>4, <2>2, <3>1, <3>3, <3>5
  <2>13. k \notin Promise!ToSet(Recent) /\ Promise!ToSet(Recent') = ToSet(Recent')
    BY <1>3, SameOperators
  <2>14. reply' = Promise!Added(k)
    BY <2>0 DEF Promise!Added, Added
  <2> QED BY <1>2, <1>3, <1>6, <1>8, <2>9, <2>12, <2>13, <2>14 DEF Promise!Add
<1> QED BY <1>8, <1>10, <1>11

(* Without nodes nothing is kept.                                          *)
LEMMA Bare ==
  ASSUME NEW n, DOMAIN n = {}
  PROVE  From(NULL, n) = <<>> /\ ValuesOf(n) = <<>> /\ KeysOf(<<>>, n) = <<>>
<1>1. Linked(NULL, NULL, n, 0, <<>>)
  <2>1. 1 .. 0 = {} /\ <<>> \in [1 .. 0 -> {}]
    OBVIOUS
  <2> QED BY <2>1 DEF Linked
<1>2. From(NULL, n) = <<>>
  BY <1>1, Walk
<1>3. \A f : f \in [{} -> {}] => f = <<>>
  OBVIOUS
<1>4. ValuesOf(n) \in [{} -> {}]
  BY DEF ValuesOf
<1>5. KeysOf(<<>>, n) \in [{} -> {}]
  BY DEF KeysOf
<1> QED BY <1>2, <1>3, <1>4, <1>5

(* Nor is anything of the structure seen.                                  *)
LEMMA BareView ==
  /\ cache.front = NULL /\ DOMAIN node = {} => Recent = <<>> /\ Store = <<>>
  /\ cache'.front = NULL /\ DOMAIN node' = {} => Recent' = <<>> /\ Store' = <<>>
<1>1. ASSUME cache.front = NULL, DOMAIN node = {} PROVE Recent = <<>> /\ Store = <<>>
  <2>1. Recent = KeysOf(Queue, node) /\ Store = ValuesOf(node)
    BY Zenon DEF Recent, KeysOf, Store, ValuesOf
  <2>2. Queue = <<>>
    BY <1>1, Bare DEF Queue
  <2> QED BY <1>1, <2>1, <2>2, Bare
<1>2. ASSUME cache'.front = NULL, DOMAIN node' = {} PROVE Recent' = <<>> /\ Store' = <<>>
  <2>1. Recent' = KeysOf(Queue', node') /\ Store' = ValuesOf(node')
    BY Zenon DEF Recent, KeysOf, Store, ValuesOf
  <2>2. Queue' = <<>>
    BY <1>2, Bare DEF Queue
  <2> QED BY <1>2, <2>1, <2>2, Bare
<1> QED BY <1>1, <1>2

(* A size of 0 means there are none.                                       *)
LEMMA NoNodes ==
  ASSUME IInv, cache.currentSize = 0
  PROVE  cache.front = NULL /\ DOMAIN node = {}
<1>1. PICK q : Sound(cache, node, q)
  BY DEF IInv
<1>2. cache.front = NULL /\ \A a \in DOMAIN node : \E i \in 1 .. 0 : q[i] = a
  BY <1>1 DEF Sound, Linked
<1>3. 1 .. 0 = {}
  OBVIOUS
<1>4. DOMAIN node = {}
  BY <1>2, <1>3, Zenon
<1> QED BY <1>2, <1>4

(* The start is a start of RecencyCache.                                   *)
LEMMA PromiseInit == Init => Promise!Init
<1> SUFFICES ASSUME Init PROVE Promise!Init
  OBVIOUS
<1>1. cache.front = NULL /\ DOMAIN node = {} /\ cache.capacity = 0
  BY DEF Init, Emptied
<1>2. Recent = <<>> /\ Store = <<>>
  BY <1>1, BareView
<1> QED BY <1>1, <1>2 DEF Init, Promise!Init, Says, Promise!Says

(* createCache (lines 251-282).                                            *)
LEMMA CreateRefines ==
  ASSUME IInv, NEW c \in Capacities, createCache(c)
  PROVE  Promise!Create(c)
<1>1. mode = "none" /\ c < CACHE_CAPACITY /\ node' = node /\ reply' = Says("nothing")
  BY DEF createCache
<1>2. cache.front = NULL /\ DOMAIN node = {}
  BY <1>1, NoNodes DEF IInv
<1>3. PICK h : cache' = Emptied(c, h)
  BY Zenon DEF createCache
<1>4. cache'.front = NULL /\ cache'.capacity = c
  BY <1>3 DEF Emptied
<1>5. mode' \in IF c > 0 THEN {"ready", "broken"} ELSE {"broken"}
  BY DEF createCache
<1>6. Recent = <<>> /\ Store = <<>> /\ Recent' = <<>> /\ Store' = <<>>
  BY <1>1, <1>2, <1>4, BareView
<1> QED BY <1>1, <1>4, <1>5, <1>6 DEF Promise!Create, Says, Promise!Says

(* Exit (lines 284-315, 329-333).                                          *)
LEMMA ExitRefines ==
  ASSUME IInv, Exit, CacheAssumption
  PROVE  Promise!Exit \/ Promise!Falls
<1>1. CASE mode = "broken" /\ mode' = "undefined" /\ UNCHANGED <<cache, node, reply>>
  <2>1. Recent' = Recent /\ Store' = Store
    BY <1>1, ViewStays
  <2> QED BY <1>1, <2>1 DEF Promise!Falls
<1>2. CASE /\ mode' = "exited" /\ reply' = Says("nothing") /\ node' = Free(node, ToSet(Queue))
           /\ cache' = Emptied(cache.capacity, <<>>)
  <2>1. PICK q : Sound(cache, node, q)
    BY DEF IInv
  <2>2. ToSet(Queue) = DOMAIN node
    <3>1. Queue = q
      BY <2>1, QueueIs
    <3>2. q \in [DOMAIN q -> DOMAIN node] /\ \A a \in DOMAIN node : \E i \in DOMAIN q : q[i] = a
      BY <2>1 DEF Sound, Linked
    <3> QED BY <3>1, <3>2 DEF ToSet
  <2>3. DOMAIN node' = {}
    BY <1>2, <2>2 DEF Free
  <2>4. cache'.front = NULL /\ cache'.capacity = cache.capacity
    BY <1>2 DEF Emptied
  <2>5. Recent' = <<>> /\ Store' = <<>>
    BY <2>3, <2>4, BareView
  <2>6. mode \in {"none", "ready", "broken"}
    BY DEF Exit
  <2> QED BY <1>2, <2>4, <2>5, <2>6 DEF Promise!Exit, Says, Promise!Says
<1> QED BY <1>1, <1>2 DEF Exit

(* Every command is one of RecencyCache's, or changes nothing of it.       *)
LEMMA PromiseStep ==
  ASSUME "entry" \notin NoMemory, IInv, [Next]_vars
  PROVE  [Promise!Next]_<<mode, cache.capacity, Recent, Store, reply>>
<1> USE CacheAssumption
<1>1. ASSUME NEW c \in Capacities, createCache(c) PROVE Promise!Next
  BY <1>1, CreateRefines DEF Promise!Next
<1>2. ASSUME NEW k \in Keys, get(k) PROVE Promise!Next
  BY <1>2, GetRefines DEF Promise!Next
<1>3. ASSUME NEW k \in Keys, NEW v \in Values, PutExisting(k, v) PROVE Promise!Next
  BY <1>3, UpdateRefines DEF Promise!Next
<1>4. ASSUME NEW k \in Keys, NEW v \in Values, PutNew(k, v) PROVE Promise!Next
  BY <1>4, AddRefines DEF Promise!Next
<1>5. ASSUME Exit PROVE Promise!Next
  BY <1>5, ExitRefines DEF Promise!Next
<1>6. ASSUME mode \in {"none", "ready", "broken"}, UNCHANGED <<mode, cache, node>>,
             \/ reply' \in {Says("invalid"), Says("too big"), Says("exists"), Says("no cache")}
             \/ mode = "none" /\ reply' = Says("no memory")
      PROVE  Promise!Next
  <2>1. Recent' = Recent /\ Store' = Store
    BY <1>6, ViewStays
  <2>2. Promise!Refuse
    BY <1>6, <2>1 DEF Promise!Refuse, Says, Promise!Says
  <2> QED BY <2>2 DEF Promise!Next
<1>7. ASSUME NEW k \in Keys, Undefined(k) PROVE Promise!Next
  <2>1. Recent' = Recent /\ Store' = Store /\ cache' = cache
    BY <1>7, ViewStays DEF Undefined
  <2>2. mode = "broken" \/ (mode = "ready" /\ ~Promise!Serves(k))
    BY <1>7 DEF Undefined, Reachable, hashValue, Promise!Serves, Promise!Remainder
  <2>3. Promise!Falls
    BY <1>7, <2>1, <2>2 DEF Undefined, Promise!Falls
  <2> QED BY <2>3 DEF Promise!Next
<1>8. CASE UNCHANGED vars
  <2>1. Recent' = Recent /\ Store' = Store
    BY <1>8, ViewStays DEF vars
  <2> QED BY <1>8, <2>1 DEF vars
<1>9. ASSUME NEW c \in Capacities, CreateRefused(c) PROVE Promise!Next
  BY <1>6, <1>9 DEF CreateRefused
<1>10. ASSUME NEW k \in Keys, PutRefused(k) PROVE Promise!Next
  BY <1>6, <1>10 DEF PutRefused
<1>11. ASSUME NoCache PROVE Promise!Next
  BY <1>6, <1>11 DEF NoCache
<1> QED BY <1>1, <1>2, <1>3, <1>4, <1>5, <1>7, <1>8, <1>9, <1>10, <1>11 DEF Next, Put

(* As long as there is memory for entries, the program is a cache of a     *)
(* fixed number of keys that forgets the key used longest ago: its queue   *)
(* and its hash map answer every command as RecencyCache does (lines       *)
(* 174-249).                                                               *)
THEOREM PromiseKept == ASSUME "entry" \notin NoMemory PROVE Spec => KeepsPromise
<1>1. Init => Promise!Init
  BY PromiseInit
<1>2. IInv /\ [Next]_vars => [Promise!Next]_<<mode, cache.capacity, Recent, Store, reply>>
  BY PromiseStep
<1> QED BY <1>1, <1>2, Invariance, PTL DEF Spec, KeepsPromise, Promise!Spec, Promise!vars
-----------------------------------------------------------------------------
(* What was last put, remembered in "latest", whichever mallocs fail. *)

(* The entry of a key points to the value that was last put for it.        *)
Fresh == /\ latest \in [Keys -> Values \union {NULL}]
         /\ \A k, a : Lists(cache.hashMap, k, a) => node[a].value = latest[k]

(* The history adds nothing to the steps of the program.                   *)
LEMMA PutRefines == PutSpec => Spec
<1>1. PutInit => Init
  BY DEF PutInit
<1>2. [PutNext]_<<vars, latest>> => [Next]_vars
  BY DEF PutNext, Next, vars
<1> QED BY <1>1, <1>2, PTL DEF PutSpec, Spec

(* What an entry points to is a node of its key, and a key has one entry.  *)
LEMMA OneEntry ==
  ASSUME NEW h, NEW n, Hashed(h, n)
  PROVE  /\ \A k, a : Lists(h, k, a) => a \in DOMAIN n /\ n[a].key = k
         /\ \A k, a, b : Lists(h, k, a) /\ Lists(h, k, b) => a = b
<1>1. ASSUME NEW k, NEW a, Lists(h, k, a) PROVE a \in DOMAIN n /\ n[a].key = k
  BY <1>1 DEF Lists, Hashed
<1>2. ASSUME NEW k, NEW a, NEW b, Lists(h, k, a), Lists(h, k, b) PROVE a = b
  <2>1. PICK c, i : /\ c \in DOMAIN h /\ i \in DOMAIN h[c]
                    /\ h[c][i].key = k /\ h[c][i].address = a
    BY <1>2 DEF Lists
  <2>2. PICK d, j : /\ d \in DOMAIN h /\ j \in DOMAIN h[d]
                    /\ h[d][j].key = k /\ h[d][j].address = b
    BY <1>2 DEF Lists
  <2>3. c = d
    BY <2>1, <2>2 DEF Hashed
  <2>4. i = j
    BY <2>1, <2>2, <2>3 DEF Hashed
  <2> QED BY <2>1, <2>2, <2>3, <2>4
<1> QED BY <1>1, <1>2

(* No entry is made and no value written: all stays fresh.                 *)
LEMMA FreshKept ==
  ASSUME IInv, Fresh, latest' = latest,
         \A k, a : Lists(cache'.hashMap, k, a) => Lists(cache.hashMap, k, a),
         \A a \in DOMAIN node : node'[a].value = node[a].value
  PROVE  Fresh'
<1>1. Hashed(cache.hashMap, node)
  BY DEF IInv, Sound
<1>2. \A k, a : Lists(cache.hashMap, k, a) => a \in DOMAIN node
  BY <1>1, OneEntry
<1>3. ASSUME NEW k, NEW a, Lists(cache'.hashMap, k, a) PROVE node'[a].value = latest'[k]
  BY <1>2, <1>3 DEF Fresh
<1>4. \A k, a : Lists(cache.hashMap, k, a)' <=> Lists(cache'.hashMap, k, a)
  BY DEF Lists
<1> QED BY <1>3, <1>4 DEF Fresh

(* A get moves a node and writes none.                                     *)
LEMMA GetFresh ==
  ASSUME IInv, Fresh, CacheAssumption, NEW k \in Keys, get(k), latest' = latest
  PROVE  Fresh'
<1>1. CASE cache' = cache /\ node' = node
  BY <1>1, FreshKept
<1>2. CASE ~(cache' = cache /\ node' = node)
  <2>1. PICK q : Sound(cache, node, q)
    BY DEF IInv
  <2>2. /\ Reachable(k) /\ findInHashMap(cache, k) # NULL /\ mode' = mode
        /\ Becomes(moveToHead(cache, node, findInHashMap(cache, k)))
    BY <1>2 DEF get
  <2>3. cache'.hashMap = cache.hashMap /\ SameValues(node, node')
    BY <2>1, <2>2, FoundStep DEF SameKeys
  <2> QED BY <2>3, FreshKept DEF SameValues
<1> QED BY <1>1, <1>2

(* A put of a key that is there writes the node its one entry points to.   *)
LEMMA UpdateFresh ==
  ASSUME IInv, Fresh, CacheAssumption, NEW k \in Keys, NEW v \in Values, PutExisting(k, v),
         latest' = [latest EXCEPT ![k] = v]
  PROVE  Fresh'
<1>1. PICK q : Sound(cache, node, q)
  BY DEF IInv
<1>2. PICK a, n : a = findInHashMap(cache, k) /\ n = SetValue(node, a, v)
  OBVIOUS
<1>3. Reachable(k) /\ a # NULL /\ mode' = mode /\ Becomes(moveToHead(cache, n, a))
  BY <1>2, Zenon DEF PutExisting, SetValue
<1>4. a \in DOMAIN node /\ Lists(cache.hashMap, k, a) /\ Hashed(cache.hashMap, node)
  <2>1. cache \in LRUCache /\ Heap(node) /\ Hashed(cache.hashMap, node)
    BY <1>1 DEF Sound
  <2> QED BY <1>2, <1>3, <2>1, HasBucket, FindIs
<1>5. Sound(cache, n, q) /\ SameKeys(node, n)
      /\ \A b \in DOMAIN node : n[b].value = IF b = a THEN v ELSE node[b].value
  BY <1>1, <1>2, <1>4, ValueSet
<1>6. cache'.hashMap = cache.hashMap /\ SameValues(n, node')
  BY <1>2, <1>3, <1>5, FoundStep
<1>7. DOMAIN n = DOMAIN node
  BY <1>5 DEF SameKeys
<1>8. latest' \in [Keys -> Values \union {NULL}]
      /\ \A j \in Keys : latest'[j] = IF j = k THEN v ELSE latest[j]
  BY DEF Fresh
<1>9. ASSUME NEW j, NEW b, Lists(cache.hashMap, j, b) PROVE node'[b].value = latest'[j]
  <2>1. b \in DOMAIN node /\ node[b].key = j
    BY <1>4, <1>9, OneEntry
  <2>2. j \in Keys
    BY <1>1, <2>1 DEF Sound, Heap, QueueNode
  <2>3. b = a <=> j = k
    BY <1>4, <1>9, <2>1, OneEntry
  <2>4. node'[b].value = IF b = a THEN v ELSE node[b].value
    BY <1>5, <1>6, <1>7, <2>1 DEF SameValues
  <2> QED BY <1>8, <1>9, <2>2, <2>3, <2>4 DEF Fresh
<1>10. \A j, b : Lists(cache.hashMap, j, b)' <=> Lists(cache.hashMap, j, b)
  BY <1>6 DEF Lists
<1> QED BY <1>8, <1>9, <1>10 DEF Fresh

(* A put of a new key may evict, and enters at most the node it made.      *)
LEMMA AddFresh ==
  ASSUME IInv, Fresh, CacheAssumption, NEW k \in Keys, NEW v \in Values, PutNew(k, v),
         latest' = [latest EXCEPT ![k] = v]
  PROVE  Fresh'
<1>1. PICK q : Sound(cache, node, q)
  BY DEF IInv
<1>2. \A x : ~Lists(cache.hashMap, k, x)
  <2>1. cache \in LRUCache /\ Heap(node) /\ Hashed(cache.hashMap, node)
    BY <1>1 DEF Sound
  <2> QED BY <2>1, HasBucket, FindIs DEF PutNew
<1>3. latest' \in [Keys -> Values \union {NULL}]
      /\ \A j \in Keys : latest'[j] = IF j = k THEN v ELSE latest[j]
  BY DEF Fresh
<1>4. PICK p : Sound(cache', node', p)
  BY <1>1, NewStep DEF NoneCame, Came
<1>5. \A j, b : Lists(cache'.hashMap, j, b) => b \in DOMAIN node' /\ node'[b].key = j /\ j \in Keys
  <2>1. Hashed(cache'.hashMap, node') /\ Heap(node')
    BY <1>4 DEF Sound
  <2>2. \A b \in DOMAIN node' : node'[b].key \in Keys
    BY <2>1 DEF Heap, QueueNode
  <2> QED BY <2>1, <2>2, OneEntry
<1>6. CASE NoneCame(q)
  <2>1. ASSUME NEW j, NEW b, Lists(cache'.hashMap, j, b) PROVE node'[b].value = latest'[j]
    <3>1. Lists(cache.hashMap, j, b) /\ j # k
      BY <1>2, <1>6, <2>1 DEF NoneCame
    <3>2. node'[b].value = node[b].value /\ j \in Keys
      BY <1>5, <1>6, <2>1 DEF NoneCame, AsBefore
    <3> QED BY <1>3, <3>1, <3>2 DEF Fresh
  <2> QED BY <1>3, <2>1 DEF Fresh, Lists
<1>7. ASSUME NEW a, Came(k, v, q, a) PROVE Fresh'
  <2>1. ASSUME NEW j, NEW b, Lists(cache'.hashMap, j, b) PROVE node'[b].value = latest'[j]
    <3>1. b \in DOMAIN node' /\ node'[b].key = j /\ j \in Keys
      BY <1>5, <2>1
    <3>2. CASE j = k /\ b = a
      BY <1>3, <1>7, <3>2 DEF Came
    <3>3. CASE Lists(cache.hashMap, j, b)
      <4>1. j # k
        BY <1>2, <3>3
      <4>2. b # a
        BY <1>7, <3>1, <4>1 DEF Came
      <4>3. node'[b].value = node[b].value
        BY <1>7, <3>1, <4>2 DEF Came, AsBefore
      <4> QED BY <1>3, <3>1, <3>3, <4>1, <4>3 DEF Fresh
    <3> QED BY <1>7, <2>1, <3>2, <3>3 DEF Came
  <2> QED BY <1>3, <2>1 DEF Fresh, Lists
<1> QED BY <1>1, <1>6, <1>7, NewStep

(* Every command leaves the entries fresh.                                 *)
LEMMA StaysFresh == IInv /\ Fresh /\ [PutNext]_<<vars, latest>> => Fresh'
<1> SUFFICES ASSUME IInv, Fresh, [PutNext]_<<vars, latest>> PROVE Fresh'
  OBVIOUS
<1>1. ASSUME NEW k \in Keys, NEW v \in Values, Put(k, v), latest' = [latest EXCEPT ![k] = v]
      PROVE  Fresh'
  BY <1>1, UpdateFresh, AddFresh, CacheAssumption DEF Put
<1>2. ASSUME NEW k \in Keys, get(k), latest' = latest PROVE Fresh'
  BY <1>2, GetFresh, CacheAssumption
<1>3. ASSUME latest' = latest, \A k, a : ~Lists(cache'.hashMap, k, a) PROVE Fresh'
  BY <1>3 DEF Fresh, Lists
<1>4. ASSUME NEW c \in Capacities, createCache(c), latest' = latest PROVE Fresh'
  <2>1. PICK h, none : /\ cache' = Emptied(c, h) /\ none = <<>>
                       /\ h = none \/ h = [b \in 0 .. c - 1 |-> none]
    BY <1>4, Zenon DEF createCache
  <2>2. DOMAIN none = {} /\ cache'.hashMap = h
    BY <2>1 DEF Emptied
  <2>3. \A b \in DOMAIN h : h[b] = none
    BY <2>1, <2>2
  <2>4. \A k, a : ~Lists(h, k, a)
    BY <2>2, <2>3 DEF Lists
  <2> QED BY <1>3, <1>4, <2>2, <2>4
<1>5. CASE cache' = cache /\ node' = node /\ latest' = latest
  BY <1>5, FreshKept
<1>6. ASSUME Exit, latest' = latest PROVE Fresh'
  <2>1. CASE cache' = cache /\ node' = node
    BY <1>5, <1>6, <2>1
  <2>2. CASE cache' = Emptied(cache.capacity, <<>>)
    <3>1. \A k, a : ~Lists(cache'.hashMap, k, a)
      BY <2>2 DEF Emptied, Lists
    <3> QED BY <1>3, <1>6, <3>1
  <2> QED BY <1>6, <2>1, <2>2 DEF Exit
<1> QED BY <1>1, <1>2, <1>4, <1>5, <1>6
        DEF PutNext, CreateRefused, PutRefused, Undefined, NoCache, vars

(* A get never answers with an older value than the last one put, for any  *)
(* capacity, also when a malloc has failed and the key has two nodes       *)
(* (lines 183-227, 240-247).                                               *)
THEOREM NeverStaleAlways == PutSpec => []NeverStale
<1>1. PutInit => Fresh
  BY DEF PutInit, Init, Emptied, Fresh, Lists
<1>2. IInv /\ Fresh => NeverStale
  <2> SUFFICES ASSUME IInv, Fresh, NEW k \in Keys, Reachable(k), findInHashMap(cache, k) # NULL
               PROVE  node[findInHashMap(cache, k)].value = latest[k]
    BY DEF NeverStale
  <2>1. PICK q : Sound(cache, node, q)
    BY DEF IInv
  <2>2. cache \in LRUCache /\ Heap(node) /\ Hashed(cache.hashMap, node)
    BY <2>1 DEF Sound
  <2>3. Lists(cache.hashMap, k, findInHashMap(cache, k))
    BY <2>2, HasBucket, FindIs, CacheAssumption
  <2> QED BY <2>3 DEF Fresh
<1>3. PutSpec => []IInv
  BY PutRefines, Invariance, PTL
<1> QED BY <1>1, <1>2, <1>3, StaysFresh, PTL DEF PutSpec
=============================================================================
