--------------------------- MODULE VfsHeapProofs ----------------------------
(***************************************************************************)
(* What holds of VfsHeap for any names, texts, sizes and addresses: its    *)
(* pointers spell the sequences of VirtualFileSystem after every command,  *)
(* and exit frees what the directories hold.                               *)
(***************************************************************************)
EXTENDS VfsHeap, QueueLemmas, FiniteSetTheorems, WellFoundedInduction

-----------------------------------------------------------------------------
(* The list l goes through the nodes q, which stand for the blocks a.      *)
LinkOf(q, a, i) ==
  [address |-> a[i],
   next     |-> IF i = Len(q) THEN NULL ELSE q[i + 1],
   previous |-> IF i = 1 THEN NULL ELSE q[i - 1]]

Spelled(l, q, a) ==
  /\ q \in Seq(FreeBlocks) /\ a \in Seq(Blocks) /\ Len(a) = Len(q)
  /\ \A i, j \in 1 .. Len(q) : q[i] = q[j] => i = j
  /\ l = [head |-> l.head, tail |-> l.tail, node |-> l.node]
  /\ DOMAIN l.node = {q[i] : i \in 1 .. Len(q)}
  /\ l.node = [n \in DOMAIN l.node |-> l.node[n]]
  /\ l.head = IF Len(q) = 0 THEN NULL ELSE q[1]
  /\ l.tail = IF Len(q) = 0 THEN NULL ELSE q[Len(q)]
  /\ \A i \in 1 .. Len(q) : l.node[q[i]] = LinkOf(q, a, i)

(* The places after i and before it in a circle of m. *)
Beyond(i, m) == IF i = m THEN 1 ELSE i + 1
Before(i, m) == IF i = 1 THEN m ELSE i - 1

FileNode ==
  [name : Names \union {SLASH}, isDirectory : BOOLEAN, blocks : Seq(Blocks),
   parent : FileNodes \union {NULL}, child : FileNodes \union {NULL},
   previous : FileNodes, next : FileNodes]

(* The lists of f go through the children kids[d] of each d.               *)
Circle(f, q, d) ==
  \A i \in 1 .. Len(q) : /\ q[i] \in DOMAIN f /\ f[q[i]].parent = d
                         /\ f[q[i]].next = q[Beyond(i, Len(q))]
                         /\ f[q[i]].previous = q[Before(i, Len(q))]

Shaped(f, kids) ==
  /\ root \in DOMAIN f /\ IsFiniteSet(DOMAIN f)
  /\ f \in [DOMAIN f -> FileNode] /\ DOMAIN f \subseteq FileNodes
  /\ kids \in [DOMAIN f -> Seq(DOMAIN f)]
  /\ \A d \in DOMAIN f : /\ Circle(f, kids[d], d)
                         /\ \A i, j \in 1 .. Len(kids[d]) : kids[d][i] = kids[d][j] => i = j
                         /\ f[d].child = IF Len(kids[d]) = 0 THEN NULL ELSE kids[d][1]
                         /\ Len(kids[d]) > 0 => f[d].isDirectory
  /\ \A n \in DOMAIN f \ {root} :
       f[n].parent \in DOMAIN f
         /\ \E i \in 1 .. Len(kids[f[n].parent]) : kids[f[n].parent][i] = n
  /\ f[root].parent = NULL /\ f[root].next = root /\ f[root].previous = root
  /\ f[root].name = SLASH

OnBlocks(d) == d = [b \in Blocks |-> d[b]]

HInv ==
  /\ mode \in {"running", "exited"}
  /\ OnBlocks(disk)
  /\ current \in Live /\ node[current].isDirectory
  /\ \E q, a : Spelled(list, q, a)
  /\ \E kids : Shaped(node, kids)

-----------------------------------------------------------------------------
(* The instances have the library's operators.                             *)
LEMMA SameOperators ==
  \A x, y : /\ L!Cardinality(x) = Cardinality(x) /\ T!Cardinality(x) = Cardinality(x)
           /\ L!Min(x) = Min(x) /\ T!Min(x) = Min(x)
           /\ L!ToSet(x) = ToSet(x) /\ T!ToSet(x) = ToSet(x) /\ Vfs!ToSet(x) = ToSet(x)
           /\ Vfs!RemoveAt(x, y) = RemoveAt(x, y) /\ T!FlattenSeq(x) = FlattenSeq(x)
<1> TAKE x, y
<1>1. L!Cardinality(x) = Cardinality(x) /\ T!Cardinality(x) = Cardinality(x)
  BY Zenon DEF Cardinality, L!Cardinality, T!Cardinality
<1>2. L!Min(x) = Min(x) /\ T!Min(x) = Min(x)
  BY Zenon DEF Min, L!Min, T!Min
<1>3. L!ToSet(x) = ToSet(x) /\ T!ToSet(x) = ToSet(x) /\ Vfs!ToSet(x) = ToSet(x)
  BY Zenon DEF ToSet, L!ToSet, T!ToSet, Vfs!ToSet
<1>4. Vfs!RemoveAt(x, y) = RemoveAt(x, y)
  BY Zenon DEF RemoveAt, Vfs!RemoveAt
<1>5. T!FlattenSeq(x) = FlattenSeq(x)
  BY Zenon DEF FlattenSeq, T!FlattenSeq
<1> QED BY <1>1, <1>2, <1>3, <1>4, <1>5

-----------------------------------------------------------------------------
(* The free list (free_block.c). *)
LEMMA SpelledFacts ==
  ASSUME HeapAssumption, NEW l, NEW q, NEW a, Spelled(l, q, a)
  PROVE  /\ Len(q) \in Nat /\ q \in [1 .. Len(q) -> FreeBlocks] /\ a \in [1 .. Len(q) -> Blocks]
         /\ \A i \in 1 .. Len(q) : /\ q[i] \in FreeBlocks /\ q[i] \in DOMAIN l.node
                                      /\ q[i] # NULL
                                   /\ a[i] \in Blocks
         /\ \A n \in DOMAIN l.node : \E i \in 1 .. Len(q) : q[i] = n
         /\ NULL \notin DOMAIN l.node
<1>1. Len(q) \in Nat /\ q \in [1 .. Len(q) -> FreeBlocks] /\ a \in [1 .. Len(q) -> Blocks]
  BY LenProperties DEF Spelled
<1>2. \A n \in DOMAIN l.node : \E i \in 1 .. Len(q) : q[i] = n
  BY DEF Spelled
<1>3. \A i \in 1 .. Len(q) : q[i] \in DOMAIN l.node
  BY DEF Spelled
<1> QED BY <1>1, <1>2, <1>3 DEF HeapAssumption

(* The field next of what is at the nodes of the list. *)
LEMMA LinkIs ==
  ASSUME HeapAssumption, NEW l, NEW q, NEW a, Spelled(l, q, a), NEW i \in 1 .. Len(q)
  PROVE  /\ l.node[q[i]].address = a[i]
         /\ l.node[q[i]].next = IF i = Len(q) THEN NULL ELSE q[i + 1]
         /\ l.node[q[i]].previous = IF i = 1 THEN NULL ELSE q[i - 1]
<1>1. l.node[q[i]] = LinkOf(q, a, i)
  BY DEF Spelled
<1>2. PICK n, p : /\ n = IF i = Len(q) THEN NULL ELSE q[i + 1]
                  /\ p = IF i = 1 THEN NULL ELSE q[i - 1]
  OBVIOUS
<1>3. LinkOf(q, a, i) = [address |-> a[i], next |-> n, previous |-> p]
  BY <1>2, Zenon DEF LinkOf
<1> QED BY <1>1, <1>2, <1>3

(* Following next from the head spells the list (free_block.c:3-12).       *)
LEMMA WalkIs ==
  ASSUME HeapAssumption, NEW l, NEW q, NEW a, Spelled(l, q, a)
  PROVE  L!Walk(l) = q /\ L!Listed(l) = a
<1> DEFINE D == DOMAIN l.node
           f == [n \in D |-> l.node[n].next]
           ends(g, k) == {i \in 0 .. k : g[i] \notin D}
<1>1. PICK m \in Nat : m = Len(q)
  BY SpelledFacts
<1>2. /\ q \in [1 .. m -> D] /\ a \in [1 .. m -> Blocks] /\ NULL \notin D
      /\ \A i, j \in 1 .. m : q[i] = q[j] => i = j
      /\ \A n \in D : \E i \in 1 .. m : q[i] = n
  BY <1>1, SpelledFacts DEF Spelled
<1>3. \A i \in 1 .. m : f[q[i]] = IF i = m THEN NULL ELSE q[i + 1]
  BY <1>1, <1>2, LinkIs
<1>4. f \in [D -> D \union {NULL}]
  <2>1. ASSUME NEW n \in D PROVE l.node[n].next \in D \union {NULL}
    <3>1. PICK i \in 1 .. m : q[i] = n
      BY <1>2
    <3>2. i # m => q[i + 1] \in D
      BY <1>2
    <3> QED BY <1>1, <3>1, <3>2, LinkIs
  <2> QED BY <2>1
<1>5. l.head \in D \union {NULL} /\ (m > 0 => l.head = q[1]) /\ (m = 0 => l.head = NULL)
  BY <1>1, <1>2 DEF Spelled
<1>6. Cardinality(D) = m
  <2>1. q \in Bijection(1 .. m, D)
    BY <1>2 DEF Bijection, Injection, Surjection, IsInjective
  <2> QED BY <2>1, FS_CountingElements DEF ExistsBijection
<1> DEFINE Steps1(g) ==
             g = [i \in 0 .. L!Cardinality(D) |->
                                   IF i = 0 THEN l.head
                                   ELSE IF g[i - 1] \in D THEN l.node[g[i - 1]].next ELSE NULL]
           at == CHOOSE g : Steps1(g)
<1>7. ASSUME NEW g PROVE Steps1(g) <=> Chain(g, D, NULL, f, l.head, m)
  <2>1. \A x : (IF x \in D THEN l.node[x].next ELSE NULL) = (IF x \in D THEN f[x] ELSE NULL)
    OBVIOUS
  <2> HIDE DEF f
  <2> QED BY <1>6, <2>1, SameOperators DEF Chain
<1>8. L!Walk(l) = [i \in 1 .. Min(ends(at, m) \union {m}) |-> at[i - 1]]
  <2>1. L!Walk(l) =
          [i \in 1 .. L!Min(ends(at, L!Cardinality(D)) \union {L!Cardinality(D)}) |-> at[i - 1]]
    BY Zenon DEF L!Walk, L!Allocated
  <2>2. L!Cardinality(D) = m
    BY <1>6, SameOperators
  <2> QED BY <2>1, <2>2, SameOperators, Zenon
<1> HIDE DEF Steps1
<1>9. Chain(at, D, NULL, f, l.head, m)
  <2>1. PICK g : Chain(g, D, NULL, f, l.head, m)
    <3> HIDE DEF f, D
    <3> QED BY <1>4, <1>5, ChainExists
  <2>2. Steps1(at)
    <3>1. Steps1(g)
      BY <1>7, <2>1
    <3> QED BY <3>1, Zenon
  <2> HIDE DEF at
  <2> QED BY <1>7, <2>2
<1> HIDE DEF at
<1>10. (\A i \in 0 .. m - 1 : at[i] = q[i + 1]) /\ at[m] = NULL
  <2>1. Leads(D, f, l.head, q, m)
    <3> HIDE DEF f, D
    <3> QED BY <1>2, <1>3, <1>5 DEF Leads
  <2>2. /\ \A i \in 0 .. m - 1 : at[i] = q[i + 1]
        /\ (m = 0 => at[m] = l.head) /\ (m > 0 => at[m] = f[q[m]])
    <3>1. PICK F, S, h, k : F = f /\ S = D /\ h = l.head /\ k = m
      OBVIOUS
    <3>2. /\ Chain(at, S, NULL, F, h, m) /\ m \in Nat /\ k \in Nat /\ k <= m
          /\ Leads(S, F, h, q, k)
      <4> HIDE DEF f, D
      <4> QED BY <1>9, <2>1, <3>1
    <3>3. Spells(at, F, h, q, k)
      BY ONLY <3>2, ChainSpells
    <3> HIDE DEF f, D
    <3> QED BY <3>1, <3>3 DEF Spells
  <2> HIDE DEF f
  <2> QED BY <1>3, <1>5, <2>2
<1>11. Min(ends(at, m) \union {m}) = m
  <2>1. \A i \in ends(at, m) : i = m
    BY <1>2, <1>10
  <2>2. ends(at, m) \union {m} = {m}
    <3> HIDE DEF ends
    <3> QED BY <2>1
  <2> QED BY <2>2 DEF Min
<1>12. L!Walk(l) = q
  <2>1. L!Walk(l) = [i \in 1 .. m |-> at[i - 1]]
    BY <1>8, <1>11
  <2>2. \A i \in 1 .. m : at[i - 1] = q[i]
    BY <1>10
  <2>3. q = [i \in 1 .. m |-> q[i]]
    BY <1>2
  <2> QED BY <2>1, <2>2, <2>3
<1>13. L!Listed(l) = a
  <2>1. L!Listed(l) = [i \in DOMAIN q |-> l.node[q[i]].address]
    BY <1>12, Zenon DEF L!Listed
  <2>2. DOMAIN q = 1 .. m /\ a = [i \in 1 .. m |-> a[i]]
    BY <1>2
  <2>3. \A i \in 1 .. m : l.node[q[i]].address = a[i]
    BY <1>1, LinkIs
  <2> QED BY <2>1, <2>2, <2>3
<1> QED BY <1>12, <1>13

LEMMA SpelledLinked ==
  ASSUME HeapAssumption, NEW l, NEW q, NEW a, Spelled(l, q, a)
  PROVE  L!WellLinked(l)
<1>1. PICK m \in Nat : m = Len(q)
  BY SpelledFacts
<1>2. /\ \A i \in 1 .. m : q[i] \in DOMAIN l.node
      /\ \A n \in DOMAIN l.node : \E i \in 1 .. m : q[i] = n
  BY <1>1, SpelledFacts
<1>3. L!ToSet(L!Walk(l)) = DOMAIN l.node
  <2>1. DOMAIN q = 1 .. m
    BY <1>1, SpelledFacts
  <2>2. L!ToSet(L!Walk(l)) = {q[i] : i \in 1 .. m}
    BY <2>1, WalkIs, SameOperators, Zenon DEF ToSet
  <2> QED BY <1>2, <2>2
<1>4. CASE m = 0
  <2>1. DOMAIN l.node = {} /\ l.head = NULL /\ l.tail = NULL
    BY <1>1, <1>2, <1>4 DEF Spelled
  <2> QED BY <1>3, <2>1, Zenon DEF L!WellLinked, L!Allocated
<1>5. CASE m > 0
  <2>1. l.head = q[1] /\ l.tail = q[m] /\ 1 \in 1 .. m /\ m \in 1 .. m
    BY <1>1, <1>5 DEF Spelled
  <2>2. l.node[q[1]].previous = NULL /\ l.node[q[m]].next = NULL
    BY <1>1, <2>1, LinkIs
  <2>3. ASSUME NEW n \in DOMAIN l.node, n # l.tail
        PROVE  l.node[n].next \in DOMAIN l.node /\ l.node[l.node[n].next].previous = n
    <3>1. PICK i \in 1 .. m : q[i] = n
      BY <1>2
    <3>2. i # m /\ i + 1 \in 1 .. m /\ i + 1 # 1 /\ (i + 1) - 1 = i
      BY <2>1, <2>3, <3>1
    <3>3. l.node[n].next = q[i + 1]
      BY <1>1, <3>1, <3>2, LinkIs
    <3>4. l.node[q[i + 1]].previous = q[(i + 1) - 1]
      BY <1>1, <3>2, LinkIs
    <3> QED BY <1>2, <3>1, <3>2, <3>3, <3>4
  <2>4. DOMAIN l.node # {} /\ l.head \in DOMAIN l.node /\ l.tail \in DOMAIN l.node
    BY <1>2, <2>1
  <2> QED BY <1>3, <2>1, <2>2, <2>3, <2>4, Zenon DEF L!WellLinked, L!Allocated
<1> QED BY <1>4, <1>5

-----------------------------------------------------------------------------
(* A list without its first i elements. *)
Rest(q, i) == [j \in 1 .. Len(q) - i |-> q[j + i]]

LEMMA RestIs ==
  ASSUME NEW S, NEW q \in Seq(S), NEW i \in 0 .. Len(q)
  PROVE  /\ Rest(q, i) \in Seq(S) /\ Len(Rest(q, i)) = Len(q) - i
         /\ DOMAIN Rest(q, i) = 1 .. Len(q) - i
         /\ \A j \in 1 .. Len(q) - i : Rest(q, i)[j] = q[j + i]
<1>1. Len(q) \in Nat /\ \A j \in 1 .. Len(q) : q[j] \in S
  BY LenProperties
<1>2. PICK m \in Nat : m = Len(q) - i
  BY <1>1
<1>3. Rest(q, i) \in [1 .. m -> S] /\ \A j \in 1 .. m : Rest(q, i)[j] = q[j + i]
  BY <1>1, <1>2 DEF Rest
<1> QED BY <1>2, <1>3, IsASeq, LenProperties

(* What a list has to be to go through the nodes q.                        *)
LEMMA SpelledBy ==
  ASSUME NEW q \in Seq(FreeBlocks), NEW a \in Seq(Blocks), Len(a) = Len(q),
         \A i, j \in 1 .. Len(q) : q[i] = q[j] => i = j,
         NEW h, h = IF Len(q) = 0 THEN NULL ELSE q[1],
         NEW t, t = IF Len(q) = 0 THEN NULL ELSE q[Len(q)],
         NEW D, NEW e, e = [n \in D |-> e[n]], D = {q[i] : i \in 1 .. Len(q)},
         \A i \in 1 .. Len(q) : e[q[i]] = LinkOf(q, a, i)
  PROVE  Spelled([head |-> h, tail |-> t, node |-> e], q, a)
<1> DEFINE l == [head |-> h, tail |-> t, node |-> e]
<1>1. l.head = h /\ l.tail = t /\ l.node = e
        /\ l = [head |-> l.head, tail |-> l.tail, node |-> l.node]
  OBVIOUS
<1>2. DOMAIN e = D
  BY Zenon
<1> HIDE DEF l
<1>3. Spelled(l, q, a)
  BY <1>1, <1>2 DEF Spelled
<1> QED BY <1>3 DEF l

(* The only element goes (free_block.c:78-84). *)
LEMMA LastGoes ==
  ASSUME HeapAssumption, NEW l, NEW q, NEW a, Spelled(l, q, a), Len(q) = 1
  PROVE  Spelled(L!deleteFreeBlockFromHead(l), Rest(q, 1), Rest(a, 1))
<1>1. q \in Seq(FreeBlocks) /\ a \in Seq(Blocks) /\ Len(a) = Len(q) /\ 1 \in 0 .. Len(q)
  BY DEF Spelled
<1>2. PICK r, b, e : r = Rest(q, 1) /\ b = Rest(a, 1)
        /\ e = [n \in L!Allocated(l) \ {l.head} |-> l.node[n]]
  OBVIOUS
<1>3. r \in Seq(FreeBlocks) /\ Len(r) = 0 /\ b \in Seq(Blocks) /\ Len(b) = 0
  BY <1>1, <1>2, RestIs
<1>4. l.head = q[1] /\ DOMAIN l.node = {q[1]} /\ l.node[l.head].next = NULL
  <2>1. l.head = q[1] /\ DOMAIN l.node = {q[1]} /\ 1 \in 1 .. Len(q)
    BY DEF Spelled
  <2> QED BY <2>1, LinkIs
<1>5. e = [n \in {} |-> e[n]]
  <2>1. L!Allocated(l) \ {l.head} = {}
    BY <1>4 DEF L!Allocated
  <2> QED BY <1>2, <2>1
<1>6. L!deleteFreeBlockFromHead(l) = [head |-> NULL, tail |-> NULL, node |-> e]
  BY <1>2, <1>4, Zenon DEF L!deleteFreeBlockFromHead
<1>7. Spelled([head |-> NULL, tail |-> NULL, node |-> e], r, b)
  <2>1. \A i \in 1 .. Len(r) : FALSE
    BY <1>3
  <2>2. {} = {r[i] : i \in 1 .. Len(r)}
    BY <2>1
  <2> QED BY <1>3, <1>5, <2>1, <2>2, SpelledBy
<1> QED BY <1>2, <1>6, <1>7

(* The first of several goes (free_block.c:86-90). *)
LEMMA FirstGoes ==
  ASSUME HeapAssumption, NEW l, NEW q, NEW a, Spelled(l, q, a), Len(q) > 1
  PROVE  Spelled(L!deleteFreeBlockFromHead(l), Rest(q, 1), Rest(a, 1))
<1>1. PICK m \in Nat : m = Len(q)
  BY SpelledFacts
<1>2. /\ q \in Seq(FreeBlocks) /\ a \in Seq(Blocks) /\ Len(a) = m /\ 1 \in 0 .. m /\ m > 1
      /\ \A i, j \in 1 .. m : q[i] = q[j] => i = j
      /\ DOMAIN l.node = {q[i] : i \in 1 .. m}
      /\ l.head = q[1] /\ l.tail = q[m]
      /\ l = [head |-> l.head, tail |-> l.tail, node |-> l.node]
      /\ \A i \in 1 .. m : l.node[q[i]] = LinkOf(q, a, i)
  BY <1>1 DEF Spelled
<1>3. PICK r, b : r = Rest(q, 1) /\ b = Rest(a, 1)
  OBVIOUS
<1>4. /\ r \in Seq(FreeBlocks) /\ Len(r) = m - 1 /\ b \in Seq(Blocks) /\ Len(b) = m - 1
      /\ \A j \in 1 .. m - 1 : r[j] = q[j + 1] /\ b[j] = a[j + 1]
  <2>1. 1 \in 0 .. Len(q) /\ 1 \in 0 .. Len(a) /\ Len(q) = m /\ Len(a) = m
    BY <1>1, <1>2
  <2>2. r \in Seq(FreeBlocks) /\ Len(r) = m - 1 /\ \A j \in 1 .. m - 1 : r[j] = q[j + 1]
    <3>1. q \in Seq(FreeBlocks) /\ 1 \in 0 .. Len(q)
      BY <1>2, <2>1
    <3>2. /\ Rest(q, 1) \in Seq(FreeBlocks) /\ Len(Rest(q, 1)) = Len(q) - 1
          /\ \A j \in 1 .. Len(q) - 1 : Rest(q, 1)[j] = q[j + 1]
      BY ONLY <3>1, RestIs
    <3> QED BY <1>3, <2>1, <3>2
  <2>3. b \in Seq(Blocks) /\ Len(b) = m - 1 /\ \A j \in 1 .. m - 1 : b[j] = a[j + 1]
    <3>1. a \in Seq(Blocks) /\ 1 \in 0 .. Len(a)
      BY <1>2, <2>1
    <3>2. /\ Rest(a, 1) \in Seq(Blocks) /\ Len(Rest(a, 1)) = Len(a) - 1
          /\ \A j \in 1 .. Len(a) - 1 : Rest(a, 1)[j] = a[j + 1]
      BY ONLY <3>1, RestIs
    <3> QED BY <1>3, <2>1, <3>2
  <2> QED BY <2>2, <2>3
<1>5. l.node[l.head].next = q[2] /\ q[2] # NULL
  <2>1. 1 \in 1 .. Len(q) /\ 2 \in 1 .. Len(q) /\ 1 # Len(q) /\ 1 + 1 = 2
    BY <1>1, <1>2
  <2>2. l.node[q[1]].next = IF 1 = Len(q) THEN NULL ELSE q[1 + 1]
    BY <2>1, LinkIs
  <2>3. q[2] # NULL
    BY <2>1, SpelledFacts
  <2> QED BY <1>2, <2>1, <2>2, <2>3
<1> DEFINE D == L!Allocated(l) \ {l.head}
           rest == [n \in D |-> l.node[n]]
           e == [rest EXCEPT ![q[2]].previous = NULL]
<1>6. L!deleteFreeBlockFromHead(l) = [head |-> q[2], tail |-> l.tail, node |-> e]
  BY <1>5, Zenon DEF L!deleteFreeBlockFromHead
<1>8. D = {r[j] : j \in 1 .. Len(r)}
  <2>1. ASSUME NEW n \in D PROVE \E j \in 1 .. m - 1 : n = r[j]
    <3>1. PICK i \in 1 .. m : n = q[i] /\ i # 1
      BY <1>2 DEF L!Allocated
    <3>2. i - 1 \in 1 .. m - 1 /\ (i - 1) + 1 = i
      BY <3>1
    <3> QED BY <1>4, <3>1, <3>2
  <2>2. ASSUME NEW j \in 1 .. m - 1 PROVE r[j] \in D
    <3>1. j + 1 \in 1 .. m /\ 1 \in 1 .. m /\ j + 1 # 1
      BY <1>1
    <3>2. q[j + 1] \in DOMAIN l.node /\ q[j + 1] # q[1]
      BY <1>2, <3>1
    <3> QED BY <1>2, <1>4, <3>2 DEF L!Allocated
  <2> HIDE DEF D
  <2> QED BY <1>4, <2>1, <2>2
<1>9. ASSUME NEW j \in 1 .. m - 1 PROVE e[r[j]] = LinkOf(r, b, j)
  <2>1. r[j] = q[j + 1] /\ r[j] \in D /\ j + 1 \in 1 .. m /\ (j + 1 = 2 <=> j = 1) /\ j + 1 # 1
    <3> HIDE DEF D
    <3> QED BY <1>1, <1>4, <1>8
  <2>2. l.node[q[j + 1]] = LinkOf(q, a, j + 1)
    BY <1>2, <2>1
  <2>3. PICK n, p : n = (IF j + 1 = m THEN NULL ELSE q[(j + 1) + 1]) /\ p = q[(j + 1) - 1]
    OBVIOUS
  <2>4. LinkOf(q, a, j + 1) = [address |-> a[j + 1], next |-> n, previous |-> p]
    BY <1>1, <2>1, <2>3, Zenon DEF LinkOf
  <2>5. n = IF j = Len(r) THEN NULL ELSE r[j + 1]
    BY <1>1, <1>4, <2>1, <2>3
  <2>6. q[j + 1] = q[2] <=> j = 1
    <3>1. 2 \in 1 .. m
      BY <1>2
    <3>2. q[j + 1] = q[2] => j + 1 = 2
      BY <1>2, <2>1, <3>1
    <3> QED BY <2>1, <3>2
  <2>7. CASE j = 1
    <3>1. e[r[j]] = [LinkOf(q, a, j + 1) EXCEPT !.previous = NULL]
      BY <2>1, <2>2, <2>6, <2>7
    <3>2. e[r[j]] = [address |-> a[j + 1], next |-> n, previous |-> NULL]
      <4> HIDE DEF e
      <4> QED BY <2>4, <3>1
    <3>3. LinkOf(r, b, j) = [address |-> b[j], next |-> n, previous |-> NULL]
      BY <2>5, <2>7, Zenon DEF LinkOf
    <3> QED BY <1>4, <3>2, <3>3, Zenon
  <2>8. CASE j # 1
    <3>1. e[r[j]] = LinkOf(q, a, j + 1)
      BY <2>1, <2>2, <2>6, <2>8
    <3>2. p = r[j - 1]
      <4>1. j - 1 \in 1 .. m - 1 /\ (j - 1) + 1 = j /\ (j + 1) - 1 = j
        BY <2>8
      <4> QED BY <1>4, <2>3, <4>1
    <3>3. LinkOf(r, b, j) = [address |-> b[j], next |-> n, previous |-> p]
      BY <2>5, <2>8, <3>2, Zenon DEF LinkOf
    <3> HIDE DEF e
    <3> QED BY <1>4, <2>4, <3>1, <3>3, Zenon
  <2> QED BY <2>7, <2>8
<1>10. Spelled([head |-> q[2], tail |-> l.tail, node |-> e], r, b)
  <2>1. \A i, j \in 1 .. Len(r) : r[i] = r[j] => i = j
    <3>1. ASSUME NEW i \in 1 .. m - 1, NEW j \in 1 .. m - 1, r[i] = r[j] PROVE i = j
      <4>1. i + 1 \in 1 .. m /\ j + 1 \in 1 .. m /\ q[i + 1] = q[j + 1]
        BY <1>1, <1>4, <3>1
      <4> QED BY <1>2, <4>1
    <3> QED BY <1>4, <3>1
  <2>2. e = [n \in D |-> e[n]]
    BY Zenon
  <2>3. q[2] = (IF Len(r) = 0 THEN NULL ELSE r[1])
          /\ l.tail = IF Len(r) = 0 THEN NULL ELSE r[Len(r)]
    <3>1. Len(r) # 0 /\ 1 \in 1 .. m - 1 /\ m - 1 \in 1 .. m - 1 /\ 1 + 1 = 2 /\ (m - 1) + 1 = m
      BY <1>1, <1>2, <1>4
    <3>2. r[1] = q[2] /\ r[m - 1] = q[m]
      BY <1>4, <3>1
    <3> QED BY <1>2, <1>4, <3>1, <3>2
  <2>4. \A j \in 1 .. Len(r) : e[r[j]] = LinkOf(r, b, j)
    BY <1>4, <1>9
  <2>5. PICK E, H, t, A : E = e /\ H = q[2] /\ t = l.tail /\ A = D
    OBVIOUS
  <2>6. /\ r \in Seq(FreeBlocks) /\ b \in Seq(Blocks) /\ Len(b) = Len(r)
        /\ \A i, j \in 1 .. Len(r) : r[i] = r[j] => i = j
        /\ H = IF Len(r) = 0 THEN NULL ELSE r[1]
        /\ t = IF Len(r) = 0 THEN NULL ELSE r[Len(r)]
        /\ E = [n \in A |-> E[n]] /\ A = {r[i] : i \in 1 .. Len(r)}
        /\ \A i \in 1 .. Len(r) : E[r[i]] = LinkOf(r, b, i)
    <3> HIDE DEF e, D
    <3> QED BY <1>4, <1>8, <2>1, <2>2, <2>3, <2>4, <2>5
  <2>7. Spelled([head |-> H, tail |-> t, node |-> E], r, b)
    BY ONLY <2>6, SpelledBy
  <2> HIDE DEF e
  <2> QED BY <2>5, <2>7
<1> HIDE DEF e
<1> QED BY <1>3, <1>6, <1>10

LEMMA HeadGoes ==
  ASSUME HeapAssumption, NEW l, NEW q, NEW a, Spelled(l, q, a), Len(q) > 0
  PROVE  Spelled(L!deleteFreeBlockFromHead(l), Rest(q, 1), Rest(a, 1))
<1>1. Len(q) \in Nat
  BY SpelledFacts
<1> QED BY <1>1, LastGoes, FirstGoes

(* A list that is one node (free_block.c:110-115). *)
LEMMA FirstComes ==
  ASSUME HeapAssumption, NEW l, NEW q, NEW a, Spelled(l, q, a), Len(q) = 0,
         NEW n \in FreeBlocks, NEW b \in Blocks
  PROVE  Spelled(L!insertFreeBlockAtTail(l, b, n), Append(q, n), Append(a, b))
<1>1. /\ q \in Seq(FreeBlocks) /\ a \in Seq(Blocks) /\ Len(a) = 0 /\ n # NULL
      /\ l.head = NULL /\ l.tail = NULL /\ DOMAIN l.node = {}
  BY DEF Spelled, HeapAssumption
<1>2. PICK r, c : r = Append(q, n) /\ c = Append(a, b)
  OBVIOUS
<1>3. r \in Seq(FreeBlocks) /\ c \in Seq(Blocks) /\ Len(r) = 1 /\ Len(c) = 1 /\ r[1] = n
        /\ c[1] = b
  BY <1>1, <1>2, AppendProperties
<1> DEFINE D == L!Allocated(l) \union {n}
           e == [m \in D |->
                    IF m = n THEN [address |-> b, next |-> NULL, previous |-> l.tail]
                    ELSE IF m = l.tail THEN [l.node[m] EXCEPT !.next = n] ELSE l.node[m]]
<1>4. L!insertFreeBlockAtTail(l, b, n) = [head |-> n, tail |-> n, node |-> e]
  BY <1>1, Zenon DEF L!insertFreeBlockAtTail
<1>5. D = {n}
  BY <1>1, Zenon DEF L!Allocated
<1>6. e[n] = LinkOf(r, c, 1)
  <2>1. e[n] = [address |-> b, next |-> NULL, previous |-> NULL]
    <3>1. n \in D
      OBVIOUS
    <3> HIDE DEF D
    <3> QED BY <1>1, <3>1, Zenon
  <2>2. LinkOf(r, c, 1) = [address |-> c[1], next |-> NULL, previous |-> NULL]
    BY <1>3, Zenon DEF LinkOf
  <2> QED BY <1>3, <2>1, <2>2, Zenon
<1>7. e = [m \in D |-> e[m]]
  BY Zenon
<1>8. PICK E, A : E = e /\ A = D
  OBVIOUS
<1>9. /\ r \in Seq(FreeBlocks) /\ c \in Seq(Blocks) /\ Len(c) = Len(r)
      /\ \A i, j \in 1 .. Len(r) : r[i] = r[j] => i = j
      /\ n = IF Len(r) = 0 THEN NULL ELSE r[1]
      /\ n = IF Len(r) = 0 THEN NULL ELSE r[Len(r)]
      /\ E = [m \in A |-> E[m]] /\ A = {r[i] : i \in 1 .. Len(r)}
      /\ \A i \in 1 .. Len(r) : E[r[i]] = LinkOf(r, c, i)
  <2> HIDE DEF e, D
  <2> QED BY <1>3, <1>5, <1>6, <1>7, <1>8
<1>10. Spelled([head |-> n, tail |-> n, node |-> E], r, c)
  BY ONLY <1>9, SpelledBy
<1> HIDE DEF e
<1> QED BY <1>2, <1>4, <1>8, <1>10

(* A node after the tail (free_block.c:123-126). *)
LEMMA AnotherComes ==
  ASSUME HeapAssumption, NEW l, NEW q, NEW a, Spelled(l, q, a), Len(q) > 0,
         NEW n \in FreeBlocks, n \notin DOMAIN l.node, NEW b \in Blocks
  PROVE  Spelled(L!insertFreeBlockAtTail(l, b, n), Append(q, n), Append(a, b))
<1>1. PICK m \in Nat : m = Len(q) + 1
  BY SpelledFacts
<1>2. /\ q \in Seq(FreeBlocks) /\ a \in Seq(Blocks) /\ Len(q) = m - 1 /\ Len(a) = m - 1 /\ m > 1
      /\ \A i, j \in 1 .. m - 1 : q[i] = q[j] => i = j
      /\ DOMAIN l.node = {q[i] : i \in 1 .. m - 1}
      /\ \A i \in 1 .. m - 1 : q[i] \in DOMAIN l.node /\ q[i] # NULL
      /\ l.head = q[1] /\ l.tail = q[m - 1]
      /\ \A i \in 1 .. m - 1 : l.node[q[i]] = LinkOf(q, a, i)
  <2>1. Len(q) = m - 1
    BY <1>1, SpelledFacts
  <2> QED BY <2>1, <1>1, SpelledFacts DEF Spelled
<1>3. PICK r, c : r = Append(q, n) /\ c = Append(a, b)
  OBVIOUS
<1>4. /\ r \in Seq(FreeBlocks) /\ c \in Seq(Blocks) /\ Len(r) = m /\ Len(c) = m
      /\ r[m] = n /\ c[m] = b /\ \A i \in 1 .. m - 1 : r[i] = q[i] /\ c[i] = a[i]
  <2>1. r \in Seq(FreeBlocks) /\ Len(r) = m /\ r[m] = n /\ \A i \in 1 .. m - 1 : r[i] = q[i]
    BY <1>2, <1>3, AppendProperties
  <2>2. c \in Seq(Blocks) /\ Len(c) = m /\ c[m] = b /\ \A i \in 1 .. m - 1 : c[i] = a[i]
    BY <1>2, <1>3, AppendProperties
  <2> QED BY <2>1, <2>2
<1>5. l.head # NULL /\ l.tail # NULL /\ n # NULL /\ 1 \in 1 .. m - 1 /\ m - 1 \in 1 .. m - 1
  <2>1. 1 \in 1 .. m - 1 /\ m - 1 \in 1 .. m - 1
    BY <1>2
  <2> QED BY <1>2, <2>1 DEF HeapAssumption
<1> DEFINE D == L!Allocated(l) \union {n}
           e == [x \in D |->
                    IF x = n THEN [address |-> b, next |-> NULL, previous |-> l.tail]
                    ELSE IF x = l.tail THEN [l.node[x] EXCEPT !.next = n] ELSE l.node[x]]
<1>6. L!insertFreeBlockAtTail(l, b, n) = [head |-> l.head, tail |-> n, node |-> e]
  BY <1>5, Zenon DEF L!insertFreeBlockAtTail
<1>7. D = {r[i] : i \in 1 .. Len(r)}
  <2>1. ASSUME NEW x \in D PROVE \E i \in 1 .. m : x = r[i]
    <3>1. CASE x = n
      <4>1. m \in 1 .. m
        BY <1>2
      <4> QED BY <1>4, <3>1, <4>1
    <3>2. CASE x # n
      <4>1. PICK i \in 1 .. m - 1 : x = q[i]
        BY <1>2, <3>2 DEF L!Allocated
      <4>2. i \in 1 .. m
        OBVIOUS
      <4> QED BY <1>4, <4>1, <4>2
    <3> QED BY <3>1, <3>2
  <2>2. ASSUME NEW i \in 1 .. m PROVE r[i] \in D
    <3>1. CASE i = m
      BY <1>4, <3>1
    <3>2. CASE i # m
      <4>1. i \in 1 .. m - 1
        BY <3>2
      <4> QED BY <1>2, <1>4, <4>1 DEF L!Allocated
    <3> QED BY <3>1, <3>2
  <2> HIDE DEF D
  <2> QED BY <1>4, <2>1, <2>2
<1>8. ASSUME NEW i \in 1 .. m PROVE e[r[i]] = LinkOf(r, c, i)
  <2>0. r[i] \in D
    <3> HIDE DEF D
    <3> QED BY <1>4, <1>7
  <2>1. CASE i = m
    <3>1. e[r[i]] = [address |-> b, next |-> NULL, previous |-> l.tail]
      BY <1>4, <2>0, <2>1
    <3>2. LinkOf(r, c, i) = [address |-> c[m], next |-> NULL, previous |-> r[m - 1]]
      <4>1. i = Len(r) /\ i # 1 /\ i = m
        BY <1>2, <1>4, <2>1
      <4> QED BY <4>1, Zenon DEF LinkOf
    <3>3. r[m - 1] = l.tail
      BY <1>2, <1>4, <1>5
    <3> HIDE DEF e
    <3> QED BY <1>4, <3>1, <3>2, <3>3, Zenon
  <2>2. CASE i # m
    <3>1. i \in 1 .. m - 1 /\ r[i] = q[i] /\ r[i] # n /\ c[i] = a[i]
      <4>1. i \in 1 .. m - 1
        BY <2>2
      <4> QED BY <1>2, <1>4, <4>1
    <3>2. PICK nx, pr, y : /\ nx = (IF i = Len(q) THEN NULL ELSE q[i + 1])
                           /\ pr = (IF i = 1 THEN NULL ELSE q[i - 1]) /\ y = a[i]
      OBVIOUS
    <3>3. l.node[q[i]] = [address |-> y, next |-> nx, previous |-> pr]
      <4>1. LinkOf(q, a, i) = [address |-> y, next |-> nx, previous |-> pr]
        BY <3>2, Zenon DEF LinkOf
      <4> QED BY <1>2, <3>1, <4>1
    <3>4. pr = IF i = 1 THEN NULL ELSE r[i - 1]
      <4>1. i # 1 => i - 1 \in 1 .. m - 1
        BY <3>1
      <4> QED BY <1>4, <3>2, <4>1
    <3>5. e[r[i]] = IF q[i] = l.tail THEN [l.node[q[i]] EXCEPT !.next = n] ELSE l.node[q[i]]
      BY <2>0, <3>1
    <3>6. q[i] = l.tail <=> i = m - 1
      BY <1>2, <1>5, <3>1
    <3>7. r[i + 1] = IF i = m - 1 THEN n ELSE q[i + 1]
      <4>1. i # m - 1 => i + 1 \in 1 .. m - 1
        BY <3>1
      <4>2. i = m - 1 => i + 1 = m
        BY <3>1
      <4> QED BY <1>4, <4>1, <4>2
    <3>8. LinkOf(r, c, i) = [address |-> y, next |-> r[i + 1], previous |-> pr]
      <4>1. i # Len(r) /\ c[i] = y
        BY <1>4, <2>2, <3>1, <3>2
      <4> QED BY <3>4, <4>1, Zenon DEF LinkOf
    <3> HIDE DEF e
    <3>9. CASE i = m - 1
      <4>1. e[r[i]] = [[address |-> y, next |-> nx, previous |-> pr] EXCEPT !.next = n]
        BY <3>3, <3>5, <3>6, <3>9, Zenon
      <4>2. e[r[i]] = [address |-> y, next |-> n, previous |-> pr]
        BY <4>1
      <4> QED BY <3>7, <3>8, <3>9, <4>2, Zenon
    <3>10. CASE i # m - 1
      <4>1. e[r[i]] = [address |-> y, next |-> nx, previous |-> pr]
        BY <3>3, <3>5, <3>6, <3>10, Zenon
      <4>2. nx = r[i + 1]
        BY <1>2, <3>2, <3>7, <3>10
      <4> QED BY <3>8, <4>1, <4>2, Zenon
    <3> QED BY <3>9, <3>10
  <2> QED BY <2>1, <2>2
<1>9. \A i, j \in 1 .. Len(r) : r[i] = r[j] => i = j
  <2>1. \A i \in 1 .. m - 1 : r[i] # n
    BY <1>2, <1>4
  <2>2. ASSUME NEW i \in 1 .. m, NEW j \in 1 .. m, r[i] = r[j] PROVE i = j
    <3>1. CASE i = m /\ j # m
      <4>1. j \in 1 .. m - 1
        BY <3>1
      <4> QED BY <1>4, <2>1, <2>2, <3>1, <4>1
    <3>2. CASE i # m /\ j = m
      <4>1. i \in 1 .. m - 1
        BY <3>2
      <4> QED BY <1>4, <2>1, <2>2, <3>2, <4>1
    <3>3. CASE i # m /\ j # m
      <4>1. i \in 1 .. m - 1 /\ j \in 1 .. m - 1
        BY <3>3
      <4> QED BY <1>2, <1>4, <2>2, <4>1
    <3> QED BY <3>1, <3>2, <3>3
  <2> QED BY <1>4, <2>2
<1>10. e = [x \in D |-> e[x]]
  BY Zenon
<1>11. PICK E, A, h : E = e /\ A = D /\ h = l.head
  OBVIOUS
<1>12. /\ r \in Seq(FreeBlocks) /\ c \in Seq(Blocks) /\ Len(c) = Len(r)
       /\ \A i, j \in 1 .. Len(r) : r[i] = r[j] => i = j
       /\ h = IF Len(r) = 0 THEN NULL ELSE r[1]
       /\ n = IF Len(r) = 0 THEN NULL ELSE r[Len(r)]
       /\ E = [x \in A |-> E[x]] /\ A = {r[i] : i \in 1 .. Len(r)}
       /\ \A i \in 1 .. Len(r) : E[r[i]] = LinkOf(r, c, i)
  <2> HIDE DEF e, D
  <2>1. h = r[1] /\ Len(r) # 0
    BY <1>2, <1>4, <1>5, <1>11
  <2> QED BY <1>4, <1>7, <1>8, <1>9, <1>10, <1>11, <2>1
<1>13. Spelled([head |-> h, tail |-> n, node |-> E], r, c)
  BY ONLY <1>12, SpelledBy
<1> HIDE DEF e
<1> QED BY <1>3, <1>6, <1>11, <1>13

(* A block comes back, if there is memory for its node.                    *)
LEMMA TailComes ==
  ASSUME HeapAssumption, NEW l, NEW q, NEW a, Spelled(l, q, a),
         NEW n \in FreeBlocks, n \notin DOMAIN l.node, NEW b \in Blocks
  PROVE  Spelled(L!insertFreeBlockAtTail(l, b, n), Append(q, n), Append(a, b))
<1>1. Len(q) \in Nat
  BY SpelledFacts
<1>2. Len(q) = 0 \/ Len(q) > 0
  BY <1>1
<1> QED BY <1>2, FirstComes, AnotherComes

LEMMA NoneComes == \A l, b : L!insertFreeBlockAtTail(l, b, NULL) = l
BY Zenon DEF L!insertFreeBlockAtTail

(* The list as main makes it (free_block.c:24-64).                         *)
LEMMA ListMade ==
  ASSUME HeapAssumption, NEW at \in [Blocks -> FreeBlocks], IsInjective(at)
  PROVE  Spelled(L!initializeFreeBlocks(at), [i \in 1 .. TOTAL_BLOCKS |-> at[i - 1]],
                 [i \in 1 .. TOTAL_BLOCKS |-> i - 1])
<1>1. PICK m \in Nat : m = TOTAL_BLOCKS /\ m > 0 /\ Blocks = 0 .. m - 1
  BY DEF HeapAssumption, Blocks, L!Blocks
<1>2. \A b, c \in 0 .. m - 1 : at[b] = at[c] => b = c
  BY <1>1 DEF IsInjective
<1>3. PICK q, a : q = [i \in 1 .. m |-> at[i - 1]] /\ a = [i \in 1 .. m |-> i - 1]
  OBVIOUS
<1>4. /\ q \in Seq(FreeBlocks) /\ a \in Seq(Blocks) /\ Len(q) = m /\ Len(a) = m
      /\ \A i \in 1 .. m : i - 1 \in 0 .. m - 1 /\ q[i] = at[i - 1] /\ a[i] = i - 1
  <2>1. q \in [1 .. m -> FreeBlocks] /\ a \in [1 .. m -> Blocks]
    BY <1>1, <1>3
  <2>2. \A i \in 1 .. m : i - 1 \in 0 .. m - 1 /\ q[i] = at[i - 1] /\ a[i] = i - 1
    BY <1>1, <1>3
  <2> QED BY <2>1, <2>2, IsASeq, LenProperties
<1> DEFINE D == L!Range(at)
           e == [n \in D |->
               LET b == CHOOSE b \in Blocks : at[b] = n IN
                 [address  |-> b,
                  next     |-> IF b = TOTAL_BLOCKS - 1 THEN NULL ELSE at[b + 1],
                  previous |-> IF b = 0 THEN NULL ELSE at[b - 1]]]
<1>5. L!initializeFreeBlocks(at) = [head |-> at[0], tail |-> at[TOTAL_BLOCKS - 1], node |-> e]
  BY Zenon DEF L!initializeFreeBlocks, Blocks
<1>6. D = {q[i] : i \in 1 .. Len(q)}
  <2>1. D = {at[b] : b \in 0 .. m - 1}
    BY <1>1 DEF L!Range
  <2>2. ASSUME NEW b \in 0 .. m - 1 PROVE b + 1 \in 1 .. m /\ q[b + 1] = at[b]
    <3>1. b + 1 \in 1 .. m /\ (b + 1) - 1 = b
      OBVIOUS
    <3> QED BY <1>4, <3>1
  <2> HIDE DEF D
  <2> QED BY <1>4, <2>1, <2>2
<1>7. ASSUME NEW i \in 1 .. m PROVE e[q[i]] = LinkOf(q, a, i)
  <2>1. i - 1 \in Blocks /\ at[i - 1] = q[i] /\ q[i] \in D
    <3> HIDE DEF D
    <3> QED BY <1>1, <1>4, <1>6
  <2>2. (CHOOSE b \in Blocks : at[b] = q[i]) = i - 1
    <3>1. \A b \in Blocks : at[b] = q[i] => b = i - 1
      BY <1>1, <1>2, <2>1
    <3> QED BY <2>1, <3>1
  <2>3. PICK n, p, b : /\ n = (IF b = TOTAL_BLOCKS - 1 THEN NULL ELSE at[b + 1])
                       /\ p = (IF b = 0 THEN NULL ELSE at[b - 1]) /\ b = i - 1
    OBVIOUS
  <2>4. e[q[i]] = [address |-> b, next |-> n, previous |-> p]
    <3> HIDE DEF D
    <3> QED BY <2>1, <2>2, <2>3, Zenon
  <2>5. n = IF i = Len(q) THEN NULL ELSE q[i + 1]
    <3>1. i # m => i + 1 \in 1 .. m /\ (i + 1) - 1 = (i - 1) + 1
      OBVIOUS
    <3>2. i - 1 = m - 1 <=> i = m
      OBVIOUS
    <3> QED BY <1>1, <1>4, <2>3, <3>1, <3>2
  <2>6. p = IF i = 1 THEN NULL ELSE q[i - 1]
    <3>1. i # 1 => i - 1 \in 1 .. m
      OBVIOUS
    <3>2. i - 1 = 0 <=> i = 1
      OBVIOUS
    <3> QED BY <1>4, <2>3, <3>1, <3>2
  <2>7. LinkOf(q, a, i) = [address |-> a[i], next |-> n, previous |-> p]
    BY <2>5, <2>6, Zenon DEF LinkOf
  <2> HIDE DEF e
  <2> QED BY <1>4, <2>3, <2>4, <2>7, Zenon
<1>8. \A i, j \in 1 .. Len(q) : q[i] = q[j] => i = j
  <2>1. ASSUME NEW i \in 1 .. m, NEW j \in 1 .. m, q[i] = q[j] PROVE i = j
    <3>1. i - 1 = j - 1
      BY <1>2, <1>4, <2>1
    <3> QED BY <3>1
  <2> QED BY <1>4, <2>1
<1>9. at[0] = q[1] /\ at[TOTAL_BLOCKS - 1] = q[m] /\ Len(q) # 0
  <2>1. 1 \in 1 .. m /\ m \in 1 .. m /\ 1 - 1 = 0
    BY <1>1
  <2> QED BY <1>1, <1>4, <2>1
<1>10. e = [n \in D |-> e[n]]
  BY Zenon
<1>11. PICK E, A, h, t : E = e /\ A = D /\ h = at[0] /\ t = at[TOTAL_BLOCKS - 1]
  OBVIOUS
<1>12. /\ q \in Seq(FreeBlocks) /\ a \in Seq(Blocks) /\ Len(a) = Len(q)
       /\ \A i, j \in 1 .. Len(q) : q[i] = q[j] => i = j
       /\ h = IF Len(q) = 0 THEN NULL ELSE q[1]
       /\ t = IF Len(q) = 0 THEN NULL ELSE q[Len(q)]
       /\ E = [n \in A |-> E[n]] /\ A = {q[i] : i \in 1 .. Len(q)}
       /\ \A i \in 1 .. Len(q) : E[q[i]] = LinkOf(q, a, i)
  <2> HIDE DEF e, D
  <2> QED BY <1>4, <1>6, <1>7, <1>8, <1>9, <1>10, <1>11
<1>13. Spelled([head |-> h, tail |-> t, node |-> E], q, a)
  BY ONLY <1>12, SpelledBy
<1> HIDE DEF e
<1> QED BY <1>1, <1>3, <1>5, <1>11, <1>13

-----------------------------------------------------------------------------
(* The blocks that come back when a file is deleted. *)
JoinsOn(a, c, b) == Append(a \o c, b) = a \o Append(c, b)

LEMMA AppendToJoined ==
  ASSUME NEW S, NEW a, NEW c, NEW b, a \in Seq(S), c \in Seq(S), b \in S PROVE JoinsOn(a, c, b)
BY DEF JoinsOn

(* c is what has been put in the list of the first i blocks of b. *)
Rising(f, k, i) == f \in [1 .. k -> 1 .. i] /\ \A g, h \in 1 .. k : g < h => f[g] < f[h]
Picked(b, i, c) == \E k \in 0 .. i : \E f : Rising(f, k, i) /\ c = [j \in 1 .. k |-> b[f[j]]]

LEMMA PickedIs ==
  ASSUME NEW S, NEW b \in Seq(S), NEW i \in 0 .. Len(b), NEW c, Picked(b, i, c)
  PROVE  c \in Seq(S)
<1>1a. PICK k \in 0 .. i : \E f : Rising(f, k, i) /\ c = [j \in 1 .. k |-> b[f[j]]]
  BY DEF Picked
<1>1. PICK f : Rising(f, k, i) /\ c = [j \in 1 .. k |-> b[f[j]]]
  BY <1>1a
<1>2. Len(b) \in Nat /\ \A j \in 1 .. Len(b) : b[j] \in S
  BY LenProperties
<1>3. c \in [1 .. k -> S] /\ k \in Nat
  BY <1>1, <1>2 DEF Rising
<1> QED BY <1>3, IsASeq

LEMMA PickNone == ASSUME NEW b PROVE Picked(b, 0, <<>>)
<1> DEFINE f == [j \in 1 .. 0 |-> 0]
<1>1. Rising(f, 0, 0)
  BY DEF Rising
<1>2. <<>> = [j \in 1 .. 0 |-> b[f[j]]]
  OBVIOUS
<1> HIDE DEF f
<1> QED BY <1>1, <1>2 DEF Picked

LEMMA PickLess ==
  ASSUME NEW b, NEW i \in Nat, i > 0, NEW c, Picked(b, i - 1, c) PROVE Picked(b, i, c)
<1>1a. PICK k \in 0 .. i - 1 : \E f : Rising(f, k, i - 1) /\ c = [j \in 1 .. k |-> b[f[j]]]
  BY DEF Picked
<1>1. PICK f : Rising(f, k, i - 1) /\ c = [j \in 1 .. k |-> b[f[j]]]
  BY <1>1a
<1>2. Rising(f, k, i) /\ k \in 0 .. i
  BY <1>1 DEF Rising
<1> QED BY <1>1, <1>2 DEF Picked

LEMMA PickMore ==
  ASSUME NEW S, NEW b \in Seq(S), NEW i \in 1 .. Len(b), NEW c, Picked(b, i - 1, c)
  PROVE  Picked(b, i, Append(c, b[i]))
<1>1a. PICK k \in 0 .. i - 1 : \E f : Rising(f, k, i - 1) /\ c = [j \in 1 .. k |-> b[f[j]]]
  BY DEF Picked
<1>1. PICK f : Rising(f, k, i - 1) /\ c = [j \in 1 .. k |-> b[f[j]]]
  BY <1>1a
<1>2. i \in Nat /\ i > 0 /\ Len(b) \in Nat /\ k \in Nat /\ b[i] \in S
  BY LenProperties
<1> DEFINE g == [j \in 1 .. k + 1 |-> IF j = k + 1 THEN i ELSE f[j]]
<1>3. f \in [1 .. k -> 1 .. i - 1] /\ \A x, y \in 1 .. k : x < y => f[x] < f[y]
  BY <1>1 DEF Rising
<1>4. \A j \in 1 .. k + 1 : j # k + 1 => j \in 1 .. k /\ f[j] \in 1 .. i - 1
  BY <1>2, <1>3
<1>5. g \in [1 .. k + 1 -> 1 .. i]
  BY <1>2, <1>4
<1>6. /\ \A j \in 1 .. k : g[j] = f[j]
      /\ g[k + 1] = i
  BY <1>2
<1> HIDE DEF g
<1>7. ASSUME NEW x \in 1 .. k + 1, NEW y \in 1 .. k + 1, x < y PROVE g[x] < g[y]
  <2>1. x # k + 1 /\ x \in 1 .. k /\ f[x] \in 1 .. i - 1
    BY <1>2, <1>4, <1>7
  <2>2. CASE y = k + 1
    BY <1>6, <2>1, <2>2
  <2>3. CASE y # k + 1
    BY <1>3, <1>4, <1>6, <1>7, <2>1, <2>3
  <2> QED BY <2>2, <2>3
<1>8. Rising(g, k + 1, i) /\ k + 1 \in 0 .. i
  BY <1>2, <1>5, <1>7 DEF Rising
<1>9. Append(c, b[i]) = [j \in 1 .. k + 1 |-> b[g[j]]]
  <2>1. c \in Seq(S)
    <3>1. i - 1 \in 0 .. Len(b)
      BY <1>2
    <3> QED BY <3>1, PickedIs
  <2>2. Len(c) = k
    BY <1>1, <1>2, <2>1, LenProperties
  <2>3. PICK r : r = Append(c, b[i])
    OBVIOUS
  <2>4. r \in Seq(S) /\ Len(r) = k + 1 /\ r[k + 1] = b[i] /\ \A j \in 1 .. k : r[j] = c[j]
    BY <1>2, <2>1, <2>2, <2>3, AppendProperties
  <2>5. \A j \in 1 .. k + 1 : r[j] = b[g[j]]
    BY <1>1, <1>4, <1>6, <2>4
  <2>6. r = [j \in 1 .. k + 1 |-> r[j]]
    BY <2>4, LenProperties
  <2> QED BY <2>3, <2>5, <2>6
<1> QED BY <1>8, <1>9 DEF Picked

(* The list after each block: the loop of deleteFile (file_operations.c). *)
Comes(l, b, at, n, g) ==
  g = [i \in 0 .. n |-> IF i = 0 THEN l ELSE L!insertFreeBlockAtTail(g[i - 1], b[i], at[i])]

LEMMA ComesExists ==
  ASSUME NEW l, NEW b, NEW at, NEW m \in Nat
  PROVE  \E g : Comes(l, b, at, m, g)
<1> DEFINE S == {n \in 0 .. m : \E g : Comes(l, b, at, n, g)}
<1>1. 0 \in S
  <2> DEFINE g == [i \in 0 .. 0 |-> l]
  <2>1. g = [i \in 0 .. 0 |->
          IF i = 0 THEN l ELSE L!insertFreeBlockAtTail(g[i - 1], b[i], at[i])]
    OBVIOUS
  <2> HIDE DEF g
  <2> QED BY <2>1 DEF Comes
<1>2. ASSUME NEW n \in 0 + 1 .. m, n - 1 \in S PROVE n \in S
  <2>1. PICK g : Comes(l, b, at, n - 1, g)
    BY <1>2
  <2> DEFINE h == [i \in 0 .. n |-> IF i = n THEN L!insertFreeBlockAtTail(g[n - 1], b[n], at[n])
                                    ELSE g[i]]
  <2>2. n \in Nat /\ n > 0
    OBVIOUS
  <2>3. ASSUME NEW i \in 0 .. n
        PROVE  h[i] = IF i = 0 THEN l ELSE L!insertFreeBlockAtTail(h[i - 1], b[i], at[i])
    <3>1. CASE i = n
      <4>1. i # 0 /\ i - 1 \in 0 .. n /\ i - 1 # n
        BY <2>2, <3>1
      <4> QED BY <3>1, <4>1
    <3>2. CASE i # n
      <4>1. i \in 0 .. n - 1 /\ (i # 0 => i - 1 \in 0 .. n /\ i - 1 # n)
        BY <2>2, <3>2
      <4>2. g[i] = IF i = 0 THEN l ELSE L!insertFreeBlockAtTail(g[i - 1], b[i], at[i])
        BY <2>1, <4>1 DEF Comes
      <4> QED BY <3>2, <4>1, <4>2
    <3> QED BY <3>1, <3>2
  <2>4. h = [i \in 0 .. n |-> h[i]]
    OBVIOUS
  <2> HIDE DEF h
  <2>5. h = [i \in 0 .. n |->
          IF i = 0 THEN l ELSE L!insertFreeBlockAtTail(h[i - 1], b[i], at[i])]
    BY <2>3, <2>4
  <2> QED BY <2>5 DEF Comes
<1>3. 0 .. m \subseteq S
  <2>1. 0 \in Nat
    OBVIOUS
  <2> HIDE DEF S
  <2> QED BY ONLY <1>1, <1>2, <2>1, Upwards
<1> QED BY <1>3

LEMMA RefilledGoes ==
  ASSUME NEW l, NEW b, NEW at, Len(b) \in Nat
  PROVE  \E g : Comes(l, b, at, Len(b), g) /\ Refilled(l, b, at) = g[Len(b)]
<1> DEFINE up == CHOOSE g : g = [i \in 0 .. Len(b) |->
                   IF i = 0 THEN l ELSE L!insertFreeBlockAtTail(g[i - 1], b[i], at[i])]
<1>1. Refilled(l, b, at) = up[Len(b)]
  BY Zenon DEF Refilled
<1>2. PICK g : Comes(l, b, at, Len(b), g)
  BY ComesExists
<1>3. Comes(l, b, at, Len(b), up)
  BY <1>2, Zenon DEF Comes
<1> HIDE DEF up
<1> QED BY <1>1, <1>3

(* What malloc gives for the nodes of k blocks. *)
Given(at, k, l) ==
  /\ at \in [1 .. k -> (FreeBlocks \ DOMAIN l.node) \union {NULL}]
  /\ \A i, j \in 1 .. k : at[i] = at[j] => i = j \/ at[i] = NULL
  /\ "block" \notin NoMemory => \A i \in 1 .. k : at[i] # NULL

CameBack(x, i, l, a, b, at) ==
  \E p, c : /\ Spelled(x, p, a \o c) /\ Picked(b, i, c)
            /\ \A n \in DOMAIN x.node : n \in DOMAIN l.node \/ \E j \in 1 .. i : at[j] = n
            /\ "block" \notin NoMemory => c = [j \in 1 .. i |-> b[j]]

LEMMA OneBack ==
  ASSUME HeapAssumption, NEW l, NEW q, NEW a, Spelled(l, q, a), NEW b \in Seq(Blocks), NEW at,
         Given(at, Len(b), l), NEW i \in 1 .. Len(b), NEW x, CameBack(x, i - 1, l, a, b, at),
         NEW y, y = L!insertFreeBlockAtTail(x, b[i], at[i])
  PROVE  CameBack(y, i, l, a, b, at)
<1>1. PICK p, c : /\ Spelled(x, p, a \o c) /\ Picked(b, i - 1, c)
                  /\ \A n \in DOMAIN x.node : n \in DOMAIN l.node
                     \/ \E j \in 1 .. i - 1 : at[j] = n
                  /\ "block" \notin NoMemory => c = [j \in 1 .. i - 1 |-> b[j]]
  BY DEF CameBack
<1>2. Len(b) \in Nat /\ i \in Nat /\ i > 0 /\ i - 1 \in 0 .. Len(b) /\ b[i] \in Blocks
  BY LenProperties
<1>3. CASE at[i] = NULL
  <2>1. y = x
    BY <1>3, NoneComes
  <2>2. Picked(b, i, c)
    BY <1>1, <1>2, PickLess
  <2>3. "block" \in NoMemory
    BY <1>3 DEF Given
  <2>4. \A n \in DOMAIN y.node : n \in DOMAIN l.node \/ \E j \in 1 .. i : at[j] = n
    BY <1>1, <1>2, <2>1
  <2> QED BY <1>1, <2>1, <2>2, <2>3, <2>4 DEF CameBack
<1>4. CASE at[i] # NULL
  <2>1. at[i] \in FreeBlocks /\ at[i] \notin DOMAIN l.node
    BY <1>4 DEF Given
  <2>2. at[i] \notin DOMAIN x.node
    <3>1. ASSUME NEW j \in 1 .. i - 1, at[j] = at[i] PROVE FALSE
      <4>1. j \in 1 .. Len(b) /\ j # i
        BY <1>2
      <4> QED BY <1>4, <3>1, <4>1 DEF Given
    <3> QED BY <1>1, <2>1, <3>1
  <2>3. Spelled(y, Append(p, at[i]), Append(a \o c, b[i]))
    BY <1>1, <1>2, <2>1, <2>2, TailComes
  <2>4. a \in Seq(Blocks) /\ c \in Seq(Blocks)
    <3>1. a \in Seq(Blocks)
      BY DEF Spelled
    <3> QED BY <1>1, <1>2, <3>1, PickedIs
  <2>5. Append(a \o c, b[i]) = a \o Append(c, b[i])
    <3>1. PICK z : z \in Blocks /\ z = b[i]
      BY <1>2
    <3>2. JoinsOn(a, c, z)
      BY <2>4, <3>1, AppendToJoined
    <3>3. Append(a \o c, z) = a \o Append(c, z)
      BY ONLY <3>2, Zenon DEF JoinsOn
    <3> QED BY <3>1, <3>3
  <2>6. Picked(b, i, Append(c, b[i]))
    BY <1>1, PickMore
  <2>7. ASSUME NEW n \in DOMAIN y.node PROVE n \in DOMAIN l.node \/ \E j \in 1 .. i : at[j] = n
    <3>1. p \in Seq(FreeBlocks) /\ DOMAIN x.node = {p[j] : j \in 1 .. Len(p)}
      BY <1>1 DEF Spelled
    <3>2. PICK r : r = Append(p, at[i])
      OBVIOUS
    <3>3. /\ Len(r) = Len(p) + 1 /\ Len(p) \in Nat /\ r[Len(p) + 1] = at[i]
          /\ \A j \in 1 .. Len(p) : r[j] = p[j]
      BY <2>1, <3>1, <3>2, AppendProperties, LenProperties
    <3>4. PICK j \in 1 .. Len(p) + 1 : n = r[j]
      BY <2>3, <3>2, <3>3 DEF Spelled
    <3>5. CASE j = Len(p) + 1
      BY <3>3, <3>4, <3>5
    <3>6. CASE j # Len(p) + 1
      <4>1. n \in DOMAIN x.node
        BY <3>1, <3>3, <3>4, <3>6
      <4> QED BY <1>1, <1>2, <4>1
    <3> QED BY <3>5, <3>6
  <2>8. ASSUME "block" \notin NoMemory PROVE Append(c, b[i]) = [j \in 1 .. i |-> b[j]]
    <3>1. c = [j \in 1 .. i - 1 |-> b[j]]
      BY <1>1, <2>8
    <3>2. Len(c) = i - 1
      BY <1>2, <2>4, <3>1, LenProperties
    <3>3. PICK r : r = Append(c, b[i])
      OBVIOUS
    <3>4. r \in Seq(Blocks) /\ Len(r) = i /\ r[i] = b[i] /\ \A j \in 1 .. i - 1 : r[j] = c[j]
      <4>1. (i - 1) + 1 = i
        BY <1>2
      <4> QED BY <1>2, <2>4, <3>2, <3>3, <4>1, AppendProperties
    <3>5. \A j \in 1 .. i : r[j] = b[j]
      BY <1>2, <3>1, <3>4
    <3>6. r = [j \in 1 .. i |-> r[j]]
      BY <3>4, LenProperties
    <3> QED BY <3>3, <3>5, <3>6
  <2>9. PICK r, e : r = Append(p, at[i]) /\ e = Append(c, b[i])
    OBVIOUS
  <2>10. /\ Spelled(y, r, a \o e) /\ Picked(b, i, e)
         /\ \A n \in DOMAIN y.node : n \in DOMAIN l.node \/ \E j \in 1 .. i : at[j] = n
         /\ "block" \notin NoMemory => e = [j \in 1 .. i |-> b[j]]
    BY <2>3, <2>5, <2>6, <2>7, <2>8, <2>9
  <2> QED BY ONLY <2>10 DEF CameBack
<1> QED BY <1>3, <1>4

(* The free blocks and then those that come back (file_operations.c). *)
LEMMA RefilledIs ==
  ASSUME HeapAssumption, NEW l, NEW q, NEW a, Spelled(l, q, a), NEW b \in Seq(Blocks), NEW at,
         Given(at, Len(b), l)
  PROVE  \E p : \E c \in Vfs!Kept(b) : Spelled(Refilled(l, b, at), p, a \o c)
<1>1. PICK m \in Nat : m = Len(b)
  BY LenProperties
<1>2. PICK g : Comes(l, b, at, m, g) /\ Refilled(l, b, at) = g[m]
  BY <1>1, RefilledGoes
<1> DEFINE S == {i \in 0 .. m : CameBack(g[i], i, l, a, b, at)}
<1>3. 0 \in S
  <2>1. g[0] = l
    BY <1>2 DEF Comes
  <2>2. a \o <<>> = a
    <3>1. a \in Seq(Blocks)
      BY DEF Spelled
    <3> QED BY <3>1, ConcatEmptySeq
  <2>3. <<>> = [j \in 1 .. 0 |-> b[j]]
    OBVIOUS
  <2>4. CameBack(l, 0, l, a, b, at)
    BY <2>2, <2>3, PickNone DEF CameBack
  <2> QED BY <2>1, <2>4
<1>4. ASSUME NEW i \in 0 + 1 .. m, i - 1 \in S PROVE i \in S
  <2>1. i \in 1 .. Len(b) /\ i \in 0 .. m /\ i # 0 /\ CameBack(g[i - 1], i - 1, l, a, b, at)
    BY <1>1, <1>4
  <2>2. g[i] = L!insertFreeBlockAtTail(g[i - 1], b[i], at[i])
    BY <1>2, <2>1 DEF Comes
  <2>3. CameBack(g[i], i, l, a, b, at)
    BY <2>1, <2>2, OneBack
  <2> QED BY <2>1, <2>3
<1>5. 0 .. m \subseteq S
  <2>1. 0 \in Nat
    OBVIOUS
  <2> HIDE DEF S
  <2> QED BY ONLY <1>3, <1>4, <2>1, Upwards
<1>6. PICK p, c : /\ Spelled(g[m], p, a \o c) /\ Picked(b, m, c)
                  /\ "block" \notin NoMemory => c = [j \in 1 .. m |-> b[j]]
  <2>1. m \in S
    BY <1>5
  <2>2. CameBack(g[m], m, l, a, b, at)
    BY <2>1
  <2> QED BY <2>2 DEF CameBack
<1>7. c \in Vfs!Kept(b)
  <2>1. DOMAIN b = 1 .. m /\ b = [j \in 1 .. m |-> b[j]]
    BY <1>1, LenProperties
  <2>2. CASE "block" \notin NoMemory
    <3>1. Vfs!Kept(b) = {b}
      BY <2>2, Zenon DEF Vfs!Kept
    <3> QED BY <1>6, <2>1, <2>2, <3>1
  <2>3. CASE "block" \in NoMemory
    <3>1. Vfs!Kept(b) = {[j \in DOMAIN f |-> b[f[j]]] : f \in Vfs!Picks(b)}
      BY <2>3, Zenon DEF Vfs!Kept
    <3>2a. PICK k \in 0 .. m : \E f : Rising(f, k, m) /\ c = [j \in 1 .. k |-> b[f[j]]]
      BY <1>6 DEF Picked
    <3>2. PICK f : Rising(f, k, m) /\ c = [j \in 1 .. k |-> b[f[j]]]
      BY <3>2a
    <3>3. f \in {h \in [1 .. k -> DOMAIN b] : \A i, j \in 1 .. k : i < j => h[i] < h[j]}
      BY <2>1, <3>2 DEF Rising
    <3>4. f \in Vfs!Picks(b)
      BY <1>1, <3>3 DEF Vfs!Picks
    <3>5. DOMAIN f = 1 .. k
      BY <3>2 DEF Rising
    <3>6. c = [j \in DOMAIN f |-> b[f[j]]]
      BY <3>2, <3>5
    <3> QED BY <3>1, <3>4, <3>6, Zenon
  <2> QED BY <2>2, <2>3
<1> QED BY <1>2, <1>6, <1>7

-----------------------------------------------------------------------------
(* The blocks that are written. *)
LEMMA RestOfRest ==
  ASSUME NEW S, NEW a \in Seq(S), NEW i \in 1 .. Len(a)
  PROVE  Rest(Rest(a, i - 1), 1) = Rest(a, i)
<1>1. PICK m \in Nat : m = Len(a)
  BY LenProperties
<1>2. PICK r : r = Rest(a, i - 1)
  OBVIOUS
<1>3. Len(r) = m - (i - 1) /\ \A j \in 1 .. m - (i - 1) : r[j] = a[j + (i - 1)]
  <2>1. i - 1 \in 0 .. Len(a)
    BY <1>1
  <2>2. /\ Len(Rest(a, i - 1)) = Len(a) - (i - 1)
        /\ \A j \in 1 .. Len(a) - (i - 1) : Rest(a, i - 1)[j] = a[j + (i - 1)]
    BY <2>1, RestIs
  <2> QED BY <1>1, <1>2, <2>2
<1>4. Rest(r, 1) = [j \in 1 .. m - i |-> r[j + 1]]
  <2>1. Len(r) - 1 = m - i
    BY <1>1, <1>3
  <2> QED BY <2>1 DEF Rest
<1>5. \A j \in 1 .. m - i : r[j + 1] = a[j + i]
  <2>1. ASSUME NEW j \in 1 .. m - i PROVE r[j + 1] = a[j + i]
    <3>1. j + 1 \in 1 .. m - (i - 1) /\ (j + 1) + (i - 1) = j + i
      BY <1>1
    <3> QED BY <1>3, <3>1
  <2> QED BY <2>1
<1> QED BY <1>1, <1>2, <1>4, <1>5 DEF Rest

LEMMA OneMore ==
  ASSUME NEW S, NEW a \in Seq(S), NEW i \in 1 .. Len(a)
  PROVE  Append(SubSeq(a, 1, i - 1), a[i]) = SubSeq(a, 1, i)
<1>1. Len(a) \in Nat /\ i \in Nat /\ a[i] \in S /\ i - 1 \in 0 .. Len(a) /\ i \in 0 .. Len(a)
  BY LenProperties
<1>2. PICK p, r : p = SubSeq(a, 1, i - 1) /\ r = SubSeq(a, 1, i)
  OBVIOUS
<1>3. p \in Seq(S) /\ Len(p) = i - 1 /\ \A j \in 1 .. i - 1 : p[j] = a[j]
  BY <1>1, <1>2, Parted
<1>4. r \in Seq(S) /\ Len(r) = i /\ \A j \in 1 .. i : r[j] = a[j]
  BY <1>1, <1>2, Parted
<1>5. PICK z : z = Append(p, a[i])
  OBVIOUS
<1>6. z \in Seq(S) /\ Len(z) = i /\ z[i] = a[i] /\ \A j \in 1 .. i - 1 : z[j] = p[j]
  <2>1. (i - 1) + 1 = i
    BY <1>1
  <2> QED BY <1>1, <1>3, <1>5, <2>1, AppendProperties
<1>7. \A j \in 1 .. i : z[j] = r[j]
  BY <1>1, <1>3, <1>4, <1>6
<1> QED BY <1>2, <1>4, <1>5, <1>6, <1>7, SeqEqual

(* e is the disk d with the first i blocks of the text t at the blocks a.  *)
Printed(e, d, t, a, i) ==
  /\ e = [b \in Blocks |-> e[b]]
  /\ \A b \in Blocks :
       \/ e[b] = d[b] /\ \A j \in 1 .. i : a[j] # b
       \/ \E j \in 1 .. i : a[j] = b /\ e[b] = Piece(t, j) /\ \A h \in j + 1 .. i : a[h] # b

LEMMA PrintMore ==
  ASSUME NEW e, NEW d, NEW t, NEW a, NEW i \in Nat, i > 0, Printed(e, d, t, a, i - 1),
         a[i] \in Blocks
  PROVE  Printed([e EXCEPT ![a[i]] = Piece(t, i)], d, t, a, i)
<1>1. e = [b \in Blocks |-> e[b]]
  BY DEF Printed
<1>2. PICK z : z = [e EXCEPT ![a[i]] = Piece(t, i)]
  OBVIOUS
<1>3. z = [b \in Blocks |-> z[b]]
        /\ \A b \in Blocks : z[b] = IF b = a[i] THEN Piece(t, i) ELSE e[b]
  BY <1>1, <1>2
<1>4. ASSUME NEW b \in Blocks
      PROVE  \/ z[b] = d[b] /\ \A j \in 1 .. i : a[j] # b
             \/ \E j \in 1 .. i : a[j] = b /\ z[b] = Piece(t, j)
                /\ \A h \in j + 1 .. i : a[h] # b
  <2>1. CASE b = a[i]
    <3>1. i \in 1 .. i /\ \A h \in i + 1 .. i : FALSE
      OBVIOUS
    <3> QED BY <1>3, <2>1, <3>1
  <2>2. CASE b # a[i]
    <3>1. z[b] = e[b]
      BY <1>3, <2>2
    <3>2. CASE e[b] = d[b] /\ \A j \in 1 .. i - 1 : a[j] # b
      <4>1. \A j \in 1 .. i : a[j] # b
        BY <2>2, <3>2
      <4> QED BY <3>1, <3>2, <4>1
    <3>3. CASE \E j \in 1 .. i - 1 :
                  a[j] = b /\ e[b] = Piece(t, j) /\ \A h \in j + 1 .. i - 1 : a[h] # b
      <4>1. PICK j \in 1 .. i - 1 :
                  a[j] = b /\ e[b] = Piece(t, j) /\ \A h \in j + 1 .. i - 1 : a[h] # b
        BY <3>3
      <4>2. j \in 1 .. i /\ \A h \in j + 1 .. i : a[h] # b
        BY <2>2, <4>1
      <4> QED BY <3>1, <4>1, <4>2
    <3> QED BY <3>2, <3>3 DEF Printed
  <2> QED BY <2>1, <2>2
<1> QED BY <1>2, <1>3, <1>4 DEF Printed

(* ... as VirtualFileSystem says it, of the blocks q. *)
FilledAt(e, d, t, q) ==
  e = [b \in Blocks |-> IF b \in Vfs!ToSet(q) THEN Vfs!Piece(t, Vfs!LastOf(q, b)) ELSE d[b]]

LEMMA PrintedIs ==
  ASSUME NEW e, NEW d, NEW t, NEW a \in Seq(Blocks), NEW k \in 0 .. Len(a),
         Printed(e, d, t, a, k),
         NEW q, q = SubSeq(a, 1, k)
  PROVE  FilledAt(e, d, t, q)
<1>1. q \in Seq(Blocks) /\ Len(q) = k /\ \A j \in 1 .. k : q[j] = a[j]
  BY Parted
<1>2. ToSet(q) = {q[j] : j \in 1 .. k} /\ DOMAIN q = 1 .. k
  <2>1. DOMAIN q = 1 .. k
    BY <1>1, LenProperties
  <2> QED BY <2>1 DEF ToSet
<1>3. k \in Nat
  BY LenProperties
<1>4. ASSUME NEW b \in Blocks
      PROVE  e[b] = IF b \in Vfs!ToSet(q) THEN Vfs!Piece(t, Vfs!LastOf(q, b)) ELSE d[b]
  <2>0. Vfs!ToSet(q) = ToSet(q)
    BY SameOperators
  <2>1. CASE e[b] = d[b] /\ \A j \in 1 .. k : a[j] # b
    <3>1. b \notin ToSet(q)
      BY <1>1, <1>2, <2>1
    <3> QED BY <2>0, <2>1, <3>1
  <2>2. CASE \E j \in 1 .. k : a[j] = b /\ e[b] = Piece(t, j) /\ \A h \in j + 1 .. k : a[h] # b
    <3>1. PICK j \in 1 .. k : a[j] = b /\ e[b] = Piece(t, j) /\ \A h \in j + 1 .. k : a[h] # b
      BY <2>2
    <3>2. b \in ToSet(q)
      BY <1>1, <1>2, <3>1
    <3> DEFINE Lasts(i) == q[i] = b /\ \A h \in i + 1 .. Len(q) : q[h] # b
    <3>3. Lasts(j)
      <4>1. \A h \in j + 1 .. k : q[h] # b
        BY <1>1, <1>3, <3>1
      <4> QED BY <1>1, <3>1, <4>1
    <3>4. ASSUME NEW i \in 1 .. k, Lasts(i) PROVE i = j
      <4>1. ~(i < j)
        <5>1. i < j => j \in i + 1 .. k
          BY <1>3
        <5> QED BY <1>1, <3>1, <3>4, <5>1
      <4>2. ~(j < i)
        <5>1. j < i => i \in j + 1 .. k
          BY <1>3
        <5> QED BY <1>1, <3>1, <3>4, <5>1
      <4> QED BY <4>1, <4>2
    <3>5. Vfs!LastOf(q, b) = CHOOSE i \in 1 .. k : Lasts(i)
      BY <1>2, Zenon DEF Vfs!LastOf
    <3> HIDE DEF Lasts
    <3>6. Vfs!LastOf(q, b) = j
      BY <3>3, <3>4, <3>5
    <3>7. e[b] = Vfs!Piece(t, j)
      BY <3>1 DEF Piece, Vfs!Piece
    <3> QED BY <2>0, <3>2, <3>6, <3>7
  <2> QED BY <2>1, <2>2 DEF Printed
<1>5. e = [b \in Blocks |-> e[b]]
  BY DEF Printed
<1> QED BY <1>4, <1>5 DEF FilledAt

(* The loop of writeFile (file_operations.c). *)
Writes(w, t, n, g) ==
  g = [i \in 0 .. n |-> IF i = 0 THEN w ELSE WriteBlock(g[i - 1], Piece(t, i))]

LEMMA WritesExists == ASSUME NEW w, NEW t, NEW m \in Nat PROVE \E g : Writes(w, t, m, g)
<1> DEFINE S == {n \in 0 .. m : \E g : Writes(w, t, n, g)}
<1>1. 0 \in S
  <2> DEFINE g == [i \in 0 .. 0 |-> w]
  <2>1. g = [i \in 0 .. 0 |-> IF i = 0 THEN w ELSE WriteBlock(g[i - 1], Piece(t, i))]
    OBVIOUS
  <2> HIDE DEF g
  <2> QED BY <2>1 DEF Writes
<1>2. ASSUME NEW n \in 0 + 1 .. m, n - 1 \in S PROVE n \in S
  <2>1. PICK g : Writes(w, t, n - 1, g)
    BY <1>2
  <2> DEFINE h == [i \in 0 .. n |-> IF i = n THEN WriteBlock(g[n - 1], Piece(t, n)) ELSE g[i]]
  <2>2. n \in Nat /\ n > 0
    OBVIOUS
  <2>3. ASSUME NEW i \in 0 .. n
        PROVE  h[i] = IF i = 0 THEN w ELSE WriteBlock(h[i - 1], Piece(t, i))
    <3>1. CASE i = n
      <4>1. i # 0 /\ i - 1 \in 0 .. n /\ i - 1 # n
        BY <2>2, <3>1
      <4> QED BY <3>1, <4>1
    <3>2. CASE i # n
      <4>1. i \in 0 .. n - 1 /\ (i # 0 => i - 1 \in 0 .. n /\ i - 1 # n)
        BY <2>2, <3>2
      <4>2. g[i] = IF i = 0 THEN w ELSE WriteBlock(g[i - 1], Piece(t, i))
        BY <2>1, <4>1 DEF Writes
      <4> QED BY <3>2, <4>1, <4>2
    <3> QED BY <3>1, <3>2
  <2>4. h = [i \in 0 .. n |-> h[i]]
    OBVIOUS
  <2> HIDE DEF h
  <2>5. h = [i \in 0 .. n |-> IF i = 0 THEN w ELSE WriteBlock(h[i - 1], Piece(t, i))]
    BY <2>3, <2>4
  <2> QED BY <2>5 DEF Writes
<1>3. 0 .. m \subseteq S
  <2>1. 0 \in Nat
    OBVIOUS
  <2> HIDE DEF S
  <2> QED BY ONLY <1>1, <1>2, <2>1, Upwards
<1> QED BY <1>3

LEMMA WrittenGoes ==
  ASSUME NEW w, NEW t, NEW k \in Nat PROVE \E g : Writes(w, t, k, g) /\ Written(w, t, k) = g[k]
<1> DEFINE up == CHOOSE g : g = [i \in 0 .. k |->
                   IF i = 0 THEN w ELSE WriteBlock(g[i - 1], Piece(t, i))]
<1>1. Written(w, t, k) = up[k]
  BY Zenon DEF Written
<1>2. PICK g : Writes(w, t, k, g)
  BY WritesExists
<1>3. Writes(w, t, k, up)
  BY <1>2, Zenon DEF Writes
<1> HIDE DEF up
<1> QED BY <1>1, <1>3

Wrote(x, i, a, d, bs, t) ==
  /\ \E p : Spelled(x.list, p, Rest(a, i))
  /\ Printed(x.disk, d, t, a, i) /\ x.blocks = bs \o SubSeq(a, 1, i)

LEMMA OneWritten ==
  ASSUME HeapAssumption, NEW a \in Seq(Blocks), NEW i \in 1 .. Len(a), NEW x, NEW d, NEW t,
         NEW bs \in Seq(Blocks), Wrote(x, i - 1, a, d, bs, t)
  PROVE  Wrote(WriteBlock(x, Piece(t, i)), i, a, d, bs, t)
<1>1. PICK p : Spelled(x.list, p, Rest(a, i - 1))
  BY DEF Wrote
<1>2. Len(a) \in Nat /\ i \in Nat /\ i > 0 /\ a[i] \in Blocks /\ i - 1 \in 0 .. Len(a)
  BY LenProperties
<1>3. /\ Len(Rest(a, i - 1)) = Len(a) - (i - 1)
      /\ \A j \in 1 .. Len(a) - (i - 1) : Rest(a, i - 1)[j] = a[j + (i - 1)]
  BY <1>2, RestIs
<1>4. Rest(a, i - 1)[1] = a[i] /\ Len(Rest(a, i - 1)) > 0
  <2>1. 1 \in 1 .. Len(a) - (i - 1) /\ 1 + (i - 1) = i
    BY <1>2
  <2> QED BY <1>2, <1>3, <2>1
<1>5. Len(p) > 0 /\ 1 \in 1 .. Len(p) /\ x.list.head = p[1]
  <2>1. Len(p) = Len(Rest(a, i - 1)) /\ Len(p) \in Nat
    BY <1>1, SpelledFacts DEF Spelled
  <2>2. Len(p) > 0 /\ 1 \in 1 .. Len(p)
    BY <1>4, <2>1
  <2> QED BY <1>1, <2>2 DEF Spelled
<1>6. x.list.node[x.list.head].address = a[i]
  BY <1>1, <1>4, <1>5, LinkIs
<1>7. PICK y : y = WriteBlock(x, Piece(t, i))
  OBVIOUS
<1>8. y = [list |-> L!deleteFreeBlockFromHead(x.list),
        disk |-> [x.disk EXCEPT ![a[i]] = Piece(t, i)],
           blocks |-> Append(x.blocks, a[i])]
  BY <1>6, <1>7, Zenon DEF WriteBlock
<1>9. /\ y.list = L!deleteFreeBlockFromHead(x.list)
         /\ y.disk = [x.disk EXCEPT ![a[i]] = Piece(t, i)]
      /\ y.blocks = Append(x.blocks, a[i])
  BY <1>8
<1>10. \E r : Spelled(y.list, r, Rest(a, i))
  <2>1. Spelled(y.list, Rest(p, 1), Rest(Rest(a, i - 1), 1))
    BY <1>1, <1>5, <1>9, HeadGoes
  <2> QED BY <2>1, RestOfRest
<1>11. Printed(y.disk, d, t, a, i)
  <2>1. Printed(x.disk, d, t, a, i - 1)
    BY DEF Wrote
  <2> QED BY <1>2, <1>9, <2>1, PrintMore
<1>12. y.blocks = bs \o SubSeq(a, 1, i)
  <2>1. PICK c, z : c = SubSeq(a, 1, i - 1) /\ z = a[i]
    OBVIOUS
  <2>2. bs \in Seq(Blocks) /\ c \in Seq(Blocks) /\ z \in Blocks
    <3>1. c \in Seq(Blocks)
      BY <1>2, <2>1, Parted
    <3> QED BY <1>2, <2>1, <3>1
  <2>3. JoinsOn(bs, c, z)
    BY <2>2, AppendToJoined
  <2>4. Append(bs \o c, z) = bs \o Append(c, z)
    BY ONLY <2>3, Zenon DEF JoinsOn
  <2>5. x.blocks = bs \o c
    BY <2>1 DEF Wrote
  <2>6. Append(c, z) = SubSeq(a, 1, i)
    BY <2>1, OneMore
  <2> QED BY <1>9, <2>1, <2>4, <2>5, <2>6
<1> QED BY <1>7, <1>10, <1>11, <1>12 DEF Wrote

(* The loop begins with the list, the disk and the blocks of the file, ... *)
Begun(l, d, bs) == [list |-> l, disk |-> d, blocks |-> bs]

(* ... and ends with the list going on after the first k blocks, and these  *)
(* with the text.                                                          *)
Ends(w, d, bs, a, t, k, r) ==
  /\ \E p : Spelled(w.list, p, Rest(a, k))
  /\ OnBlocks(w.disk) /\ FilledAt(w.disk, d, t, r) /\ w.blocks = bs \o r

LEMMA WrittenIs ==
  ASSUME HeapAssumption, NEW l, NEW q, NEW a, Spelled(l, q, a), NEW d, OnBlocks(d),
         NEW bs \in Seq(Blocks), NEW t, NEW k \in 0 .. Len(a),
         NEW w, w = Written(Begun(l, d, bs), t, k),
         NEW r, r = SubSeq(a, 1, k)
  PROVE  Ends(w, d, bs, a, t, k, r)
<1>1. a \in Seq(Blocks) /\ Len(a) \in Nat /\ k \in Nat
  BY LenProperties DEF Spelled
<1>2. PICK v : v = [list |-> l, disk |-> d, blocks |-> bs]
  OBVIOUS
<1>3. PICK g : Writes(v, t, k, g) /\ w = g[k]
  <2>1. w = Written(v, t, k)
    BY <1>2, Zenon DEF Begun
  <2> QED BY <1>1, <2>1, WrittenGoes
<1> DEFINE S == {i \in 0 .. k : Wrote(g[i], i, a, d, bs, t)}
<1>4. 0 \in S
  <2>1. g[0] = v /\ v.list = l /\ v.disk = d /\ v.blocks = bs
    BY <1>1, <1>2, <1>3 DEF Writes
  <2>2. Rest(a, 0) = a
    <3>1. a = [j \in 1 .. Len(a) |-> a[j]]
      BY <1>1, LenProperties
    <3>2. Len(a) - 0 = Len(a) /\ \A j \in 1 .. Len(a) : j + 0 = j
      BY <1>1
    <3> QED BY <3>1, <3>2 DEF Rest
  <2>3. Printed(d, d, t, a, 0)
    BY DEF Printed, OnBlocks
  <2>4. bs \o SubSeq(a, 1, 0) = bs
    <3>1. SubSeq(a, 1, 0) = <<>>
      BY <1>1, SubSeqEmpty
    <3> QED BY <3>1, ConcatEmptySeq
  <2>5. Wrote(v, 0, a, d, bs, t)
    BY <2>1, <2>2, <2>3, <2>4 DEF Wrote
  <2> QED BY <1>1, <2>1, <2>5
<1>5. ASSUME NEW i \in 0 + 1 .. k, i - 1 \in S PROVE i \in S
  <2>1. i \in 1 .. Len(a) /\ i \in 0 .. k /\ i # 0 /\ Wrote(g[i - 1], i - 1, a, d, bs, t)
    BY <1>1, <1>5
  <2>2. g[i] = WriteBlock(g[i - 1], Piece(t, i))
    BY <1>3, <2>1 DEF Writes
  <2> QED BY <1>1, <2>1, <2>2, OneWritten
<1>6. 0 .. k \subseteq S
  <2>1. 0 \in Nat
    OBVIOUS
  <2> HIDE DEF S
  <2> QED BY ONLY <1>1, <1>4, <1>5, <2>1, Upwards
<1>7. Wrote(w, k, a, d, bs, t)
  <2>1. k \in S
    BY <1>1, <1>6
  <2> QED BY <1>3, <2>1
<1>9. FilledAt(w.disk, d, t, r)
  <2>1. Printed(w.disk, d, t, a, k)
    BY <1>7 DEF Wrote
  <2> QED BY <1>1, <2>1, PrintedIs
<1>10. OnBlocks(w.disk)
  BY <1>7 DEF Wrote, Printed, OnBlocks
<1>11. (\E p : Spelled(w.list, p, Rest(a, k))) /\ w.blocks = bs \o r
  BY <1>7 DEF Wrote
<1> QED BY <1>9, <1>10, <1>11, Zenon DEF Ends

-----------------------------------------------------------------------------
(* The tree (file_node.c). *)
LEMMA ShapedFacts ==
  ASSUME HeapAssumption, NEW f, NEW kids, Shaped(f, kids), NEW d \in DOMAIN f
  PROVE  /\ kids[d] \in Seq(DOMAIN f) /\ Len(kids[d]) \in Nat
         /\ kids[d] \in [1 .. Len(kids[d]) -> DOMAIN f]
         /\ NULL \notin DOMAIN f /\ d \in FileNodes /\ f[d] \in FileNode
         /\ \A i \in 1 .. Len(kids[d]) :
              /\ kids[d][i] \in DOMAIN f /\ kids[d][i] # root
              /\ f[kids[d][i]].parent = d
              /\ f[kids[d][i]].next = kids[d][Beyond(i, Len(kids[d]))]
              /\ f[kids[d][i]].previous = kids[d][Before(i, Len(kids[d]))]
         /\ \A i, j \in 1 .. Len(kids[d]) : kids[d][i] = kids[d][j] => i = j
         /\ f[d].child = IF Len(kids[d]) = 0 THEN NULL ELSE kids[d][1]
         /\ Len(kids[d]) > 0 => f[d].isDirectory
<1>1. kids[d] \in Seq(DOMAIN f)
  BY DEF Shaped
<1>2. Len(kids[d]) \in Nat /\ kids[d] \in [1 .. Len(kids[d]) -> DOMAIN f]
  BY <1>1, LenProperties
<1>3. NULL \notin DOMAIN f /\ d \in FileNodes
  BY DEF Shaped, HeapAssumption
<1>4. f[d] \in FileNode
  BY DEF Shaped
<1>5. /\ Circle(f, kids[d], d)
      /\ \A i, j \in 1 .. Len(kids[d]) : kids[d][i] = kids[d][j] => i = j
      /\ f[d].child = IF Len(kids[d]) = 0 THEN NULL ELSE kids[d][1]
      /\ Len(kids[d]) > 0 => f[d].isDirectory
  BY DEF Shaped
<1>6. f[root].parent = NULL
  BY DEF Shaped
<1>7. PICK q : q = kids[d]
  OBVIOUS
<1>8. \A i \in 1 .. Len(q) : /\ q[i] \in DOMAIN f /\ f[q[i]].parent = d
                             /\ f[q[i]].next = q[Beyond(i, Len(q))]
                             /\ f[q[i]].previous = q[Before(i, Len(q))]
  BY <1>5, <1>7 DEF Circle
<1>9. \A i \in 1 .. Len(q) : q[i] # root
  BY <1>3, <1>6, <1>8
<1> QED BY <1>1, <1>2, <1>3, <1>4, <1>5, <1>7, <1>8, <1>9

LEMMA Neighbours ==
  ASSUME HeapAssumption, NEW f, NEW kids, Shaped(f, kids), NEW n \in DOMAIN f, n # root
  PROVE  /\ f[n].parent \in DOMAIN f
         /\ \E i \in 1 .. Len(kids[f[n].parent]) :
              /\ kids[f[n].parent][i] = n
              /\ f[n].next = kids[f[n].parent][Beyond(i, Len(kids[f[n].parent]))]
              /\ f[n].previous = kids[f[n].parent][Before(i, Len(kids[f[n].parent]))]
<1>1. f[n].parent \in DOMAIN f
        /\ \E i \in 1 .. Len(kids[f[n].parent]) : kids[f[n].parent][i] = n
  BY DEF Shaped
<1>2. PICK d \in DOMAIN f : d = f[n].parent
  BY <1>1
<1>3. PICK i \in 1 .. Len(kids[d]) : kids[d][i] = n
  BY <1>1, <1>2
<1>4. /\ f[kids[d][i]].next = kids[d][Beyond(i, Len(kids[d]))]
      /\ f[kids[d][i]].previous = kids[d][Before(i, Len(kids[d]))]
  BY ShapedFacts
<1> QED BY <1>2, <1>3, <1>4

(* Following next from one node of a circle of siblings goes through it.   *)
LEMMA FromIs ==
  ASSUME HeapAssumption, NEW f, NEW kids, Shaped(f, kids), NEW k \in Nat, k > 0,
         NEW q \in Seq(DOMAIN f), Len(q) = k,
         \A i \in 1 .. k : f[q[i]].next = q[Beyond(i, k)],
         \A i, j \in 1 .. k : q[i] = q[j] => i = j
  PROVE  T!From(f, q[1]) = q
<1> DEFINE D == DOMAIN f
           nx == [n \in D |-> f[n].next]
<1>1. PICK h : h = q[1]
  OBVIOUS
<1>2. /\ q \in Seq(D) /\ q \in [1 .. k -> D] /\ NULL \notin D /\ h = q[1]
      /\ \A i \in 1 .. k : q[i] \in D /\ nx[q[i]] = q[Beyond(i, k)]
      /\ \A i, j \in 1 .. k : q[i] = q[j] => i = j
  <2>1. q \in [1 .. k -> D]
    BY LenProperties
  <2>2. NULL \notin D
    BY DEF Shaped, HeapAssumption
  <2> QED BY <1>1, <2>1, <2>2
<1>3. h = q[1] /\ h \in D /\ h # NULL /\ 1 \in 1 .. k /\ k \in 1 .. k
  <2>1. 1 \in 1 .. k /\ k \in 1 .. k
    OBVIOUS
  <2> QED BY <1>2, <2>1
<1>4. PICK m \in Nat : m = Cardinality(D) /\ k <= m
  <2>1. IsFiniteSet(D)
    BY DEF Shaped
  <2> DEFINE C == {q[i] : i \in 1 .. k}
  <2>2. C \subseteq D
    BY <1>2
  <2>3. q \in Bijection(1 .. k, C)
    BY <1>2 DEF Bijection, Injection, Surjection, IsInjective
  <2> HIDE DEF C, D
  <2>4. Cardinality(C) = k
    BY <2>3, FS_CountingElements DEF ExistsBijection
  <2>5. Cardinality(C) <= Cardinality(D) /\ Cardinality(D) \in Nat
    BY <2>1, <2>2, FS_Subset, FS_CardinalityType
  <2> QED BY <2>4, <2>5
<1> DEFINE Goes(g) == g = [i \in 0 .. T!Cardinality(D) |->
                             IF i = 0 THEN h ELSE IF g[i - 1] \in D THEN f[g[i - 1]].next
                               ELSE NULL]
           at == CHOOSE g : Goes(g)
           ends(g, e) == {i \in 1 .. e : g[i] \notin D \ {h}}
<1>5. ASSUME NEW g PROVE Goes(g) <=> Chain(g, D, NULL, nx, h, m)
  <2>1. \A x : (IF x \in D THEN f[x].next ELSE NULL) = (IF x \in D THEN nx[x] ELSE NULL)
    OBVIOUS
  <2> HIDE DEF nx
  <2> QED BY <1>4, <2>1, SameOperators DEF Chain
<1>6. T!From(f, h) = [i \in 1 .. Min(ends(at, m) \union {m}) |-> at[i - 1]]
  <2>1. T!From(f, h) =
          [i \in 1 .. T!Min(ends(at, T!Cardinality(D)) \union {T!Cardinality(D)})
             |-> at[i - 1]]
    BY Zenon DEF T!From
  <2>2. T!Cardinality(D) = m
    BY <1>4, SameOperators
  <2> QED BY <2>1, <2>2, SameOperators, Zenon
<1> HIDE DEF Goes
<1>7. nx \in [D -> D \union {NULL}]
  <2>1. ASSUME NEW n \in D PROVE f[n].next \in D
    <3>1. CASE n = root
      BY <3>1 DEF Shaped
    <3>2. CASE n # root
      <4>1. PICK e \in D : e = f[n].parent
        BY <3>2, Neighbours
      <4>2. PICK r, l : r = kids[e] /\ l = Len(r)
        OBVIOUS
      <4>3. PICK i \in 1 .. l : f[n].next = r[Beyond(i, l)]
        BY <3>2, <4>1, <4>2, Neighbours
      <4>4. l \in Nat /\ \A j \in 1 .. l : r[j] \in D
        BY <4>1, <4>2, ShapedFacts
      <4>5. Beyond(i, l) \in 1 .. l
        BY <4>4 DEF Beyond
      <4> QED BY <4>3, <4>4, <4>5
    <3> QED BY <3>1, <3>2
  <2> QED BY <2>1
<1>8. Chain(at, D, NULL, nx, h, m)
  <2>1. h \in D \union {NULL}
    BY <1>3
  <2>2. PICK g : Chain(g, D, NULL, nx, h, m)
    <3> HIDE DEF nx, D
    <3> QED BY <1>7, <2>1, ChainExists
  <2>3. Goes(at)
    <3>1. Goes(g)
      BY <1>5, <2>2
    <3> QED BY <3>1, Zenon
  <2> HIDE DEF at
  <2> QED BY <1>5, <2>3
<1> HIDE DEF at
<1>9. Leads(D, nx, h, q, k)
  <2>1. \A i \in 1 .. k - 1 : i \in 1 .. k /\ Beyond(i, k) = i + 1
    BY DEF Beyond
  <2> HIDE DEF nx, D
  <2> QED BY <1>2, <1>3, <2>1 DEF Leads
<1>10. (\A i \in 0 .. k - 1 : at[i] = q[i + 1]) /\ at[k] = h
  <2>1. PICK F, S : F = nx /\ S = D
    OBVIOUS
  <2>2. /\ Chain(at, S, NULL, F, h, m) /\ m \in Nat /\ k \in Nat /\ k <= m
        /\ Leads(S, F, h, q, k)
    <3> HIDE DEF nx, D
    <3> QED BY <1>4, <1>8, <1>9, <2>1
  <2>3. Spells(at, F, h, q, k)
    BY ONLY <2>2, ChainSpells
  <2>4. F[q[k]] = q[1]
    <3>1. Beyond(k, k) = 1
      BY DEF Beyond
    <3> HIDE DEF nx
    <3> QED BY <1>2, <1>3, <2>1, <3>1
  <2> QED BY <1>3, <2>3, <2>4 DEF Spells
<1>11. Min(ends(at, m) \union {m}) = k
  <2>1. k \in ends(at, m)
    BY <1>3, <1>4, <1>10
  <2>2. ASSUME NEW i \in ends(at, m) PROVE k <= i
    <3>1. SUFFICES ASSUME i < k PROVE FALSE
      BY <1>4
    <3>2. i \in 0 .. k - 1 /\ i + 1 \in 1 .. k /\ i + 1 # 1
      BY <3>1
    <3>3. at[i] = q[i + 1] /\ q[i + 1] \in D /\ q[i + 1] # q[1]
      BY <1>2, <1>3, <1>10, <3>2
    <3> QED BY <1>3, <3>3
  <2>3. PICK S : S = ends(at, m) \union {m}
    OBVIOUS
  <2>4. k \in S /\ \A i \in S : k <= i /\ i \in Nat
    <3>1. \A i \in ends(at, m) : i \in Nat
      OBVIOUS
    <3> HIDE DEF ends
    <3> QED BY <1>4, <2>1, <2>2, <2>3, <3>1
  <2>5. Min(S) = CHOOSE x \in S : \A y \in S : x <= y
    BY Zenon DEF Min
  <2>6. \A x \in S : (\A y \in S : x <= y) => x = k
    BY <2>4
  <2>7. Min(S) = k
    BY <2>4, <2>5, <2>6
  <2> HIDE DEF ends
  <2> QED BY <2>3, <2>7
<1>12. T!From(f, h) = [i \in 1 .. k |-> at[i - 1]]
  BY <1>6, <1>11, Zenon
<1>13. \A i \in 1 .. k : at[i - 1] = q[i]
  BY <1>10
<1>14. q = [i \in 1 .. k |-> q[i]]
  BY <1>2
<1> QED BY <1>1, <1>12, <1>13, <1>14

(* Following next from the first child goes through the children.          *)
LEMMA ChildrenAre ==
  ASSUME HeapAssumption, NEW f, NEW kids, Shaped(f, kids), NEW d \in DOMAIN f
  PROVE  T!Children(f, d) = kids[d]
<1> DEFINE D == DOMAIN f
           nx == [n \in D |-> f[n].next]
<1>1. PICK q, h : q = kids[d] /\ h = f[d].child
  OBVIOUS
<1>2. PICK k \in Nat : k = Len(q)
  BY <1>1, ShapedFacts
<1>3. /\ q \in Seq(D) /\ q \in [1 .. k -> D] /\ NULL \notin D
      /\ \A i \in 1 .. k : q[i] \in D /\ nx[q[i]] = q[Beyond(i, k)]
      /\ \A i, j \in 1 .. k : q[i] = q[j] => i = j
      /\ h = IF k = 0 THEN NULL ELSE q[1]
  BY <1>1, <1>2, ShapedFacts
<1>4. CASE k = 0
  <2>1. q = <<>>
    BY <1>2, <1>3, <1>4, EmptySeq
  <2>2. T!Children(f, d) = <<>>
    BY <1>1, <1>3, <1>4, Zenon DEF T!Children
  <2> QED BY <1>1, <2>1, <2>2
<1>5. CASE k > 0
  <2>1. \A i \in 1 .. k : f[q[i]].next = q[Beyond(i, k)]
    BY <1>1, <1>2, ShapedFacts
  <2>2. T!From(f, q[1]) = q
    BY <1>2, <1>3, <1>5, <2>1, FromIs
  <2>3. h = q[1] /\ h # NULL
    BY <1>3, <1>5
  <2> QED BY <1>1, <2>2, <2>3, Zenon DEF T!Children
<1> QED BY <1>4, <1>5

LEMMA ShapedLinked ==
  ASSUME HeapAssumption, NEW f, NEW kids, Shaped(f, kids)
  PROVE  T!WellLinked(f)
<1>1. ASSUME NEW d \in DOMAIN f
      PROVE  T!ToSet(T!Children(f, d)) = {kids[d][i] : i \in 1 .. Len(kids[d])}
  <2>1. PICK q : q = kids[d] /\ DOMAIN q = 1 .. Len(q)
    BY ShapedFacts
  <2>2. T!Children(f, d) = q
    BY <2>1, ChildrenAre
  <2>3. T!ToSet(q) = {q[i] : i \in DOMAIN q}
    BY SameOperators, Zenon DEF ToSet
  <2> QED BY <2>1, <2>2, <2>3
<1>2. ASSUME NEW n \in DOMAIN f
      PROVE  f[n].next \in DOMAIN f /\ f[f[n].next].previous = n
        /\ f[f[n].next].parent = f[n].parent
  <2>1. CASE n = root
    BY <2>1 DEF Shaped
  <2>2. CASE n # root
    <3>1. PICK d \in DOMAIN f : d = f[n].parent
      BY <2>2, Neighbours
    <3>2. PICK r, l : r = kids[d] /\ l = Len(r)
      OBVIOUS
    <3>3. PICK i \in 1 .. l : r[i] = n
      BY <2>2, <3>1, <3>2, Neighbours
    <3>4. /\ l \in Nat
          /\ \A j \in 1 .. l : /\ r[j] \in DOMAIN f /\ f[r[j]].parent = d
                               /\ f[r[j]].next = r[Beyond(j, l)]
                               /\ f[r[j]].previous = r[Before(j, l)]
      BY <3>2, ShapedFacts
    <3>5. Beyond(i, l) \in 1 .. l /\ Before(Beyond(i, l), l) = i
      BY <3>4 DEF Beyond, Before
    <3> QED BY <3>1, <3>3, <3>4, <3>5
  <2> QED BY <2>1, <2>2
<1>3. ASSUME NEW n \in DOMAIN f, f[n].child # NULL
      PROVE  f[n].child \in DOMAIN f /\ f[f[n].child].parent = n
  <2>1. Len(kids[n]) # 0 /\ f[n].child = kids[n][1] /\ 1 \in 1 .. Len(kids[n])
    BY <1>3, ShapedFacts
  <2> QED BY <2>1, ShapedFacts
<1>4. ASSUME NEW n \in DOMAIN f, f[n].parent # NULL
      PROVE  f[n].parent \in DOMAIN f /\ n \in T!ToSet(T!Children(f, f[n].parent))
  <2>1. n # root
    BY <1>4 DEF Shaped
  <2>2. f[n].parent \in DOMAIN f
          /\ \E i \in 1 .. Len(kids[f[n].parent]) : kids[f[n].parent][i] = n
    BY <2>1 DEF Shaped
  <2>3. PICK d : d = f[n].parent /\ d \in DOMAIN f
    BY <2>2
  <2>4. n \in {kids[d][i] : i \in 1 .. Len(kids[d])}
    BY <2>2, <2>3
  <2>5. n \in T!ToSet(T!Children(f, d))
    BY <1>1, <2>3, <2>4
  <2> QED BY <2>3, <2>5
<1> QED BY <1>2, <1>3, <1>4, Zenon DEF T!WellLinked

-----------------------------------------------------------------------------
(* A node comes into the tree. *)
Alike(u, v) ==
  /\ v.name = u.name /\ v.isDirectory = u.isDirectory /\ v.blocks = u.blocks
  /\ v.parent = u.parent

(* g is f with n as the last child of d, between tail and head.            *)
Grown(f, g, d, n, s, isDir, tail, head) ==
  /\ DOMAIN g = DOMAIN f \union {n} /\ g \in [DOMAIN g -> FileNode]
  /\ g[n] = T!NewNode(s, isDir, d, tail, head)
  /\ \A x \in DOMAIN f :
       /\ Alike(f[x], g[x])
       /\ g[x].child = IF x = d /\ f[d].child = NULL THEN n ELSE f[x].child
       /\ g[x].next = IF x = tail THEN n ELSE f[x].next
       /\ g[x].previous = IF x = head THEN n ELSE f[x].previous

LEMMA NewNodeIs ==
  ASSUME HeapAssumption, NEW s \in Names \union {SLASH}, NEW isDir \in BOOLEAN,
         NEW d \in FileNodes \union {NULL}, NEW p \in FileNodes, NEW q \in FileNodes
  PROVE  /\ T!NewNode(s, isDir, d, p, q) \in FileNode
         /\ T!NewNode(s, isDir, d, p, q) =
              [name |-> Cut(s), isDirectory |-> isDir, blocks |-> <<>>, parent |-> d,
               child |-> NULL, previous |-> p, next |-> q]
<1>1. Cut(s) \in Names \union {SLASH} /\ <<>> \in Seq(Blocks)
  BY EmptySeq DEF HeapAssumption
<1> QED BY <1>1 DEF T!NewNode, FileNode

(* The field of a node that a neighbour changes.                           *)
LEMMA NodeWith ==
  ASSUME NEW u \in FileNode, NEW n \in FileNodes
  PROVE  /\ [u EXCEPT !.next = n] \in FileNode /\ [u EXCEPT !.next = n].next = n
         /\ Alike(u, [u EXCEPT !.next = n]) /\ [u EXCEPT !.next = n].child = u.child
         /\ [u EXCEPT !.next = n].previous = u.previous
         /\ [u EXCEPT !.previous = n] \in FileNode /\ [u EXCEPT !.previous = n].previous = n
         /\ Alike(u, [u EXCEPT !.previous = n]) /\ [u EXCEPT !.previous = n].child = u.child
         /\ [u EXCEPT !.previous = n].next = u.next
BY DEF FileNode, Alike

LEMMA NodeWithChild ==
  ASSUME NEW u \in FileNode, NEW n \in FileNodes \union {NULL}
  PROVE  /\ [u EXCEPT !.child = n] \in FileNode /\ [u EXCEPT !.child = n].child = n
         /\ Alike(u, [u EXCEPT !.child = n]) /\ [u EXCEPT !.child = n].next = u.next
         /\ [u EXCEPT !.child = n].previous = u.previous
BY DEF FileNode, Alike

(* insertFileNodeAtTail (file_node.c:25-56). *)
LEMMA InsertedAtTail ==
  ASSUME HeapAssumption, NEW f, NEW D, DOMAIN f = D, f \in [D -> FileNode],
         D \subseteq FileNodes,
         NEW d \in D, f[d].child # NULL, NEW head \in D, NEW tail \in D,
         tail = f[head].previous,
         NEW n \in FileNodes, n \notin D, NEW s \in Names, NEW isDir \in BOOLEAN,
         NEW g, g = T!insertFileNodeAtTail(f, head, n, s, isDir, d)
  PROVE  Grown(f, g, d, n, s, isDir, tail, head)
<1> DEFINE E == D \union {n}
           new == T!NewNode(s, isDir, d, tail, head)
<1>1. PICK w : w = [m \in E |-> IF m = n THEN new ELSE f[m]]
  OBVIOUS
<1>2. g = [w EXCEPT ![tail].next = n, ![head].previous = n]
  BY <1>1, Zenon DEF T!insertFileNodeAtTail
<1>3. PICK v : v = [w EXCEPT ![tail].next = n]
  OBVIOUS
<1>4. new \in FileNode
  BY NewNodeIs
<1>5. w \in [E -> FileNode] /\ w[n] = new /\ \A x \in D : w[x] = f[x]
  BY <1>1, <1>4
<1>6. DOMAIN v = E /\ \A x \in E : v[x] = IF x = tail THEN [w[x] EXCEPT !.next = n] ELSE w[x]
  BY <1>3, <1>5
<1>7. DOMAIN g = E /\ \A x \in E : g[x] =
        IF x = head THEN [v[x] EXCEPT !.previous = n] ELSE v[x]
  <2>1. g = [v EXCEPT ![head].previous = n]
    BY <1>2, <1>3
  <2> QED BY <1>6, <2>1
<1>8. g = [x \in E |-> g[x]]
  BY <1>2, <1>5
<1>9. n # head /\ n # tail /\ g[n] = new
  BY <1>5, <1>6, <1>7
<1>10. ASSUME NEW x \in D
       PROVE  /\ g[x] \in FileNode /\ Alike(f[x], g[x]) /\ g[x].child = f[x].child
              /\ g[x].next = IF x = tail THEN n ELSE f[x].next
              /\ g[x].previous = IF x = head THEN n ELSE f[x].previous
  <2>1. /\ v[x] \in FileNode /\ Alike(f[x], v[x]) /\ v[x].child = f[x].child
        /\ v[x].next = IF x = tail THEN n ELSE f[x].next
        /\ v[x].previous = f[x].previous
    <3>1. PICK u \in FileNode : u = f[x]
      OBVIOUS
    <3>2. Alike(u, u)
      BY DEF Alike
    <3>3. PICK z : z = [u EXCEPT !.next = n]
      OBVIOUS
    <3>4. z \in FileNode /\ z.next = n /\ Alike(u, z) /\ z.child = u.child
            /\ z.previous = u.previous
      BY <3>3, NodeWith
    <3>5. v[x] = IF x = tail THEN z ELSE u
      BY <1>5, <1>6, <3>1, <3>3
    <3> QED BY <3>1, <3>2, <3>4, <3>5
  <2>2. PICK u \in FileNode : u = v[x]
    BY <2>1
  <2>3. g[x] \in FileNode /\ Alike(u, g[x]) /\ g[x].child = u.child /\ g[x].next = u.next
        /\ g[x].previous = IF x = head THEN n ELSE u.previous
    <3>1. Alike(u, u)
      BY DEF Alike
    <3>2. PICK z : z = [u EXCEPT !.previous = n]
      OBVIOUS
    <3>3. z \in FileNode /\ z.previous = n /\ Alike(u, z) /\ z.child = u.child
            /\ z.next = u.next
      BY <3>2, NodeWith
    <3>4. g[x] = IF x = head THEN z ELSE u
      BY <1>7, <2>2, <3>2
    <3> QED BY <3>1, <3>3, <3>4
  <2>4. Alike(f[x], g[x])
    BY <2>1, <2>2, <2>3 DEF Alike
  <2> QED BY <2>1, <2>2, <2>3, <2>4
<1>11. g \in [E -> FileNode]
  BY <1>4, <1>8, <1>9, <1>10
<1> QED BY <1>7, <1>9, <1>10, <1>11 DEF Grown

(* The first child (file_node.c:41-46). *)
LEMMA InsertedAlone ==
  ASSUME HeapAssumption, NEW f, NEW D, DOMAIN f = D, f \in [D -> FileNode],
         D \subseteq FileNodes,
         NEW d \in D, f[d].child = NULL,
         NEW n \in FileNodes, n \notin D, NEW s \in Names, NEW isDir \in BOOLEAN,
         NEW g, g = T!insertFileNodeAsChild(f, d, n, s, isDir)
  PROVE  Grown(f, g, d, n, s, isDir, n, n)
<1> DEFINE E == D \union {n}
           new == T!Only(s, isDir, d, n)
<1>1. g = [m \in E |-> IF m = n THEN new ELSE IF m = d THEN [f[m] EXCEPT !.child = n] ELSE f[m]]
  BY Zenon DEF T!insertFileNodeAsChild
<1>2. new = T!NewNode(s, isDir, d, n, n) /\ new \in FileNode
  <2>1. T!NewNode(s, isDir, d, n, n) \in FileNode
    BY NewNodeIs
  <2> QED BY <2>1, Zenon DEF T!Only
<1> HIDE DEF new
<1>3. /\ DOMAIN g = E /\ g = [x \in E |-> g[x]] /\ g[n] = new
      /\ \A x \in D : g[x] = IF x = d THEN [f[x] EXCEPT !.child = n] ELSE f[x]
  BY <1>1
<1>4. ASSUME NEW x \in D
      PROVE  /\ g[x] \in FileNode /\ Alike(f[x], g[x])
             /\ g[x].child = IF x = d THEN n ELSE f[x].child
             /\ g[x].next = f[x].next /\ g[x].previous = f[x].previous
  <2>1. PICK u \in FileNode : u = f[x]
    OBVIOUS
  <2>2. Alike(u, u)
    BY DEF Alike
  <2>3. PICK z : z = [u EXCEPT !.child = n]
    OBVIOUS
  <2>4. z \in FileNode /\ z.child = n /\ Alike(u, z) /\ z.next = u.next
          /\ z.previous = u.previous
    BY <2>3, NodeWithChild
  <2>5. g[x] = IF x = d THEN z ELSE u
    BY <1>3, <2>1, <2>3
  <2> QED BY <2>1, <2>2, <2>4, <2>5
<1>5. g \in [E -> FileNode]
  BY <1>2, <1>3, <1>4
<1> QED BY <1>2, <1>3, <1>4, <1>5 DEF Grown

(* Who is next to it. *)
LastOr(q, n) == IF Len(q) = 0 THEN n ELSE q[Len(q)]
FirstOr(q, n) == IF Len(q) = 0 THEN n ELSE q[1]

LEMMA Inserted ==
  ASSUME HeapAssumption, NEW f, NEW kids, Shaped(f, kids), NEW d \in DOMAIN f,
         NEW n \in FileNodes, n \notin DOMAIN f, NEW s \in Names, NEW isDir \in BOOLEAN,
         NEW g, g = T!insertFileNodeAsChild(f, d, n, s, isDir)
  PROVE  Grown(f, g, d, n, s, isDir, LastOr(kids[d], n), FirstOr(kids[d], n))
<1>1. PICK q, D : q = kids[d] /\ D = DOMAIN f
  OBVIOUS
<1>2. /\ Len(q) \in Nat /\ NULL \notin D /\ D \subseteq FileNodes /\ f \in [D -> FileNode]
      /\ f[d].child = IF Len(q) = 0 THEN NULL ELSE q[1]
      /\ \A i \in 1 .. Len(q) : q[i] \in D /\ f[q[i]].previous = q[Before(i, Len(q))]
  <2>1. D \subseteq FileNodes /\ f \in [D -> FileNode]
    BY <1>1 DEF Shaped
  <2> QED BY <1>1, <2>1, ShapedFacts
<1>3. CASE Len(q) = 0
  <2>1. LastOr(q, n) = n /\ FirstOr(q, n) = n /\ f[d].child = NULL
    BY <1>2, <1>3 DEF LastOr, FirstOr
  <2>2. Grown(f, g, d, n, s, isDir, n, n)
    BY <1>1, <1>2, <2>1, InsertedAlone
  <2> QED BY <1>1, <2>1, <2>2
<1>4. CASE Len(q) > 0
  <2>1. 1 \in 1 .. Len(q) /\ Len(q) \in 1 .. Len(q) /\ Before(1, Len(q)) = Len(q)
    BY <1>2, <1>4 DEF Before
  <2>2. PICK head, tail : head = q[1] /\ tail = q[Len(q)]
    OBVIOUS
  <2>3. /\ head \in D /\ tail \in D /\ tail = f[head].previous /\ f[d].child = head
        /\ f[d].child # NULL
    BY <1>2, <1>4, <2>1, <2>2
  <2>4. g = T!insertFileNodeAtTail(f, head, n, s, isDir, d)
    BY <2>3, Zenon DEF T!insertFileNodeAsChild
  <2>5. Grown(f, g, d, n, s, isDir, tail, head)
    BY <1>1, <1>2, <2>3, <2>4, InsertedAtTail
  <2>6. LastOr(q, n) = tail /\ FirstOr(q, n) = head
    BY <1>4, <2>2 DEF LastOr, FirstOr
  <2> QED BY <1>1, <2>5, <2>6
<1> QED BY <1>2, <1>3, <1>4

KidsWith(f, kids, d, n) ==
  [m \in DOMAIN f \union {n} |->
     IF m = n THEN <<>> ELSE IF m = d THEN Append(kids[m], n) ELSE kids[m]]

(* The children's list of d with the new node at its end is a circle.      *)
LEMMA CircleGrows ==
  ASSUME HeapAssumption, NEW f, NEW kids, Shaped(f, kids), NEW d \in DOMAIN f,
         NEW n \in FileNodes, n \notin DOMAIN f, NEW s \in Names, NEW isDir \in BOOLEAN,
         NEW g, Grown(f, g, d, n, s, isDir, LastOr(kids[d], n), FirstOr(kids[d], n))
  PROVE  Circle(g, Append(kids[d], n), d)
<1>1. PICK q, m : q = kids[d] /\ m = Len(q) + 1
  OBVIOUS
<1>2. /\ q \in Seq(DOMAIN f) /\ m \in Nat /\ m > 0 /\ Len(q) = m - 1 /\ d \in FileNodes
      /\ \A i \in 1 .. m - 1 : /\ q[i] \in DOMAIN f /\ f[q[i]].parent = d
                               /\ f[q[i]].next = q[Beyond(i, m - 1)]
                               /\ f[q[i]].previous = q[Before(i, m - 1)]
      /\ \A i, j \in 1 .. m - 1 : q[i] = q[j] => i = j
  <2>1. Len(q) = m - 1 /\ m \in Nat /\ m > 0
    BY <1>1, ShapedFacts
  <2> QED BY <1>1, <2>1, ShapedFacts
<1>3. PICK r : r = Append(q, n)
  OBVIOUS
<1>4. Len(r) = m /\ r[m] = n /\ \A i \in 1 .. m - 1 : r[i] = q[i]
  <2>1. q \in Seq(DOMAIN f \union {n}) /\ n \in DOMAIN f \union {n}
    BY <1>2, SeqWider
  <2>2. Len(r) = Len(q) + 1 /\ r[Len(q) + 1] = n /\ \A i \in 1 .. Len(q) : r[i] = q[i]
    BY <1>3, <2>1, AppendProperties
  <2> QED BY <1>1, <1>2, <2>2
<1>5. PICK tail, head : tail = LastOr(q, n) /\ head = FirstOr(q, n)
  OBVIOUS
<1>6. /\ m = 1 => tail = n /\ head = n
      /\ m > 1 => tail = q[m - 1] /\ head = q[1]
  BY <1>2, <1>5 DEF LastOr, FirstOr
<1>7. Grown(f, g, d, n, s, isDir, tail, head)
  BY <1>1, <1>5
<1>8. ASSUME NEW i \in 1 .. m
      PROVE  /\ r[i] \in DOMAIN g /\ g[r[i]].parent = d
             /\ g[r[i]].next = r[Beyond(i, m)] /\ g[r[i]].previous = r[Before(i, m)]
  <2>1. CASE i = m
    <3>1. r[i] = n /\ n \in DOMAIN g
      BY <1>4, <1>7, <2>1 DEF Grown
    <3>2. PICK p, h : p = tail /\ h = head
      OBVIOUS
    <3>3. tail \in FileNodes /\ head \in FileNodes
      <4>1. m > 1 => m - 1 \in 1 .. m - 1 /\ 1 \in 1 .. m - 1
        BY <1>2
      <4>2. m = 1 \/ m > 1
        BY <1>2
      <4>3. DOMAIN f \subseteq FileNodes
        BY DEF Shaped
      <4> QED BY <1>2, <1>6, <4>1, <4>2, <4>3
    <3>4. g[n].parent = d /\ g[n].next = head /\ g[n].previous = tail
      <4>1. g[n] = T!NewNode(s, isDir, d, tail, head)
        BY <1>7 DEF Grown
      <4>2. T!NewNode(s, isDir, d, tail, head) =
              [name |-> Cut(s), isDirectory |-> isDir, blocks |-> <<>>, parent |-> d,
               child |-> NULL, previous |-> tail, next |-> head]
        BY <1>2, <3>3, NewNodeIs
      <4> QED BY <4>1, <4>2
    <3>5. head = r[1]
      <4>1. m > 1 => 1 \in 1 .. m - 1
        BY <1>2
      <4> QED BY <1>2, <1>4, <1>6, <4>1
    <3>6. tail = r[Before(m, m)]
      <4>1. m > 1 => m - 1 \in 1 .. m - 1
        BY <1>2
      <4> QED BY <1>2, <1>4, <1>6, <4>1 DEF Before
    <3>7. Beyond(m, m) = 1
      BY DEF Beyond
    <3> QED BY <2>1, <3>1, <3>4, <3>5, <3>6, <3>7
  <2>2. CASE i # m
    <3>1. i \in 1 .. m - 1 /\ m > 1 /\ m - 1 \in 1 .. m - 1 /\ 1 \in 1 .. m - 1
      BY <1>2, <2>2
    <3>2. r[i] = q[i] /\ q[i] \in DOMAIN f
      BY <1>2, <1>4, <3>1
    <3>3. /\ q[i] \in DOMAIN g /\ Alike(f[q[i]], g[q[i]])
          /\ g[q[i]].next = IF q[i] = tail THEN n ELSE f[q[i]].next
          /\ g[q[i]].previous = IF q[i] = head THEN n ELSE f[q[i]].previous
      BY <1>7, <3>2 DEF Grown
    <3>4. (q[i] = tail <=> i = m - 1) /\ (q[i] = head <=> i = 1)
      BY <1>2, <1>6, <3>1
    <3>5. g[r[i]].parent = d
      BY <1>2, <3>1, <3>2, <3>3 DEF Alike
    <3>6. g[r[i]].next = r[Beyond(i, m)]
      <4>1. Beyond(i, m) = i + 1
        BY <2>2 DEF Beyond
      <4>2. CASE i = m - 1
        <5>1. i + 1 = m
          BY <4>2, <1>2
        <5> QED BY <1>4, <3>2, <3>3, <3>4, <4>1, <4>2, <5>1
      <4>3. CASE i # m - 1
        <5>1. Beyond(i, m - 1) = i + 1 /\ i + 1 \in 1 .. m - 1
          BY <1>2, <3>1, <4>3 DEF Beyond
        <5> QED BY <1>2, <1>4, <3>1, <3>2, <3>3, <3>4, <4>1, <4>3, <5>1
      <4> QED BY <4>2, <4>3
    <3>7. g[r[i]].previous = r[Before(i, m)]
      <4>1. CASE i = 1
        <5>1. Before(i, m) = m
          BY <4>1 DEF Before
        <5> QED BY <1>4, <3>2, <3>3, <3>4, <4>1, <5>1
      <4>2. CASE i # 1
        <5>1. Before(i, m) = i - 1 /\ Before(i, m - 1) = i - 1 /\ i - 1 \in 1 .. m - 1
          BY <1>2, <3>1, <4>2 DEF Before
        <5> QED BY <1>2, <1>4, <3>1, <3>2, <3>3, <3>4, <4>2, <5>1
      <4> QED BY <4>1, <4>2
    <3> QED BY <3>2, <3>3, <3>5, <3>6, <3>7
  <2> QED BY <2>1, <2>2
<1> QED BY <1>1, <1>3, <1>4, <1>8 DEF Circle

(* The other lists stay circles. *)
LEMMA CircleStays ==
  ASSUME HeapAssumption, NEW f, NEW kids, Shaped(f, kids), NEW d \in DOMAIN f,
         NEW n \in FileNodes, n \notin DOMAIN f, NEW s \in Names, NEW isDir \in BOOLEAN,
         NEW g, Grown(f, g, d, n, s, isDir, LastOr(kids[d], n), FirstOr(kids[d], n))
  PROVE  \A e \in DOMAIN f : e # d => Circle(g, kids[e], e)
<1> SUFFICES ASSUME NEW e \in DOMAIN f, e # d PROVE Circle(g, kids[e], e)
  OBVIOUS
<1>1. PICK q, r : q = kids[e] /\ r = kids[d]
  OBVIOUS
<1>2. \A i \in 1 .. Len(q) : /\ q[i] \in DOMAIN f /\ f[q[i]].parent = e
                             /\ f[q[i]].next = q[Beyond(i, Len(q))]
                             /\ f[q[i]].previous = q[Before(i, Len(q))]
  BY <1>1, ShapedFacts
<1>3. PICK tail, head : tail = LastOr(r, n) /\ head = FirstOr(r, n)
  OBVIOUS
<1>4. (tail = n \/ f[tail].parent = d) /\ (head = n \/ f[head].parent = d)
  <2>1. Len(r) \in Nat /\ \A i \in 1 .. Len(r) : f[r[i]].parent = d
    BY <1>1, ShapedFacts
  <2>2. Len(r) # 0 => 1 \in 1 .. Len(r) /\ Len(r) \in 1 .. Len(r)
    BY <2>1
  <2> QED BY <1>3, <2>1, <2>2 DEF LastOr, FirstOr
<1>5. Grown(f, g, d, n, s, isDir, tail, head)
  BY <1>1, <1>3
<1>6. ASSUME NEW i \in 1 .. Len(q)
      PROVE  /\ q[i] \in DOMAIN g /\ g[q[i]].parent = e
             /\ g[q[i]].next = q[Beyond(i, Len(q))] /\ g[q[i]].previous = q[Before(i, Len(q))]
  <2>1. q[i] # tail /\ q[i] # head
    BY <1>2, <1>4
  <2>2. /\ q[i] \in DOMAIN g /\ Alike(f[q[i]], g[q[i]])
        /\ g[q[i]].next = IF q[i] = tail THEN n ELSE f[q[i]].next
        /\ g[q[i]].previous = IF q[i] = head THEN n ELSE f[q[i]].previous
    BY <1>2, <1>5 DEF Grown
  <2> QED BY <1>2, <2>1, <2>2 DEF Alike
<1> QED BY <1>1, <1>6 DEF Circle

LEMMA GrownShaped ==
  ASSUME HeapAssumption, NEW f, NEW kids, Shaped(f, kids), NEW d \in DOMAIN f, f[d].isDirectory,
         NEW n \in FileNodes, n \notin DOMAIN f, NEW s \in Names, NEW isDir \in BOOLEAN,
         NEW g, Grown(f, g, d, n, s, isDir, LastOr(kids[d], n), FirstOr(kids[d], n))
  PROVE  Shaped(g, KidsWith(f, kids, d, n))
<1>0. /\ Circle(g, Append(kids[d], n), d)
      /\ \A e \in DOMAIN f : e # d => Circle(g, kids[e], e)
  <2>1. Circle(g, Append(kids[d], n), d)
    BY CircleGrows, Zenon
  <2>2. \A e \in DOMAIN f : e # d => Circle(g, kids[e], e)
    BY CircleStays
  <2> QED BY <2>1, <2>2
<1>1. PICK K, D, tail, head : /\ K = KidsWith(f, kids, d, n) /\ D = DOMAIN f
                              /\ tail = LastOr(kids[d], n) /\ head = FirstOr(kids[d], n)
  OBVIOUS
<1>2. /\ root \in D /\ IsFiniteSet(D) /\ D \subseteq FileNodes /\ kids \in [D -> Seq(D)]
      /\ NULL \notin D \union {n}
  BY <1>1 DEF Shaped, HeapAssumption
<1>3. /\ DOMAIN g = D \union {n} /\ g \in [DOMAIN g -> FileNode]
      /\ g[n] = T!NewNode(s, isDir, d, tail, head)
      /\ \A x \in D : /\ Alike(f[x], g[x])
                      /\ g[x].child = IF x = d /\ f[d].child = NULL THEN n ELSE f[x].child
                      /\ g[x].next = IF x = tail THEN n ELSE f[x].next
                      /\ g[x].previous = IF x = head THEN n ELSE f[x].previous
  BY <1>1 DEF Grown
<1>4. /\ DOMAIN K = D \union {n} /\ K = [x \in D \union {n} |-> K[x]] /\ K[n] = <<>>
      /\ K[d] = Append(kids[d], n) /\ \A x \in D : x # d => K[x] = kids[x]
  BY <1>1 DEF KidsWith
<1>5. PICK q, m : q = kids[d] /\ m = Len(q) + 1
  OBVIOUS
<1>6. /\ q \in Seq(D) /\ Len(q) = m - 1 /\ m \in Nat /\ m > 0
      /\ \A i \in 1 .. m - 1 : q[i] \in D /\ q[i] # root /\ f[q[i]].parent = d
      /\ \A i, j \in 1 .. m - 1 : q[i] = q[j] => i = j
      /\ f[d].child = IF m = 1 THEN NULL ELSE q[1]
  <2>1. Len(q) = m - 1 /\ m \in Nat /\ m > 0 /\ (Len(q) = 0 <=> m = 1)
    BY <1>5, ShapedFacts
  <2> QED BY <1>1, <1>5, <2>1, ShapedFacts
<1>7. PICK r : r = K[d]
  OBVIOUS
<1>8. /\ r \in Seq(D \union {n}) /\ Len(r) = m /\ r[m] = n /\ \A i \in 1 .. m - 1 : r[i] = q[i]
  <2>1. q \in Seq(D \union {n}) /\ n \in D \union {n}
    BY <1>6, SeqWider
  <2>2. /\ r \in Seq(D \union {n}) /\ Len(r) = Len(q) + 1 /\ r[Len(q) + 1] = n
        /\ \A i \in 1 .. Len(q) : r[i] = q[i]
    BY <1>4, <1>5, <1>7, <2>1, AppendProperties
  <2> QED BY <1>5, <1>6, <2>2
<1>9. K \in [DOMAIN g -> Seq(DOMAIN g)]
  <2>1. ASSUME NEW x \in D \union {n} PROVE K[x] \in Seq(D \union {n})
    <3>1. CASE x = n
      BY <1>4, <3>1, EmptySeq
    <3>2. CASE x = d
      BY <1>7, <1>8, <3>2
    <3>3. CASE x # n /\ x # d
      <4>1. kids[x] \in Seq(D)
        BY <1>2, <3>3
      <4> QED BY <1>4, <3>3, <4>1, SeqWider
    <3> QED BY <3>1, <3>2, <3>3
  <2> QED BY <1>3, <1>4, <2>1
<1>10. /\ g[n].parent = d /\ g[n].child = NULL
  <2>1. tail \in FileNodes /\ head \in FileNodes
    <3>1. m > 1 => m - 1 \in 1 .. m - 1 /\ 1 \in 1 .. m - 1
      BY <1>6
    <3>2. m = 1 \/ m > 1
      BY <1>6
    <3>3. (m = 1 => tail = n /\ head = n) /\ (m > 1 => tail = q[m - 1] /\ head = q[1])
      BY <1>1, <1>5, <1>6 DEF LastOr, FirstOr
    <3> QED BY <1>2, <1>6, <3>1, <3>2, <3>3
  <2>2. T!NewNode(s, isDir, d, tail, head) =
          [name |-> Cut(s), isDirectory |-> isDir, blocks |-> <<>>, parent |-> d,
           child |-> NULL, previous |-> tail, next |-> head]
    BY <1>1, <1>2, <2>1, NewNodeIs
  <2> QED BY <1>3, <2>2
<1>11. ASSUME NEW e \in DOMAIN g
       PROVE  /\ Circle(g, K[e], e)
              /\ \A i, j \in 1 .. Len(K[e]) : K[e][i] = K[e][j] => i = j
              /\ g[e].child = IF Len(K[e]) = 0 THEN NULL ELSE K[e][1]
              /\ Len(K[e]) > 0 => g[e].isDirectory
  <2>1. CASE e = n
    <3>1. K[e] = <<>> /\ Len(K[e]) = 0
      BY <1>4, <2>1
    <3>2. \A i \in 1 .. Len(K[e]) : FALSE
      BY <3>1
    <3>3. Circle(g, K[e], e)
      BY <3>2, Zenon DEF Circle
    <3> QED BY <1>10, <2>1, <3>1, <3>2, <3>3
  <2>2. CASE e = d
    <3>1. Circle(g, K[e], e)
      BY <1>0, <1>4, <2>2
    <3>2. ASSUME NEW i \in 1 .. m, NEW j \in 1 .. m, r[i] = r[j] PROVE i = j
      <4>1. \A x \in 1 .. m - 1 : r[x] # n
        BY <1>1, <1>6, <1>8
      <4>2. CASE i = m \/ j = m
        <5>1. i # m => i \in 1 .. m - 1
          BY <1>6
        <5>2. j # m => j \in 1 .. m - 1
          BY <1>6
        <5> QED BY <1>8, <3>2, <4>1, <4>2, <5>1, <5>2
      <4>3. CASE i # m /\ j # m
        <5>1. i \in 1 .. m - 1 /\ j \in 1 .. m - 1
          BY <1>6, <4>3
        <5> QED BY <1>6, <1>8, <3>2, <5>1
      <4> QED BY <4>2, <4>3
    <3>3. g[d].child = r[1] /\ Len(r) # 0
      <4>1. g[d].child = IF m = 1 THEN n ELSE q[1]
        <5>1. m # 1 => q[1] # NULL
          <6>1. m # 1 => 1 \in 1 .. m - 1
            BY <1>6
          <6> QED BY <1>2, <1>6, <6>1
        <5> QED BY <1>1, <1>3, <1>6, <5>1
      <4>2. m # 1 => 1 \in 1 .. m - 1
        BY <1>6
      <4> QED BY <1>6, <1>8, <4>1, <4>2
    <3>4. g[d].isDirectory
      BY <1>1, <1>3 DEF Alike
    <3> QED BY <1>7, <1>8, <2>2, <3>1, <3>2, <3>3, <3>4
  <2>3. CASE e # n /\ e # d
    <3>1. e \in D /\ K[e] = kids[e] /\ Circle(g, kids[e], e)
      BY <1>0, <1>1, <1>3, <1>4, <2>3
    <3>2. g[e].child = f[e].child /\ g[e].isDirectory = f[e].isDirectory
      BY <1>3, <2>3, <3>1 DEF Alike
    <3> QED BY <1>1, <3>1, <3>2, ShapedFacts
  <2> QED BY <2>1, <2>2, <2>3
<1>12. ASSUME NEW x \in DOMAIN g, x # root
       PROVE  g[x].parent \in DOMAIN g
         /\ \E i \in 1 .. Len(K[g[x].parent]) : K[g[x].parent][i] = x
  <2>1. CASE x = n
    <3>1. m \in 1 .. m /\ d \in DOMAIN g
      BY <1>1, <1>3, <1>6
    <3> QED BY <1>7, <1>8, <1>10, <2>1, <3>1
  <2>2. CASE x # n
    <3>1. x \in D /\ g[x].parent = f[x].parent
      BY <1>3, <2>2 DEF Alike
    <3>2. PICK e \in D : e = f[x].parent
      BY <1>1, <1>12, <3>1, Neighbours
    <3>3. PICK i \in 1 .. Len(kids[e]) : kids[e][i] = x
      BY <1>1, <1>12, <3>1, <3>2, Neighbours
    <3>4. CASE e = d
      <4>1. i \in 1 .. m - 1 /\ i \in 1 .. m /\ r[i] = x
        BY <1>5, <1>6, <1>8, <3>3, <3>4
      <4> QED BY <1>3, <1>7, <1>8, <3>1, <3>2, <3>4, <4>1
    <3>5. CASE e # d
      BY <1>3, <1>4, <3>1, <3>2, <3>3, <3>5
    <3> QED BY <3>4, <3>5
  <2> QED BY <2>1, <2>2
<1>13. g[root].parent = NULL /\ g[root].next = root /\ g[root].previous = root
         /\ g[root].name = SLASH
  <2>1. /\ f[root].parent = NULL /\ f[root].next = root /\ f[root].previous = root
        /\ f[root].name = SLASH
    BY DEF Shaped
  <2>2. root # tail /\ root # head
    <3>1. m > 1 => m - 1 \in 1 .. m - 1 /\ 1 \in 1 .. m - 1
      BY <1>6
    <3>2. m = 1 \/ m > 1
      BY <1>6
    <3>3. (m = 1 => tail = n /\ head = n) /\ (m > 1 => tail = q[m - 1] /\ head = q[1])
      BY <1>1, <1>5, <1>6 DEF LastOr, FirstOr
    <3> QED BY <1>1, <1>2, <1>6, <3>1, <3>2, <3>3
  <2> QED BY <1>2, <1>3, <2>1, <2>2 DEF Alike
<1>14. root \in DOMAIN g /\ IsFiniteSet(DOMAIN g) /\ DOMAIN g \subseteq FileNodes
  BY <1>2, <1>3, FS_AddElement
<1>15. Shaped(g, K)
  BY <1>3, <1>9, <1>11, <1>12, <1>13, <1>14 DEF Shaped
<1> QED BY <1>1, <1>15

-----------------------------------------------------------------------------
(* A node goes out of the tree. *)
Shrunk(f, g, n) ==
  /\ DOMAIN g = DOMAIN f \ {n} /\ g \in [DOMAIN g -> FileNode]
  /\ \A x \in DOMAIN g :
       /\ Alike(f[x], g[x])
       /\ g[x].child = IF x = f[n].parent /\ f[x].child = n
                       THEN IF f[n].next = n THEN NULL ELSE f[n].next ELSE f[x].child
       /\ g[x].next = IF x = f[n].previous THEN f[n].next ELSE f[x].next
       /\ g[x].previous = IF x = f[n].next THEN f[n].previous ELSE f[x].previous

LEMMA UnlinkedShrinks ==
  ASSUME HeapAssumption, NEW f, NEW D, DOMAIN f = D, f \in [D -> FileNode],
         D \subseteq FileNodes,
         NEW n \in D, f[n].next \in D, f[n].previous \in D, NEW g, g = T!Unlinked(f, n)
  PROVE  Shrunk(f, g, n)
<1>1. PICK d, p, nx, first : /\ d = f[n].parent /\ p = f[n].previous /\ nx = f[n].next
                             /\ first = IF nx = n THEN NULL ELSE nx
  OBVIOUS
<1>2. PICK v : v = [f EXCEPT ![p].next = nx]
  OBVIOUS
<1>3. PICK w : w = [v EXCEPT ![nx].previous = p]
  OBVIOUS
<1>4. w = T!Bypassed(f, n)
  <2>1. T!Bypassed(f, n) = [f EXCEPT ![p].next = nx, ![nx].previous = p]
    BY <1>1, Zenon DEF T!Bypassed
  <2> QED BY <1>2, <1>3, <2>1
<1>5. g = [m \in D \ {n} |->
             IF m = d /\ f[m].child = n THEN [w[m] EXCEPT !.child = first] ELSE w[m]]
  <2>1. PICK b : b = T!Bypassed(f, n)
    OBVIOUS
  <2>2. g = [m \in D \ {n} |-> IF m = f[n].parent /\ f[m].child = n
                               THEN [b[m] EXCEPT
                                       !.child = IF f[n].next = n THEN NULL ELSE f[n].next]
                               ELSE b[m]]
    BY <2>1, Zenon DEF T!Unlinked
  <2> QED BY <1>1, <1>4, <2>1, <2>2
<1>6. DOMAIN v = D /\ \A x \in D : v[x] = IF x = p THEN [f[x] EXCEPT !.next = nx] ELSE f[x]
  BY <1>2
<1>7. DOMAIN w = D /\ \A x \in D : w[x] = IF x = nx THEN [v[x] EXCEPT !.previous = p] ELSE v[x]
  BY <1>3, <1>6
<1>8. p \in FileNodes /\ nx \in FileNodes /\ first \in FileNodes \union {NULL}
  BY <1>1
<1>9. ASSUME NEW x \in D \ {n}
      PROVE  /\ g[x] \in FileNode /\ Alike(f[x], g[x])
             /\ g[x].child = IF x = d /\ f[x].child = n THEN first ELSE f[x].child
             /\ g[x].next = IF x = p THEN nx ELSE f[x].next
             /\ g[x].previous = IF x = nx THEN p ELSE f[x].previous
  <2>1. PICK u \in FileNode : u = f[x]
    OBVIOUS
  <2>2. PICK z : z = [u EXCEPT !.next = nx]
    OBVIOUS
  <2>3. z \in FileNode /\ z.next = nx /\ Alike(u, z) /\ z.child = u.child
          /\ z.previous = u.previous
    BY <1>8, <2>2, NodeWith
  <2>4. v[x] = IF x = p THEN z ELSE u
    BY <1>6, <2>1, <2>2
  <2>5. PICK a \in FileNode : a = v[x]
    BY <2>3, <2>4
  <2>6. PICK y : y = [a EXCEPT !.previous = p]
    OBVIOUS
  <2>7. y \in FileNode /\ y.previous = p /\ Alike(a, y) /\ y.child = a.child /\ y.next = a.next
    BY <1>8, <2>6, NodeWith
  <2>8. w[x] = IF x = nx THEN y ELSE a
    BY <1>7, <2>5, <2>6
  <2>9. PICK b \in FileNode : b = w[x]
    BY <2>7, <2>8
  <2>10. PICK c : c = [b EXCEPT !.child = first]
    OBVIOUS
  <2>11. c \in FileNode /\ c.child = first /\ Alike(b, c) /\ c.next = b.next
           /\ c.previous = b.previous
    BY <1>8, <2>10, NodeWithChild
  <2>12. g[x] = IF x = d /\ f[x].child = n THEN c ELSE b
    BY <1>5, <2>9, <2>10
  <2>13. /\ Alike(u, a) /\ a.child = u.child /\ a.previous = u.previous
         /\ a.next = IF x = p THEN nx ELSE u.next
    BY <2>3, <2>4, <2>5 DEF Alike
  <2>14. /\ Alike(u, b) /\ b.child = u.child /\ b.next = a.next
         /\ b.previous = IF x = nx THEN p ELSE u.previous
    BY <2>7, <2>8, <2>9, <2>13 DEF Alike
  <2>15. /\ Alike(u, g[x]) /\ g[x] \in FileNode /\ g[x].next = b.next
            /\ g[x].previous = b.previous
         /\ g[x].child = IF x = d /\ f[x].child = n THEN first ELSE u.child
    BY <2>11, <2>12, <2>14 DEF Alike
  <2> QED BY <2>1, <2>13, <2>14, <2>15
<1>10. DOMAIN g = D \ {n} /\ g = [x \in D \ {n} |-> g[x]]
  BY <1>5
<1>11. g \in [DOMAIN g -> FileNode]
  BY <1>9, <1>10
<1> QED BY <1>1, <1>9, <1>10, <1>11 DEF Shrunk

(* The places of the others move up (n was at i of m). *)
Place(j, i) == IF j < i THEN j ELSE j + 1

LEMMA PlacesMove ==
  ASSUME NEW m \in Nat, NEW i \in 1 .. m, NEW j \in 1 .. m - 1
  PROVE  /\ Place(j, i) \in 1 .. m /\ Place(j, i) # i
         /\ Beyond(j, m - 1) \in 1 .. m - 1 /\ Before(j, m - 1) \in 1 .. m - 1
         /\ Before(i, m) \in 1 .. m /\ Beyond(i, m) \in 1 .. m
         /\ Beyond(Place(j, i), m) \in 1 .. m /\ Before(Place(j, i), m) \in 1 .. m
         /\ Place(Beyond(j, m - 1), i) = IF Place(j, i) = Before(i, m) THEN Beyond(i, m)
                                         ELSE Beyond(Place(j, i), m)
         /\ Place(Before(j, m - 1), i) = IF Place(j, i) = Beyond(i, m) THEN Before(i, m)
                                         ELSE Before(Place(j, i), m)
BY DEF Place, Beyond, Before

KidsWithout(f, kids, n) ==
  [m \in DOMAIN f \ {n} |->
     IF m = f[n].parent THEN Vfs!Without(kids[m], n) ELSE kids[m]]

(* The children's list without n. *)
LEMMA WithoutIs ==
  ASSUME NEW S, NEW q \in Seq(S), NEW i \in 1 .. Len(q),
         \A j, k \in 1 .. Len(q) : q[j] = q[k] => j = k, NEW n, n = q[i],
         NEW r, r = Vfs!Without(q, n)
  PROVE  /\ r \in Seq(S) /\ Len(r) = Len(q) - 1
         /\ \A j \in 1 .. Len(q) - 1 : r[j] = q[Place(j, i)]
<1>1. DOMAIN q = 1 .. Len(q)
  BY LenProperties
<1>2. (CHOOSE j \in DOMAIN q : q[j] = n) = i
  BY <1>1
<1>4. r = RemoveAt(q, i)
  <2>1. r = Vfs!RemoveAt(q, i)
    BY <1>2, Zenon DEF Vfs!Without
  <2> QED BY <2>1, SameOperators
<1>5. /\ r \in Seq(S) /\ Len(r) = Len(q) - 1
      /\ \A j \in 1 .. Len(r) : r[j] = IF j < i THEN q[j] ELSE q[j + 1]
  <2>1. i \in DOMAIN q
    BY <1>1
  <2>2. r \in Seq(S) /\ Len(r) = Len(q) - 1 /\ DOMAIN r = 1 .. Len(r)
    BY <1>4, <2>1, RemoveNode
  <2>3. \A j \in DOMAIN r : r[j] = IF j < i THEN q[j] ELSE q[j + 1]
    BY <1>4, <2>1, RemoveNode
  <2> QED BY <2>2, <2>3
<1>6. \A j \in 1 .. Len(q) - 1 : r[j] = q[Place(j, i)]
  BY <1>5 DEF Place
<1> QED BY <1>5, <1>6

LEMMA CircleShrinks ==
  ASSUME HeapAssumption, NEW f, NEW kids, Shaped(f, kids), NEW n \in DOMAIN f, n # root,
         NEW g, Shrunk(f, g, n), NEW d \in DOMAIN f, d = f[n].parent
  PROVE  Circle(g, Vfs!Without(kids[d], n), d)
<1>1. PICK q, m : q = kids[d] /\ m = Len(q)
  OBVIOUS
<1>2. PICK i \in 1 .. m : q[i] = n /\ f[n].next = q[Beyond(i, m)]
        /\ f[n].previous = q[Before(i, m)]
  BY <1>1, Neighbours
<1>3. /\ q \in Seq(DOMAIN f) /\ m \in Nat
      /\ \A j \in 1 .. m : /\ q[j] \in DOMAIN f /\ f[q[j]].parent = d
                           /\ f[q[j]].next = q[Beyond(j, m)]
                           /\ f[q[j]].previous = q[Before(j, m)]
      /\ \A j, k \in 1 .. m : q[j] = q[k] => j = k
  <2>1. Len(q) = m /\ m \in Nat
    BY <1>1, ShapedFacts
  <2>2. q \in Seq(DOMAIN f) /\ \A j, k \in 1 .. m : q[j] = q[k] => j = k
    <3>1. kids[d] \in Seq(DOMAIN f)
      BY ShapedFacts
    <3>2. \A j, k \in 1 .. Len(kids[d]) : kids[d][j] = kids[d][k] => j = k
      BY ShapedFacts
    <3> QED BY <1>1, <3>1, <3>2
  <2>3. \A j \in 1 .. m : q[j] \in DOMAIN f /\ f[q[j]].parent = d
    BY <1>1, ShapedFacts
  <2>4. \A j \in 1 .. m : f[q[j]].next = q[Beyond(j, m)] /\ f[q[j]].previous = q[Before(j, m)]
    <3>1. \A j \in 1 .. Len(kids[d]) :
            /\ f[kids[d][j]].next = kids[d][Beyond(j, Len(kids[d]))]
            /\ f[kids[d][j]].previous = kids[d][Before(j, Len(kids[d]))]
      BY ONLY HeapAssumption, Shaped(f, kids), ShapedFacts
    <3> QED BY <1>1, <3>1
  <2> QED BY <2>1, <2>2, <2>3, <2>4
<1>4. PICK r : r = Vfs!Without(q, n)
  OBVIOUS
<1>5. Len(r) = m - 1 /\ \A j \in 1 .. m - 1 : r[j] = q[Place(j, i)]
  <2>1. i \in 1 .. Len(q) /\ n = q[i] /\ \A j, k \in 1 .. Len(q) : q[j] = q[k] => j = k
    <3>1. Len(q) = m
      BY <1>1
    <3> QED BY <1>2, <1>3, <3>1
  <2>2. Len(r) = Len(q) - 1 /\ \A j \in 1 .. Len(q) - 1 : r[j] = q[Place(j, i)]
    BY <1>3, <1>4, <2>1, WithoutIs
  <2> QED BY <1>1, <2>2
<1>6. ASSUME NEW j \in 1 .. m - 1
      PROVE  /\ r[j] \in DOMAIN g /\ g[r[j]].parent = d
             /\ g[r[j]].next = r[Beyond(j, m - 1)] /\ g[r[j]].previous = r[Before(j, m - 1)]
  <2>1. PICK k, b, e : k = Place(j, i) /\ b = Beyond(j, m - 1) /\ e = Before(j, m - 1)
    OBVIOUS
  <2>2. PICK bi, ei, bk, ek : /\ bi = Beyond(i, m) /\ ei = Before(i, m)
                              /\ bk = Beyond(k, m) /\ ek = Before(k, m)
    OBVIOUS
  <2>3. /\ k \in 1 .. m /\ k # i /\ b \in 1 .. m - 1 /\ e \in 1 .. m - 1
        /\ bi \in 1 .. m /\ ei \in 1 .. m /\ bk \in 1 .. m /\ ek \in 1 .. m
        /\ Place(b, i) = (IF k = ei THEN bi ELSE bk) /\ Place(e, i) = IF k = bi THEN ei ELSE ek
    <3>1. /\ Place(j, i) \in 1 .. m /\ Place(j, i) # i
          /\ Beyond(j, m - 1) \in 1 .. m - 1 /\ Before(j, m - 1) \in 1 .. m - 1
          /\ Before(i, m) \in 1 .. m /\ Beyond(i, m) \in 1 .. m
          /\ Beyond(Place(j, i), m) \in 1 .. m /\ Before(Place(j, i), m) \in 1 .. m
      BY <1>3, PlacesMove
    <3>2. Place(Beyond(j, m - 1), i) = IF Place(j, i) = Before(i, m) THEN Beyond(i, m)
                                       ELSE Beyond(Place(j, i), m)
      BY <1>3, PlacesMove
    <3>3. Place(Before(j, m - 1), i) = IF Place(j, i) = Beyond(i, m) THEN Before(i, m)
                                       ELSE Before(Place(j, i), m)
      BY <1>3, PlacesMove
    <3> QED BY <2>1, <2>2, <3>1, <3>2, <3>3
  <2>4. r[j] = q[k] /\ r[b] = q[Place(b, i)] /\ r[e] = q[Place(e, i)]
    BY <1>5, <2>1, <2>3
  <2>5. /\ q[k] \in DOMAIN f /\ q[k] # n /\ f[q[k]].parent = d
        /\ f[q[k]].next = q[bk] /\ f[q[k]].previous = q[ek]
    BY <1>2, <1>3, <2>2, <2>3
  <2>6. (q[k] = q[ei] <=> k = ei) /\ (q[k] = q[bi] <=> k = bi)
    BY <1>3, <2>3
  <2>7. /\ q[k] \in DOMAIN g /\ Alike(f[q[k]], g[q[k]])
        /\ g[q[k]].next = IF q[k] = q[ei] THEN q[bi] ELSE q[bk]
        /\ g[q[k]].previous = IF q[k] = q[bi] THEN q[ei] ELSE q[ek]
    BY <1>2, <2>2, <2>5 DEF Shrunk
  <2> QED BY <2>1, <2>3, <2>4, <2>5, <2>6, <2>7 DEF Alike
<1> QED BY <1>1, <1>4, <1>5, <1>6 DEF Circle

LEMMA OthersStay ==
  ASSUME HeapAssumption, NEW f, NEW kids, Shaped(f, kids), NEW n \in DOMAIN f, n # root,
         NEW g, Shrunk(f, g, n)
  PROVE  \A e \in DOMAIN f : e # f[n].parent => Circle(g, kids[e], e)
<1> SUFFICES ASSUME NEW e \in DOMAIN f, e # f[n].parent PROVE Circle(g, kids[e], e)
  OBVIOUS
<1>0. PICK d \in DOMAIN f : d = f[n].parent
  BY Neighbours
<1>1. PICK q, r : q = kids[e] /\ r = kids[d]
  OBVIOUS
<1>2. \A i \in 1 .. Len(q) : /\ q[i] \in DOMAIN f /\ f[q[i]].parent = e
                             /\ f[q[i]].next = q[Beyond(i, Len(q))]
                             /\ f[q[i]].previous = q[Before(i, Len(q))]
  BY <1>1, ShapedFacts
<1>3. f[f[n].next].parent = d /\ f[f[n].previous].parent = d
  <2>1. PICK i \in 1 .. Len(r) : f[n].next = r[Beyond(i, Len(r))]
          /\ f[n].previous = r[Before(i, Len(r))]
    BY <1>0, <1>1, Neighbours
  <2>2. Len(r) \in Nat /\ \A j \in 1 .. Len(r) : f[r[j]].parent = d
    BY <1>1, ShapedFacts
  <2>3. Beyond(i, Len(r)) \in 1 .. Len(r) /\ Before(i, Len(r)) \in 1 .. Len(r)
    BY <2>2 DEF Beyond, Before
  <2> QED BY <2>1, <2>2, <2>3
<1>4. ASSUME NEW i \in 1 .. Len(q)
      PROVE  /\ q[i] \in DOMAIN g /\ g[q[i]].parent = e
             /\ g[q[i]].next = q[Beyond(i, Len(q))] /\ g[q[i]].previous = q[Before(i, Len(q))]
  <2>1. q[i] # n /\ q[i] # f[n].next /\ q[i] # f[n].previous
    BY <1>0, <1>2, <1>3
  <2>2. /\ q[i] \in DOMAIN g /\ Alike(f[q[i]], g[q[i]])
        /\ g[q[i]].next = f[q[i]].next /\ g[q[i]].previous = f[q[i]].previous
    BY <1>2, <2>1 DEF Shrunk
  <2> QED BY <1>2, <2>2 DEF Alike
<1> QED BY <1>1, <1>4 DEF Circle

LEMMA ShrunkShaped ==
  ASSUME HeapAssumption, NEW f, NEW kids, Shaped(f, kids), NEW n \in DOMAIN f, n # root,
         Len(kids[n]) = 0, NEW g, Shrunk(f, g, n)
  PROVE  Shaped(g, KidsWithout(f, kids, n))
<1>0. PICK d \in DOMAIN f : f[n].parent = d
  BY Neighbours
<1>1. /\ Circle(g, Vfs!Without(kids[d], n), d)
      /\ \A e \in DOMAIN f : e # d => Circle(g, kids[e], e)
  BY <1>0, CircleShrinks, OthersStay
<1>2. PICK K, D : K = KidsWithout(f, kids, n) /\ D = DOMAIN f
  OBVIOUS
<1>3. /\ root \in D /\ IsFiniteSet(D) /\ D \subseteq FileNodes /\ kids \in [D -> Seq(D)]
      /\ NULL \notin D
  BY <1>2 DEF Shaped, HeapAssumption
<1>4. PICK q, m : q = kids[d] /\ m = Len(q)
  OBVIOUS
<1>5. /\ q \in Seq(D) /\ m \in Nat
      /\ \A i \in 1 .. m : q[i] \in D /\ f[q[i]].parent = d
      /\ \A j, k \in 1 .. m : q[j] = q[k] => j = k
      /\ f[d].child = IF m = 0 THEN NULL ELSE q[1]
      /\ m > 0 => f[d].isDirectory
  <2>1. Len(q) = m /\ m \in Nat
    BY <1>4, ShapedFacts
  <2>2. kids[d] \in Seq(DOMAIN f)
    BY ShapedFacts
  <2>3. \A j, k \in 1 .. Len(kids[d]) : kids[d][j] = kids[d][k] => j = k
    BY ShapedFacts
  <2>4. \A j \in 1 .. m : q[j] \in D /\ f[q[j]].parent = d
    BY <1>2, <1>4, ShapedFacts
  <2>5. /\ f[d].child = IF Len(kids[d]) = 0 THEN NULL ELSE kids[d][1]
        /\ Len(kids[d]) > 0 => f[d].isDirectory
    BY ONLY HeapAssumption, Shaped(f, kids), ShapedFacts
  <2> QED BY <1>2, <1>4, <2>1, <2>2, <2>3, <2>4, <2>5
<1>6. PICK i \in 1 .. m : q[i] = n /\ f[n].next = q[Beyond(i, m)]
        /\ f[n].previous = q[Before(i, m)]
  BY <1>0, <1>4, Neighbours
<1>7. PICK r : r = Vfs!Without(q, n)
  OBVIOUS
<1>8. r \in Seq(D) /\ Len(r) = m - 1 /\ \A j \in 1 .. m - 1 : r[j] = q[Place(j, i)]
  <2>1. i \in 1 .. Len(q) /\ n = q[i] /\ \A j, k \in 1 .. Len(q) : q[j] = q[k] => j = k
    <3>1. Len(q) = m
      BY <1>4
    <3> QED BY <1>5, <1>6, <3>1
  <2>2. q \in Seq(D)
    BY <1>5
  <2>3. r \in Seq(D) /\ Len(r) = Len(q) - 1 /\ \A j \in 1 .. Len(q) - 1 : r[j] = q[Place(j, i)]
    BY <1>7, <2>1, <2>2, WithoutIs
  <2> QED BY <1>4, <2>3
<1>9. d # n
  <2>1. kids[d] # kids[n] \/ m = 0
    BY <1>4
  <2> QED BY <1>4, <1>5, <1>6
<1>10. /\ DOMAIN K = D \ {n} /\ K = [x \in D \ {n} |-> K[x]] /\ K[d] = r
       /\ \A x \in D \ {n} : x # d => K[x] = kids[x]
  BY <1>0, <1>2, <1>4, <1>7, <1>9 DEF KidsWithout
<1>11. /\ DOMAIN g = D \ {n} /\ g \in [DOMAIN g -> FileNode]
       /\ \A x \in D \ {n} :
            /\ Alike(f[x], g[x])
            /\ g[x].child = IF x = d /\ f[x].child = n
                            THEN IF f[n].next = n THEN NULL ELSE f[n].next ELSE f[x].child
            /\ g[x].next = IF x = f[n].previous THEN f[n].next ELSE f[x].next
            /\ g[x].previous = IF x = f[n].next THEN f[n].previous ELSE f[x].previous
  BY <1>0, <1>2 DEF Shrunk
<1>12. \A j \in 1 .. m - 1 : Place(j, i) \in 1 .. m /\ Place(j, i) # i
  BY <1>5 DEF Place
<1>13. ASSUME NEW x \in D \ {n}, x # d PROVE kids[x] \in Seq(D \ {n})
  <2>1. PICK s, l : s = kids[x] /\ l = Len(s)
    OBVIOUS
  <2>2. l \in Nat /\ s \in [1 .. l -> D] /\ \A j \in 1 .. l : f[s[j]].parent = x
    BY <1>2, <2>1, ShapedFacts
  <2>3. s \in [1 .. l -> D \ {n}]
    BY <1>0, <1>13, <2>2
  <2> QED BY <2>1, <2>2, <2>3, IsASeq
<1>14. r \in Seq(D \ {n})
  <2>1. ASSUME NEW j \in 1 .. m - 1 PROVE r[j] \in D \ {n}
    <3>1. PICK k \in 1 .. m : k = Place(j, i) /\ k # i
      BY <1>12
    <3>2. q[k] \in D /\ q[k] # q[i] /\ r[j] = q[k]
      BY <1>5, <1>8, <3>1
    <3> QED BY <1>6, <3>2
  <2>2. m - 1 \in Nat /\ r = [j \in 1 .. m - 1 |-> r[j]]
    BY <1>5, <1>8, LenProperties
  <2>3. r \in [1 .. m - 1 -> D \ {n}]
    BY <2>1, <2>2
  <2> QED BY <2>2, <2>3, IsASeq
<1>15. K \in [DOMAIN g -> Seq(DOMAIN g)]
  BY <1>10, <1>11, <1>13, <1>14
<1>16. ASSUME NEW e \in DOMAIN g
       PROVE  /\ Circle(g, K[e], e)
              /\ \A j, k \in 1 .. Len(K[e]) : K[e][j] = K[e][k] => j = k
              /\ g[e].child = IF Len(K[e]) = 0 THEN NULL ELSE K[e][1]
              /\ Len(K[e]) > 0 => g[e].isDirectory
  <2>1. CASE e = d
    <3>1. Circle(g, K[e], e)
      BY <1>1, <1>4, <1>7, <1>10, <2>1
    <3>2. ASSUME NEW j \in 1 .. m - 1, NEW k \in 1 .. m - 1, r[j] = r[k] PROVE j = k
      <4>1. PICK b \in 1 .. m : b = Place(j, i)
        BY <1>12
      <4>2. PICK c \in 1 .. m : c = Place(k, i)
        BY <1>12
      <4>3. q[b] = q[c]
        BY <1>8, <3>2, <4>1, <4>2
      <4>4. b = c
        BY <1>5, <4>3
      <4> QED BY <4>1, <4>2, <4>4 DEF Place
    <3>3. g[d].child = IF m - 1 = 0 THEN NULL ELSE r[1]
      <4>1. g[d].child = IF f[d].child = n THEN
              IF f[n].next = n THEN NULL ELSE f[n].next ELSE f[d].child
        <5>1. d \in D \ {n}
          BY <1>2, <1>9
        <5> QED BY <1>11, <5>1
      <4>2. f[d].child = q[1] /\ 1 \in 1 .. m
        BY <1>5
      <4>3. CASE m = 1
        <5>1. i = 1 /\ Beyond(i, m) = 1
          BY <4>3 DEF Beyond
        <5> QED BY <1>6, <4>1, <4>2, <4>3, <5>1
      <4>4. CASE m # 1 /\ i = 1
        <5>1. Beyond(i, m) = 2 /\ Place(1, i) = 2 /\ 2 \in 1 .. m /\ 1 \in 1 .. m - 1
                /\ m - 1 # 0
          BY <1>5, <4>4 DEF Beyond, Place
        <5>2. q[2] # q[1]
          BY <1>5, <4>2, <5>1
        <5> QED BY <1>6, <1>8, <4>1, <4>2, <4>4, <5>1, <5>2
      <4>5. CASE i # 1
        <5>1. Place(1, i) = 1 /\ 1 \in 1 .. m - 1 /\ m - 1 # 0
          BY <1>5, <4>5 DEF Place
        <5>2. q[1] # n
          BY <1>5, <1>6, <4>2, <4>5
        <5> QED BY <1>8, <4>1, <4>2, <5>1, <5>2
      <4> QED BY <4>3, <4>4, <4>5
    <3>4. g[d].isDirectory
      <4>1. m > 0
        BY <1>5
      <4>2. d \in D \ {n}
        BY <1>2, <1>9
      <4>3. Alike(f[d], g[d]) /\ f[d].isDirectory
        BY <1>5, <1>11, <4>1, <4>2
      <4> QED BY <4>3 DEF Alike
    <3>5. K[e] = r /\ Len(r) = m - 1
      BY <1>8, <1>10, <2>1
    <3>6. \A j, k \in 1 .. Len(r) : r[j] = r[k] => j = k
      BY <3>2, <3>5
    <3>7. g[e].child = IF Len(r) = 0 THEN NULL ELSE r[1]
      BY <2>1, <3>3, <3>5
    <3> QED BY <2>1, <3>1, <3>4, <3>5, <3>6, <3>7
  <2>2. CASE e # d
    <3>1. e \in D /\ e # n /\ K[e] = kids[e] /\ Circle(g, kids[e], e)
      BY <1>1, <1>2, <1>10, <1>11, <2>2
    <3>2. g[e].child = f[e].child /\ g[e].isDirectory = f[e].isDirectory
      BY <1>11, <2>2, <3>1 DEF Alike
    <3> QED BY <1>2, <3>1, <3>2, ShapedFacts
  <2> QED BY <2>1, <2>2
<1>17. ASSUME NEW x \in DOMAIN g, x # root
       PROVE  g[x].parent \in DOMAIN g
         /\ \E j \in 1 .. Len(K[g[x].parent]) : K[g[x].parent][j] = x
  <2>1. x \in D \ {n} /\ g[x].parent = f[x].parent
    BY <1>11 DEF Alike
  <2>2. PICK e \in D : e = f[x].parent
    BY <1>2, <1>17, <2>1, Neighbours
  <2>3. PICK j \in 1 .. Len(kids[e]) : kids[e][j] = x
    BY <1>2, <1>17, <2>1, <2>2, Neighbours
  <2>4. e # n
    BY <2>3
  <2>5. CASE e = d
    <3>1. j \in 1 .. m /\ q[j] = x /\ j # i
      BY <1>4, <1>6, <2>1, <2>3, <2>5
    <3>2. PICK k : k = IF j < i THEN j ELSE j - 1
      OBVIOUS
    <3>3. k \in 1 .. m - 1 /\ Place(k, i) = j
      BY <1>5, <3>1, <3>2 DEF Place
    <3>4. r[k] = x /\ k \in 1 .. Len(r)
      BY <1>8, <3>1, <3>3
    <3> QED BY <1>9, <1>10, <1>11, <2>1, <2>2, <2>5, <3>4
  <2>6. CASE e # d
    BY <1>10, <1>11, <2>1, <2>2, <2>3, <2>4, <2>6
  <2> QED BY <2>5, <2>6
<1>18. g[root].parent = NULL /\ g[root].next = root /\ g[root].previous = root
         /\ g[root].name = SLASH
  <2>1. /\ f[root].parent = NULL /\ f[root].next = root /\ f[root].previous = root
        /\ f[root].name = SLASH
    BY DEF Shaped
  <2>2. f[n].next # root /\ f[n].previous # root
    <3>1. Beyond(i, m) \in 1 .. m /\ Before(i, m) \in 1 .. m
      BY <1>5 DEF Beyond, Before
    <3>2. f[f[n].next].parent = d /\ f[f[n].previous].parent = d
      BY <1>5, <1>6, <3>1
    <3> QED BY <1>2, <1>3, <2>1, <3>2
  <2>3. root \in D \ {n}
    BY <1>3
  <2> QED BY <1>11, <2>1, <2>2, <2>3 DEF Alike
<1>19. root \in DOMAIN g /\ IsFiniteSet(DOMAIN g) /\ DOMAIN g \subseteq FileNodes
  BY <1>3, <1>11, FS_RemoveElement
<1>20. Shaped(g, K)
  BY <1>11, <1>15, <1>16, <1>17, <1>18, <1>19 DEF Shaped
<1> QED BY <1>2, <1>20

(* removeDirectory and deleteFile unlink a node without children.          *)
LEMMA NeighboursLive ==
  ASSUME HeapAssumption, NEW f, NEW kids, Shaped(f, kids), NEW n \in DOMAIN f, n # root
  PROVE  f[n].next \in DOMAIN f /\ f[n].previous \in DOMAIN f
<1>1. PICK d \in DOMAIN f : f[n].parent = d
  BY Neighbours
<1>2. PICK q, m : q = kids[d] /\ m = Len(q)
  OBVIOUS
<1>3. m \in Nat /\ \A i \in 1 .. m : q[i] \in DOMAIN f
  BY <1>2, ShapedFacts
<1>4. PICK i \in 1 .. m : f[n].next = q[Beyond(i, m)] /\ f[n].previous = q[Before(i, m)]
  BY <1>1, <1>2, Neighbours
<1>5. Beyond(i, m) \in 1 .. m /\ Before(i, m) \in 1 .. m
  BY <1>3 DEF Beyond, Before
<1> QED BY <1>3, <1>4, <1>5

LEMMA UnlinkedShaped ==
  ASSUME HeapAssumption, NEW f, NEW kids, Shaped(f, kids), NEW n \in DOMAIN f, n # root,
         Len(kids[n]) = 0, NEW g, g = T!Unlinked(f, n)
  PROVE  Shrunk(f, g, n) /\ Shaped(g, KidsWithout(f, kids, n))
<1>1. Shrunk(f, g, n)
  <2>1. PICK D : D = DOMAIN f
    OBVIOUS
  <2>2. f \in [D -> FileNode] /\ D \subseteq FileNodes
    BY <2>1 DEF Shaped
  <2>3. f[n].next \in D /\ f[n].previous \in D
    BY <2>1, NeighboursLive
  <2> QED BY <2>1, <2>2, <2>3, UnlinkedShrinks
<1> QED BY <1>1, ShrunkShaped

-----------------------------------------------------------------------------
(* The tree that VirtualFileSystem has, with the children as sequences.    *)
Entry(u, q) ==
  [name |-> u.name, parent |-> u.parent, isDirectory |-> u.isDirectory, blocks |-> u.blocks,
   children |-> q]
TreeOf(f, kids) == [n \in DOMAIN f |-> Entry(f[n], kids[n])]

LEMMA TreeOfIs ==
  ASSUME HeapAssumption, NEW f, NEW kids, Shaped(f, kids)
  PROVE  [n \in DOMAIN f |-> [name |-> f[n].name, parent |-> f[n].parent,
                              isDirectory |-> f[n].isDirectory, blocks |-> f[n].blocks,
                              children |-> T!Children(f, n)]] = TreeOf(f, kids)
<1>1. \A n \in DOMAIN f : T!Children(f, n) = kids[n]
  BY ChildrenAre
<1> QED BY <1>1 DEF TreeOf, Entry

LEMMA TreeNow ==
  ASSUME HeapAssumption, NEW kids, Shaped(node, kids)
  PROVE  Tree = TreeOf(node, kids)
<1>1. Tree = [n \in DOMAIN node |->
                [name |-> node[n].name, parent |-> node[n].parent,
                 isDirectory |-> node[n].isDirectory, blocks |-> node[n].blocks,
                 children |-> T!Children(node, n)]]
  BY Zenon DEF Tree, Live
<1> QED BY <1>1, TreeOfIs

LEMMA TreeThen ==
  ASSUME HeapAssumption, NEW kids, Shaped(node', kids) PROVE Tree' = TreeOf(node', kids)
<1>1. Tree' = [n \in DOMAIN node' |->
                [name |-> node'[n].name, parent |-> node'[n].parent,
                 isDirectory |-> node'[n].isDirectory, blocks |-> node'[n].blocks,
                 children |-> T!Children(node', n)]]
  BY Zenon DEF Tree, Live
<1>2. PICK f : f = node'
  OBVIOUS
<1>3. Shaped(f, kids)
  BY <1>2
<1> QED BY <1>1, <1>2, <1>3, TreeOfIs

LEMMA EntryIs ==
  ASSUME NEW f, NEW kids, NEW n \in DOMAIN f, NEW F, F = TreeOf(f, kids)
  PROVE  /\ DOMAIN F = DOMAIN f /\ F[n] = Entry(f[n], kids[n])
         /\ F[n].name = f[n].name /\ F[n].parent = f[n].parent
         /\ F[n].isDirectory = f[n].isDirectory /\ F[n].blocks = f[n].blocks
         /\ F[n].children = kids[n]
BY DEF TreeOf, Entry

(* A node comes, ... *)
WithNode(F, d, n, s, isDir) ==
  [m \in DOMAIN F \union {n} |->
     IF m = n THEN Vfs!NewNode(s, d, isDir)
     ELSE IF m = d THEN [F[m] EXCEPT !.children = Append(@, n)] ELSE F[m]]

LEMMA TreeGrows ==
  ASSUME HeapAssumption, NEW f, NEW kids, Shaped(f, kids), NEW d \in DOMAIN f,
         NEW n \in FileNodes, n \notin DOMAIN f, NEW s \in Names, NEW isDir \in BOOLEAN,
         NEW g, Grown(f, g, d, n, s, isDir, LastOr(kids[d], n), FirstOr(kids[d], n)),
         NEW F, F = TreeOf(f, kids)
  PROVE  TreeOf(g, KidsWith(f, kids, d, n)) = WithNode(F, d, n, s, isDir)
<1>1. PICK K, D, tail, head : /\ K = KidsWith(f, kids, d, n) /\ D = DOMAIN f
                              /\ tail = LastOr(kids[d], n) /\ head = FirstOr(kids[d], n)
  OBVIOUS
<1>2. /\ DOMAIN g = D \union {n} /\ g[n] = T!NewNode(s, isDir, d, tail, head)
      /\ \A x \in D : Alike(f[x], g[x])
  BY <1>1 DEF Grown
<1>3. /\ K[n] = <<>> /\ K[d] = Append(kids[d], n) /\ \A x \in D : x # d => K[x] = kids[x]
  BY <1>1 DEF KidsWith
<1>4. DOMAIN F = D /\ \A x \in D : F[x] = Entry(f[x], kids[x])
  BY <1>1 DEF TreeOf
<1>5. ASSUME NEW x \in D \union {n}
      PROVE  Entry(g[x], K[x]) =
               IF x = n THEN Vfs!NewNode(s, d, isDir)
               ELSE IF x = d THEN [F[x] EXCEPT !.children = Append(@, n)] ELSE F[x]
  <2>1. CASE x = n
    <3>1. T!NewNode(s, isDir, d, tail, head) =
            [name |-> Cut(s), isDirectory |-> isDir, blocks |-> <<>>, parent |-> d,
             child |-> NULL, previous |-> tail, next |-> head]
      BY DEF T!NewNode
    <3> QED BY <1>2, <1>3, <2>1, <3>1 DEF Entry, Vfs!NewNode
  <2>2. CASE x # n /\ x = d
    <3>1. Alike(f[x], g[x]) /\ F[x] = Entry(f[x], kids[x])
      BY <1>2, <1>4, <2>2
    <3>2. PICK r : r = Append(kids[x], n)
      OBVIOUS
    <3>3. [F[x] EXCEPT !.children = Append(@, n)] = Entry(f[x], r)
      <4>1. PICK e : e = F[x]
        OBVIOUS
      <4>2. e.children = kids[x]
        BY <3>1, <4>1 DEF Entry
      <4>3. [e EXCEPT !.children = Append(@, n)] = [e EXCEPT !.children = r]
        BY <3>2, <4>2, Zenon
      <4>4. [e EXCEPT !.children = r] = Entry(f[x], r)
        BY <3>1, <4>1 DEF Entry
      <4> QED BY <4>1, <4>3, <4>4
    <3>4. Entry(g[x], K[x]) = Entry(f[x], r)
      BY <1>3, <2>2, <3>1, <3>2 DEF Entry, Alike
    <3> QED BY <2>2, <3>3, <3>4
  <2>3. CASE x # n /\ x # d
    <3>1. Alike(f[x], g[x]) /\ F[x] = Entry(f[x], kids[x]) /\ K[x] = kids[x]
      BY <1>2, <1>3, <1>4, <2>3
    <3> QED BY <2>3, <3>1 DEF Entry, Alike
  <2> QED BY <2>1, <2>2, <2>3
<1>6. TreeOf(g, K) = [x \in D \union {n} |-> Entry(g[x], K[x])]
  BY <1>2 DEF TreeOf
<1> QED BY <1>1, <1>4, <1>5, <1>6 DEF WithNode

(* ... a node goes, ... *)
WithoutNode(F, n) ==
  [m \in DOMAIN F \ {n} |->
     IF m = F[n].parent THEN [F[m] EXCEPT !.children = Vfs!Without(@, n)] ELSE F[m]]

LEMMA TreeShrinks ==
  ASSUME HeapAssumption, NEW f, NEW kids, Shaped(f, kids), NEW n \in DOMAIN f,
         NEW g, Shrunk(f, g, n), NEW F, F = TreeOf(f, kids)
  PROVE  TreeOf(g, KidsWithout(f, kids, n)) = WithoutNode(F, n)
<1>1. PICK K, D : K = KidsWithout(f, kids, n) /\ D = DOMAIN f
  OBVIOUS
<1>2. DOMAIN g = D \ {n} /\ \A x \in D \ {n} : Alike(f[x], g[x])
  BY <1>1 DEF Shrunk
<1>3. \A x \in D \ {n} : K[x] = IF x = f[n].parent THEN Vfs!Without(kids[x], n) ELSE kids[x]
  BY <1>1 DEF KidsWithout
<1>4. DOMAIN F = D /\ \A x \in D : F[x] = Entry(f[x], kids[x])
  BY <1>1 DEF TreeOf
<1>5. F[n].parent = f[n].parent
  BY EntryIs
<1>6. ASSUME NEW x \in D \ {n}
      PROVE  Entry(g[x], K[x]) =
               IF x = F[n].parent THEN [F[x] EXCEPT !.children = Vfs!Without(@, n)] ELSE F[x]
  <2>1. Alike(f[x], g[x]) /\ F[x] = Entry(f[x], kids[x])
    BY <1>2, <1>4
  <2>2. PICK r : r = Vfs!Without(kids[x], n)
    OBVIOUS
  <2>3. [F[x] EXCEPT !.children = Vfs!Without(@, n)] = Entry(f[x], r)
    BY <2>1, <2>2 DEF Entry
  <2>4. Entry(g[x], K[x]) = Entry(f[x], K[x])
    BY <2>1 DEF Entry, Alike
  <2>5. K[x] = IF x = F[n].parent THEN r ELSE kids[x]
    BY <1>3, <1>5, <2>2
  <2> QED BY <2>1, <2>3, <2>4, <2>5
<1>7. TreeOf(g, K) = [x \in D \ {n} |-> Entry(g[x], K[x])]
  BY <1>2 DEF TreeOf
<1> QED BY <1>1, <1>4, <1>6, <1>7 DEF WithoutNode

(* ... and a file gets its blocks. *)
WithBlocks(F, n, b) == [F EXCEPT ![n].blocks = b]

LEMMA FilledShaped ==
  ASSUME HeapAssumption, NEW f, NEW kids, Shaped(f, kids), NEW n \in DOMAIN f,
         NEW b \in Seq(Blocks), NEW g, g = WithBlocks(f, n, b), NEW F, F = TreeOf(f, kids)
  PROVE  Shaped(g, kids) /\ TreeOf(g, kids) = WithBlocks(F, n, b)
<1>1. PICK D : D = DOMAIN f
  OBVIOUS
<1>2. /\ root \in D /\ IsFiniteSet(D) /\ f \in [D -> FileNode] /\ D \subseteq FileNodes
      /\ kids \in [D -> Seq(D)]
  BY <1>1 DEF Shaped
<1>3. PICK u \in FileNode : u = f[n]
  BY <1>1, <1>2
<1>4. PICK v : v = [u EXCEPT !.blocks = b]
  OBVIOUS
<1>5. /\ v \in FileNode /\ v.blocks = b /\ v.name = u.name /\ v.isDirectory = u.isDirectory
      /\ v.parent = u.parent /\ v.child = u.child /\ v.next = u.next /\ v.previous = u.previous
  BY <1>4 DEF FileNode
<1>6. DOMAIN g = D /\ g = [x \in D |-> IF x = n THEN v ELSE f[x]]
  BY <1>1, <1>2, <1>3, <1>4 DEF WithBlocks
<1>7. g \in [D -> FileNode]
  BY <1>2, <1>5, <1>6
<1>8. ASSUME NEW x \in D
      PROVE  /\ g[x].parent = f[x].parent /\ g[x].child = f[x].child /\ g[x].next = f[x].next
             /\ g[x].previous = f[x].previous /\ g[x].isDirectory = f[x].isDirectory
             /\ g[x].name = f[x].name
  BY <1>3, <1>5, <1>6
<1>9. ASSUME NEW d \in D
      PROVE  /\ Circle(g, kids[d], d)
             /\ \A i, j \in 1 .. Len(kids[d]) : kids[d][i] = kids[d][j] => i = j
             /\ g[d].child = IF Len(kids[d]) = 0 THEN NULL ELSE kids[d][1]
             /\ Len(kids[d]) > 0 => g[d].isDirectory
  <2>1. /\ Circle(f, kids[d], d)
        /\ \A i, j \in 1 .. Len(kids[d]) : kids[d][i] = kids[d][j] => i = j
        /\ f[d].child = IF Len(kids[d]) = 0 THEN NULL ELSE kids[d][1]
        /\ Len(kids[d]) > 0 => f[d].isDirectory
    BY <1>1 DEF Shaped
  <2>2. PICK q : q = kids[d]
    OBVIOUS
  <2>3. Circle(g, q, d)
    <3>1. Circle(f, q, d)
      BY <2>1, <2>2
    <3> QED BY <1>1, <1>6, <1>8, <3>1 DEF Circle
  <2> QED BY <1>8, <2>1, <2>2, <2>3
<1>10. ASSUME NEW x \in D, x # root
       PROVE  g[x].parent \in D
         /\ \E i \in 1 .. Len(kids[g[x].parent]) : kids[g[x].parent][i] = x
  <2>1. f[x].parent \in D /\ \E i \in 1 .. Len(kids[f[x].parent]) : kids[f[x].parent][i] = x
    BY <1>1, <1>10 DEF Shaped
  <2> QED BY <1>8, <2>1
<1>11. /\ g[root].parent = NULL /\ g[root].next = root /\ g[root].previous = root
       /\ g[root].name = SLASH
  <2>1. /\ f[root].parent = NULL /\ f[root].next = root /\ f[root].previous = root
        /\ f[root].name = SLASH
    BY DEF Shaped
  <2> QED BY <1>2, <1>8, <2>1
<1>12. Shaped(g, kids)
  BY <1>2, <1>6, <1>7, <1>9, <1>10, <1>11 DEF Shaped
<1>13. TreeOf(g, kids) = WithBlocks(F, n, b)
  <2>1. DOMAIN F = D /\ F = [x \in D |-> Entry(f[x], kids[x])]
    BY <1>1 DEF TreeOf
  <2>2. F[n] = Entry(u, kids[n])
    BY <1>1, <1>3, <2>1
  <2>3. PICK w : w = [F[n] EXCEPT !.blocks = b]
    OBVIOUS
  <2>4. w = Entry(v, kids[n])
    BY <1>5, <2>2, <2>3 DEF Entry
  <2>5. WithBlocks(F, n, b) = [x \in D |-> IF x = n THEN w ELSE F[x]]
    BY <2>1, <2>3 DEF WithBlocks
  <2>6. TreeOf(g, kids) = [x \in D |-> Entry(g[x], kids[x])]
    BY <1>6 DEF TreeOf
  <2>7. \A x \in D : Entry(g[x], kids[x]) = IF x = n THEN w ELSE F[x]
    BY <1>6, <2>1, <2>4
  <2> QED BY <2>5, <2>6, <2>7
<1> QED BY <1>12, <1>13

-----------------------------------------------------------------------------
(* searchFileInDirectory finds the first child of the name, or none.       *)
LEMMA SearchIs ==
  ASSUME HeapAssumption, NEW f, NEW kids, Shaped(f, kids), NEW d \in DOMAIN f, NEW s,
         NEW x, x = T!searchFileInDirectory(f, d, s)
  PROVE  \/ x = NULL /\ \A i \in 1 .. Len(kids[d]) : f[kids[d][i]].name # s
         \/ /\ x # NULL /\ x \in DOMAIN f /\ x # root /\ f[x].parent = d /\ f[x].name = s
            /\ \E i \in 1 .. Len(kids[d]) : /\ kids[d][i] = x
                                            /\ \A k \in 1 .. i - 1 : f[kids[d][k]].name # s
<1>1. PICK q, m : q = kids[d] /\ m = Len(q)
  OBVIOUS
<1>2. /\ m \in Nat /\ DOMAIN q = 1 .. m /\ NULL \notin DOMAIN f
      /\ \A i \in 1 .. m : q[i] \in DOMAIN f /\ q[i] # root /\ f[q[i]].parent = d
  <2>1. m \in Nat /\ NULL \notin DOMAIN f
    BY <1>1, ShapedFacts
  <2>2. kids[d] \in [1 .. Len(kids[d]) -> DOMAIN f]
    BY ShapedFacts
  <2>3. \A i \in 1 .. m : q[i] \in DOMAIN f /\ q[i] # root /\ f[q[i]].parent = d
    BY <1>1, ShapedFacts
  <2> QED BY <1>1, <2>1, <2>2, <2>3
<1>3. PICK H : H = {i \in 1 .. m : f[q[i]].name = s}
  OBVIOUS
<1>4. x = IF H = {} THEN NULL ELSE q[Min(H)]
  <2>1. T!Children(f, d) = q
    BY <1>1, ChildrenAre
  <2>2. PICK c : c = T!Children(f, d)
    OBVIOUS
  <2>3. x = IF {i \in DOMAIN c : f[c[i]].name = s} = {} THEN NULL
            ELSE c[T!Min({i \in DOMAIN c : f[c[i]].name = s})]
    BY <2>2, Zenon DEF T!searchFileInDirectory
  <2>4. {i \in DOMAIN c : f[c[i]].name = s} = H
    BY <1>2, <1>3, <2>1, <2>2
  <2> QED BY <2>1, <2>2, <2>3, <2>4, SameOperators
<1>5. CASE H = {}
  BY <1>1, <1>3, <1>4, <1>5
<1>6. CASE H # {}
  <2>1. PICK i \in H : \A j \in H : i <= j
    <3>1. H \subseteq Nat
      BY <1>3
    <3> QED BY <1>6, <3>1, Least
  <2>2. Min(H) = i
    <3>1. Min(H) = CHOOSE y \in H : \A z \in H : y <= z
      BY Zenon DEF Min
    <3>2. \A y \in H : (\A z \in H : y <= z) => y = i
      BY <1>3, <2>1
    <3> QED BY <2>1, <3>1, <3>2
  <2>3. i \in 1 .. m /\ f[q[i]].name = s /\ x = q[i]
    BY <1>3, <1>4, <1>6, <2>1, <2>2
  <2>4. \A k \in 1 .. i - 1 : f[q[k]].name # s
    <3>1. \A k \in 1 .. i - 1 : k \in 1 .. m /\ ~(i <= k)
      BY <1>2, <2>3
    <3> QED BY <1>3, <2>1, <3>1
  <2> QED BY <1>1, <1>2, <2>3, <2>4
<1> QED BY <1>5, <1>6
-----------------------------------------------------------------------------
(* The commands keep the lists in shape and do what VirtualFileSystem says.*)
LEMMA ListThen ==
  ASSUME HeapAssumption, NEW q, NEW a, Spelled(list', q, a)
  PROVE  L!Listed(list)' = a
<1>1. PICK l : l = list'
  OBVIOUS
<1>2. L!Listed(l) = a
  BY <1>1, WalkIs
<1> QED BY <1>1, <1>2

LEMMA FoundIs ==
  ASSUME HeapAssumption, NEW kids, Shaped(node, kids), current \in DOMAIN node, NEW s,
         NEW x, x = Search(s)
  PROVE  \/ x = NULL /\ Vfs!FindsNone(s)
         \/ /\ x # NULL /\ x \in DOMAIN node /\ x # root /\ node[x].parent = current
            /\ Vfs!Finds(s, x)
<1>1. PICK q, m : q = kids[current] /\ m = Len(q)
  OBVIOUS
<1>2. DOMAIN q = 1 .. m /\ m \in Nat /\ \A i \in 1 .. m : q[i] \in DOMAIN node
  <2>1. kids[current] \in [1 .. Len(kids[current]) -> DOMAIN node] /\ Len(kids[current]) \in Nat
    BY ShapedFacts
  <2> QED BY <1>1, <2>1
<1>3. PICK F : F = Tree
  OBVIOUS
<1>4. F = TreeOf(node, kids)
  BY <1>3, TreeNow
<1>5. F[current].children = q
  BY <1>1, <1>4, EntryIs
<1>6. \A y \in DOMAIN node : F[y].name = node[y].name
  BY <1>4, EntryIs
<1>7. x = T!searchFileInDirectory(node, current, s)
  BY DEF Search
<1>8. \/ x = NULL /\ \A i \in 1 .. m : node[q[i]].name # s
      \/ /\ x # NULL /\ x \in DOMAIN node /\ x # root /\ node[x].parent = current
         /\ node[x].name = s
         /\ \E i \in 1 .. m : q[i] = x /\ \A k \in 1 .. i - 1 : node[q[k]].name # s
  <2>1. \/ x = NULL /\ \A i \in 1 .. Len(kids[current]) : node[kids[current][i]].name # s
        \/ /\ x # NULL /\ x \in DOMAIN node /\ x # root /\ node[x].parent = current
           /\ node[x].name = s
           /\ \E i \in 1 .. Len(kids[current]) :
                /\ kids[current][i] = x
                /\ \A k \in 1 .. i - 1 : node[kids[current][k]].name # s
    BY <1>7, SearchIs
  <2> QED BY <1>1, <2>1
<1>9. CASE x = NULL /\ \A i \in 1 .. m : node[q[i]].name # s
  <2>1. Vfs!ToSet(q) = {q[i] : i \in 1 .. m}
    BY <1>2, SameOperators, Zenon DEF ToSet
  <2>2. \A y \in Vfs!ToSet(q) : F[y].name # s
    BY <1>2, <1>6, <1>9, <2>1
  <2>3. Vfs!FindsNone(s)
    BY <1>3, <1>5, <2>2, Zenon DEF Vfs!FindsNone
  <2> QED BY <1>9, <2>3
<1>10. CASE /\ x # NULL /\ x \in DOMAIN node /\ x # root /\ node[x].parent = current
            /\ node[x].name = s
            /\ \E i \in 1 .. m : q[i] = x /\ \A k \in 1 .. i - 1 : node[q[k]].name # s
  <2>1. PICK i \in 1 .. m : q[i] = x /\ \A k \in 1 .. i - 1 : node[q[k]].name # s
    BY <1>10
  <2>2. i \in DOMAIN q /\ F[x].name = s /\ \A k \in 1 .. i - 1 : F[q[k]].name # s
    <3>1. \A k \in 1 .. i - 1 : k \in 1 .. m
      BY <1>2
    <3> QED BY <1>2, <1>6, <1>10, <2>1, <3>1
  <2>3. Vfs!Finds(s, x)
    BY <1>3, <1>5, <2>1, <2>2, Zenon DEF Vfs!Finds
  <2> QED BY <1>10, <2>3
<1> QED BY <1>8, <1>9, <1>10

LEMMA CreateStep ==
  ASSUME HeapAssumption, HInv, NEW s \in Names, NEW isDir \in BOOLEAN, Create(s, isDir)
  PROVE  HInv' /\ Vfs!Insert(s, isDir)
<1>1. /\ mode = "running" /\ current \in DOMAIN node /\ node[current].isDirectory
      /\ OnBlocks(disk)
  BY DEF HInv, Create, Live
<1>2. PICK q, a : Spelled(list, q, a)
  BY DEF HInv
<1>3. PICK kids : Shaped(node, kids)
  BY DEF HInv
<1>4. PICK n \in FileNodes \ DOMAIN node :
        node' = T!insertFileNodeAsChild(node, current, n, s, isDir)
  BY DEF Create, Live
<1>5. mode' = mode /\ current' = current /\ disk' = disk /\ list' = list
  BY DEF Create
<1>6. PICK g : g = node'
  OBVIOUS
<1>7. Grown(node, g, current, n, s, isDir, LastOr(kids[current], n), FirstOr(kids[current], n))
  BY <1>1, <1>3, <1>4, <1>6, Inserted
<1>8. Shaped(g, KidsWith(node, kids, current, n))
  BY <1>1, <1>3, <1>7, GrownShaped
<1>9. current \in DOMAIN g /\ g[current].isDirectory
  BY <1>1, <1>7 DEF Grown, Alike
<1>10. HInv'
  <2>1. \E k : Shaped(node', k)
    BY <1>6, <1>8
  <2>2. \E p, c : Spelled(list', p, c)
    BY <1>2, <1>5
  <2>3. OnBlocks(disk)'
    BY <1>1, <1>5 DEF OnBlocks, Blocks, L!Blocks
  <2> QED BY <1>1, <1>5, <1>6, <1>9, <2>1, <2>2, <2>3 DEF HInv, Live
<1>11. PICK F : F = Tree /\ DOMAIN F = DOMAIN node
  <2>1. Tree = TreeOf(node, kids)
    BY <1>3, TreeNow
  <2> QED BY <2>1 DEF TreeOf
<1>12. Tree' = WithNode(F, current, n, s, isDir)
  <2>1. F = TreeOf(node, kids)
    BY <1>3, <1>11, TreeNow
  <2>2. Tree' = TreeOf(g, KidsWith(node, kids, current, n))
    BY <1>6, <1>8, TreeThen
  <2>3. TreeOf(g, KidsWith(node, kids, current, n)) = WithNode(F, current, n, s, isDir)
    BY <1>1, <1>3, <1>7, <2>1, TreeGrows
  <2> QED BY <2>2, <2>3
<1>13. Vfs!FindsNone(s)
  <2>1. Search(s) = NULL
    BY DEF Create
  <2> QED BY <1>1, <1>3, <2>1, FoundIs
<1>14. n \in FileNodes \ Vfs!Live
  BY <1>4, <1>11 DEF Vfs!Live
<1>15. L!Listed(list)' = L!Listed(list)
  BY <1>5
<1> QED BY <1>1, <1>5, <1>10, <1>11, <1>12, <1>13, <1>14, <1>15, Zenon
        DEF WithNode, Vfs!Insert, Vfs!insertFileNodeAsChild, Vfs!Live

(* A directory without a first child has none, as has a file. *)
LEMMA Childless ==
  ASSUME HeapAssumption, NEW kids, Shaped(node, kids), NEW n \in DOMAIN node,
         node[n].child = NULL \/ ~node[n].isDirectory
  PROVE  Len(kids[n]) = 0
<1>1. SUFFICES ASSUME Len(kids[n]) # 0 PROVE FALSE
  OBVIOUS
<1>2. Len(kids[n]) > 0 /\ 1 \in 1 .. Len(kids[n])
  BY <1>1, ShapedFacts
<1>3. node[n].isDirectory /\ node[n].child = kids[n][1] /\ kids[n][1] # NULL
  BY <1>1, <1>2, ShapedFacts
<1> QED BY <1>3

LEMMA UnlinkStep ==
  ASSUME HeapAssumption, NEW kids, Shaped(node, kids), NEW n \in DOMAIN node, n # root,
         Len(kids[n]) = 0, node' = T!Unlinked(node, n)
  PROVE  /\ Shaped(node', KidsWithout(node, kids, n)) /\ Tree' = Vfs!Unlinked(n)
         /\ node[n].parent \in DOMAIN node' /\ node'[node[n].parent].isDirectory
         /\ \A x \in DOMAIN node \ {n} :
              x \in DOMAIN node' /\ node'[x].isDirectory = node[x].isDirectory
<1>1. PICK g : g = node'
  OBVIOUS
<1>2. Shrunk(node, g, n) /\ Shaped(g, KidsWithout(node, kids, n))
  BY <1>1, UnlinkedShaped
<1>3. PICK F : F = Tree /\ DOMAIN F = DOMAIN node /\ F = TreeOf(node, kids)
  <2>1. Tree = TreeOf(node, kids)
    BY TreeNow
  <2> QED BY <2>1 DEF TreeOf
<1>4. TreeOf(g, KidsWithout(node, kids, n)) = WithoutNode(F, n)
  BY <1>2, <1>3, TreeShrinks
<1>5. Tree' = TreeOf(g, KidsWithout(node, kids, n))
  BY <1>1, <1>2, TreeThen
<1>6. Tree' = Vfs!Unlinked(n)
  BY <1>3, <1>4, <1>5, Zenon DEF WithoutNode, Vfs!Unlinked, Vfs!Live
<1>7. \A x \in DOMAIN node \ {n} : x \in DOMAIN g /\ g[x].isDirectory = node[x].isDirectory
  BY <1>2 DEF Shrunk, Alike
<1>8. PICK d \in DOMAIN node : d = node[n].parent
  BY Neighbours
<1>9. d # n /\ node[d].isDirectory
  <2>1. PICK i \in 1 .. Len(kids[d]) : kids[d][i] = n
    BY <1>8, Neighbours
  <2>2. Len(kids[d]) \in Nat /\ (Len(kids[d]) > 0 => node[d].isDirectory)
    BY ShapedFacts
  <2> QED BY <2>1, <2>2
<1> QED BY <1>1, <1>2, <1>6, <1>7, <1>8, <1>9
LEMMA RemoveStep ==
  ASSUME HeapAssumption, HInv, NEW s \in Names, removeDirectory(s)
  PROVE  HInv' /\ (Vfs!RemoveCurrent(s) \/ Vfs!RemoveChild(s))
<1>1. /\ mode = "running" /\ current \in DOMAIN node /\ node[current].isDirectory
      /\ OnBlocks(disk)
  BY DEF HInv, removeDirectory, Live
<1>2. PICK q, a : Spelled(list, q, a)
  BY DEF HInv
<1>3. PICK kids : Shaped(node, kids)
  BY DEF HInv
<1>4. mode' = mode /\ disk' = disk /\ list' = list /\ L!Listed(list)' = L!Listed(list)
  BY DEF removeDirectory
<1>5. ASSUME NEW n \in DOMAIN node, Shaped(node', KidsWithout(node, kids, n)),
             current' \in DOMAIN node', node'[current'].isDirectory
      PROVE  HInv'
  <2>1. \E k : Shaped(node', k)
    BY <1>5
  <2>2. \E p, c : Spelled(list', p, c)
    BY <1>2, <1>4
  <2>3. OnBlocks(disk)'
    BY <1>1, <1>4 DEF OnBlocks, Blocks, L!Blocks
  <2> QED BY <1>1, <1>4, <1>5, <2>1, <2>2, <2>3 DEF HInv, Live
<1>6. Tree = TreeOf(node, kids)
  BY <1>3, TreeNow
<1>7. ASSUME NEW n \in DOMAIN node
      PROVE  /\ n \in Vfs!Live /\ Tree[n].name = node[n].name /\ Tree[n].parent = node[n].parent
             /\ Tree[n].isDirectory = node[n].isDirectory /\ Tree[n].children = kids[n]
             /\ Len(kids[n]) = 0 => kids[n] = <<>>
  <2>1. kids[n] \in Seq(DOMAIN node)
    BY <1>3, ShapedFacts
  <2>2. Len(kids[n]) = 0 => kids[n] = <<>>
    BY <2>1, EmptySeq
  <2>3. PICK F : F = Tree
    OBVIOUS
  <2>4. F = TreeOf(node, kids)
    BY <1>6, <2>3
  <2> QED BY <2>2, <2>3, <2>4, EntryIs DEF Vfs!Live
<1>8. CASE /\ node[current].name = s /\ s # SLASH /\ node[current].child = NULL
           /\ node' = T!Unlinked(node, current) /\ current' = node[current].parent
  <2>1. current # root
    BY <1>3, <1>8 DEF Shaped
  <2>2. Len(kids[current]) = 0
    BY <1>1, <1>3, <1>8, Childless
  <2>3. /\ Shaped(node', KidsWithout(node, kids, current)) /\ Tree' = Vfs!Unlinked(current)
        /\ node[current].parent \in DOMAIN node' /\ node'[node[current].parent].isDirectory
    BY <1>1, <1>3, <1>8, <2>1, <2>2, UnlinkStep
  <2>4. HInv'
    BY <1>1, <1>5, <1>8, <2>3
  <2>5. Tree[current].children = <<>> /\ Tree[current].name = s
          /\ current' = Tree[current].parent
    BY <1>1, <1>7, <1>8, <2>2
  <2>6. Vfs!RemoveCurrent(s)
    BY <1>1, <1>4, <1>8, <2>3, <2>5, Zenon DEF Vfs!RemoveCurrent, Vfs!CurrentGoes
  <2> QED BY <2>4, <2>6
<1>9. ASSUME NEW n, n = Search(s), node[current].name # s, n # NULL, node[n].isDirectory,
             node[n].child = NULL, node' = T!Unlinked(node, n), current' = current
      PROVE  HInv' /\ Vfs!RemoveChild(s)
  <2>1. n \in DOMAIN node /\ n # root /\ node[n].parent = current /\ Vfs!Finds(s, n)
    BY <1>1, <1>3, <1>9, FoundIs
  <2>2. Len(kids[n]) = 0
    BY <1>3, <1>9, <2>1, Childless
  <2>3. /\ Shaped(node', KidsWithout(node, kids, n)) /\ Tree' = Vfs!Unlinked(n)
        /\ \A x \in DOMAIN node \ {n} :
             x \in DOMAIN node' /\ node'[x].isDirectory = node[x].isDirectory
    BY <1>3, <1>9, <2>1, <2>2, UnlinkStep
  <2>4. current # n
    <3>1. PICK i \in 1 .. Len(kids[current]) : kids[current][i] = n
      BY <1>3, <2>1 DEF Shaped
    <3>2. Len(kids[current]) \in Nat
      BY <1>1, <1>3, ShapedFacts
    <3> QED BY <2>2, <3>1, <3>2
  <2>5. HInv'
    BY <1>1, <1>5, <1>9, <2>1, <2>3, <2>4
  <2>6. /\ n \in Vfs!Live /\ Tree[n].children = <<>> /\ Tree[n].isDirectory
        /\ Tree[current].name # s
    BY <1>1, <1>7, <1>9, <2>1, <2>2
  <2>7. Vfs!RemoveChild(s)
    BY <1>1, <1>4, <1>9, <2>1, <2>3, <2>6, Zenon DEF Vfs!RemoveChild, Vfs!ChildGoes
  <2> QED BY <2>5, <2>7
<1> QED BY <1>8, <1>9 DEF removeDirectory

LEMMA DeleteStep ==
  ASSUME HeapAssumption, HInv, NEW s \in Names, deleteFile(s)
  PROVE  HInv' /\ Vfs!deleteFile(s)
<1>1. /\ mode = "running" /\ current \in DOMAIN node /\ node[current].isDirectory
  BY DEF HInv, deleteFile, Live
<1>2. PICK q, a : Spelled(list, q, a)
  BY DEF HInv
<1>3. PICK kids : Shaped(node, kids)
  BY DEF HInv
<1>4. mode' = mode /\ current' = current
  BY DEF deleteFile
<1>5. PICK n, b : n = Search(s) /\ b = node[n].blocks
  OBVIOUS
<1>6. /\ n # NULL /\ ~node[n].isDirectory /\ node' = T!Unlinked(node, n)
      /\ \E at \in Mallocs(Len(b)) : list' = Refilled(list, b, at)
      /\ disk' = [i \in Blocks |-> IF i \in ToSet(b) THEN EMPTY ELSE disk[i]]
  BY <1>5, Zenon DEF deleteFile
<1>7. n \in DOMAIN node /\ n # root /\ node[n].parent = current /\ Vfs!Finds(s, n)
  BY <1>1, <1>3, <1>5, <1>6, FoundIs
<1>8. Len(kids[n]) = 0
  BY <1>3, <1>6, <1>7, Childless
<1>9. /\ Shaped(node', KidsWithout(node, kids, n)) /\ Tree' = Vfs!Unlinked(n)
      /\ \A x \in DOMAIN node \ {n} :
           x \in DOMAIN node' /\ node'[x].isDirectory = node[x].isDirectory
  BY <1>3, <1>6, <1>7, <1>8, UnlinkStep
<1>10. b \in Seq(Blocks) /\ current # n
  <2>1. node[n] \in FileNode
    BY <1>3, <1>7, ShapedFacts
  <2> QED BY <1>1, <1>5, <1>6, <2>1 DEF FileNode
<1>11. PICK at : list' = Refilled(list, b, at) /\ Given(at, Len(b), list)
  <2>1. PICK at \in Mallocs(Len(b)) : list' = Refilled(list, b, at)
    BY <1>6
  <2>2. PICK m \in Nat : m = Len(b)
    BY <1>10, LenProperties
  <2>3. /\ at \in [1 .. m -> (FreeBlocks \ DOMAIN list.node) \union {NULL}]
        /\ \A i, j \in 1 .. m : at[i] = at[j] => i = j \/ at[i] = NULL
        /\ "block" \notin NoMemory => NULL \notin Range(at)
    BY <2>1, <2>2 DEF Mallocs
  <2>4. "block" \notin NoMemory => \A i \in 1 .. m : at[i] # NULL
    BY <2>3 DEF Range
  <2> QED BY <2>1, <2>2, <2>3, <2>4 DEF Given
<1>12. PICK p : \E c \in Vfs!Kept(b) : Spelled(list', p, a \o c)
  BY <1>2, <1>10, <1>11, RefilledIs
<1>13. PICK c \in Vfs!Kept(b) : Spelled(list', p, a \o c)
  BY <1>12
<1>14. HInv'
  <2>1. \E k : Shaped(node', k)
    BY <1>9
  <2>2. \E r, x : Spelled(list', r, x)
    BY <1>13
  <2>3. OnBlocks(disk)'
    BY <1>6 DEF OnBlocks, Blocks, L!Blocks
  <2>4. current' \in DOMAIN node' /\ node'[current'].isDirectory
    BY <1>1, <1>4, <1>9, <1>10
  <2> QED BY <1>1, <1>4, <2>1, <2>2, <2>3, <2>4 DEF HInv, Live
<1>15. L!Listed(list) = a /\ L!Listed(list)' = a \o c
  BY <1>2, <1>13, WalkIs, ListThen
<1>16. n \in Vfs!Live /\ ~Tree[n].isDirectory /\ Tree[n].blocks = b
  <2>1. PICK F : F = Tree
    OBVIOUS
  <2>2. F = TreeOf(node, kids)
    BY <1>3, <2>1, TreeNow
  <2> QED BY <1>5, <1>6, <1>7, <2>1, <2>2, EntryIs DEF Vfs!Live
<1>17. disk' = [i \in Vfs!Blocks |-> IF i \in Vfs!ToSet(b) THEN Vfs!EMPTY ELSE disk[i]]
  <2>1. Vfs!Blocks = Blocks /\ Vfs!EMPTY = EMPTY
    BY DEF Vfs!Blocks, Blocks, L!Blocks, Vfs!EMPTY, EMPTY, Vfs!Piece, Piece
  <2>2. Vfs!ToSet(b) = ToSet(b)
    BY SameOperators
  <2> QED BY <1>6, <2>1, <2>2
<1>18. Vfs!FileGoes(s, n)
  BY <1>1, <1>4, <1>7, <1>9, <1>16, <1>17, Zenon DEF Vfs!FileGoes
<1>19. Vfs!deleteFile(s)
  BY <1>13, <1>15, <1>16, <1>18, Zenon DEF Vfs!deleteFile
<1> QED BY <1>14, <1>19

LEMMA ChangeStep ==
  ASSUME HeapAssumption, HInv, NEW s \in Names, changeDirectory(s)
  PROVE  HInv' /\ Vfs!changeDirectory(s)
<1>1. /\ mode = "running" /\ current \in DOMAIN node /\ node[current].isDirectory
      /\ OnBlocks(disk)
  BY DEF HInv, changeDirectory, Live
<1>2. PICK q, a : Spelled(list, q, a)
  BY DEF HInv
<1>3. PICK kids : Shaped(node, kids)
  BY DEF HInv
<1>4. /\ mode' = mode /\ disk' = disk /\ list' = list /\ node' = node
      /\ L!Listed(list)' = L!Listed(list)
  BY DEF changeDirectory
<1>5. Tree' = Tree
  <2>1. Tree = TreeOf(node, kids) /\ Tree' = TreeOf(node', kids)
    BY <1>3, <1>4, TreeNow, TreeThen
  <2> QED BY <1>4, <2>1
<1>6. ASSUME NEW n \in DOMAIN node
      PROVE  /\ n \in Vfs!Live /\ Tree[n].parent = node[n].parent
             /\ Tree[n].isDirectory = node[n].isDirectory
  <2>1. PICK F : F = Tree
    OBVIOUS
  <2>2. F = TreeOf(node, kids)
    BY <1>3, <2>1, TreeNow
  <2> QED BY <2>1, <2>2, EntryIs DEF Vfs!Live
<1>7. ASSUME current' \in DOMAIN node, node[current'].isDirectory PROVE HInv'
  <2>1. \E k : Shaped(node', k)
    BY <1>3, <1>4
  <2>2. \E p, c : Spelled(list', p, c)
    BY <1>2, <1>4
  <2>3. OnBlocks(disk)'
    BY <1>1, <1>4 DEF OnBlocks, Blocks, L!Blocks
  <2> QED BY <1>1, <1>4, <1>7, <2>1, <2>2, <2>3 DEF HInv, Live
<1>8. CASE s = DOTS /\ node[current].parent # NULL /\ current' = node[current].parent
  <2>1. current # root
    BY <1>3, <1>8 DEF Shaped
  <2>2. PICK d \in DOMAIN node : d = node[current].parent
    BY <1>1, <1>3, <2>1, Neighbours
  <2>3. PICK i \in 1 .. Len(kids[d]) : kids[d][i] = current
    BY <1>1, <1>3, <2>1, <2>2, Neighbours
  <2>4. node[d].isDirectory
    <3>1. Len(kids[d]) \in Nat /\ (Len(kids[d]) > 0 => node[d].isDirectory)
      BY <1>3, ShapedFacts
    <3> QED BY <2>3, <3>1
  <2>5. HInv'
    BY <1>7, <1>8, <2>2, <2>4
  <2>6. Tree[current].parent # NULL /\ current' = Tree[current].parent
    BY <1>1, <1>6, <1>8
  <2>7. Vfs!changeDirectory(s)
    BY <1>1, <1>4, <1>5, <1>8, <2>6, Zenon DEF Vfs!changeDirectory
  <2> QED BY <2>5, <2>7
<1>9. ASSUME NEW n, n = Search(s), s # DOTS, n # NULL, node[n].isDirectory, current' = n
      PROVE  HInv' /\ Vfs!changeDirectory(s)
  <2>1. n \in DOMAIN node /\ Vfs!Finds(s, n)
    BY <1>1, <1>3, <1>9, FoundIs
  <2>2. HInv'
    BY <1>7, <1>9, <2>1
  <2>3. n \in Vfs!Live /\ Tree[n].isDirectory
    BY <1>6, <1>9, <2>1
  <2>4. Vfs!changeDirectory(s)
    BY <1>1, <1>4, <1>5, <1>9, <2>1, <2>3, Zenon DEF Vfs!changeDirectory
  <2> QED BY <2>2, <2>4
<1> QED BY <1>8, <1>9 DEF changeDirectory
LEMMA WriteStep ==
  ASSUME HeapAssumption, HInv, NEW s \in Names, NEW t \in Texts, NEW k \in 1 .. MaxBlocks,
         writeFile(s, t, k)
  PROVE  HInv' /\ Vfs!writeFile(s, t, k)
<1>1. /\ mode = "running" /\ current \in DOMAIN node /\ node[current].isDirectory
      /\ OnBlocks(disk)
  BY DEF HInv, writeFile, Live
<1>2. PICK q, a : Spelled(list, q, a)
  BY DEF HInv
<1>3. PICK kids : Shaped(node, kids)
  BY DEF HInv
<1>4. mode' = mode /\ current' = current
  BY DEF writeFile
<1>5. PICK n, b : n = Search(s) /\ b = node[n].blocks
  OBVIOUS
<1>6. PICK w : w = Written(Begun(list, disk, b), t, k)
  OBVIOUS
<1>7. /\ n # NULL /\ ~node[n].isDirectory /\ k <= Len(L!Walk(list))
      /\ list' = w.list /\ disk' = w.disk /\ node' = [node EXCEPT ![n].blocks = w.blocks]
  BY <1>5, <1>6, Zenon DEF writeFile, Begun
<1>8. n \in DOMAIN node /\ Vfs!Finds(s, n)
  BY <1>1, <1>3, <1>5, <1>7, FoundIs
<1>9. b \in Seq(Blocks)
  <2>1. node[n] \in FileNode
    BY <1>3, <1>8, ShapedFacts
  <2> QED BY <1>5, <2>1 DEF FileNode
<1>10. L!Walk(list) = q /\ L!Listed(list) = a
  BY <1>2, WalkIs
<1>11. a \in Seq(Blocks) /\ k \in 0 .. Len(a)
  <2>1. a \in Seq(Blocks) /\ Len(a) = Len(q) /\ Len(a) \in Nat
    BY <1>2, LenProperties DEF Spelled
  <2>2. k <= Len(a) /\ k \in Nat
    BY <1>7, <1>10, <2>1 DEF HeapAssumption
  <2> QED BY <2>1, <2>2
<1>12. PICK r : r = SubSeq(a, 1, k)
  OBVIOUS
<1>13. /\ \E p : Spelled(w.list, p, Rest(a, k))
       /\ OnBlocks(w.disk) /\ FilledAt(w.disk, disk, t, r) /\ w.blocks = b \o r
  <2>1. PICK l, d : l = list /\ d = disk
    OBVIOUS
  <2>2. /\ Spelled(l, q, a) /\ OnBlocks(d) /\ b \in Seq(Blocks) /\ k \in 0 .. Len(a)
        /\ w = Written(Begun(l, d, b), t, k) /\ r = SubSeq(a, 1, k)
    BY <1>1, <1>2, <1>6, <1>9, <1>11, <1>12, <2>1
  <2>3. Ends(w, d, b, a, t, k, r)
    BY ONLY HeapAssumption, <2>2, WrittenIs
  <2> QED BY <2>1, <2>3, Zenon DEF Ends
<1>14. PICK p : Spelled(list', p, Rest(a, k))
  BY <1>7, <1>13
<1>15. PICK c \in Seq(Blocks) : c = b \o r
  <2>1. r \in Seq(Blocks)
    BY <1>11, <1>12, Parted
  <2> QED BY <1>9, <2>1, Joined
<1>16. PICK g : g = WithBlocks(node, n, c)
  OBVIOUS
<1>17. node' = g
  BY <1>7, <1>13, <1>15, <1>16, Zenon DEF WithBlocks
<1>18. PICK F : F = Tree
  OBVIOUS
<1>19. F = TreeOf(node, kids)
  BY <1>3, <1>18, TreeNow
<1>20. Shaped(g, kids) /\ TreeOf(g, kids) = WithBlocks(F, n, c)
  BY <1>3, <1>8, <1>16, <1>19, FilledShaped
<1>21. HInv'
  <2>1. \E x : Shaped(node', x)
    BY <1>17, <1>20
  <2>2. \E x, y : Spelled(list', x, y)
    BY <1>14
  <2>3. OnBlocks(disk)'
    BY <1>7, <1>13 DEF OnBlocks, Blocks, L!Blocks
  <2>4. current \in DOMAIN g /\ g[current].isDirectory
    <3>1. current # n
      BY <1>1, <1>7
    <3> QED BY <1>1, <1>16, <3>1 DEF WithBlocks
  <2> QED BY <1>1, <1>4, <1>17, <2>1, <2>2, <2>3, <2>4 DEF HInv, Live
<1>22. Tree' = WithBlocks(F, n, c)
  BY <1>17, <1>20, TreeThen
<1>23. n \in Vfs!Live /\ ~F[n].isDirectory /\ F[n].blocks = b
  BY <1>5, <1>7, <1>8, <1>18, <1>19, EntryIs DEF Vfs!Live
<1>24. Tree' = [F EXCEPT ![n].blocks = @ \o r]
  <2>1. [F EXCEPT ![n].blocks = @ \o r] = WithBlocks(F, n, c)
    BY <1>15, <1>23, Zenon DEF WithBlocks
  <2> QED BY <1>22, <2>1
<1>25. disk' = [i \in Vfs!Blocks |->
                  IF i \in Vfs!ToSet(r) THEN Vfs!Piece(t, Vfs!LastOf(r, i)) ELSE disk[i]]
  <2>1. Vfs!Blocks = Blocks
    BY DEF Vfs!Blocks, Blocks, L!Blocks
  <2>2. FilledAt(disk', disk, t, r)
    BY <1>7, <1>13
  <2> QED BY <2>1, <2>2, Zenon DEF FilledAt
<1>26. Vfs!Filled(s, t, k)
  <2>1. k <= Len(a)
    BY <1>11
  <2> QED BY <1>1, <1>4, <1>8, <1>10, <1>12, <1>18, <1>23, <1>24, <1>25, <2>1, Zenon
          DEF Vfs!Filled
<1>27. L!Listed(list)' = SubSeq(a, k + 1, Len(a))
  <2>1. L!Listed(list)' = Rest(a, k)
    BY <1>14, ListThen
  <2>2. PICK m \in Nat : m = Len(a) /\ k \in Nat /\ k <= m
    BY <1>11, LenProperties
  <2>3. SubSeq(a, k + 1, Len(a)) = Rest(a, k)
    BY <1>11, <2>2 DEF Rest
  <2> QED BY <2>1, <2>3
<1>28. Vfs!writeFile(s, t, k)
  BY <1>10, <1>26, <1>27, Zenon DEF Vfs!writeFile
<1> QED BY <1>21, <1>28

-----------------------------------------------------------------------------
(* Nothing but the mode changes. *)
LEMMA StaysShaped ==
  ASSUME HeapAssumption, HInv, UNCHANGED <<current, disk, list, node>>
  PROVE  /\ mode' \in {"running", "exited"} => HInv'
         /\ Tree' = Tree /\ L!Listed(list)' = L!Listed(list)
<1>1. PICK q, a : Spelled(list, q, a)
  BY DEF HInv
<1>2. PICK kids : Shaped(node, kids)
  BY DEF HInv
<1>3. Tree = TreeOf(node, kids) /\ Tree' = TreeOf(node', kids)
  BY <1>2, TreeNow, TreeThen
<1>4. ASSUME mode' \in {"running", "exited"} PROVE HInv'
  <2>1. \E k : Shaped(node', k)
    BY <1>2
  <2>2. \E p, c : Spelled(list', p, c)
    BY <1>1
  <2>3. OnBlocks(disk)'
    BY DEF HInv, OnBlocks, Blocks, L!Blocks
  <2> QED BY <1>4, <2>1, <2>2, <2>3 DEF HInv, Live
<1> QED BY <1>3, <1>4

LEMMA Begins == ASSUME HeapAssumption, Init PROVE HInv /\ Vfs!Init
<1>1. PICK at \in [Blocks -> FreeBlocks] : IsInjective(at) /\ list = L!initializeFreeBlocks(at)
  BY DEF Init
<1>2. PICK a : a = [i \in 1 .. TOTAL_BLOCKS |-> i - 1]
  OBVIOUS
<1>3. PICK q : Spelled(list, q, a)
  <2>1. Spelled(list, [i \in 1 .. TOTAL_BLOCKS |-> at[i - 1]], a)
    BY <1>1, <1>2, ListMade
  <2> QED BY <2>1
<1>4. /\ mode = "running" /\ current = root /\ disk = [b \in Blocks |-> EMPTY]
      /\ node = [n \in {root} |-> T!Only(SLASH, TRUE, NULL, root)]
  BY DEF Init
<1>5. PICK u : u = [name |-> SLASH, isDirectory |-> TRUE, blocks |-> <<>>, parent |-> NULL,
                    child |-> NULL, previous |-> root, next |-> root]
  OBVIOUS
<1>6. node = [n \in {root} |-> u]
  <2>1. T!Only(SLASH, TRUE, NULL, root) = T!NewNode(SLASH, TRUE, NULL, root, root)
    BY Zenon DEF T!Only
  <2>2. root \in FileNodes /\ Cut(SLASH) = SLASH
    BY DEF HeapAssumption
  <2>3. T!NewNode(SLASH, TRUE, NULL, root, root) = u
    BY <1>5, <2>2 DEF T!NewNode
  <2> QED BY <1>4, <2>1, <2>3
<1>7. PICK kids : kids = [n \in {root} |-> <<>>]
  OBVIOUS
<1>8. u \in FileNode
  <2>1. <<>> \in Seq(Blocks)
    BY EmptySeq
  <2> QED BY <1>5, <2>1 DEF FileNode, HeapAssumption
<1>9. Shaped(node, kids)
  <2>1. DOMAIN node = {root} /\ node[root] = u /\ DOMAIN kids = {root} /\ kids[root] = <<>>
    BY <1>6, <1>7
  <2>2. IsFiniteSet({root})
    BY FS_Singleton
  <2>3. node \in [{root} -> FileNode] /\ kids \in [{root} -> Seq({root})]
    <3>1. <<>> \in Seq({root})
      BY EmptySeq
    <3> QED BY <1>6, <1>7, <1>8, <3>1
  <2>4. Len(kids[root]) = 0 /\ \A i \in 1 .. Len(kids[root]) : FALSE
    BY <2>1
  <2>5. Circle(node, kids[root], root)
    BY <2>4, Zenon DEF Circle
  <2>6. /\ node[root].child = NULL /\ node[root].parent = NULL /\ node[root].next = root
        /\ node[root].previous = root /\ node[root].name = SLASH
    BY <1>5, <2>1
  <2>7. root \in FileNodes
    BY DEF HeapAssumption
  <2> QED BY <2>1, <2>2, <2>3, <2>4, <2>5, <2>6, <2>7 DEF Shaped
<1>10. HInv
  <2>1. OnBlocks(disk)
    BY <1>4 DEF OnBlocks
  <2>2. root \in DOMAIN node /\ node[root].isDirectory
    BY <1>5, <1>6
  <2> QED BY <1>3, <1>4, <1>9, <2>1, <2>2 DEF HInv, Live
<1>11. Tree = [n \in {root} |-> Vfs!NewNode(SLASH, NULL, TRUE)]
  <2>1. Tree = TreeOf(node, kids)
    BY <1>9, TreeNow
  <2>2. TreeOf(node, kids) = [n \in {root} |-> Entry(u, <<>>)]
    BY <1>6, <1>7 DEF TreeOf
  <2>3. Entry(u, <<>>) = Vfs!NewNode(SLASH, NULL, TRUE)
    BY <1>5 DEF Entry, Vfs!NewNode, HeapAssumption
  <2> QED BY <2>1, <2>2, <2>3
<1>12. L!Listed(list) = [i \in 1 .. TOTAL_BLOCKS |-> i - 1]
  BY <1>2, <1>3, WalkIs
<1>13. disk = [b \in Vfs!Blocks |-> Vfs!EMPTY]
  BY <1>4 DEF Vfs!Blocks, Blocks, L!Blocks, Vfs!EMPTY, EMPTY, Vfs!Piece, Piece
<1>14. Vfs!Init
  BY <1>4, <1>11, <1>12, <1>13, Zenon DEF Vfs!Init
<1> QED BY <1>10, <1>14

LEMMA Goes ==
  ASSUME HeapAssumption, HInv, [Next]_vars PROVE HInv' /\ [Vfs!Next]_(Vfs!vars)
<1>1. ASSUME NEW s \in Names, NEW isDir \in BOOLEAN, Create(s, isDir) PROVE HInv' /\ Vfs!Next
  <2>1. HInv' /\ Vfs!Insert(s, isDir)
    BY <1>1, CreateStep
  <2> QED BY <2>1, Zenon DEF Vfs!Next
<1>2. ASSUME NEW s \in Names, removeDirectory(s) PROVE HInv' /\ Vfs!Next
  <2>1. HInv' /\ (Vfs!RemoveCurrent(s) \/ Vfs!RemoveChild(s))
    BY <1>2, RemoveStep
  <2> QED BY <2>1, Zenon DEF Vfs!Next
<1>3. ASSUME NEW s \in Names, deleteFile(s) PROVE HInv' /\ Vfs!Next
  <2>1. HInv' /\ Vfs!deleteFile(s)
    BY <1>3, DeleteStep
  <2> QED BY <2>1, Zenon DEF Vfs!Next
<1>4. ASSUME NEW s \in Names, changeDirectory(s) PROVE HInv' /\ Vfs!Next
  <2>1. HInv' /\ Vfs!changeDirectory(s)
    BY <1>4, ChangeStep
  <2> QED BY <2>1, Zenon DEF Vfs!Next
<1>5. ASSUME NEW s \in Names, NEW t \in Texts, NEW k \in 1 .. MaxBlocks, writeFile(s, t, k)
      PROVE  HInv' /\ Vfs!Next
  <2>1. HInv' /\ Vfs!writeFile(s, t, k)
    BY <1>5, WriteStep
  <2> QED BY <2>1, Zenon DEF Vfs!Next
<1>6. ASSUME exitProgram PROVE HInv' /\ Vfs!Next
  <2>1. UNCHANGED <<current, disk, list, node>> /\ mode = "running" /\ mode' = "exited"
    BY <1>6 DEF exitProgram
  <2>2. HInv' /\ Tree' = Tree /\ L!Listed(list)' = L!Listed(list)
    BY <2>1, StaysShaped
  <2>3. Vfs!Exit
    BY <2>1, <2>2, Zenon DEF Vfs!Exit
  <2> QED BY <2>2, <2>3, Zenon DEF Vfs!Next
<1>7. ASSUME UNCHANGED vars PROVE HInv' /\ UNCHANGED Vfs!vars
  <2>1. UNCHANGED <<current, disk, list, node>> /\ mode' = mode
    BY <1>7 DEF vars
  <2>2. HInv' /\ Tree' = Tree /\ L!Listed(list)' = L!Listed(list)
    BY <2>1, StaysShaped DEF HInv
  <2> QED BY <2>1, <2>2, Zenon DEF Vfs!vars
<1> QED BY <1>1, <1>2, <1>3, <1>4, <1>5, <1>6, <1>7, Zenon DEF Next

(* The lists of pointers spell sequences, after every command.             *)
THEOREM HInvAlways == Spec => []HInv
<1>1. Init => HInv
  BY HeapAssumption, Begins
<1>2. HInv /\ [Next]_vars => HInv'
  BY HeapAssumption, Goes
<1> QED BY <1>1, <1>2, PTL DEF Spec

(* No pointer of the free list or of the tree leads to freed memory, both  *)
(* links of each list agree, and every node allocated is in its list       *)
(* (file_node.c:25-169, free_block.c:24-127).                              *)
THEOREM WellLinkedAlways == Spec => []WellLinked
<1>1. HInv => WellLinked
  <2>1. SUFFICES ASSUME HInv PROVE WellLinked
    OBVIOUS
  <2>2. PICK q, a : Spelled(list, q, a)
    BY <2>1 DEF HInv
  <2>3. PICK kids : Shaped(node, kids)
    BY <2>1 DEF HInv
  <2>4. L!WellLinked(list) /\ T!WellLinked(node)
    BY <2>2, <2>3, HeapAssumption, SpelledLinked, ShapedLinked
  <2> QED BY <2>1, <2>4, Zenon DEF WellLinked, ListLinked, TreeLinked, HInv
<1> QED BY <1>1, HInvAlways, PTL

(* On pointers the commands do what VirtualFileSystem says of sequences:   *)
(* children keep their order and the free list is a queue.                 *)
THEOREM HeapImplements == Spec => ImplementsVfs
<1>1. Init => Vfs!Init
  BY HeapAssumption, Begins
<1>2. HInv /\ [Next]_vars => [Vfs!Next]_(Vfs!vars)
  BY HeapAssumption, Goes
<1> QED BY <1>1, <1>2, HInvAlways, PTL DEF Spec, ImplementsVfs, Vfs!Spec

-----------------------------------------------------------------------------
(* What FlattenSeq goes through.                                           *)
Flat(p, n, g) == g = [i \in 1 .. n |-> IF i = 1 THEN p[i] ELSE g[i - 1] \o p[i]]

LEMMA FlattenGoes ==
  ASSUME NEW S, NEW p \in Seq(Seq(S)), NEW n \in Nat \ {0}, n = Len(p)
  PROVE  \E g \in [1 .. n -> Seq(S)] : Flat(p, n, g) /\ FlattenSeq(p) = g[n]
<1>0. p \in [1 .. n -> Seq(S)]
  BY LenProperties
<1> DEFINE X == Seq(S)
           F == [k \in 1 + 1 .. n |-> [x \in X |-> x \o p[k]]]
<1>1. \A k \in 1 .. n, x \in X : x \o p[k] \in X
  BY <1>0, Joined
<1>2. F \in [1 + 1 .. n -> [X -> X]]
  <2> HIDE DEF X
  <2>1. \A k \in 1 + 1 .. n : k \in 1 .. n
    OBVIOUS
  <2> QED BY <1>1, <2>1
<1>3. PICK G : G \in [1 + 1 .. n -> [X -> X]]
               /\ \A k \in 1 + 1 .. n : \A x \in X : G[k][x] = x \o p[k]
  <2> HIDE DEF X
  <2>1. \A k \in 1 + 1 .. n : \A x \in X : F[k][x] = x \o p[k]
    OBVIOUS
  <2> HIDE DEF F
  <2> QED BY <1>2, <2>1
<1>4. Turns(G, X, 1, n) /\ p[1] \in X /\ 1 \in Nat /\ 1 <= n
  <2>1. p[1] \in X /\ 1 \in Nat /\ 1 <= n
    BY <1>0
  <2>2. Turns(G, X, 1, n)
    <3> HIDE DEF X
    <3> QED BY <1>3 DEF Turns
  <2> QED BY <2>1, <2>2
<1>5. PICK g : Passes(g, X, p[1], 1, n, G)
  <2> HIDE DEF F, X
  <2>1. n \in Nat
    OBVIOUS
  <2> QED BY ONLY <1>4, <2>1, Loop
<1>6. g \in [1 .. n -> X] /\ \A k \in 1 .. n : g[k] = IF k = 1 THEN p[1] ELSE G[k][g[k - 1]]
  BY <1>5 DEF Passes
<1>7. ASSUME NEW k \in 1 .. n
      PROVE  g[k] = IF k = 1 THEN p[k] ELSE g[k - 1] \o p[k]
  <2>1. CASE k = 1
    BY <1>6, <2>1
  <2>2. CASE k # 1
    <3>1. k \in 1 + 1 .. n /\ k - 1 \in 1 .. n
      BY <2>2
    <3>2. g[k - 1] \in X /\ g[k] = G[k][g[k - 1]]
      BY <1>6, <2>2, <3>1
    <3> HIDE DEF X
    <3> QED BY <1>3, <2>2, <3>1, <3>2
  <2> QED BY <2>1, <2>2
<1>8. g = [k \in 1 .. n |-> g[k]]
  BY <1>6
<1>9. Flat(p, n, g)
  <2>1. g = [k \in 1 .. n |-> IF k = 1 THEN p[k] ELSE g[k - 1] \o p[k]]
    BY <1>7, <1>8
  <2> QED BY <2>1 DEF Flat
<1> DEFINE h == CHOOSE h : Flat(p, Len(p), h)
<1>10. Flat(p, n, h)
  BY <1>9, Zenon
<1>11. FlattenSeq(p) = h[n]
  <2>1. Len(p) # 0
    OBVIOUS
  <2>2. FlattenSeq(p) = h[Len(p)]
    BY <2>1, Zenon DEF FlattenSeq, Flat
  <2> QED BY <2>2
<1> HIDE DEF h
<1>12. \A k \in 1 .. n : h[k] = IF k = 1 THEN p[k] ELSE h[k - 1] \o p[k]
  BY <1>10 DEF Flat
<1>13. 1 .. n \subseteq {k \in 1 .. n : h[k] \in Seq(S)}
  <2> DEFINE C == {k \in 1 .. n : h[k] \in Seq(S)}
  <2>1. 1 \in C
    BY <1>0, <1>12
  <2>2. ASSUME NEW k \in 1 + 1 .. n, k - 1 \in C PROVE k \in C
    <3>1. k \in 1 .. n /\ k # 1 /\ h[k - 1] \in Seq(S) /\ p[k] \in Seq(S)
      BY <1>0, <2>2
    <3>2. h[k] = h[k - 1] \o p[k]
      BY <1>12, <3>1
    <3>3. h[k - 1] \o p[k] \in Seq(S)
      BY <3>1, Joined
    <3> QED BY <3>1, <3>2, <3>3
  <2>3. 1 \in Nat /\ n \in Nat
    OBVIOUS
  <2> HIDE DEF C
  <2>4. 1 .. n \subseteq C
    BY ONLY <2>1, <2>2, <2>3, Upwards
  <2> QED BY <2>4 DEF C
<1>14. h \in [1 .. n -> Seq(S)]
  <2>1. h = [i \in 1 .. n |-> IF i = 1 THEN p[i] ELSE h[i - 1] \o p[i]]
    BY <1>10 DEF Flat
  <2>2. \A k \in 1 .. n : (IF k = 1 THEN p[k] ELSE h[k - 1] \o p[k]) \in Seq(S)
    BY <1>12, <1>13
  <2>3. \E e : h = [i \in 1 .. n |-> e[i]] /\ \A i \in 1 .. n : e[i] \in Seq(S)
    <3>1. PICK e : e = [i \in 1 .. n |-> IF i = 1 THEN p[i] ELSE h[i - 1] \o p[i]]
      OBVIOUS
    <3>2. e = [i \in 1 .. n |-> e[i]] /\ \A i \in 1 .. n : e[i] \in Seq(S)
      BY <2>2, <3>1
    <3> QED BY <2>1, <3>1, <3>2
  <2> QED BY <2>3
<1> QED BY <1>10, <1>11, <1>14

(* The parts of p have nothing twice, alone or together.                   *)
Apart(p) ==
  /\ \A i \in 1 .. Len(p) : IsInjective(p[i])
  /\ \A i, j \in 1 .. Len(p) : i # j => ToSet(p[i]) \intersect ToSet(p[j]) = {}

LEMMA Flattened ==
  ASSUME NEW S, NEW p \in Seq(Seq(S))
  PROVE  /\ FlattenSeq(p) \in Seq(S)
         /\ \A x : x \in ToSet(FlattenSeq(p)) <=> \E i \in 1 .. Len(p) : x \in ToSet(p[i])
         /\ Apart(p) => IsInjective(FlattenSeq(p))
<1>1. PICK n \in Nat : n = Len(p) /\ p \in [1 .. n -> Seq(S)]
  BY LenProperties
<1>2. CASE n = 0
  <2>1. FlattenSeq(p) = p /\ p = <<>>
    <3>1. p = <<>>
      BY <1>1, <1>2, EmptySeq
    <3>2. FlattenSeq(p) = p
      BY <1>1, <1>2, Zenon DEF FlattenSeq
    <3> QED BY <3>1, <3>2
  <2>2. <<>> \in Seq(S) /\ Len(<<>>) = 0 /\ DOMAIN <<>> = {}
    BY EmptySeq
  <2>3. ToSet(<<>>) = {} /\ IsInjective(<<>>)
    BY <2>2 DEF ToSet, IsInjective
  <2> QED BY <1>1, <1>2, <2>1, <2>2, <2>3
<1>3. CASE n # 0
  <2>1. PICK g \in [1 .. n -> Seq(S)] : Flat(p, n, g) /\ FlattenSeq(p) = g[n]
    <3>1. n \in Nat \ {0} /\ n = Len(p)
      BY <1>1, <1>3
    <3> QED BY <3>1, FlattenGoes, Zenon
  <2>2. \A k \in 1 .. n : g[k] = IF k = 1 THEN p[k] ELSE g[k - 1] \o p[k]
    <3>1. g = [i \in 1 .. n |-> IF i = 1 THEN p[i] ELSE g[i - 1] \o p[i]]
      BY <2>1, Zenon DEF Flat
    <3> QED BY ONLY <3>1
  <2> DEFINE Of(k) == /\ \A x : x \in ToSet(g[k]) <=> \E i \in 1 .. k : x \in ToSet(p[i])
                      /\ Apart(p) => IsInjective(g[k])
             C == {k \in 1 .. n : Of(k)}
  <2>3. 1 \in C
    <3>0. 1 \in 1 .. n /\ \A i \in 1 .. 1 : i = 1
      BY <1>3
    <3>1. g[1] = p[1] /\ 1 \in 1 .. n /\ 1 \in 1 .. 1 /\ \A i \in 1 .. 1 : i = 1
      <4>1. g[1] = p[1]
        BY <2>2, <3>0, Zenon
      <4> QED BY <3>0, <4>1
    <3>2. Apart(p) => IsInjective(p[1])
      BY <1>1, <3>1 DEF Apart
    <3> QED BY <3>1, <3>2
  <2>4. ASSUME NEW k \in 1 + 1 .. n, k - 1 \in C PROVE k \in C
    <3>1. k \in 1 .. n /\ k # 1 /\ k - 1 \in 1 .. n /\ Of(k - 1)
      BY <2>4
    <3> HIDE DEF Of
    <3>2. g[k - 1] \in Seq(S) /\ p[k] \in Seq(S) /\ g[k] = g[k - 1] \o p[k]
      BY <1>1, <2>1, <2>2, <3>1
    <3>3. /\ ToSet(g[k]) = ToSet(g[k - 1]) \union ToSet(p[k])
          /\ (IsInjective(g[k - 1]) /\ IsInjective(p[k])
              /\ ToSet(g[k - 1]) \intersect ToSet(p[k]) = {} => IsInjective(g[k]))
      BY <3>2, Joined
    <3>4. ASSUME NEW x PROVE x \in ToSet(g[k]) <=> \E i \in 1 .. k : x \in ToSet(p[i])
      <4>1. x \in ToSet(g[k - 1]) <=> \E i \in 1 .. k - 1 : x \in ToSet(p[i])
        BY <3>1 DEF Of
      <4>2. \A i : i \in 1 .. k <=> i \in 1 .. k - 1 \/ i = k
        BY <3>1
      <4> QED BY <3>3, <4>1, <4>2
    <3>5. ASSUME Apart(p) PROVE IsInjective(g[k])
      <4>1. IsInjective(g[k - 1]) /\ IsInjective(p[k])
        BY <1>1, <3>1, <3>5 DEF Of, Apart
      <4>2. ASSUME NEW x \in ToSet(g[k - 1]), x \in ToSet(p[k]) PROVE FALSE
        <5>1. PICK i \in 1 .. k - 1 : x \in ToSet(p[i])
          BY <3>1, <4>2 DEF Of
        <5>2. i \in 1 .. n /\ i # k
          BY <3>1
        <5> QED BY <1>1, <3>1, <3>5, <4>2, <5>1, <5>2 DEF Apart
      <4> QED BY <3>3, <4>1, <4>2
    <3>6. Of(k)
      BY <3>4, <3>5 DEF Of
    <3> QED BY <3>1, <3>6
  <2>5. 1 \in Nat /\ n \in Nat
    OBVIOUS
  <2>6. 1 .. n \subseteq C
    <3> HIDE DEF C
    <3> QED BY ONLY <2>3, <2>4, <2>5, Upwards
  <2>7. Of(n)
    <3>1. n \in 1 .. n
      BY <1>3
    <3> HIDE DEF Of
    <3> QED BY <2>6, <3>1
  <2>8. g[n] \in Seq(S)
    BY <1>3, <2>1
  <2> QED BY <1>1, <2>1, <2>7, <2>8
<1> QED BY <1>2, <1>3

-----------------------------------------------------------------------------
(* d and what b has below it; nothing comes twice in what is freed of q.    *)
Under(b, d) == {d} \union ToSet(b[d])
Alone(b, d) == IsInjective(b[d]) /\ d \notin ToSet(b[d])
Clean(q, b) ==
  /\ \A i \in 1 .. Len(q) : Alone(b, q[i])
  /\ \A i, j \in 1 .. Len(q) : i # j => Under(b, q[i]) \intersect Under(b, q[j]) = {}

(* What freeFileNode frees of a list of siblings.                          *)
LEMMA FreedIs ==
  ASSUME NEW D, NEW q \in Seq(D), NEW b \in [D -> Seq(D)]
  PROVE  /\ T!Freed(q, b) \in Seq(D)
         /\ \A x : x \in ToSet(T!Freed(q, b)) <=> \E i \in 1 .. Len(q) : x \in Under(b, q[i])
         /\ Clean(q, b) => IsInjective(T!Freed(q, b))
<1>1. PICK n \in Nat : n = Len(q) /\ DOMAIN q = 1 .. n /\ q \in [1 .. n -> D]
  BY LenProperties
<1>2. PICK p : p = [i \in DOMAIN q |-> Append(b[q[i]], q[i])]
  OBVIOUS
<1>3. T!Freed(q, b) = FlattenSeq(p)
  <2>1. T!Freed(q, b) = T!FlattenSeq(p)
    BY <1>2, Zenon DEF T!Freed
  <2> QED BY <2>1, SameOperators
<1>4. ASSUME NEW i \in 1 .. n
      PROVE  /\ b[q[i]] \in Seq(D) /\ q[i] \in D /\ p[i] = Append(b[q[i]], q[i])
             /\ p[i] \in Seq(D) /\ ToSet(p[i]) = Under(b, q[i])
             /\ Alone(b, q[i]) => IsInjective(p[i])
  <2>1. PICK c, x : c = b[q[i]] /\ x = q[i]
    OBVIOUS
  <2>2. x \in D /\ c \in Seq(D)
    BY <1>1, <2>1
  <2>3. p[i] = Append(c, x)
    BY <1>1, <1>2, <2>1, Zenon
  <2>4. /\ Append(c, x) \in Seq(D) /\ ToSet(Append(c, x)) = ToSet(c) \union {x}
        /\ (IsInjective(c) /\ x \notin ToSet(c) => IsInjective(Append(c, x)))
    BY <2>2, EnQueue
  <2> QED BY <2>1, <2>2, <2>3, <2>4, Zenon DEF Under, Alone
<1>5. p \in Seq(Seq(D)) /\ Len(p) = n
  <2>1. DOMAIN p = 1 .. n /\ p = [i \in 1 .. n |-> p[i]]
    BY <1>1, <1>2, Zenon
  <2>2. PICK Q : Q = Seq(D)
    OBVIOUS
  <2>3. \A i \in 1 .. n : p[i] \in Q
    BY <1>4, <2>2
  <2>4. p \in [1 .. n -> Q]
    BY <2>1, <2>3
  <2>5. p \in Seq(Q) /\ Len(p) = n
    BY ONLY <2>4, n \in Nat
  <2> QED BY <2>2, <2>5
<1>6. /\ FlattenSeq(p) \in Seq(D)
      /\ \A x : x \in ToSet(FlattenSeq(p)) <=> \E i \in 1 .. n : x \in ToSet(p[i])
      /\ (Apart(p) => IsInjective(FlattenSeq(p)))
  BY <1>5, Flattened, Zenon
<1>7. \A x : x \in ToSet(FlattenSeq(p)) <=> \E i \in 1 .. n : x \in Under(b, q[i])
  BY <1>4, <1>6, Zenon
<1>8. ASSUME Clean(q, b) PROVE Apart(p)
  <2>1. \A i \in 1 .. n : IsInjective(p[i])
    BY <1>1, <1>4, <1>8, Zenon DEF Clean
  <2>2. \A i, j \in 1 .. n : i # j => ToSet(p[i]) \intersect ToSet(p[j]) = {}
    BY <1>1, <1>4, <1>8, Zenon DEF Clean
  <2> QED BY <1>5, <2>1, <2>2, Zenon DEF Apart
<1> QED BY <1>1, <1>3, <1>6, <1>7, <1>8, Zenon

(* g[k][d] is what is freed below d in k lists.                             *)
Belows(g, D, N, kids) ==
  /\ g \in [0 .. N -> [D -> Seq(D)]]
  /\ \A d \in D : g[0][d] = <<>>
  /\ \A k \in 1 .. N, d \in D : g[k][d] = T!Freed(kids[d], g[k - 1])

LEMMA BelowsExist ==
  ASSUME HeapAssumption, NEW f, NEW kids, Shaped(f, kids), NEW N \in Nat,
         N = Cardinality(DOMAIN f)
  PROVE  \E g : /\ Belows(g, DOMAIN f, N, kids)
                /\ T!freeFileNode(f, root) = T!Freed(<<root>>, g[N])
<1>1. PICK D : D = DOMAIN f
  OBVIOUS
<1> DEFINE X == [D -> Seq(D)]
           F == [k \in 0 + 1 .. N |-> [b \in X |-> [d \in D |-> T!Freed(kids[d], b)]]]
           c == [d \in D |-> <<>>]
<1>2. c \in X
  <2>1. <<>> \in Seq(D)
    BY EmptySeq
  <2> QED BY <2>1
<1>3. \A b \in X : [d \in D |-> T!Freed(kids[d], b)] \in X
  <2>1. \A b \in X, d \in D : T!Freed(kids[d], b) \in Seq(D)
    <3>1. \A d \in D : kids[d] \in Seq(D)
      BY <1>1, ShapedFacts
    <3> QED BY <3>1, FreedIs
  <2> QED BY <2>1
<1>4. PICK G : /\ G \in [0 + 1 .. N -> [X -> X]]
               /\ \A k \in 0 + 1 .. N : \A b \in X : G[k][b] = [d \in D |-> T!Freed(kids[d], b)]
  <2> HIDE DEF X
  <2>1. F \in [0 + 1 .. N -> [X -> X]]
    BY <1>3
  <2>2. \A k \in 0 + 1 .. N : \A b \in X : F[k][b] = [d \in D |-> T!Freed(kids[d], b)]
    OBVIOUS
  <2> HIDE DEF F
  <2> QED BY <2>1, <2>2
<1>5. PICK g : Passes(g, X, c, 0, N, G)
  <2> HIDE DEF X, F, c
  <2>1. Turns(G, X, 0, N)
    BY <1>4 DEF Turns
  <2>2. 0 \in Nat /\ N \in Nat /\ 0 <= N
    OBVIOUS
  <2> QED BY ONLY <1>2, <2>1, <2>2, Loop
<1> HIDE DEF F
<1>6. /\ g \in [0 .. N -> X]
      /\ \A k \in 0 .. N : g[k] = IF k = 0 THEN c ELSE G[k][g[k - 1]]
  BY <1>5, Zenon DEF Passes
<1>7. ASSUME NEW k \in 1 .. N
      PROVE  k \in 0 .. N /\ k # 0 /\ g[k] = [d \in D |-> T!Freed(kids[d], g[k - 1])]
  <2>1. k \in 0 + 1 .. N /\ k \in 0 .. N /\ k # 0 /\ k - 1 \in 0 .. N
    OBVIOUS
  <2> HIDE DEF X
  <2>2. g[k - 1] \in X
    BY <1>6, <2>1
  <2>3. g[k] = G[k][g[k - 1]]
    BY <1>6, <2>1, Zenon
  <2> QED BY <1>4, <2>1, <2>2, <2>3, Zenon
<1>8. 0 \in 0 .. N /\ N \in 0 .. N
  OBVIOUS
<1>9. Belows(g, D, N, kids)
  <2>1. g \in [0 .. N -> [D -> Seq(D)]]
    BY <1>6
  <2>2. \A d \in D : g[0][d] = <<>>
    <3>1. g[0] = c
      BY <1>6, <1>8, Zenon
    <3> QED BY <3>1
  <2>3. \A k \in 1 .. N, d \in D : g[k][d] = T!Freed(kids[d], g[k - 1])
    BY <1>7, Zenon
  <2> QED BY <2>1, <2>2, <2>3, Zenon DEF Belows
<1> DEFINE Below(h) ==
      h = [k \in 0 .. N |->
            [d \in D |-> IF k = 0 THEN <<>> ELSE T!Freed(T!Children(f, d), h[k - 1])]]
           at == CHOOSE h : Below(h)
<1>10. ASSUME NEW h, Below(h)
       PROVE  /\ h[0] = c
              /\ \A k \in 1 .. N : h[k] = [d \in D |-> T!Freed(kids[d], h[k - 1])]
  <2>0. \A d \in D : T!Children(f, d) = kids[d]
    BY <1>1, ChildrenAre
  <2>1. h[0] = c
    <3>1. h[0] = [d \in D |-> IF 0 = 0 THEN <<>> ELSE T!Freed(T!Children(f, d), h[0 - 1])]
      BY <1>8, <1>10, Zenon
    <3> QED BY <3>1
  <2>2. ASSUME NEW k \in 1 .. N PROVE h[k] = [d \in D |-> T!Freed(kids[d], h[k - 1])]
    <3>1. h[k] = [d \in D |-> IF k = 0 THEN <<>> ELSE T!Freed(T!Children(f, d), h[k - 1])]
      BY <1>7, <1>10, Zenon
    <3>2. k # 0
      OBVIOUS
    <3> QED BY <2>0, <3>1, <3>2, Zenon
  <2> QED BY <2>1, <2>2
<1>11. Below(g)
  <2>0. \A d \in D : T!Children(f, d) = kids[d]
    BY <1>1, ChildrenAre
  <2>1. ASSUME NEW k \in 0 .. N
        PROVE  g[k] = [d \in D |-> IF k = 0 THEN <<>> ELSE T!Freed(T!Children(f, d), g[k - 1])]
    <3>1. CASE k = 0
      <4>1. g[k] = c
        BY <1>6, <3>1, Zenon
      <4> QED BY <3>1, <4>1, Zenon
    <3>2. CASE k # 0
      <4>1. k \in 1 .. N
        BY <3>2
      <4> QED BY <1>7, <2>0, <3>2, <4>1, Zenon
    <3> QED BY <3>1, <3>2
  <2>2. g = [k \in 0 .. N |-> g[k]]
    <3> HIDE DEF X
    <3> QED BY <1>6
  <2> QED BY <2>1, <2>2, Zenon
<1>12. Below(at)
  BY <1>11, Zenon
<1>13. T!freeFileNode(f, root) = T!Freed(T!From(f, root), at[N])
  <2>1. T!Cardinality(D) = N
    BY <1>1, SameOperators
  <2> QED BY <1>1, <2>1, Zenon DEF T!freeFileNode
<1>14. T!From(f, root) = <<root>>
  <2>1. PICK q : q = <<root>>
    OBVIOUS
  <2>2. root \in D /\ f[root].next = root
    BY <1>1 DEF Shaped
  <2>3. q \in Seq(D) /\ Len(q) = 1 /\ q[1] = root
    BY <2>1, <2>2
  <2>4. /\ \A i \in 1 .. 1 : f[q[i]].next = q[Beyond(i, 1)]
        /\ \A i, j \in 1 .. 1 : q[i] = q[j] => i = j
    <3>1. \A i \in 1 .. 1 : i = 1
      OBVIOUS
    <3>2. Beyond(1, 1) = 1
      BY DEF Beyond
    <3> QED BY <2>2, <2>3, <3>1, <3>2
  <2>5. 1 \in Nat /\ 1 > 0
    OBVIOUS
  <2>6. q \in Seq(DOMAIN f)
    BY <1>1, <2>3, Zenon
  <2>7. T!From(f, q[1]) = q
    BY <2>3, <2>4, <2>5, <2>6, FromIs, Zenon
  <2> QED BY <2>1, <2>3, <2>7
<1> HIDE DEF at, c, Below
<1>15. at[0] = c /\ \A k \in 1 .. N : at[k] = [d \in D |-> T!Freed(kids[d], at[k - 1])]
  BY <1>10, <1>12, Zenon
<1>16. 0 .. N \subseteq {k \in 0 .. N : at[k] = g[k]}
  <2> DEFINE C == {k \in 0 .. N : at[k] = g[k]}
  <2>1. 0 \in C
    BY <1>6, <1>8, <1>15, Zenon
  <2>2. ASSUME NEW k \in 0 + 1 .. N, k - 1 \in C PROVE k \in C
    <3>1. k \in 1 .. N /\ k \in 0 .. N /\ at[k - 1] = g[k - 1]
      BY <2>2
    <3> QED BY <1>7, <1>15, <3>1, Zenon
  <2>3. 0 \in Nat /\ N \in Nat
    OBVIOUS
  <2> HIDE DEF C
  <2>4. 0 .. N \subseteq C
    BY ONLY <2>1, <2>2, <2>3, Upwards
  <2> QED BY <2>4 DEF C
<1>17. at[N] = g[N]
  BY <1>8, <1>16, Zenon
<1> QED BY <1>1, <1>9, <1>13, <1>14, <1>17, Zenon

-----------------------------------------------------------------------------
(* How many directories lie above each node.                               *)
Ranked(f, r) ==
  /\ r \in [DOMAIN f -> Nat] /\ r[root] = 0
  /\ \A n \in DOMAIN f \ {root} : r[n] = r[f[n].parent] + 1

LEMMA KidRanks ==
  ASSUME HeapAssumption, NEW f, NEW kids, Shaped(f, kids), NEW r, Ranked(f, r),
         NEW d \in DOMAIN f, NEW i \in 1 .. Len(kids[d])
  PROVE  /\ kids[d][i] \in DOMAIN f /\ f[kids[d][i]].parent = d
         /\ r[kids[d][i]] = r[d] + 1
<1>1. PICK x : x = kids[d][i]
  OBVIOUS
<1>2. x \in DOMAIN f /\ x # root /\ f[x].parent = d
  BY <1>1, ShapedFacts
<1>3. r[x] = r[d] + 1
  BY <1>2, Zenon DEF Ranked
<1> QED BY <1>1, <1>2, <1>3

(* Nodes of one depth have nothing in common below them. *)
Deep(b, r, D) ==
  /\ \A d \in D : IsInjective(b[d]) /\ \A x \in ToSet(b[d]) : x \in D /\ r[x] > r[d]
  /\ \A d, e \in D : d # e /\ r[d] = r[e] => Under(b, d) \intersect Under(b, e) = {}

LEMMA DeepMore ==
  ASSUME HeapAssumption, NEW f, NEW kids, Shaped(f, kids), NEW r, Ranked(f, r),
         NEW D, D = DOMAIN f, NEW b \in [D -> Seq(D)], NEW h \in [D -> Seq(D)],
         Deep(b, r, D), \A d \in D : h[d] = T!Freed(kids[d], b)
  PROVE  Deep(h, r, D)
<1>1. \A d \in D : r[d] \in Nat
  BY DEF Ranked
<1>2. ASSUME NEW d \in D, NEW i \in 1 .. Len(kids[d])
      PROVE  /\ kids[d][i] \in D /\ f[kids[d][i]].parent = d /\ r[kids[d][i]] = r[d] + 1
             /\ \A x \in Under(b, kids[d][i]) : x \in D /\ r[x] > r[d]
             /\ Alone(b, kids[d][i])
  <2>1. PICK u : u = kids[d][i]
    OBVIOUS
  <2>2. u \in D /\ f[u].parent = d /\ r[u] = r[d] + 1
    BY <2>1, KidRanks
  <2>3. IsInjective(b[u]) /\ \A x \in ToSet(b[u]) : x \in D /\ r[x] > r[u]
    BY <2>2, Zenon DEF Deep
  <2>4. r[u] \in Nat /\ r[d] \in Nat /\ \A x \in D : r[x] \in Nat
    BY <1>1, <2>2
  <2>5. u \notin ToSet(b[u])
    <3>1. SUFFICES ASSUME u \in ToSet(b[u]) PROVE FALSE
      OBVIOUS
    <3>2. r[u] > r[u]
      BY <2>3, <3>1, Zenon
    <3> QED BY <2>4, <3>2
  <2>6. ASSUME NEW x \in Under(b, u) PROVE x \in D /\ r[x] > r[d]
    <3>1. CASE x = u
      BY <2>2, <2>4, <3>1
    <3>2. CASE x # u
      <4>1. x \in ToSet(b[u])
        BY <2>6, <3>2 DEF Under
      <4>2. x \in D /\ r[x] > r[u]
        BY <2>3, <4>1
      <4> QED BY <2>2, <2>4, <4>2
    <3> QED BY <3>1, <3>2
  <2>7. Alone(b, u)
    BY <2>3, <2>5 DEF Alone
  <2> QED BY <2>1, <2>2, <2>6, <2>7, Zenon
<1>3. ASSUME NEW d \in D PROVE Clean(kids[d], b)
  <2>1. ASSUME NEW i \in 1 .. Len(kids[d]), NEW j \in 1 .. Len(kids[d]), i # j
        PROVE  Under(b, kids[d][i]) \intersect Under(b, kids[d][j]) = {}
    <3>1. kids[d][i] # kids[d][j]
      <4>1. \A k, l \in 1 .. Len(kids[d]) : kids[d][k] = kids[d][l] => k = l
        BY ShapedFacts
      <4> QED BY <2>1, <4>1, Zenon
    <3>2. kids[d][i] \in D /\ kids[d][j] \in D /\ r[kids[d][i]] = r[kids[d][j]]
      BY <1>2
    <3> QED BY <3>1, <3>2, Zenon DEF Deep
  <2> QED BY <1>2, <2>1, Zenon DEF Clean
<1>4. ASSUME NEW d \in D
      PROVE  /\ IsInjective(h[d])
             /\ \A x : x \in ToSet(h[d])
                      <=> \E i \in 1 .. Len(kids[d]) : x \in Under(b, kids[d][i])
  <2>1. kids[d] \in Seq(D)
    BY ShapedFacts
  <2>2. /\ \A x : x \in ToSet(T!Freed(kids[d], b))
                    <=> \E i \in 1 .. Len(kids[d]) : x \in Under(b, kids[d][i])
        /\ (Clean(kids[d], b) => IsInjective(T!Freed(kids[d], b)))
    BY <2>1, FreedIs
  <2>3. h[d] = T!Freed(kids[d], b)
    OBVIOUS
  <2> QED BY <1>3, <2>2, <2>3, Zenon
<1>5. ASSUME NEW d \in D, NEW x \in ToSet(h[d]) PROVE x \in D /\ r[x] > r[d]
  <2>1. PICK i \in 1 .. Len(kids[d]) : x \in Under(b, kids[d][i])
    BY <1>4, <1>5, Zenon
  <2> QED BY <1>2, <2>1, Zenon
<1>6. ASSUME NEW d \in D, NEW e \in D, d # e, r[d] = r[e], NEW x,
             x \in Under(h, d), x \in Under(h, e)
      PROVE  FALSE
  <2>0. \A y \in D : r[y] > r[d] => y # d /\ y # e
    BY <1>1, <1>6
  <2>1. x \in ToSet(h[d]) /\ x \in ToSet(h[e])
    <3>1. (x = d \/ x \in ToSet(h[d])) /\ (x = e \/ x \in ToSet(h[e]))
      BY <1>6 DEF Under
    <3> QED BY <1>5, <1>6, <2>0, <3>1, Zenon
  <2>2. PICK i \in 1 .. Len(kids[d]) : x \in Under(b, kids[d][i])
    BY <1>4, <2>1, Zenon
  <2>3. PICK j \in 1 .. Len(kids[e]) : x \in Under(b, kids[e][j])
    BY <1>4, <2>1, Zenon
  <2>4. PICK u, v : u = kids[d][i] /\ v = kids[e][j]
    OBVIOUS
  <2>5. u \in D /\ v \in D /\ f[u].parent = d /\ f[v].parent = e /\ r[u] = r[d] + 1
        /\ r[v] = r[e] + 1
    BY <1>2, <2>4, Zenon
  <2>6. u # v /\ r[u] = r[v]
    BY <1>6, <2>5, Zenon
  <2>7. Under(b, u) \intersect Under(b, v) = {}
    BY <2>5, <2>6, Zenon DEF Deep
  <2> QED BY <2>2, <2>3, <2>4, <2>7, Zenon
<1>7. \A d, e \in D : d # e /\ r[d] = r[e] => Under(h, d) \intersect Under(h, e) = {}
  BY <1>6, Zenon
<1> QED BY <1>4, <1>5, <1>7, Zenon DEF Deep

LEMMA AlwaysDeep ==
  ASSUME HeapAssumption, NEW f, NEW kids, Shaped(f, kids), NEW r, Ranked(f, r),
         NEW D, D = DOMAIN f, NEW N \in Nat, NEW g, Belows(g, D, N, kids)
  PROVE  Deep(g[N], r, D)
<1> DEFINE C == {k \in 0 .. N : Deep(g[k], r, D)}
<1>1. 0 \in C
  <2>1. \A d \in D : g[0][d] = <<>>
    BY DEF Belows
  <2>2. Len(<<>>) = 0 /\ DOMAIN <<>> = {}
    BY EmptySeq
  <2>3. ToSet(<<>>) = {} /\ IsInjective(<<>>)
    BY <2>2 DEF ToSet, IsInjective
  <2>4. \A d \in D : Under(g[0], d) = {d}
    BY <2>1, <2>3 DEF Under
  <2>5. Deep(g[0], r, D)
    BY <2>1, <2>3, <2>4 DEF Deep
  <2> QED BY <2>5
<1>2. ASSUME NEW k \in 0 + 1 .. N, k - 1 \in C PROVE k \in C
  <2>1. k \in 1 .. N /\ k \in 0 .. N /\ k - 1 \in 0 .. N /\ Deep(g[k - 1], r, D)
    BY <1>2
  <2>2. PICK b, h : b = g[k - 1] /\ h = g[k]
    OBVIOUS
  <2>3. b \in [D -> Seq(D)] /\ h \in [D -> Seq(D)]
    <3>1. PICK X : X = [D -> Seq(D)]
      OBVIOUS
    <3>2. g \in [0 .. N -> X]
      BY <3>1, Zenon DEF Belows
    <3>3. g[k - 1] \in X /\ g[k] \in X
      BY <2>1, <3>2
    <3> QED BY <2>2, <3>1, <3>3
  <2>4. \A d \in D : h[d] = T!Freed(kids[d], b)
    BY <2>1, <2>2, Zenon DEF Belows
  <2>5. Deep(b, r, D)
    BY <2>1, <2>2
  <2>6. Deep(h, r, D)
    BY <2>3, <2>4, <2>5, DeepMore
  <2> QED BY <2>1, <2>2, <2>6
<1>3. 0 \in Nat /\ N \in Nat /\ N \in 0 .. N
  OBVIOUS
<1> HIDE DEF C
<1>4. 0 .. N \subseteq C
  BY ONLY <1>1, <1>2, <1>3, Upwards
<1> QED BY <1>3, <1>4 DEF C

(* No node is deeper than there are nodes. *)
LEMMA DepthBound ==
  ASSUME HeapAssumption, NEW f, NEW kids, Shaped(f, kids), NEW r, Ranked(f, r),
         NEW D, D = DOMAIN f, NEW d \in D
  PROVE  r[d] <= Cardinality(D)
<1>1. r \in [D -> Nat] /\ IsFiniteSet(D)
  BY DEF Ranked, Shaped
<1>2. PICK m \in Nat : m = r[d]
  BY <1>1
<1> DEFINE C == {k \in 0 .. m : \E x \in D : r[x] = m - k}
<1>3. 0 \in C
  BY <1>2
<1>4. ASSUME NEW k \in 0 + 1 .. m, k - 1 \in C PROVE k \in C
  <2>1. k \in 0 .. m
    OBVIOUS
  <2>2. PICK x \in D : r[x] = m - (k - 1)
    BY <1>4
  <2>3. r[x] > 0
    BY <2>2
  <2>4. x # root
    BY <2>3 DEF Ranked
  <2>5. r[x] = r[f[x].parent] + 1 /\ f[x].parent \in D
    BY <2>4, Neighbours DEF Ranked
  <2>6. PICK p \in D : p = f[x].parent
    BY <2>5
  <2>7. r[p] \in Nat
    BY <1>1
  <2>8. r[p] = m - k
    BY <2>2, <2>5, <2>6, <2>7
  <2> QED BY <2>1, <2>8
<1>5. 0 \in Nat /\ m \in Nat
  OBVIOUS
<1>6. \A k \in 0 .. m : \E x \in D : r[x] = m - k
  <2> HIDE DEF C
  <2>1. 0 .. m \subseteq C
    BY ONLY <1>3, <1>4, <1>5, Upwards
  <2> QED BY <2>1 DEF C
<1>7. PICK e \in [0 .. m -> D] : \A k \in 0 .. m : r[e[k]] = m - k
  <2> DEFINE e == [k \in 0 .. m |-> CHOOSE x \in D : r[x] = m - k]
  <2>1. \A k \in 0 .. m : e[k] \in D /\ r[e[k]] = m - k
    BY <1>6
  <2>2. e = [k \in 0 .. m |-> e[k]]
    OBVIOUS
  <2> HIDE DEF e
  <2>3. e \in [0 .. m -> D]
    BY <2>1, <2>2
  <2> QED BY <2>1, <2>3
<1>8. e \in Injection(0 .. m, D)
  <2>1. ASSUME NEW j \in 0 .. m, NEW k \in 0 .. m, e[j] = e[k] PROVE j = k
    <3>1. m - j = m - k
      BY <1>7, <2>1
    <3> QED BY <3>1
  <2> QED BY <1>7, <2>1 DEF Injection, IsInjective
<1>9. Cardinality(0 .. m) <= Cardinality(D)
  BY <1>1, <1>8, FS_Injection
<1>10. Cardinality(0 .. m) = m + 1
  <2>1. 0 \in Int /\ m \in Int
    OBVIOUS
  <2>2. Cardinality(0 .. m) = IF 0 > m THEN 0 ELSE m - 0 + 1
    BY <2>1, FS_Interval
  <2> QED BY <2>2
<1>11. Cardinality(D) \in Nat
  BY <1>1, FS_CardinalityType
<1> QED BY <1>2, <1>9, <1>10, <1>11

(* Every node is below the root, by no more lists than it is deep.         *)
LEMMA AllBelow ==
  ASSUME HeapAssumption, NEW f, NEW kids, Shaped(f, kids), NEW r, Ranked(f, r),
         NEW D, D = DOMAIN f, NEW N \in Nat, NEW g, Belows(g, D, N, kids), N = Cardinality(D)
  PROVE  \A d \in D : d \in Under(g[N], root)
<1>1. r \in [D -> Nat] /\ root \in D /\ r[root] = 0
  BY DEF Ranked, Shaped
<1> DEFINE Reaches(m) == \A d \in D : r[d] = m => Under(g[N - m], d) \subseteq Under(g[N], root)
           C == {m \in 0 .. N : Reaches(m)}
<1>2. ASSUME NEW d \in D, d # root
      PROVE  /\ f[d].parent \in D /\ r[d] = r[f[d].parent] + 1
             /\ \E i \in 1 .. Len(kids[f[d].parent]) : kids[f[d].parent][i] = d
  BY <1>2, Neighbours DEF Ranked
<1>3. 0 \in C
  <2>1. ASSUME NEW d \in D, r[d] = 0 PROVE d = root
    <3>1. SUFFICES ASSUME d # root PROVE FALSE
      OBVIOUS
    <3>2. PICK p \in D : r[d] = r[p] + 1
      BY <1>2, <3>1
    <3>3. r[p] \in Nat
      BY <1>1
    <3> QED BY <2>1, <3>2, <3>3
  <2>2. N - 0 = N
    OBVIOUS
  <2>3. Reaches(0)
    BY <2>1, <2>2
  <2> QED BY <2>3
<1>4. ASSUME NEW m \in 0 + 1 .. N, m - 1 \in C PROVE m \in C
  <2>1. m \in 0 .. N /\ Reaches(m - 1)
    BY <1>4
  <2>2. PICK k \in 1 .. N : k = N - (m - 1) /\ k - 1 = N - m /\ k \in 0 .. N /\ k - 1 \in 0 .. N
    OBVIOUS
  <2>3. ASSUME NEW d \in D, r[d] = m PROVE Under(g[k - 1], d) \subseteq Under(g[N], root)
    <3>1. d # root
      BY <1>1, <2>3
    <3>2. PICK p \in D : p = f[d].parent
      BY <1>2, <3>1
    <3>3. PICK i \in 1 .. Len(kids[p]) : kids[p][i] = d
      BY <1>2, <3>1, <3>2
    <3>4. r[p] = m - 1
      <4>1. r[d] = r[p] + 1
        BY <1>2, <3>1, <3>2
      <4>2. r[p] \in Nat
        BY <1>1
      <4> QED BY <2>3, <4>1, <4>2
    <3>5. Under(g[k], p) \subseteq Under(g[N], root)
      BY <2>1, <2>2, <3>4
    <3>6. g[k][p] = T!Freed(kids[p], g[k - 1])
      BY <2>2, Zenon DEF Belows
    <3>7. kids[p] \in Seq(D)
      BY ShapedFacts
    <3>8. g[k - 1] \in [D -> Seq(D)]
      <4>1. PICK X : X = [D -> Seq(D)]
        OBVIOUS
      <4>2. g \in [0 .. N -> X]
        BY <4>1, Zenon DEF Belows
      <4> QED BY <2>2, <4>1, <4>2
    <3>9. \A x : x \in ToSet(g[k][p])
                  <=> \E j \in 1 .. Len(kids[p]) : x \in Under(g[k - 1], kids[p][j])
      BY <3>6, <3>7, <3>8, FreedIs
    <3>10. ASSUME NEW x \in Under(g[k - 1], d) PROVE x \in Under(g[k], p)
      <4>1. x \in ToSet(g[k][p])
        BY <3>3, <3>9, <3>10, Zenon
      <4> QED BY <4>1 DEF Under
    <3> QED BY <3>5, <3>10, Zenon
  <2>4. Reaches(m)
    BY <2>2, <2>3
  <2> QED BY <2>1, <2>4
<1>5. 0 \in Nat /\ N \in Nat
  OBVIOUS
<1>6. 0 .. N \subseteq C
  <2> HIDE DEF C
  <2> QED BY ONLY <1>3, <1>4, <1>5, Upwards
<1>7. ASSUME NEW d \in D PROVE d \in Under(g[N], root)
  <2>1. r[d] \in 0 .. N
    BY <1>1, DepthBound
  <2>2. PICK m \in 0 .. N : m = r[d]
    BY <2>1
  <2>3. Reaches(m)
    <3> HIDE DEF Reaches
    <3> QED BY <1>6
  <2>4. Under(g[N - m], d) \subseteq Under(g[N], root)
    BY <2>2, <2>3
  <2> QED BY <2>4 DEF Under
<1> QED BY <1>7

(* What is freed, when every node has a depth: each node, once.            *)
LEMMA FreesAllOf ==
  ASSUME HeapAssumption, NEW f, NEW kids, Shaped(f, kids), NEW r, Ranked(f, r)
  PROVE  LET q == T!freeFileNode(f, root)
         IN  ToSet(q) = DOMAIN f /\ Len(q) = Cardinality(DOMAIN f)
<1>1. PICK D : D = DOMAIN f /\ root \in D /\ IsFiniteSet(D)
  BY DEF Shaped
<1>2. PICK N \in Nat : N = Cardinality(D)
  BY <1>1, FS_CardinalityType
<1>3. PICK g : Belows(g, D, N, kids) /\ T!freeFileNode(f, root) = T!Freed(<<root>>, g[N])
  BY <1>1, <1>2, BelowsExist, Zenon
<1>4. PICK b : b = g[N]
  OBVIOUS
<1>5. b \in [D -> Seq(D)]
  <2>1. PICK X : X = [D -> Seq(D)]
    OBVIOUS
  <2>2. g \in [0 .. N -> X]
    BY <1>3, <2>1, Zenon DEF Belows
  <2> QED BY <1>4, <2>1, <2>2
<1>6. Deep(b, r, D)
  BY <1>1, <1>3, <1>4, AlwaysDeep, Zenon
<1>7. \A d \in D : d \in Under(b, root)
  BY <1>1, <1>2, <1>3, <1>4, AllBelow, Zenon
<1>8. PICK s : s = <<root>>
  OBVIOUS
<1>9. s \in Seq(D) /\ Len(s) = 1 /\ s[1] = root /\ \A i \in 1 .. 1 : i = 1
  BY <1>1, <1>8
<1>10. Alone(b, root)
  <2>1. \A x \in D : r[x] \in Nat
    BY <1>1 DEF Ranked
  <2>2. IsInjective(b[root]) /\ \A x \in ToSet(b[root]) : x \in D /\ r[x] > r[root]
    BY <1>1, <1>6, Zenon DEF Deep
  <2>3. root \notin ToSet(b[root])
    BY <1>1, <2>1, <2>2
  <2> QED BY <2>2, <2>3 DEF Alone
<1>11. Clean(s, b)
  <2>1. \A i \in 1 .. Len(s) : i = 1 /\ s[i] = root
    BY <1>9
  <2> QED BY <1>10, <2>1, Zenon DEF Clean
<1>12. PICK q : q = T!freeFileNode(f, root)
  OBVIOUS
<1>13. /\ q \in Seq(D) /\ IsInjective(q)
       /\ \A x : x \in ToSet(q) <=> x \in Under(b, root)
  <2>1. /\ T!Freed(s, b) \in Seq(D) /\ IsInjective(T!Freed(s, b))
        /\ \A x : x \in ToSet(T!Freed(s, b)) <=> \E i \in 1 .. Len(s) : x \in Under(b, s[i])
    BY <1>5, <1>9, <1>11, FreedIs
  <2>2. 1 \in 1 .. Len(s) /\ \A i \in 1 .. Len(s) : s[i] = root
    BY <1>9
  <2>3. q = T!Freed(s, b)
    BY <1>3, <1>4, <1>8, <1>12
  <2> QED BY <2>1, <2>2, <2>3, Zenon
<1>14. ToSet(q) = D
  <2>1. ToSet(q) \subseteq D
    BY <1>13, SetOfQueue
  <2> QED BY <1>7, <1>13, <2>1
<1>15. Len(q) = Cardinality(D)
  <2>1. PICK m \in Nat : m = Len(q) /\ q \in [1 .. m -> D] /\ DOMAIN q = 1 .. m
    BY <1>13, LenProperties
  <2>2. D = {q[i] : i \in 1 .. m}
    BY <1>13, <1>14, <2>1, SetOfQueue
  <2>3. q \in Bijection(1 .. m, D)
    BY <1>13, <2>1, <2>2 DEF Bijection, Injection, Surjection, IsInjective
  <2>4. Cardinality(D) = m
    BY <1>1, <2>3, FS_CountingElements DEF ExistsBijection
  <2> QED BY <2>1, <2>4
<1> QED BY <1>1, <1>12, <1>14, <1>15, Zenon

-----------------------------------------------------------------------------
(* Every FileNode is so many directories below the root.                   *)
Depths == \E r : Ranked(node, r)

(* Who is there stays below its parent; who comes has one that is there.   *)
Keeps(f, g) ==
  \A x \in DOMAIN g :
    IF x \in DOMAIN f THEN g[x].parent = f[x].parent ELSE g[x].parent \in DOMAIN f

LEMMA KeepsDepths ==
  ASSUME HeapAssumption, NEW f, NEW kids, Shaped(f, kids), NEW g, NEW more, Shaped(g, more),
         NEW r, Ranked(f, r), Keeps(f, g)
  PROVE  \E u : Ranked(g, u)
<1>1. PICK D, E : D = DOMAIN f /\ E = DOMAIN g
  OBVIOUS
<1>2. /\ r \in [D -> Nat] /\ r[root] = 0 /\ root \in D /\ root \in E
      /\ \A x \in D \ {root} : f[x].parent \in D /\ r[x] = r[f[x].parent] + 1
      /\ \A x \in E \ {root} : g[x].parent \in E
  <2>1. /\ r \in [D -> Nat] /\ r[root] = 0
        /\ \A x \in D \ {root} : r[x] = r[f[x].parent] + 1
    BY <1>1, Zenon DEF Ranked
  <2>2. root \in D /\ \A x \in D \ {root} : f[x].parent \in D
    BY <1>1, Zenon DEF Shaped
  <2>3. root \in E /\ \A x \in E \ {root} : g[x].parent \in E
    BY <1>1, Zenon DEF Shaped
  <2> QED BY <2>1, <2>2, <2>3
<1>3. \A x \in E : IF x \in D THEN g[x].parent = f[x].parent ELSE g[x].parent \in D
  BY <1>1, Zenon DEF Keeps
<1> DEFINE u == [x \in E |-> IF x \in D THEN r[x] ELSE r[g[x].parent] + 1]
<1>4. /\ \A x \in E : u[x] = IF x \in D THEN r[x] ELSE r[g[x].parent] + 1
      /\ u \in [E -> Nat]
  BY <1>2, <1>3
<1> HIDE DEF u
<1>5. u[root] = 0
  BY <1>2, <1>4
<1>6. ASSUME NEW x \in E \ {root} PROVE u[x] = u[g[x].parent] + 1
  <2>1. PICK p \in E : p = g[x].parent
    BY <1>2
  <2>2. p \in D
    BY <1>2, <1>3, <2>1
  <2>3. u[p] = r[p]
    BY <1>4, <2>2
  <2>4. CASE x \in D
    BY <1>2, <1>3, <1>4, <2>1, <2>3, <2>4
  <2>5. CASE x \notin D
    BY <1>4, <2>1, <2>3, <2>5
  <2> QED BY <2>4, <2>5
<1>7. Ranked(g, u)
  BY <1>1, <1>4, <1>5, <1>6, Zenon DEF Ranked
<1> QED BY <1>7

LEMMA UnlinkKeeps ==
  ASSUME HeapAssumption, NEW f, NEW kids, Shaped(f, kids), NEW n \in DOMAIN f, n # root,
         NEW g, g = T!Unlinked(f, n)
  PROVE  Keeps(f, g)
<1>1. Shrunk(f, g, n)
  <2>1. PICK D : D = DOMAIN f
    OBVIOUS
  <2>2. f \in [D -> FileNode] /\ D \subseteq FileNodes
    BY <2>1 DEF Shaped
  <2>3. f[n].next \in D /\ f[n].previous \in D
    BY <2>1, NeighboursLive
  <2> QED BY <2>1, <2>2, <2>3, UnlinkedShrinks
<1>2. DOMAIN g = DOMAIN f \ {n} /\ \A x \in DOMAIN g : g[x].parent = f[x].parent
  BY <1>1, Zenon DEF Shrunk, Alike
<1> QED BY <1>2, Zenon DEF Keeps

LEMMA StepKeeps == ASSUME HeapAssumption, HInv, [Next]_vars PROVE Keeps(node, node')
<1>1. PICK kids : Shaped(node, kids)
  BY DEF HInv
<1>2. current \in DOMAIN node
  BY DEF HInv, Live
<1>3. ASSUME NEW s \in Names, NEW isDir \in BOOLEAN, Create(s, isDir) PROVE Keeps(node, node')
  <2>1. PICK n \in FileNodes \ DOMAIN node :
          node' = T!insertFileNodeAsChild(node, current, n, s, isDir)
    BY <1>3 DEF Create, Live
  <2>2. PICK g, tail, head : /\ g = node' /\ tail = LastOr(kids[current], n)
                             /\ head = FirstOr(kids[current], n)
    OBVIOUS
  <2>3. Grown(node, g, current, n, s, isDir, tail, head)
    BY <1>1, <1>2, <2>1, <2>2, Inserted
  <2>4. /\ DOMAIN g = DOMAIN node \union {n} /\ g[n] = T!NewNode(s, isDir, current, tail, head)
        /\ \A x \in DOMAIN node : g[x].parent = node[x].parent
    BY <2>3, Zenon DEF Grown, Alike
  <2>5. g[n].parent = current
    <3>1. T!NewNode(s, isDir, current, tail, head).parent = current
      BY DEF T!NewNode
    <3> QED BY <2>4, <3>1
  <2>6. Keeps(node, g)
    BY <1>2, <2>4, <2>5 DEF Keeps
  <2> QED BY <2>2, <2>6
<1>4. ASSUME NEW s \in Names, Search(s) # NULL
      PROVE  Search(s) \in DOMAIN node /\ Search(s) # root
  <2>1. PICK x : x = Search(s)
    OBVIOUS
  <2> QED BY <1>1, <1>2, <1>4, <2>1, FoundIs
<1>5. ASSUME NEW s \in Names, removeDirectory(s) PROVE Keeps(node, node')
  <2>1. PICK x : x = Search(s)
    OBVIOUS
  <2>2. CASE node[current].name = s /\ s # SLASH /\ node' = T!Unlinked(node, current)
    <3>1. current # root
      BY <1>1, <2>2 DEF Shaped
    <3> QED BY <1>1, <1>2, <2>2, <3>1, UnlinkKeeps
  <2>3. CASE x # NULL /\ node' = T!Unlinked(node, x)
    <3>1. x \in DOMAIN node /\ x # root
      BY <1>4, <2>1, <2>3
    <3> QED BY <1>1, <2>3, <3>1, UnlinkKeeps
  <2> QED BY <1>5, <2>1, <2>2, <2>3, Zenon DEF removeDirectory
<1>6. ASSUME NEW s \in Names, deleteFile(s) PROVE Keeps(node, node')
  <2>1. PICK n : n = Search(s)
    OBVIOUS
  <2>2. n # NULL /\ node' = T!Unlinked(node, n)
    BY <1>6, <2>1, Zenon DEF deleteFile
  <2>3. n \in DOMAIN node /\ n # root
    BY <1>4, <2>1, <2>2
  <2> QED BY <1>1, <2>2, <2>3, UnlinkKeeps
<1>7. ASSUME NEW s \in Names, NEW t \in Texts, NEW k \in 1 .. MaxBlocks, writeFile(s, t, k)
      PROVE  Keeps(node, node')
  <2>1. PICK n : n = Search(s)
    OBVIOUS
  <2>2. n # NULL /\ \E b : node' = [node EXCEPT ![n].blocks = b]
    BY <1>7, <2>1, Zenon DEF writeFile
  <2>3. PICK b : node' = [node EXCEPT ![n].blocks = b]
    BY <2>2
  <2>4. n \in DOMAIN node
    BY <1>4, <2>1, <2>2
  <2>5. node[n] \in FileNode
    BY <1>1, <2>4, ShapedFacts
  <2>6. PICK u : u = [node[n] EXCEPT !.blocks = b]
    OBVIOUS
  <2>7. u.parent = node[n].parent
    BY <2>5, <2>6 DEF FileNode
  <2>8. node' = [node EXCEPT ![n] = u]
    BY <2>3, <2>6, Zenon
  <2>9. DOMAIN node' = DOMAIN node /\ \A x \in DOMAIN node : node'[x].parent = node[x].parent
    BY <2>4, <2>7, <2>8
  <2> QED BY <2>9, Zenon DEF Keeps
<1>8. ASSUME node' = node PROVE Keeps(node, node')
  BY <1>8, Zenon DEF Keeps
<1>9. ASSUME NEW s \in Names, changeDirectory(s) PROVE node' = node
  BY <1>9, Zenon DEF changeDirectory
<1>10. exitProgram \/ UNCHANGED vars => node' = node
  BY DEF exitProgram, vars
<1> QED BY <1>3, <1>5, <1>6, <1>7, <1>8, <1>9, <1>10, Zenon DEF Next

(* Every FileNode stays so many directories below the root: no directory   *)
(* gets into what is below it (file_node.c:25-169).                        *)
THEOREM DepthsAlways == Spec => [](HInv /\ Depths)
<1>1. Init => HInv /\ Depths
  <2>1. SUFFICES ASSUME Init PROVE HInv /\ Depths
    OBVIOUS
  <2>2. DOMAIN node = {root}
    BY <2>1 DEF Init
  <2>3. PICK r : r = [n \in {root} |-> 0]
    OBVIOUS
  <2>4. Ranked(node, r)
    BY <2>2, <2>3 DEF Ranked
  <2> QED BY <2>1, <2>4, HeapAssumption, Begins DEF Depths
<1>2. HInv /\ Depths /\ [Next]_vars => (HInv /\ Depths)'
  <2>1. SUFFICES ASSUME HInv, Depths, [Next]_vars PROVE (HInv /\ Depths)'
    OBVIOUS
  <2>2. HInv'
    BY <2>1, HeapAssumption, Goes
  <2>3. PICK kids : Shaped(node, kids)
    BY <2>1 DEF HInv
  <2>4. PICK more : Shaped(node', more)
    BY <2>2 DEF HInv
  <2>5. PICK r : Ranked(node, r)
    BY <2>1 DEF Depths
  <2>6. Keeps(node, node')
    BY <2>1, HeapAssumption, StepKeeps
  <2>7. \E u : Ranked(node', u)
    BY <2>3, <2>4, <2>5, <2>6, HeapAssumption, KeepsDepths
  <2> QED BY <2>2, <2>7 DEF Depths
<1> QED BY <1>1, <1>2, PTL DEF Spec

(* exit frees every FileNode, and none twice, whatever was created and     *)
(* removed before: what is below a node is a tree, all of it below the     *)
(* root (file_operations.c:312-338).                                       *)
THEOREM FreesAllAlways == Spec => []FreesAll
<1>1. HInv /\ Depths => FreesAll
  <2>1. SUFFICES ASSUME HInv, Depths PROVE FreesAll
    OBVIOUS
  <2>2. PICK kids : Shaped(node, kids)
    BY <2>1 DEF HInv
  <2>3. PICK r : Ranked(node, r)
    BY <2>1 DEF Depths
  <2>4. PICK q : q = T!freeFileNode(node, root)
    OBVIOUS
  <2>5. ToSet(q) = DOMAIN node /\ Len(q) = Cardinality(DOMAIN node)
    BY <2>2, <2>3, <2>4, HeapAssumption, FreesAllOf, Zenon
  <2> QED BY <2>4, <2>5, Zenon DEF FreesAll, Live
<1> QED BY <1>1, DepthsAlways, PTL
=============================================================================
