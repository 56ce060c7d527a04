---------------------------- MODULE QueueLemmas -----------------------------
(***************************************************************************)
(* What the list operations of the programs do to lists without            *)
(* repetitions, which the models have as sequences.                        *)
(***************************************************************************)
EXTENDS Integers, SequencesExt, SequenceTheorems, WellFoundedInduction, TLAPS

(* A queue of some processes is a queue of more. *)
LEMMA SeqWider == ASSUME NEW S, NEW T, S \subseteq T, NEW q \in Seq(S) PROVE q \in Seq(T)
  OBVIOUS

(* What the elements of a queue are. *)
LEMMA SetOfQueue ==
  ASSUME NEW S, NEW q \in Seq(S)
  PROVE  ToSet(q) = {q[i] : i \in 1 .. Len(q)} /\ ToSet(q) \subseteq S
  BY DEF ToSet

(* A node is put at the tail: enQueue (process_scheduling.c:92-122),       *)
(* insertFileNodeAtTail (file_node.c:25-56).                               *)
LEMMA EnQueue ==
  ASSUME NEW S, NEW q \in Seq(S), NEW p \in S
  PROVE  /\ Append(q, p) \in Seq(S)
         /\ ToSet(Append(q, p)) = ToSet(q) \union {p}
         /\ IsInjective(q) /\ p \notin ToSet(q) => IsInjective(Append(q, p))
         /\ q # <<>> => Head(Append(q, p)) = Head(q)
<1> DEFINE r == Append(q, p)
<1>1. /\ r \in Seq(S) /\ Len(r) = Len(q) + 1 /\ r[Len(q) + 1] = p /\ r # <<>>
      /\ \A i \in 1 .. Len(q) : r[i] = q[i]
  BY AppendProperties
<1>2. DOMAIN q = 1 .. Len(q) /\ DOMAIN r = 1 .. Len(r) /\ Len(q) \in Nat
  BY <1>1, LenProperties
<1> HIDE DEF r
<1>3. ToSet(r) = ToSet(q) \union {p}
  BY <1>1, <1>2 DEF ToSet
<1>4. IsInjective(q) /\ p \notin ToSet(q) => IsInjective(r)
  BY <1>1, <1>2 DEF ToSet, IsInjective
<1>5. q # <<>> => Head(r) = Head(q)
  BY <1>1, <1>2, EmptySeq
<1> QED BY <1>1, <1>3, <1>4, <1>5 DEF r

(* The head is taken: deQueue (process_scheduling.c:124-156).              *)
LEMMA DeQueue ==
  ASSUME NEW S, NEW q \in Seq(S), q # <<>>
  PROVE  /\ Head(q) \in S /\ Head(q) \in ToSet(q) /\ Tail(q) \in Seq(S)
         /\ IsInjective(q) => /\ IsInjective(Tail(q))
                           /\ ToSet(Tail(q)) = ToSet(q) \ {Head(q)}
<1> DEFINE r == Tail(q)
<1>1. /\ Head(q) \in S /\ r \in Seq(S) /\ Len(r) = Len(q) - 1 /\ Head(q) = q[1]
      /\ \A i \in 1 .. Len(r) : r[i] = q[i + 1]
  BY HeadTailProperties
<1>2. DOMAIN q = 1 .. Len(q) /\ DOMAIN r = 1 .. Len(r) /\ Len(q) \in Nat \ {0}
  BY <1>1, LenProperties, EmptySeq
<1> HIDE DEF r
<1>3. Head(q) \in ToSet(q)
  BY <1>1, <1>2 DEF ToSet
<1>4. ASSUME IsInjective(q) PROVE IsInjective(r) /\ ToSet(r) = ToSet(q) \ {Head(q)}
  <2>1. IsInjective(r)
    <3>1. SUFFICES ASSUME NEW i \in DOMAIN r, NEW k \in DOMAIN r, r[i] = r[k] PROVE i = k
      BY DEF IsInjective
    <3>2. i + 1 \in DOMAIN q /\ k + 1 \in DOMAIN q /\ q[i + 1] = q[k + 1]
      BY <1>1, <1>2, <3>1
    <3>3. i + 1 = k + 1
      BY <1>4, <3>2 DEF IsInjective
    <3> QED BY <1>2, <3>3
  <2>2. ASSUME NEW i \in DOMAIN r PROVE r[i] \in ToSet(q) \ {Head(q)}
    BY <1>1, <1>2, <1>4, <2>2 DEF IsInjective, ToSet
  <2>3. ASSUME NEW i \in DOMAIN q, q[i] # Head(q) PROVE q[i] \in ToSet(r)
    <3>1. i - 1 \in DOMAIN r /\ r[i - 1] = q[i]
      BY <1>1, <1>2, <2>3
    <3> QED BY <3>1 DEF ToSet
  <2> QED BY <2>1, <2>2, <2>3 DEF ToSet
<1> QED BY <1>1, <1>3, <1>4 DEF r

(* A node is taken out: removeQueueNode (process_scheduling.c:158-191),    *)
(* deleteFileNodeAtHead (file_node.c:81-169), deleteUser                   *)
(* (CRUD_operations.c:147-181).                                            *)
LEMMA RemoveNode ==
  ASSUME NEW S, NEW q \in Seq(S), NEW n \in DOMAIN q
  PROVE  /\ RemoveAt(q, n) \in Seq(S) /\ Len(RemoveAt(q, n)) = Len(q) - 1
         /\ DOMAIN RemoveAt(q, n) = 1 .. Len(RemoveAt(q, n))
         /\ \A i \in DOMAIN RemoveAt(q, n) : RemoveAt(q, n)[i] =
            IF i < n THEN q[i] ELSE q[i + 1]
         /\ IsInjective(q) => /\ IsInjective(RemoveAt(q, n))
                           /\ ToSet(RemoveAt(q, n)) = ToSet(q) \ {q[n]}
         /\ n # 1 => RemoveAt(q, n) # <<>> /\ Head(RemoveAt(q, n)) = Head(q)
<1> DEFINE a == SubSeq(q, 1, n - 1)
           b == SubSeq(q, n + 1, Len(q))
           r == a \o b
<1>1. DOMAIN q = 1 .. Len(q) /\ Len(q) \in Nat /\ \A i \in 1 .. Len(q) : q[i] \in S
  BY LenProperties, ElementOfSeq
<1>2. a \in Seq(S) /\ Len(a) = n - 1 /\ \A i \in 1 .. n - 1 : a[i] = q[i]
  BY <1>1, SubSeqProperties
<1>3. b \in Seq(S) /\ Len(b) = Len(q) - n /\ \A i \in 1 .. Len(q) - n : b[i] = q[n + i]
  BY <1>1, SubSeqProperties
<1> HIDE DEF a, b
<1>4. /\ r \in Seq(S) /\ Len(r) = Len(q) - 1
      /\ \A i \in 1 .. Len(r) : r[i] = IF i < n THEN q[i] ELSE q[i + 1]
  <2>1. /\ r \in Seq(S) /\ Len(r) = Len(a) + Len(b)
        /\ \A i \in 1 .. Len(a) + Len(b) : r[i] = IF i <= Len(a) THEN a[i] ELSE b[i - Len(a)]
    BY <1>2, <1>3, ConcatProperties
  <2> HIDE DEF r
  <2>2. Len(r) = Len(q) - 1
    BY <1>1, <1>2, <1>3, <2>1
  <2>3. ASSUME NEW i \in 1 .. Len(r)
        PROVE  r[i] = IF i < n THEN q[i] ELSE q[i + 1]
    <3>1. CASE i < n
      BY <1>1, <1>2, <1>3, <2>1, <2>2, <3>1
    <3>2. CASE ~(i < n)
      <4>0. ~(i <= Len(a)) /\ i \in 1 .. Len(a) + Len(b) /\ Len(a) = n - 1
        BY <1>1, <1>2, <1>3, <2>1, <3>2
      <4>1. r[i] = b[i - (n - 1)] /\ i - (n - 1) \in 1 .. Len(q) - n
        <5>1. r[i] = b[i - Len(a)]
          BY <2>1, <4>0
        <5>2. i - (n - 1) \in 1 .. Len(q) - n
          BY <1>1, <2>2, <3>2
        <5> QED BY <4>0, <5>1, <5>2
      <4>2. n + (i - (n - 1)) = i + 1
        BY <1>1
      <4> QED BY <1>3, <3>2, <4>1, <4>2
    <3> QED BY <3>1, <3>2
  <2> QED BY <2>1, <2>2, <2>3
<1>5. DOMAIN r = 1 .. Len(r)
  BY <1>4, LenProperties
<1> HIDE DEF r
<1>6. ASSUME IsInjective(q) PROVE IsInjective(r) /\ ToSet(r) = ToSet(q) \ {q[n]}
  <2>1. IsInjective(r)
    <3>1. SUFFICES ASSUME NEW i \in 1 .. Len(r), NEW k \in 1 .. Len(r), r[i] = r[k]
                   PROVE  i = k
      BY <1>5 DEF IsInjective
    <3>2. \A h \in 1 .. Len(r) : (IF h < n THEN h ELSE h + 1) \in DOMAIN q
      BY <1>1, <1>4
    <3>3. q[IF i < n THEN i ELSE i + 1] = q[IF k < n THEN k ELSE k + 1]
      BY <1>4, <3>1
    <3>4. (IF i < n THEN i ELSE i + 1) = (IF k < n THEN k ELSE k + 1)
      BY <1>6, <3>2, <3>3 DEF IsInjective
    <3> QED BY <1>1, <3>4
  <2>2. ASSUME NEW i \in DOMAIN r PROVE r[i] \in ToSet(q) \ {q[n]}
    BY <1>1, <1>4, <1>5, <1>6, <2>2 DEF IsInjective, ToSet
  <2>3. ASSUME NEW i \in DOMAIN q, q[i] # q[n] PROVE q[i] \in ToSet(r)
    <3>1. CASE i < n
      BY <1>1, <1>4, <1>5, <3>1 DEF ToSet
    <3>2. CASE i > n
      <4>1. i - 1 \in DOMAIN r /\ r[i - 1] = q[i]
        BY <1>1, <1>4, <1>5, <3>2
      <4> QED BY <4>1 DEF ToSet
    <3> QED BY <1>1, <2>3, <3>1, <3>2
  <2> QED BY <2>1, <2>2, <2>3 DEF ToSet
<1>7. n # 1 => r # <<>> /\ Head(r) = Head(q)
  BY <1>1, <1>4, <1>5, EmptySeq
<1> QED BY <1>4, <1>5, <1>6, <1>7 DEF r, a, b, RemoveAt

(* A queue without x is one of what is left.                               *)
LEMMA SeqOfOthers ==
  ASSUME NEW S, NEW q \in Seq(S), NEW x, x \notin ToSet(q)
  PROVE  q \in Seq(S \ {x})
<1>1. Len(q) \in Nat /\ q \in [1 .. Len(q) -> S] /\ ToSet(q) = {q[i] : i \in 1 .. Len(q)}
  BY LenProperties, SetOfQueue
<1>2. \A i \in 1 .. Len(q) : q[i] \in S \ {x}
  BY <1>1
<1>3. q \in [1 .. Len(q) -> S \ {x}]
  BY <1>1, <1>2
<1> QED BY <1>1, <1>3, IsASeq

(* Blocks are put after those in the list: deleteFile frees, writeFile     *)
(* fills (virtual_file_system.c:256-277, 556-601).                         *)
LEMMA Joined ==
  ASSUME NEW S, NEW p \in Seq(S), NEW q \in Seq(S)
  PROVE  /\ p \o q \in Seq(S) /\ Len(p \o q) = Len(p) + Len(q)
         /\ ToSet(p \o q) = ToSet(p) \union ToSet(q)
         /\ IsInjective(p) /\ IsInjective(q) /\ ToSet(p) \intersect ToSet(q) = {}
              => IsInjective(p \o q)
<1> DEFINE r == p \o q
<1>1. /\ r \in Seq(S) /\ Len(r) = Len(p) + Len(q)
      /\ \A i \in 1 .. Len(p) + Len(q) : r[i] = IF i <= Len(p) THEN p[i] ELSE q[i - Len(p)]
  BY ConcatProperties
<1>2. /\ DOMAIN p = 1 .. Len(p) /\ DOMAIN q = 1 .. Len(q) /\ DOMAIN r = 1 .. Len(r)
      /\ Len(p) \in Nat /\ Len(q) \in Nat
  BY <1>1, LenProperties
<1> HIDE DEF r
<1>3. \A i \in DOMAIN p : i \in DOMAIN r /\ r[i] = p[i]
  BY <1>1, <1>2
<1>4. \A i \in DOMAIN q : Len(p) + i \in DOMAIN r /\ r[Len(p) + i] = q[i]
  <2>1. SUFFICES ASSUME NEW i \in DOMAIN q
                 PROVE  Len(p) + i \in DOMAIN r /\ r[Len(p) + i] = q[i]
    OBVIOUS
  <2>2. Len(p) + i \in 1 .. Len(p) + Len(q) /\ ~(Len(p) + i <= Len(p))
          /\ (Len(p) + i) - Len(p) = i
    BY <1>2
  <2> QED BY <1>1, <1>2, <2>2
<1>5. ASSUME NEW i \in DOMAIN r
      PROVE  \/ i \in DOMAIN p /\ r[i] = p[i]
             \/ i - Len(p) \in DOMAIN q /\ r[i] = q[i - Len(p)] /\ i > Len(p)
  BY <1>1, <1>2
<1>6. ToSet(r) = ToSet(p) \union ToSet(q)
  <2>1. ToSet(p) \subseteq ToSet(r)
    BY <1>3 DEF ToSet
  <2>2. ToSet(q) \subseteq ToSet(r)
    <3>1. SUFFICES ASSUME NEW i \in DOMAIN q PROVE q[i] \in ToSet(r)
      BY DEF ToSet
    <3> QED BY <1>4 DEF ToSet
  <2>3. ToSet(r) \subseteq ToSet(p) \union ToSet(q)
    BY <1>5 DEF ToSet
  <2> QED BY <2>1, <2>2, <2>3
<1>7. ASSUME IsInjective(p), IsInjective(q), ToSet(p) \intersect ToSet(q) = {}
      PROVE  IsInjective(r)
  <2>1. SUFFICES ASSUME NEW i \in DOMAIN r, NEW k \in DOMAIN r, r[i] = r[k] PROVE i = k
    BY DEF IsInjective
  <2>2. CASE i \in DOMAIN p /\ k \in DOMAIN p
    BY <1>3, <1>7, <2>1, <2>2 DEF IsInjective
  <2>3. CASE i \notin DOMAIN p /\ k \notin DOMAIN p
    <3>1. i - Len(p) \in DOMAIN q /\ k - Len(p) \in DOMAIN q /\ q[i - Len(p)] = q[k - Len(p)]
      BY <1>5, <2>1, <2>3
    <3>2. i - Len(p) = k - Len(p)
      BY <1>7, <3>1 DEF IsInjective
    <3> QED BY <1>2, <3>2
  <2>4. CASE i \in DOMAIN p /\ k \notin DOMAIN p
    <3>1. r[i] \in ToSet(p) /\ r[k] \in ToSet(q)
      BY <1>3, <1>5, <2>4 DEF ToSet
    <3> QED BY <1>7, <2>1, <3>1
  <2>5. CASE i \notin DOMAIN p /\ k \in DOMAIN p
    <3>1. r[k] \in ToSet(p) /\ r[i] \in ToSet(q)
      BY <1>3, <1>5, <2>5 DEF ToSet
    <3> QED BY <1>7, <2>1, <3>1
  <2> QED BY <2>2, <2>3, <2>4, <2>5
<1> QED BY <1>1, <1>6, <1>7 DEF r

(* The first k elements and the rest.                                      *)
LEMMA Parted ==
  ASSUME NEW S, NEW q \in Seq(S), NEW k \in 0 .. Len(q)
  PROVE  LET a == SubSeq(q, 1, k)
             b == SubSeq(q, k + 1, Len(q)) IN
         /\ a \in Seq(S) /\ b \in Seq(S) /\ Len(a) = k /\ Len(b) = Len(q) - k
         /\ ToSet(q) = ToSet(a) \union ToSet(b)
         /\ \A i \in 1 .. k : a[i] = q[i]
         /\ IsInjective(q) => /\ IsInjective(a) /\ IsInjective(b)
                              /\ ToSet(a) \intersect ToSet(b) = {}
<1> DEFINE a == SubSeq(q, 1, k)
           b == SubSeq(q, k + 1, Len(q))
<1>1. Len(q) \in Nat /\ DOMAIN q = 1 .. Len(q) /\ \A i \in 1 .. Len(q) : q[i] \in S
  BY LenProperties, ElementOfSeq
<1>2. a \in Seq(S) /\ Len(a) = k /\ \A i \in 1 .. k : a[i] = q[i]
  BY <1>1, SubSeqProperties
<1>3. b \in Seq(S) /\ Len(b) = Len(q) - k /\ \A i \in 1 .. Len(q) - k : b[i] = q[k + i]
  <2>1. PICK m \in Int : m = k + 1
    BY <1>1
  <2>2. \A i \in m .. Len(q) : q[i] \in S
    BY <1>1, <2>1
  <2>3. /\ b \in Seq(S) /\ Len(b) = IF m <= Len(q) THEN Len(q) - m + 1 ELSE 0
        /\ \A i \in 1 .. Len(q) - m + 1 : b[i] = q[m + i - 1]
    <3>1. b = SubSeq(q, m, Len(q)) /\ Len(q) \in Int
      BY <1>1, <2>1
    <3> HIDE DEF b
    <3> QED BY <2>2, <3>1, SubSeqProperties
  <2> HIDE DEF b
  <2>4. Len(b) = Len(q) - k
    <3>1. Len(q) \in Nat /\ k \in Nat /\ k <= Len(q)
      BY <1>1
    <3>2. CASE m <= Len(q)
      BY <2>1, <2>3, <3>1, <3>2
    <3>3. CASE ~(m <= Len(q))
      <4>1. k = Len(q)
        BY <2>1, <3>1, <3>3
      <4> QED BY <2>3, <3>1, <3>3, <4>1
    <3> QED BY <3>2, <3>3
  <2>5. ASSUME NEW i \in 1 .. Len(q) - k PROVE b[i] = q[k + i]
    <3>1. i \in 1 .. Len(q) - m + 1 /\ m + i - 1 = k + i
      BY <1>1, <2>1
    <3> QED BY <2>3, <3>1
  <2> QED BY <2>3, <2>4, <2>5
<1>4. DOMAIN a = 1 .. k /\ DOMAIN b = 1 .. Len(q) - k
  BY <1>2, <1>3, LenProperties
<1> HIDE DEF a, b
<1>5. \A i \in DOMAIN a : i \in DOMAIN q /\ a[i] = q[i] /\ i <= k
  BY <1>1, <1>2, <1>4
<1>6. \A i \in DOMAIN b : k + i \in DOMAIN q /\ b[i] = q[k + i] /\ k + i > k
  BY <1>1, <1>3, <1>4
<1>7. ToSet(q) = ToSet(a) \union ToSet(b)
  <2>1. ToSet(a) \subseteq ToSet(q)
    BY <1>5 DEF ToSet
  <2>2. ToSet(b) \subseteq ToSet(q)
    <3>1. SUFFICES ASSUME NEW i \in DOMAIN b PROVE b[i] \in ToSet(q)
      BY DEF ToSet
    <3> QED BY <1>6 DEF ToSet
  <2>3. ASSUME NEW i \in DOMAIN q PROVE q[i] \in ToSet(a) \union ToSet(b)
    <3>1. CASE i <= k
      BY <1>1, <1>2, <1>4, <3>1 DEF ToSet
    <3>2. CASE i > k
      <4>1. i - k \in DOMAIN b /\ k + (i - k) = i
        BY <1>1, <1>4, <3>2
      <4>2. b[i - k] = q[i]
        BY <1>6, <4>1
      <4> QED BY <4>1, <4>2 DEF ToSet
    <3> QED BY <1>1, <3>1, <3>2
  <2> QED BY <2>1, <2>2, <2>3 DEF ToSet
<1>8. ASSUME IsInjective(q)
      PROVE  IsInjective(a) /\ IsInjective(b) /\ ToSet(a) \intersect ToSet(b) = {}
  <2>1. IsInjective(a)
    BY <1>5, <1>8 DEF IsInjective
  <2>2. IsInjective(b)
    <3>1. SUFFICES ASSUME NEW i \in DOMAIN b, NEW j \in DOMAIN b, b[i] = b[j] PROVE i = j
      BY DEF IsInjective
    <3>2. k + i = k + j
      BY <1>6, <1>8, <3>1 DEF IsInjective
    <3> QED BY <1>4, <3>2
  <2>3. ASSUME NEW i \in DOMAIN a, NEW j \in DOMAIN b, a[i] = b[j] PROVE FALSE
    <3>1. i = k + j
      BY <1>5, <1>6, <1>8, <2>3 DEF IsInjective
    <3> QED BY <1>4, <3>1
  <2> QED BY <2>1, <2>2, <2>3 DEF ToSet
<1> QED BY <1>2, <1>3, <1>7, <1>8 DEF a, b

(* What a disk f has at the blocks q.                                      *)
ReadFrom(f, q) == [i \in DOMAIN q |-> f[q[i]]]

(* What a disk g has at the blocks p and q, if it is what f had at p.      *)
LEMMA MappedJoin ==
  ASSUME NEW S, NEW p \in Seq(S), NEW q \in Seq(S), NEW f, NEW g,
         \A b \in ToSet(p) : g[b] = f[b]
  PROVE  ReadFrom(g, p \o q) = ReadFrom(f, p) \o ReadFrom(g, q)
<1>0. PICK T : \A b \in S : f[b] \in T /\ g[b] \in T
  <2>1. \A b \in S : /\ f[b] \in {f[c] : c \in S} \union {g[c] : c \in S}
                     /\ g[b] \in {f[c] : c \in S} \union {g[c] : c \in S}
    OBVIOUS
  <2> QED BY <2>1
<1>1. /\ Len(p) \in Nat /\ Len(q) \in Nat /\ DOMAIN p = 1 .. Len(p) /\ DOMAIN q = 1 .. Len(q)
      /\ \A i \in 1 .. Len(p) : p[i] \in S /\ g[p[i]] = f[p[i]]
      /\ \A i \in 1 .. Len(q) : q[i] \in S
  BY LenProperties, ElementOfSeq DEF ToSet
<1>2. PICK r : r = p \o q
  OBVIOUS
<1>3. /\ r \in Seq(S) /\ Len(r) = Len(p) + Len(q)
      /\ \A i \in 1 .. Len(p) + Len(q) : r[i] = IF i <= Len(p) THEN p[i] ELSE q[i - Len(p)]
  BY <1>2, ConcatProperties
<1>4. DOMAIN r = 1 .. Len(p) + Len(q)
  BY <1>3, LenProperties
<1>5. PICK u : u = [i \in 1 .. Len(p) |-> f[p[i]]]
  OBVIOUS
<1>6. PICK v : v = [i \in 1 .. Len(q) |-> g[q[i]]]
  OBVIOUS
<1>7. u \in Seq(T) /\ Len(u) = Len(p)
  BY <1>0, <1>1, <1>5
<1>8. v \in Seq(T) /\ Len(v) = Len(q)
  BY <1>0, <1>1, <1>6
<1>9. PICK w : w = u \o v
  OBVIOUS
<1>10. /\ w \in Seq(T) /\ Len(w) = Len(p) + Len(q)
       /\ \A i \in 1 .. Len(p) + Len(q) : w[i] = IF i <= Len(p) THEN u[i] ELSE v[i - Len(p)]
  <2>1. ASSUME NEW a \in Seq(T), NEW b \in Seq(T), NEW c, c = a \o b
        PROVE  /\ c \in Seq(T) /\ Len(c) = Len(a) + Len(b)
               /\ \A i \in 1 .. Len(a) + Len(b) :
                    c[i] = IF i <= Len(a) THEN a[i] ELSE b[i - Len(a)]
    BY ONLY ConcatProperties, <2>1
  <2>2. /\ w \in Seq(T) /\ Len(w) = Len(u) + Len(v)
        /\ \A i \in 1 .. Len(u) + Len(v) :
             w[i] = IF i <= Len(u) THEN u[i] ELSE v[i - Len(u)]
    BY ONLY <1>7, <1>8, <1>9, <2>1
  <2> QED BY ONLY <1>7, <1>8, <2>2
<1>11. ASSUME NEW i \in 1 .. Len(p) + Len(q) PROVE g[r[i]] = w[i]
  <2>1. CASE i <= Len(p)
    <3>1. i \in 1 .. Len(p)
      BY <1>1, <2>1
    <3>2. r[i] = p[i] /\ w[i] = u[i]
      BY <1>3, <1>10, <2>1
    <3> QED BY <1>1, <1>5, <3>1, <3>2
  <2>2. CASE ~(i <= Len(p))
    <3>1. i - Len(p) \in 1 .. Len(q)
      BY <1>1, <2>2
    <3>2. r[i] = q[i - Len(p)] /\ w[i] = v[i - Len(p)]
      BY <1>3, <1>10, <2>2
    <3> QED BY <1>6, <3>1, <3>2
  <2> QED BY <2>1, <2>2
<1>12. w = [i \in 1 .. Len(p) + Len(q) |-> w[i]]
  <2>1. DOMAIN w = 1 .. Len(p) + Len(q)
    BY <1>10, LenProperties
  <2> QED BY <1>10, <2>1
<1>13. [i \in DOMAIN r |-> g[r[i]]] = w
  BY <1>4, <1>11, <1>12
<1> QED BY <1>1, <1>2, <1>5, <1>6, <1>9, <1>13 DEF ReadFrom

-----------------------------------------------------------------------------
(* Of natural numbers there is a least. *)
LEMMA Least == ASSUME NEW S, S \subseteq Nat, S # {} PROVE \E m \in S : \A y \in S : m <= y
<1>1. PICK m \in S : \A y \in S : ~(<<y, m>> \in OpToRel(<, Nat))
  BY NatLessThanWellFounded, WFMin
<1>2. ASSUME NEW y \in S PROVE m <= y
  <2>1. ~(<<y, m>> \in {ss \in Nat \X Nat : ss[1] < ss[2]})
    BY <1>1, Zenon DEF OpToRel
  <2> QED BY <2>1
<1> QED BY <1>2

(* What holds at the first index and goes from each to the next. *)
LEMMA Upwards ==
  ASSUME NEW lo \in Nat, NEW hi \in Nat, NEW S, lo \in S,
         \A k \in lo + 1 .. hi : k - 1 \in S => k \in S
  PROVE  lo .. hi \subseteq S
<1> DEFINE T == (lo .. hi) \ S
<1>1. SUFFICES ASSUME T # {} PROVE FALSE
  OBVIOUS
<1>2. T \subseteq Nat
  OBVIOUS
<1>3. PICK m \in T : \A y \in T : m <= y
  <2> HIDE DEF T
  <2> QED BY <1>1, <1>2, Least
<1>5. m \in lo + 1 .. hi /\ m - 1 \in lo .. hi /\ m \notin S
  OBVIOUS
<1>6. m - 1 \notin T
  <2> HIDE DEF T
  <2> QED BY <1>2, <1>3, <1>5
<1> QED BY <1>5, <1>6

(* A loop that makes f[k] of what it has: the values it goes through.      *)
Turns(f, X, lo, hi) == f \in [lo + 1 .. hi -> [X -> X]]
Passes(g, X, c, lo, hi, f) ==
  g \in [lo .. hi -> X] /\ \A k \in lo .. hi : g[k] = IF k = lo THEN c ELSE f[k][g[k - 1]]

LEMMA Loop ==
  ASSUME NEW X, NEW c \in X, NEW lo \in Nat, NEW hi \in Nat, lo <= hi,
         NEW f, Turns(f, X, lo, hi)
  PROVE  \E g : Passes(g, X, c, lo, hi, f)
<1>0. f \in [lo + 1 .. hi -> [X -> X]]
  BY DEF Turns
<1> DEFINE Goes(g, n) == \A k \in lo .. n : g[k] = IF k = lo THEN c ELSE f[k][g[k - 1]]
           S == {n \in lo .. hi : \E g \in [lo .. n -> X] : Goes(g, n)}
<1>1. lo \in S
  <2> DEFINE g == [k \in lo .. lo |-> c]
  <2>1. g \in [lo .. lo -> X] /\ Goes(g, lo) /\ lo \in lo .. hi
    OBVIOUS
  <2> HIDE DEF g, Goes
  <2> QED BY <2>1
<1>2. ASSUME NEW n \in lo + 1 .. hi, n - 1 \in S PROVE n \in S
  <2>1. PICK g \in [lo .. n - 1 -> X] : Goes(g, n - 1)
    BY <1>2
  <2>2. n - 1 \in lo .. n - 1 /\ g[n - 1] \in X /\ f[n] \in [X -> X]
    BY <1>0
  <2>3. PICK v \in X : v = f[n][g[n - 1]]
    BY <1>0, <2>2
  <2> DEFINE h == [k \in lo .. n |-> IF k = n THEN v ELSE g[k]]
  <2>4. h \in [lo .. n -> X]
    OBVIOUS
  <2>5. ASSUME NEW k \in lo .. n PROVE h[k] = IF k = lo THEN c ELSE f[k][h[k - 1]]
    <3>1. CASE k = n
      <4>1. h[k] = v /\ h[k - 1] = g[n - 1] /\ k # lo
        BY <3>1
      <4> QED BY <2>3, <3>1, <4>1
    <3>2. CASE k # n
      <4>1. k \in lo .. n - 1 /\ h[k] = g[k] /\ (k # lo => h[k - 1] = g[k - 1])
        BY <3>2
      <4> HIDE DEF h
      <4> QED BY <2>1, <4>1
    <3> QED BY <3>1, <3>2
  <2> HIDE DEF h
  <2> QED BY <2>4, <2>5
<1>3. lo .. hi \subseteq S
  <2> HIDE DEF S
  <2> QED BY <1>1, <1>2, Upwards
<1>4. hi \in S
  <2> HIDE DEF S
  <2> QED BY <1>3
<1>5. PICK g \in [lo .. hi -> X] : Goes(g, hi)
  BY <1>4
<1> QED BY <1>5 DEF Passes

-----------------------------------------------------------------------------
(* Following pointers: g goes from h where f leads, within D, and stays at *)
(* z once it has left D.                                                   *)
Chain(g, D, z, f, h, m) ==
  g = [i \in 0 .. m |-> IF i = 0 THEN h ELSE IF g[i - 1] \in D THEN f[g[i - 1]] ELSE z]

LEMMA ChainExists ==
  ASSUME NEW D, NEW z, NEW f \in [D -> D \union {z}], NEW h \in D \union {z}, NEW m \in Nat
  PROVE  \E g : Chain(g, D, z, f, h, m)
<1> DEFINE X == D \union {z}
           F == [k \in 0 + 1 .. m |-> [x \in X |-> IF x \in D THEN f[x] ELSE z]]
<1>1. F \in [0 + 1 .. m -> [X -> X]]
  OBVIOUS
<1>2. \A k \in 1 .. m : \A x \in X : F[k][x] = IF x \in D THEN f[x] ELSE z
  OBVIOUS
<1>3. PICK G : G \in [0 + 1 .. m -> [X -> X]]
               /\ \A k \in 1 .. m : \A x \in X : G[k][x] = IF x \in D THEN f[x] ELSE z
  <2> HIDE DEF F, X
  <2> QED BY <1>1, <1>2
<1>4. Turns(G, X, 0, m) /\ h \in X /\ 0 \in Nat /\ 0 <= m
  <2>1. h \in X /\ 0 \in Nat /\ 0 <= m
    OBVIOUS
  <2>2. Turns(G, X, 0, m)
    <3> HIDE DEF X
    <3> QED BY <1>3 DEF Turns
  <2> QED BY <2>1, <2>2
<1>5. PICK g : Passes(g, X, h, 0, m, G)
  <2> HIDE DEF F, X
  <2> QED BY ONLY <1>4, m \in Nat, Loop
<1>6. g \in [0 .. m -> X] /\ \A k \in 0 .. m : g[k] = IF k = 0 THEN h ELSE G[k][g[k - 1]]
  BY <1>5 DEF Passes
<1>7. ASSUME NEW k \in 0 .. m
      PROVE  g[k] = IF k = 0 THEN h ELSE IF g[k - 1] \in D THEN f[g[k - 1]] ELSE z
  <2>1. CASE k = 0
    BY <1>6, <2>1
  <2>2. CASE k # 0
    <3>1. k \in 1 .. m /\ k - 1 \in 0 .. m
      BY <2>2
    <3>2. g[k - 1] \in X /\ g[k] = G[k][g[k - 1]]
      BY <1>6, <2>2, <3>1
    <3> QED BY <1>3, <2>2, <3>1, <3>2
  <2> QED BY <2>1, <2>2
<1>8. g = [k \in 0 .. m |-> g[k]]
  BY <1>6
<1>9. g = [k \in 0 .. m |-> IF k = 0 THEN h ELSE IF g[k - 1] \in D THEN f[g[k - 1]] ELSE z]
  BY <1>7, <1>8
<1>10. Chain(g, D, z, f, h, m)
  BY <1>9 DEF Chain
<1> QED BY <1>10

Leads(D, f, h, q, k) ==
  /\ \A i \in 1 .. k : q[i] \in D
  /\ k > 0 => h = q[1]
  /\ \A i \in 1 .. k - 1 : f[q[i]] = q[i + 1]

(* g goes through q[1], ..., q[k] and then to what follows q[k].            *)
Spells(g, f, h, q, k) ==
  /\ \A i \in 0 .. k - 1 : g[i] = q[i + 1]
  /\ (k = 0 => g[k] = h) /\ (k > 0 => g[k] = f[q[k]])

(* A list that f spells is what the chain goes through.                    *)
LEMMA ChainSpells ==
  ASSUME NEW D, NEW z, NEW f, NEW h, NEW m \in Nat, NEW g, Chain(g, D, z, f, h, m),
         NEW k \in Nat, k <= m, NEW q, Leads(D, f, h, q, k)
  PROVE  Spells(g, f, h, q, k)
<1> USE DEF Spells
<1>0. /\ \A i \in 1 .. k : q[i] \in D
      /\ k > 0 => h = q[1]
      /\ \A i \in 1 .. k - 1 : f[q[i]] = q[i + 1]
  BY DEF Leads
<1>1. ASSUME NEW i \in 0 .. m
      PROVE  g[i] = IF i = 0 THEN h ELSE IF g[i - 1] \in D THEN f[g[i - 1]] ELSE z
  BY DEF Chain
<1>2. CASE k = 0
  BY <1>0, <1>1, <1>2
<1>3. CASE k > 0
  <2> DEFINE S == {i \in 0 .. k - 1 : g[i] = q[i + 1]}
  <2>1. 0 \in S
    BY <1>0, <1>1, <1>3
  <2>2. ASSUME NEW i \in 0 + 1 .. k - 1, i - 1 \in S PROVE i \in S
    <3>1. i \in 1 .. k - 1 /\ i \in 0 .. m /\ i # 0 /\ g[i - 1] = q[i]
      BY <2>2
    <3>2. i \in 1 .. k /\ q[i] \in D
      BY <1>0, <3>1
    <3> QED BY <1>0, <1>1, <3>1, <3>2
  <2>3. 0 .. k - 1 \subseteq S
    <3>1. 0 \in Nat /\ k - 1 \in Nat
      BY <1>3
    <3> HIDE DEF S
    <3> QED BY ONLY <2>1, <2>2, <3>1, Upwards
  <2>4. \A i \in 0 .. k - 1 : g[i] = q[i + 1]
    BY <2>3
  <2>5. g[k - 1] = q[k] /\ q[k] \in D /\ k \in 0 .. m /\ k # 0
    BY <1>0, <1>3, <2>4
  <2>6. g[k] = f[q[k]]
    BY <1>1, <2>5
  <2> QED BY <1>3, <2>4, <2>6
<1> QED BY <1>2, <1>3
=============================================================================
