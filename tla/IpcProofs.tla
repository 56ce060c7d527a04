------------------------------ MODULE IpcProofs ------------------------------
(***************************************************************************)
(* The child's sort sorts, and what a parent of SortInChild shows as       *)
(* "After Sorting" is the array, sorted, for every array, every number of  *)
(* runs and each of the four media: proofs for SortInChild.                *)
(***************************************************************************)
EXTENDS SortInChild, QueueLemmas, FiniteSetTheorems

Arrays == [1 .. ARRAY_LENGTH -> Nat]

(* b holds the elements of a, in some order. *)
Rearranged(a, b) ==
  \E p \in Bijection(1 .. ARRAY_LENGTH, 1 .. ARRAY_LENGTH) :
    \A i \in 1 .. ARRAY_LENGTH : b[i] = a[p[i]]

(* A pair of indices that the sort compares. *)
Valid(x) == x \in Nat \X Nat /\ 1 <= x[1] /\ x[1] < x[2] /\ x[2] <= ARRAY_LENGTH

(* Element i is none of the larger ones up to n. *)
Lowest(b, i, n) == \A k \in i .. n : b[i] <= b[k]

(* b is what the sort has made of a when it comes to the pair i, j. *)
Partly(a, b, i, j) ==
  /\ b \in Arrays /\ Rearranged(a, b)
  /\ \A h \in 1 .. i - 1 : Lowest(b, h, ARRAY_LENGTH)
  /\ Lowest(b, i, j - 1)

(* After the last pair. *)
Sorted(a, b) == Partly(a, b, ARRAY_LENGTH, ARRAY_LENGTH + 1)

-----------------------------------------------------------------------------
LEMMA Length ==
  ASSUME IpcAssumption
  PROVE  ARRAY_LENGTH \in Nat /\ ARRAY_LENGTH >= 2 /\ Initial \in Arrays
<1>1. Initial \in [1 .. Len(Initial) -> Nat \ {0}] /\ Len(Initial) \in Nat /\ Len(Initial) >= 2
  BY LenProperties DEF IpcAssumption
<1> QED BY <1>1 DEF ARRAY_LENGTH, Arrays

-----------------------------------------------------------------------------
LEMMA NoMove == ASSUME NEW a \in Arrays PROVE Rearranged(a, a)
<1> DEFINE p == [i \in 1 .. ARRAY_LENGTH |-> i]
<1>1. p \in Bijection(1 .. ARRAY_LENGTH, 1 .. ARRAY_LENGTH)
  BY DEF Bijection, Injection, Surjection, IsInjective
<1> QED BY <1>1 DEF Rearranged

(* Two elements change places (swap, utils.c).                             *)
LEMMA SwapRearranges ==
  ASSUME IpcAssumption, NEW a, NEW b \in Arrays, Rearranged(a, b),
         NEW i \in 1 .. ARRAY_LENGTH, NEW j \in 1 .. ARRAY_LENGTH,
         NEW c, c = [b EXCEPT ![i] = b[j], ![j] = b[i]]
  PROVE  /\ c \in Arrays /\ Rearranged(a, c)
         /\ c[i] = b[j] /\ c[j] = b[i]
         /\ \A k \in 1 .. ARRAY_LENGTH : k # i /\ k # j => c[k] = b[k]
<1>1. PICK L \in Nat : L = ARRAY_LENGTH
  BY Length
<1>2. PICK p \in Bijection(1 .. L, 1 .. L) : \A k \in 1 .. L : b[k] = a[p[k]]
  BY <1>1 DEF Rearranged
<1>3. /\ p \in [1 .. L -> 1 .. L] /\ \A k, h \in 1 .. L : p[k] = p[h] => k = h
      /\ \A v \in 1 .. L : \E k \in 1 .. L : p[k] = v
  BY <1>2 DEF Bijection, Injection, Surjection, IsInjective
<1>4. b \in [1 .. L -> Nat] /\ i \in 1 .. L /\ j \in 1 .. L
  BY <1>1 DEF Arrays
<1> DEFINE q == [k \in 1 .. L |-> IF k = j THEN p[i] ELSE IF k = i THEN p[j] ELSE p[k]]
<1>5. /\ c \in [1 .. L -> Nat] /\ c[i] = b[j] /\ c[j] = b[i]
      /\ \A k \in 1 .. L : k # i /\ k # j => c[k] = b[k]
  BY <1>4
<1>6. q \in [1 .. L -> 1 .. L]
  BY <1>3, <1>4
<1>7. \A k, h \in 1 .. L : q[k] = q[h] => k = h
  BY <1>3, <1>4
<1>8. ASSUME NEW v \in 1 .. L PROVE \E k \in 1 .. L : q[k] = v
  <2>1. PICK k \in 1 .. L : p[k] = v
    BY <1>3
  <2>2. q[IF k = i THEN j ELSE IF k = j THEN i ELSE k] = v
    BY <1>4, <2>1
  <2> QED BY <1>4, <2>2
<1>9. ASSUME NEW k \in 1 .. L PROVE c[k] = a[q[k]]
  BY <1>2, <1>4, <1>5
<1> HIDE DEF q
<1>10. q \in Bijection(1 .. L, 1 .. L)
  BY <1>6, <1>7, <1>8 DEF Bijection, Injection, Surjection, IsInjective
<1>11. Rearranged(a, c)
  BY <1>1, <1>9, <1>10 DEF Rearranged
<1> QED BY <1>1, <1>5, <1>11 DEF Arrays

LEMMA ExchangeIs ==
  ASSUME NEW b, NEW i, NEW j
  PROVE  Exchange(b, <<i, j>>) =
           IF b[i] > b[j] THEN [b EXCEPT ![i] = b[j], ![j] = b[i]] ELSE b
  BY DEF Exchange

(* One comparison (utils.c:13-18).                                         *)
LEMMA ExchangeSorts ==
  ASSUME IpcAssumption, NEW a, NEW b, NEW i, NEW j, Valid(<<i, j>>), Partly(a, b, i, j)
  PROVE  Partly(a, Exchange(b, <<i, j>>), i, j + 1)
<1>1. PICK L \in Nat : L = ARRAY_LENGTH
  BY Length
<1>2. /\ i \in 1 .. L /\ j \in 1 .. L /\ i < j /\ b \in [1 .. L -> Nat] /\ b \in Arrays
      /\ Rearranged(a, b)
      /\ \A h \in 1 .. i - 1 : \A k \in h .. L : b[h] <= b[k]
      /\ \A k \in i .. j - 1 : b[i] <= b[k]
  BY <1>1 DEF Valid, Partly, Arrays, Lowest
<1>3. CASE ~(b[i] > b[j])
  <2>1. Exchange(b, <<i, j>>) = b
    BY <1>3, ExchangeIs
  <2>2. \A k \in i .. (j + 1) - 1 : b[i] <= b[k]
    BY <1>2, <1>3
  <2> QED BY <2>1, <2>2, <1>2, <1>1 DEF Partly, Lowest
<1>4. CASE b[i] > b[j]
  <2>1. PICK c : c = [b EXCEPT ![i] = b[j], ![j] = b[i]]
    OBVIOUS
  <2>2. Exchange(b, <<i, j>>) = c
    BY <1>4, <2>1, ExchangeIs
  <2>3. /\ c \in Arrays /\ Rearranged(a, c) /\ c[i] = b[j] /\ c[j] = b[i]
        /\ \A k \in 1 .. L : k # i /\ k # j => c[k] = b[k]
    BY ONLY <1>1, <1>2, <2>1, SwapRearranges, IpcAssumption
  <2>4. ASSUME NEW h \in 1 .. i - 1, NEW k \in h .. L PROVE c[h] <= c[k]
    <3>1. /\ h \in 1 .. L /\ h # i /\ h # j /\ k \in 1 .. L /\ c[h] = b[h]
          /\ i \in h .. L /\ j \in h .. L
      BY <1>2, <2>3
    <3>2. c[k] = b[k] \/ c[k] = b[i] \/ c[k] = b[j]
      BY <2>3, <3>1
    <3> QED BY <1>2, <3>1, <3>2
  <2>5. ASSUME NEW k \in i .. (j + 1) - 1 PROVE c[i] <= c[k]
    <3>1. k \in 1 .. L /\ k \in i .. j
      BY <1>2
    <3>2. CASE k = i
      BY <1>2, <2>3, <3>2
    <3>3. CASE k = j
      BY <1>2, <1>4, <2>3, <3>3
    <3>4. CASE k # i /\ k # j
      <4>1. c[k] = b[k] /\ b[i] <= b[k]
        BY <1>2, <2>3, <3>1, <3>4
      <4> QED BY <1>2, <1>4, <2>3, <3>1, <4>1
    <3> QED BY <3>2, <3>3, <3>4
  <2> QED BY <1>1, <2>2, <2>3, <2>4, <2>5 DEF Partly, Lowest
<1> QED BY <1>3, <1>4

(* The inner loop is through.                                              *)
LEMMA NextIndex ==
  ASSUME IpcAssumption, NEW a, NEW b, NEW i \in 1 .. ARRAY_LENGTH - 1,
         Partly(a, b, i, ARRAY_LENGTH + 1)
  PROVE  Partly(a, b, i + 1, i + 2)
<1>1. PICK L \in Nat : L = ARRAY_LENGTH
  BY Length
<1>2. /\ b \in [1 .. L -> Nat] /\ i \in 1 .. L - 1
      /\ \A h \in 1 .. i - 1 : Lowest(b, h, L)
      /\ Lowest(b, i, L)
  BY <1>1 DEF Partly, Arrays
<1>3. \A h \in 1 .. (i + 1) - 1 : Lowest(b, h, L)
  BY <1>2
<1>4. Lowest(b, i + 1, (i + 2) - 1)
  BY <1>2 DEF Lowest
<1> QED BY <1>1, <1>3, <1>4 DEF Partly

LEMMA StartOfSort ==
  ASSUME IpcAssumption, NEW a \in Arrays PROVE Partly(a, a, 1, 2)
<1>1. 1 \in 1 .. ARRAY_LENGTH /\ 1 .. (1 - 1) = {}
  BY Length
<1>2. Lowest(a, 1, 2 - 1)
  BY <1>1 DEF Lowest, Arrays
<1> QED BY <1>1, <1>2, NoMove DEF Partly

-----------------------------------------------------------------------------
(* Whatever is compared, an array stays one.                               *)
LEMMA ExchangeType ==
  ASSUME IpcAssumption, NEW c \in Arrays, NEW i, NEW k, Valid(<<i, k>>)
  PROVE  Exchange(c, <<i, k>>) \in Arrays
<1>1. i \in 1 .. ARRAY_LENGTH /\ k \in 1 .. ARRAY_LENGTH
  BY Length DEF Valid
<1>2. CASE ~(c[i] > c[k])
  BY <1>2, ExchangeIs
<1>3. CASE c[i] > c[k]
  <2>1. PICK d : d = [c EXCEPT ![i] = c[k], ![k] = c[i]]
    OBVIOUS
  <2>2. Exchange(c, <<i, k>>) = d
    BY <1>3, <2>1, ExchangeIs
  <2>3. Rearranged(c, c)
    BY NoMove
  <2>4. d \in Arrays
    BY ONLY IpcAssumption, c \in Arrays, <1>1, <2>1, <2>3, SwapRearranges
  <2> QED BY <2>2, <2>4
<1> QED BY <1>2, <1>3

(* The inner loop (utils.c:11-19).                                         *)
LEMMA PassedSorts ==
  ASSUME IpcAssumption, NEW a \in Arrays, NEW b, NEW i \in 1 .. ARRAY_LENGTH - 1,
         Partly(a, b, i, i + 1)
  PROVE  Partly(a, Passed(b, i), i, ARRAY_LENGTH + 1)
<1>1. PICK L \in Nat : L = ARRAY_LENGTH
  BY Length
<1>2. i \in 1 .. L - 1 /\ i <= L /\ i \in Nat /\ i \in i .. L /\ L \in i .. L
  BY <1>1
<1> DEFINE Compared(g) == [k \in i .. L |-> IF k = i THEN b ELSE Exchange(g[k - 1], <<i, k>>)]
           upTo == CHOOSE g : g = Compared(g)
<1>3. ASSUME NEW c \in Arrays, NEW k \in i + 1 .. L PROVE Exchange(c, <<i, k>>) \in Arrays
  <2>1. Valid(<<i, k>>)
    BY <1>1, <1>2 DEF Valid
  <2> QED BY <2>1, ExchangeType
<1>4. b \in Arrays
  BY DEF Partly
<1>5. \E g : g = Compared(g)
  <2> DEFINE F == [k \in i + 1 .. L |-> [c \in Arrays |-> Exchange(c, <<i, k>>)]]
  <2>1. F \in [i + 1 .. L -> [Arrays -> Arrays]]
    BY <1>3
  <2>2. PICK f \in [i + 1 .. L -> [Arrays -> Arrays]] :
          \A k \in i + 1 .. L : \A c \in Arrays : f[k][c] = Exchange(c, <<i, k>>)
    BY <2>1
  <2>3. PICK g : Passes(g, Arrays, b, i, L, f)
    <3>1. Turns(f, Arrays, i, L)
      BY DEF Turns
    <3> QED BY ONLY <1>2, <1>4, <3>1, Loop
  <2> USE <2>3 DEF Passes
  <2>4. ASSUME NEW k \in i .. L
        PROVE  g[k] = IF k = i THEN b ELSE Exchange(g[k - 1], <<i, k>>)
    <3>1. CASE k = i
      BY <2>3, <3>1
    <3>2. CASE k # i
      <4>1. k \in i + 1 .. L /\ k - 1 \in i .. L
        BY <1>2, <3>2
      <4>2. g[k - 1] \in Arrays
        BY <2>3, <4>1
      <4> QED BY <2>2, <2>3, <3>2, <4>1, <4>2
    <3> QED BY <3>1, <3>2
  <2>5. g = [k \in i .. L |-> g[k]]
    BY <2>3
  <2>6. g = Compared(g)
    BY <2>4, <2>5
  <2> HIDE DEF Compared
  <2> QED BY <2>6
<1>6. upTo = Compared(upTo)
  <2> HIDE DEF Compared
  <2> QED BY <1>5, Zenon
<1>7. Passed(b, i) = upTo[L]
  BY <1>1, Zenon DEF Passed
<1> HIDE DEF upTo
<1>8. ASSUME NEW k \in i .. L
      PROVE  upTo[k] = IF k = i THEN b ELSE Exchange(upTo[k - 1], <<i, k>>)
  BY <1>6
<1> DEFINE S == {k \in i .. L : Partly(a, upTo[k], i, k + 1)}
<1>9. i \in S
  BY <1>2, <1>8
<1>10. ASSUME NEW k \in i + 1 .. L, k - 1 \in S PROVE k \in S
  <2>1. k \in i .. L /\ k # i /\ (k - 1) + 1 = k
    BY <1>2
  <2>2. PICK c : c = upTo[k - 1]
    OBVIOUS
  <2>3. Partly(a, c, i, k)
    BY <1>10, <2>1, <2>2
  <2>4. Valid(<<i, k>>)
    BY <1>1, <1>2 DEF Valid
  <2>5. Partly(a, Exchange(c, <<i, k>>), i, k + 1)
    BY ONLY IpcAssumption, <2>3, <2>4, ExchangeSorts
  <2> QED BY <1>8, <2>1, <2>2, <2>5
<1> HIDE DEF S
<1>11. i .. L \subseteq S
  BY ONLY <1>2, <1>9, <1>10, Upwards
<1>12. L \in S
  BY <1>2, <1>11
<1> QED BY <1>1, <1>7, <1>12 DEF S

(* The sort gives the elements it was given, in order                      *)
(* (message_queue_ipc.c:61-75, and in the other three utils.c:7-21).       *)
THEOREM Sorts ==
  ASSUME IpcAssumption, NEW a \in Arrays
  PROVE  Sorted(a, sortIntegerArray(a))
<1>1. PICK L \in Nat : L = ARRAY_LENGTH /\ L >= 2
  BY Length
<1>2. 0 \in Nat /\ L - 1 \in Nat /\ 0 <= L - 1 /\ L - 1 \in 0 .. L - 1
  BY <1>1
<1> DEFINE Outer(g) == [i \in 0 .. L - 1 |-> IF i = 0 THEN a ELSE Passed(g[i - 1], i)]
           upTo == CHOOSE g : g = Outer(g)
<1>3. ASSUME NEW i \in 1 .. L - 1, NEW b, Partly(a, b, i, i + 1)
      PROVE  Partly(a, Passed(b, i), i + 1, i + 2)
  BY <1>1, <1>3, PassedSorts, NextIndex
<1>4. Partly(a, a, 1, 2)
  BY StartOfSort
<1>5. \E g : g = Outer(g)
  <2> DEFINE F == [i \in 0 + 1 .. L - 1 |-> [b \in Arrays |->
                      IF Partly(a, b, i, i + 1) THEN Passed(b, i) ELSE b]]
  <2>1. F \in [0 + 1 .. L - 1 -> [Arrays -> Arrays]]
    <3>1. ASSUME NEW i \in 0 + 1 .. L - 1, NEW b \in Arrays, Partly(a, b, i, i + 1)
          PROVE  Passed(b, i) \in Arrays
      BY <1>3, <3>1 DEF Partly
    <3> QED BY <3>1
  <2>2. PICK f \in [0 + 1 .. L - 1 -> [Arrays -> Arrays]] :
          \A i \in 1 .. L - 1 : \A b \in Arrays :
            f[i][b] = IF Partly(a, b, i, i + 1) THEN Passed(b, i) ELSE b
    <3>1. \A i \in 1 .. L - 1 : \A b \in Arrays :
            F[i][b] = IF Partly(a, b, i, i + 1) THEN Passed(b, i) ELSE b
      OBVIOUS
    <3> HIDE DEF F
    <3> QED BY <2>1, <3>1
  <2>3. PICK g : Passes(g, Arrays, a, 0, L - 1, f)
    <3>1. Turns(f, Arrays, 0, L - 1)
      BY DEF Turns
    <3> QED BY ONLY <1>2, a \in Arrays, <3>1, Loop
  <2> USE <2>3 DEF Passes
  <2> DEFINE S == {k \in 0 .. L - 1 : Partly(a, g[k], k + 1, k + 2)}
  <2>4. 0 \in S
    BY <1>2, <1>4, <2>3
  <2>5. ASSUME NEW k \in 0 + 1 .. L - 1, k - 1 \in S PROVE k \in S
    <3>1. k \in 0 .. L - 1 /\ k # 0 /\ (k - 1) + 1 = k /\ (k - 1) + 2 = k + 1
            /\ k \in 1 .. L - 1
          /\ k - 1 \in 0 .. L - 1
      BY <1>2
    <3>2. PICK b \in Arrays : b = g[k - 1]
      BY <2>3, <3>1
    <3>3. Partly(a, b, k, k + 1)
      BY <2>5, <3>1, <3>2
    <3>4. g[k] = Passed(b, k)
      BY <2>2, <2>3, <3>1, <3>2, <3>3
    <3> QED BY <1>3, <3>1, <3>3, <3>4
  <2>6. 0 .. L - 1 \subseteq S
    <3> HIDE DEF S
    <3> QED BY ONLY <1>2, <2>4, <2>5, Upwards
  <2>7. ASSUME NEW i \in 0 .. L - 1
        PROVE  g[i] = IF i = 0 THEN a ELSE Passed(g[i - 1], i)
    <3>1. CASE i = 0
      BY <2>3, <3>1
    <3>2. CASE i # 0
      <4>1. i \in 1 .. L - 1 /\ i - 1 \in 0 .. L - 1 /\ (i - 1) + 1 = i /\ (i - 1) + 2 = i + 1
        BY <1>2, <3>2
      <4>2. PICK b \in Arrays : b = g[i - 1]
        BY <2>3, <4>1
      <4>3. Partly(a, b, i, i + 1)
        BY <2>6, <4>1, <4>2
      <4> QED BY <2>2, <2>3, <3>2, <4>1, <4>2, <4>3
    <3> QED BY <3>1, <3>2
  <2>8. g = [i \in 0 .. L - 1 |-> g[i]]
    BY <2>3
  <2>9. g = Outer(g)
    BY <2>7, <2>8
  <2> HIDE DEF Outer
  <2> QED BY <2>9
<1>6. upTo = Outer(upTo)
  <2> HIDE DEF Outer
  <2> QED BY <1>5, Zenon
<1>7. sortIntegerArray(a) = upTo[L - 1]
  BY <1>1, Zenon DEF sortIntegerArray
<1> HIDE DEF upTo
<1>8. ASSUME NEW i \in 0 .. L - 1
      PROVE  upTo[i] = IF i = 0 THEN a ELSE Passed(upTo[i - 1], i)
  BY <1>6
<1> DEFINE S == {k \in 0 .. L - 1 : Partly(a, upTo[k], k + 1, k + 2)}
<1>9. 0 \in S
  BY <1>2, <1>4, <1>8
<1>10. ASSUME NEW k \in 0 + 1 .. L - 1, k - 1 \in S PROVE k \in S
  <2>1. k \in 0 .. L - 1 /\ k # 0 /\ (k - 1) + 1 = k /\ (k - 1) + 2 = k + 1 /\ k \in 1 .. L - 1
    BY <1>2
  <2>2. PICK b : b = upTo[k - 1]
    OBVIOUS
  <2>3. Partly(a, b, k, k + 1)
    BY <1>10, <2>1, <2>2
  <2> QED BY <1>3, <1>8, <2>1, <2>2, <2>3
<1> HIDE DEF S
<1>11. 0 .. L - 1 \subseteq S
  BY ONLY <1>2, <1>9, <1>10, Upwards
<1>12. L - 1 \in S /\ (L - 1) + 1 = L /\ (L - 1) + 2 = L + 1
  BY <1>2, <1>11
<1> QED BY <1>1, <1>7, <1>12 DEF S, Sorted

(* What the property calls sorted.                                         *)
LEMMA SortedIsSorting ==
  ASSUME IpcAssumption, NEW b, Sorted(Initial, b) PROVE IsSorting(b)
<1>1. PICK L \in Nat : L = ARRAY_LENGTH /\ L >= 2
  BY Length
<1>2. /\ b \in [1 .. L -> Nat] /\ \A h \in 1 .. L - 1 : \A k \in h .. L : b[h] <= b[k]
  BY <1>1 DEF Sorted, Partly, Arrays, Lowest
<1>3. DOMAIN b = 1 .. L /\ DOMAIN Initial = 1 .. L
  BY <1>1, <1>2, Length DEF Arrays
<1>4. ASSUME NEW i \in DOMAIN b, NEW k \in DOMAIN b, i <= k PROVE b[i] <= b[k]
  <2>1. CASE i = k
    BY <1>2, <1>3, <2>1
  <2>2. CASE i # k
    BY <1>2, <1>3, <1>4, <2>2
  <2> QED BY <2>1, <2>2
<1>5. PICK p \in Bijection(1 .. L, 1 .. L) : \A i \in 1 .. L : b[i] = Initial[p[i]]
  BY <1>1 DEF Sorted, Partly, Rearranged
<1>6. /\ p \in [1 .. L -> 1 .. L] /\ \A k, h \in 1 .. L : p[k] = p[h] => k = h
      /\ \A v \in 1 .. L : \E k \in 1 .. L : p[k] = v
  BY <1>5 DEF Bijection, Injection, Surjection, IsInjective
<1>7. ASSUME NEW v
      PROVE  Cardinality({i \in DOMAIN b : b[i] = v})
               = Cardinality({i \in DOMAIN Initial : Initial[i] = v})
  <2> DEFINE S == {i \in DOMAIN b : b[i] = v}
             T == {i \in DOMAIN Initial : Initial[i] = v}
             q == [i \in S |-> p[i]]
  <2>1. S \subseteq 1 .. L
    BY <1>3
  <2>2. IsFiniteSet(1 .. L)
    BY <1>1, FS_Interval
  <2>3. IsFiniteSet(S)
    <3> HIDE DEF S
    <3> QED BY <2>1, <2>2, FS_Subset
  <2>4. q \in [S -> T] /\ \A i, k \in S : q[i] = q[k] => i = k
    BY <1>3, <1>5, <1>6
  <2>5. ASSUME NEW w \in T PROVE \E i \in S : q[i] = w
    <3>1. PICK k \in 1 .. L : p[k] = w
      BY <1>3, <1>6
    <3>2. k \in S /\ q[k] = w
      BY <1>3, <1>5, <3>1
    <3> QED BY <3>2
  <2> HIDE DEF S, T, q
  <2>6. q \in Bijection(S, T)
    BY <2>4, <2>5 DEF Bijection, Injection, Surjection, IsInjective
  <2>7. Cardinality(T) = Cardinality(S)
    BY <2>3, <2>6, FS_Bijection DEF ExistsBijection
  <2> QED BY <2>7 DEF S, T
<1> QED BY <1>4, <1>7 DEF IsSorting

-----------------------------------------------------------------------------
(* The processes of a run find each other by the key. *)
Shared == medium \in {"queue", "memory"}

(* The type invariant, a part for each variable. *)
Places == {"off", "write", "flush", "wait", "read", "close", "copy", "remove", "sleep", "sort",
           "done", "failed", "killed"}

PlacesOf(f)   == f \in [Runs -> Places]
ArraysOf(f)   == f \in [Runs -> Arrays]
PlacesAt(f)   == f \in [Runs -> [parent : Nat, child : Nat \X Nat]]
Contents(f)   == f \in {Absent, <<>>} \union Arrays
Holders(f)    == f \in [Runs -> Runs \union {Absent}]
Objects(m, k, f) ==
  /\ k \in DOMAIN f \union {Absent} /\ DOMAIN f \subseteq Runs
  /\ f \in [DOMAIN f -> IF m = "memory" THEN Arrays ELSE Seq(Arrays)]
PipesOf(f)    == f \in [Runs -> [down : Seq(Arrays), up : Seq(Arrays)]]
FlagsOf(f)    == f \in [Runs -> BOOLEAN]

TypeOK ==
  /\ medium \in Media /\ PlacesOf(ppc) /\ PlacesOf(cpc)
  /\ ArraysOf(array) /\ ArraysOf(copy) /\ PlacesAt(at)
  /\ Contents(file) /\ Holders(held) /\ Objects(medium, key, object) /\ PipesOf(pipe)
  /\ FlagsOf(late) /\ FlagsOf(alone)

(* A run starts when the parent of the one before has ended; only a parent *)
(* that has waited reads.                                                  *)
InTurn(r) ==
  /\ ppc[r] # "off" => \A h \in 1 .. r - 1 : ppc[h] \in Ended \ {"off"}
  /\ ppc[r] = "off" => cpc[r] = "off" /\ ~alone[r]
  /\ ppc[r] \in {"read", "remove", "done"} => cpc[r] \in Ended
  /\ alone[r] => \A h \in 1 .. r - 1 : cpc[h] \in Ended

(* What a run works with stays, and is the key's while its parent is there. *)
Holding(r) ==
  /\ Shared /\ ppc[r] # "off" => held[r] \in DOMAIN object
  /\ Shared /\ ppc[r] \notin Ended => held[r] = key
  /\ ppc[r] = "remove" => Shared
  /\ medium = "file" /\ ppc[r] \in {"flush", "wait", "read"} => file \in {<<>>} \union Arrays

(* The copying and the sorting stay within the array. *)
AtWork(r) ==
  /\ ppc[r] = "off" => at[r] = [parent |-> 0, child |-> <<1, 2>>]
  /\ ppc[r] = "copy" => at[r].parent < ARRAY_LENGTH
  /\ cpc[r] = "sleep" => at[r].child = <<1, 2>>
  /\ cpc[r] = "sort" => Valid(at[r].child)

(* Where the array is, and when it is sorted.  Pipes belong to one run. *)
PipeInv(r) == medium = "pipe" =>
  /\ ppc[r] \in {"close", "write"} => array[r] = Initial
  /\ ToSet(pipe[r].down) \subseteq {Initial}
  /\ cpc[r] = "write" => Sorted(Initial, copy[r])
  /\ \A b \in ToSet(pipe[r].up) : Sorted(Initial, b)
  /\ ppc[r] = "done" => Sorted(Initial, array[r])

(* In the queue there is the array, then nothing, then the sorted array. *)
QueueInv(r) == medium = "queue" /\ alone[r] =>
  /\ ppc[r] = "write" => /\ array[r] = Initial /\ object[key] = <<>>
                         /\ cpc[r] \in {"read", "killed"}
  /\ ppc[r] \in {"wait", "read"} =>
       /\ cpc[r] = "read" => object[key] = <<Initial>>
       /\ cpc[r] = "write" => object[key] = <<>> /\ Sorted(Initial, copy[r])
       /\ cpc[r] = "done" => \E b \in ToSet(object[key]) : object[key] = <<b>>
          /\ Sorted(Initial, b)
  /\ ppc[r] \in {"remove", "done"} /\ cpc[r] = "done" => Sorted(Initial, array[r])

(* A child that wakes after the parent's fclose reads the array. *)
FileInv(r) == medium = "file" /\ alone[r] =>
  /\ ppc[r] \in {"write", "flush"} => array[r] = Initial
  /\ ppc[r] \in {"write", "flush"} /\ cpc[r] \notin {"sleep", "killed"} => late[r]
  /\ ppc[r] \in {"wait", "read"} =>
       /\ cpc[r] = "sleep" => file = Initial
       /\ cpc[r] = "read" /\ ~late[r] => file = Initial
       /\ cpc[r] \in {"write", "flush"} /\ ~late[r] => Sorted(Initial, copy[r])
       /\ cpc[r] = "done" /\ ~late[r] => Sorted(Initial, file)
  /\ ppc[r] = "done" /\ cpc[r] = "done" /\ ~late[r] => Sorted(Initial, array[r])

(* A child that wakes late enough sorts all of the array. *)
MemoryInv(r) == medium = "memory" /\ alone[r] =>
  /\ ppc[r] = "copy" /\ cpc[r] \notin {"sleep", "killed"} => late[r]
  /\ ppc[r] = "copy" /\ cpc[r] = "sleep" =>
       \A i \in 1 .. at[r].parent : object[key][i] = Initial[i]
  /\ ppc[r] \in {"wait", "read"} =>
       /\ cpc[r] = "sleep" => object[key] = Initial
       /\ cpc[r] = "sort" /\ ~late[r] =>
            Partly(Initial, object[key], at[r].child[1], at[r].child[2])
       /\ cpc[r] = "done" /\ ~late[r] => Sorted(Initial, object[key])
  /\ ppc[r] \in {"remove", "done"} /\ cpc[r] = "done" /\ ~late[r] => Sorted(Initial, array[r])

IInv ==
  /\ TypeOK
  /\ \A r \in Runs : /\ InTurn(r) /\ Holding(r) /\ AtWork(r)
                     /\ PipeInv(r) /\ QueueInv(r) /\ FileInv(r) /\ MemoryInv(r)

-----------------------------------------------------------------------------
LEMMA SortType ==
  ASSUME IpcAssumption, NEW a \in Arrays PROVE sortIntegerArray(a) \in Arrays
  BY Sorts DEF Sorted, Partly

(* readArrayFromFile: a whole file is what is read. *)
LEMMA FileRead ==
  ASSUME NEW a \in Arrays, file \in {<<>>} \union Arrays
  PROVE  /\ readArrayFromFile(a) \in Arrays
         /\ file \in Arrays => readArrayFromFile(a) = file
<1>1. readArrayFromFile(a) =
        [i \in 1 .. ARRAY_LENGTH |-> IF i \in DOMAIN file THEN file[i] ELSE a[i]]
  BY DEF readArrayFromFile, Arrays
<1>2. a \in [1 .. ARRAY_LENGTH -> Nat]
  BY DEF Arrays
<1>3. ASSUME file = <<>> PROVE readArrayFromFile(a) \in Arrays
  <2>1. DOMAIN file = {}
    BY <1>3
  <2> QED BY <1>1, <1>2, <2>1 DEF Arrays
<1>4. ASSUME file \in Arrays PROVE readArrayFromFile(a) = file
  <2>1. DOMAIN file = 1 .. ARRAY_LENGTH /\ file = [i \in 1 .. ARRAY_LENGTH |-> file[i]]
    BY <1>4 DEF Arrays
  <2> QED BY <1>1, <2>1
<1> QED BY <1>3, <1>4

LEMMA FirstSteps ==
  ASSUME IpcAssumption, medium \in Media
  PROVE  /\ medium \in {"file", "pipe", "queue", "memory"}
         /\ FirstStep \in Places /\ ChildsFirst \in Places
         /\ medium = "file" => FirstStep = "write" /\ ChildsFirst = "sleep"
         /\ medium = "pipe" => FirstStep = "close" /\ ChildsFirst = "close"
         /\ medium = "queue" => FirstStep = "write" /\ ChildsFirst = "read"
         /\ medium = "memory" => FirstStep = "copy" /\ ChildsFirst = "sleep"
<1>1. medium \in {"file", "pipe", "queue", "memory"}
  BY DEF IpcAssumption
<1>2. CASE medium = "file"
  <2>1. FirstStep = "write" /\ ChildsFirst = "sleep"
    BY <1>2, Zenon DEF FirstStep, ChildsFirst
  <2> QED BY <1>2, <2>1 DEF Places
<1>3. CASE medium = "pipe"
  <2>1. FirstStep = "close" /\ ChildsFirst = "close"
    BY <1>3, Zenon DEF FirstStep, ChildsFirst
  <2> QED BY <1>3, <2>1 DEF Places
<1>4. CASE medium = "queue"
  <2>1. FirstStep = "write" /\ ChildsFirst = "read"
    BY <1>4, Zenon DEF FirstStep, ChildsFirst
  <2> QED BY <1>4, <2>1 DEF Places
<1>5. CASE medium = "memory"
  <2>1. FirstStep = "copy" /\ ChildsFirst = "sleep"
    BY <1>5, Zenon DEF FirstStep, ChildsFirst
  <2> QED BY <1>5, <2>1 DEF Places
<1> QED BY <1>1, <1>2, <1>3, <1>4, <1>5 DEF Places

(* Zeros is an array, an array changed in one place is one. *)
LEMMA ArrayType ==
  ASSUME IpcAssumption
  PROVE  /\ Zeros \in Arrays
         /\ \A a \in Arrays : \A i \in 1 .. ARRAY_LENGTH : \A n \in Nat :
              [a EXCEPT ![i] = n] \in Arrays
  BY Length DEF Zeros, Arrays

(* What Start does with the key.                                           *)
LEMMA OpenIs ==
  ASSUME IpcAssumption, TypeOK, NEW r \in Runs, Open(r)
  PROVE  /\ Objects(medium, key', object') /\ Holders(held')
         /\ DOMAIN object \subseteq DOMAIN object'
         /\ Shared => held'[r] = key' /\ key' \in DOMAIN object'
         /\ \A h \in Runs \ {r} : held'[h] = held[h]
         /\ medium = "queue" /\ (key # Absent => object[key] = <<>>) => object'[key'] = <<>>
<1> DEFINE new == IF medium = "queue" THEN <<>> ELSE Zeros
           Things == IF medium = "memory" THEN Arrays ELSE Seq(Arrays)
           more == [h \in DOMAIN object \union {r} |-> IF h = r THEN new ELSE object[h]]
<1>1. CASE ~Shared
  <2>1. key' = key /\ held' = held /\ object' = object
    BY <1>1 DEF Open, Shared, objects
  <2> QED BY <1>1, <2>1 DEF TypeOK, Objects, Holders, Shared
<1>2. CASE Shared /\ key # Absent
  <2>1. key' = key /\ held' = [held EXCEPT ![r] = key] /\ object' = object
    BY <1>2, Zenon DEF Open, Shared
  <2> QED BY <1>2, <2>1 DEF TypeOK, Objects, Holders, Shared
<1>3. CASE Shared /\ key = Absent
  <2>1. key' = r /\ held' = [held EXCEPT ![r] = r] /\ object' = more
    BY <1>3, Zenon DEF Open, Shared
  <2>2. new \in Things
    <3>1. CASE medium = "queue"
      BY <3>1
    <3>2. CASE medium = "memory"
      BY <3>2, ArrayType
    <3> QED BY <1>3, <3>1, <3>2 DEF Shared
  <2>3. object \in [DOMAIN object -> Things] /\ DOMAIN object \subseteq Runs
    BY DEF TypeOK, Objects, Holders
  <2>4. /\ more \in [DOMAIN object \union {r} -> Things]
           /\ DOMAIN more = DOMAIN object \union {r}
        /\ medium = "queue" => more[r] = <<>>
    <3> HIDE DEF Things
    <3> QED BY <2>2, <2>3
  <2> HIDE DEF more
  <2> QED BY <1>3, <2>1, <2>3, <2>4 DEF TypeOK, Objects, Holders
<1> QED BY <1>1, <1>2, <1>3

-----------------------------------------------------------------------------
(* What a step of run h leaves of another. *)
Untouched(r) ==
  /\ ppc'[r] = ppc[r] /\ cpc'[r] = cpc[r] /\ array'[r] = array[r] /\ copy'[r] = copy[r]
  /\ at'[r] = at[r] /\ held'[r] = held[r] /\ pipe'[r] = pipe[r]
  /\ late'[r] = late[r] /\ alone'[r] = alone[r]

Started(h) ==
  /\ ppc[h] = "off" /\ \A g \in 1 .. h - 1 : ppc[g] \in Ended \ {"off"}
  /\ ppc'[h] \in {"write", "close", "copy"} /\ cpc'[h] \notin Ended
  /\ alone'[h] => \A g \in 1 .. h - 1 : cpc[g] \in Ended
ParentMoved(h) ==
  /\ ppc[h] \notin Ended /\ ppc'[h] # "off" /\ cpc'[h] = cpc[h] /\ alone'[h] = alone[h]
  /\ ppc'[h] \in {"read", "remove", "done"} => cpc[h] \in Ended
ChildMoved(h) ==
  /\ cpc[h] \notin Ended /\ cpc'[h] # "off" /\ ppc'[h] = ppc[h] /\ alone'[h] = alone[h]

LEMMA ParentMoves ==
  ASSUME TypeOK, NEW h \in Runs, InTurn(h), Parent(h) \/ KillParent(h)
  PROVE  /\ medium' = medium /\ ParentMoved(h)
         /\ \A r \in Runs \ {h} : Untouched(r)
<1> USE DEF Untouched, ParentMoved, ParentGoes, history, Ended, InTurn
<1>0. /\ DOMAIN ppc = Runs /\ DOMAIN array = Runs /\ DOMAIN at = Runs /\ DOMAIN pipe = Runs
  BY DEF TypeOK, PlacesOf, ArraysOf, PlacesAt, PipesOf, FlagsOf
<1>1. CASE ParentTruncates(h)
  BY <1>0, <1>1 DEF ParentTruncates, pipes, objects
<1>2. CASE ParentFlushes(h)
  BY <1>0, <1>2 DEF ParentFlushes, pipes, objects
<1>3. CASE ParentReadsFile(h)
  BY <1>0, <1>3 DEF ParentReadsFile, pipes, objects
<1>4. CASE ParentCloses(h)
  BY <1>0, <1>4 DEF ParentCloses, objects
<1>5. CASE ParentWritesPipe(h)
  BY <1>0, <1>5 DEF ParentWritesPipe, objects
<1>6. CASE ParentReadsPipe(h)
  BY <1>0, <1>6 DEF ParentReadsPipe, objects
<1>7. CASE ParentSends(h)
  BY <1>0, <1>7 DEF ParentSends, pipes, Sent
<1>8. CASE ParentReceives(h)
  BY <1>0, <1>8 DEF ParentReceives, pipes, Received
<1>9. CASE ParentCopies(h)
  BY <1>0, <1>9 DEF ParentCopies, pipes
<1>10. CASE ParentShows(h)
  BY <1>0, <1>10 DEF ParentShows, pipes, objects
<1>11. CASE ParentRemoves(h)
  BY <1>0, <1>11 DEF ParentRemoves, pipes
<1>12. CASE Wait(h)
  BY <1>0, <1>12 DEF Wait, pipes, objects
<1>13. CASE KillParent(h)
  BY <1>0, <1>13 DEF KillParent, objects
<1> QED BY <1>1, <1>2, <1>3, <1>4, <1>5, <1>6, <1>7, <1>8, <1>9, <1>10, <1>11, <1>12, <1>13
           DEF Parent

LEMMA ChildMoves ==
  ASSUME TypeOK, NEW h \in Runs, InTurn(h), Child(h) \/ KillChild(h)
  PROVE  /\ medium' = medium /\ ChildMoved(h)
         /\ \A r \in Runs \ {h} : Untouched(r)
<1> USE DEF Untouched, ChildMoved, ChildGoes, Ended
<1>0. /\ DOMAIN cpc = Runs /\ DOMAIN copy = Runs /\ DOMAIN at = Runs /\ DOMAIN pipe = Runs
      /\ DOMAIN late = Runs
  BY DEF TypeOK, PlacesOf, ArraysOf, PlacesAt, PipesOf, FlagsOf
<1>1. CASE Wake(h)
  BY <1>0, <1>1 DEF Wake, pipes, objects
<1>2. CASE ChildReadsFile(h)
  BY <1>0, <1>2 DEF ChildReadsFile, pipes, objects
<1>3. CASE ChildTruncates(h)
  BY <1>0, <1>3 DEF ChildTruncates, pipes, objects
<1>4. CASE ChildFlushes(h)
  BY <1>0, <1>4 DEF ChildFlushes, pipes, objects
<1>5. CASE ChildCloses(h)
  BY <1>0, <1>5 DEF ChildCloses, objects
<1>6. CASE ChildReadsPipe(h)
  BY <1>0, <1>6 DEF ChildReadsPipe, objects
<1>7. CASE ChildWritesPipe(h)
  BY <1>0, <1>7 DEF ChildWritesPipe, objects
<1>8. CASE ChildReceives(h)
  BY <1>0, <1>8 DEF ChildReceives, pipes, objects, Received
<1>9. CASE ChildSends(h)
  BY <1>0, <1>9 DEF ChildSends, pipes, objects, Sent
<1>10. CASE ChildCompares(h)
  BY <1>0, <1>10 DEF ChildCompares, pipes
<1>11. CASE KillChild(h)
  BY <1>0, <1>11 DEF KillChild, objects
<1> QED BY <1>1, <1>2, <1>3, <1>4, <1>5, <1>6, <1>7, <1>8, <1>9, <1>10, <1>11 DEF Child

LEMMA StartMoves ==
  ASSUME IpcAssumption, TypeOK, NEW h \in Runs, Start(h)
  PROVE  /\ medium' = medium /\ Started(h)
         /\ \A r \in Runs \ {h} : Untouched(r)
<1>1. FirstStep \in {"write", "close", "copy"} /\ ChildsFirst \notin Ended
  BY FirstSteps DEF TypeOK, Ended
<1>2. \A r \in Runs \ {h} : held'[r] = held[r]
  BY OpenIs DEF Start
<1>3. DOMAIN ppc = Runs /\ DOMAIN cpc = Runs /\ DOMAIN array = Runs /\ DOMAIN copy = Runs
        /\ DOMAIN alone = Runs
  BY DEF TypeOK, PlacesOf, ArraysOf, FlagsOf
<1>4. ASSUME NEW r \in Runs \ {h} PROVE Untouched(r)
  BY <1>2, <1>3 DEF Start, Untouched
<1>5. ppc'[h] \in {"write", "close", "copy"} /\ cpc'[h] \notin Ended
  BY <1>1, <1>3 DEF Start
<1>6. alone'[h] => \A g \in 1 .. h - 1 : cpc[g] \in Ended
  BY <1>3 DEF Start
<1> QED BY <1>4, <1>5, <1>6 DEF Start, Started

Moved(h) ==
  /\ medium' = medium /\ (Started(h) \/ ParentMoved(h) \/ ChildMoved(h))
  /\ \A r \in Runs \ {h} : Untouched(r)

Step(h) == Start(h) \/ Parent(h) \/ Child(h) \/ KillParent(h) \/ KillChild(h)

LEMMA Moves ==
  ASSUME IpcAssumption, TypeOK, NEW h \in Runs, InTurn(h), Step(h)
  PROVE  Moved(h)
  BY StartMoves, ParentMoves, ChildMoves DEF Step, Moved

(* One parent at a time. *)
LEMMA TurnsKept ==
  ASSUME IpcAssumption, NEW h \in Runs, \A r \in Runs : InTurn(r), Moved(h), NEW r \in Runs
  PROVE  InTurn(r)'
<1>1. Runs \subseteq Nat \ {0} /\ \A k \in Runs : 1 .. k - 1 \subseteq Runs
  BY DEF Runs, IpcAssumption
<1>2. CASE Started(h)
  <2>1. CASE r = h
    <3>1. \A g \in 1 .. h - 1 : g \in Runs \ {h} /\ ppc'[g] = ppc[g] /\ cpc'[g] = cpc[g]
      BY <1>1 DEF Moved, Untouched
    <3> QED BY <1>2, <2>1, <3>1 DEF Started, InTurn, Ended
  <2>2. CASE r # h /\ ppc[r] = "off"
    BY <1>1, <1>2, <2>2 DEF Moved, Untouched, Started, InTurn, Ended
  <2>3. CASE r # h /\ ppc[r] # "off"
    <3>1. r < h
      BY <1>1, <1>2, <2>3 DEF Started, InTurn
    <3>2. \A g \in 1 .. r - 1 : g \in Runs \ {h}
      BY <1>1, <3>1
    <3> QED BY <2>3, <3>2 DEF Moved, Untouched, InTurn
  <2> QED BY <2>1, <2>2, <2>3
<1>3. CASE ParentMoved(h)
  <2>1. CASE r = h
    BY <1>1, <1>3, <2>1 DEF Moved, Untouched, ParentMoved, InTurn, Ended
  <2>2. CASE r # h
    <3>1. h \in 1 .. r - 1 => ppc[r] = "off"
      BY <1>3 DEF ParentMoved, InTurn
    <3> QED BY <1>1, <1>3, <2>2, <3>1 DEF Moved, Untouched, ParentMoved, InTurn
  <2> QED BY <2>1, <2>2
<1>4. CASE ChildMoved(h)
  <2>1. CASE r = h
    BY <1>1, <1>4, <2>1 DEF Moved, Untouched, ChildMoved, InTurn, Ended
  <2>2. CASE r # h
    BY <1>1, <1>4, <2>2 DEF Moved, Untouched, ChildMoved, InTurn
  <2> QED BY <2>1, <2>2
<1> QED BY <1>2, <1>3, <1>4 DEF Moved

(* While the parent of an undisturbed run is there, nothing else happens.  *)
LEMMA OnlyOne ==
  ASSUME NEW h \in Runs, \A r \in Runs : InTurn(r), Moved(h),
         NEW r \in Runs, alone[r], ppc[r] \notin Ended
  PROVE  h = r
<1>1. SUFFICES ASSUME h # r PROVE FALSE
  OBVIOUS
<1>2. h \in 1 .. r - 1 \/ r \in 1 .. h - 1
  BY <1>1 DEF Runs
<1>3. CASE h \in 1 .. r - 1
  <2>1. ppc[h] \in Ended \ {"off"} /\ cpc[h] \in Ended
    BY <1>3 DEF InTurn, Ended
  <2> QED BY <2>1 DEF Moved, Started, ParentMoved, ChildMoved
<1>4. CASE r \in 1 .. h - 1
  <2>1. ppc[h] = "off" /\ cpc[h] = "off"
    BY <1>4 DEF InTurn
  <2> QED BY <1>4, <2>1 DEF Moved, Started, ParentMoved, ChildMoved, Ended
<1> QED BY <1>2, <1>3, <1>4

-----------------------------------------------------------------------------
(* What a step of run h leaves of what the runs share. *)
SharedKept(h) ==
  /\ DOMAIN object \subseteq DOMAIN object'
  /\ file' = file \/ file' \in {<<>>} \union Arrays
  /\ key' = key \/ ppc[h] \notin Ended \/ Started(h)

Own(r) == InTurn(r) /\ Holding(r) /\ AtWork(r)

(* The first element of a sequence of arrays, and one more of them.        *)
LEMMA SeqOfArrays ==
  ASSUME NEW q \in Seq(Arrays)
  PROVE  /\ \A a \in Arrays : Append(q, a) \in Seq(Arrays)
         /\ q # <<>> => Head(q) \in Arrays /\ Tail(q) \in Seq(Arrays)
<1>1. \A a \in Arrays : Append(q, a) \in Seq(Arrays)
  BY AppendProperties
<1>2. q # <<>> => Head(q) \in Arrays /\ Tail(q) \in Seq(Arrays)
  BY HeadTailProperties
<1> QED BY <1>1, <1>2

(* The types, what the run holds and where it is, after a step of its parent. *)
LEMMA ParentKeeps ==
  ASSUME IpcAssumption, TypeOK, NEW h \in Runs, Own(h), Parent(h) \/ KillParent(h)
  PROVE  TypeOK' /\ SharedKept(h) /\ Holding(h)' /\ AtWork(h)'
<1> USE DEF ParentGoes, history, Ended, Own
<1>1. CASE ParentTruncates(h)
  <2>1. PlacesOf(ppc')
    BY <1>1 DEF ParentTruncates, objects, pipes, TypeOK, PlacesOf, Places
  <2>2. Contents(file')
    BY <1>1 DEF ParentTruncates, objects, pipes, TypeOK, Contents, Contents, ArraysOf
  <2>3. TypeOK'
    BY <1>1, <2>1, <2>2 DEF ParentTruncates, objects, pipes, TypeOK
  <2>4. SharedKept(h) /\ Holding(h)' /\ AtWork(h)'
    BY <1>1 DEF ParentTruncates, objects, pipes, TypeOK, Objects, PlacesOf, ArraysOf, PlacesAt,
      Contents, Holders, PipesOf, FlagsOf, SharedKept, Holding, AtWork, Shared, InTurn
  <2> QED BY <2>3, <2>4
<1>2. CASE ParentFlushes(h)
  <2>1. PlacesOf(ppc')
    BY <1>2 DEF ParentFlushes, objects, pipes, TypeOK, PlacesOf, Places
  <2>2. Contents(file')
    BY <1>2 DEF ParentFlushes, objects, pipes, TypeOK, Contents, Contents, ArraysOf
  <2>3. TypeOK'
    BY <1>2, <2>1, <2>2 DEF ParentFlushes, objects, pipes, TypeOK
  <2>4. SharedKept(h) /\ Holding(h)' /\ AtWork(h)'
    BY <1>2 DEF ParentFlushes, objects, pipes, TypeOK, Objects, PlacesOf, ArraysOf, PlacesAt,
      Contents, Holders, PipesOf, FlagsOf, SharedKept, Holding, AtWork, Shared, InTurn
  <2> QED BY <2>3, <2>4
<1>3. CASE ParentReadsFile(h)
  <2>1. readArrayFromFile(array[h]) \in Arrays
    BY <1>3, FileRead DEF ParentReadsFile, TypeOK, ArraysOf, Holding
  <2>2. PlacesOf(ppc')
    BY <1>3, <2>1 DEF ParentReadsFile, files, objects, pipes, TypeOK, PlacesOf, Places
  <2>3. ArraysOf(array')
    BY <1>3, <2>1 DEF ParentReadsFile, files, objects, pipes, TypeOK, ArraysOf
  <2>4. TypeOK'
    BY <1>3, <2>2, <2>3 DEF ParentReadsFile, files, objects, pipes, TypeOK
  <2>5. SharedKept(h) /\ Holding(h)' /\ AtWork(h)'
    BY <1>3, <2>1 DEF ParentReadsFile, files, objects, pipes, TypeOK, Objects, PlacesOf,
      ArraysOf, PlacesAt, Contents, Holders, PipesOf, FlagsOf, SharedKept, Holding, AtWork,
        Shared, InTurn
  <2> QED BY <2>4, <2>5
<1>4. CASE ParentCloses(h)
  <2>1. PlacesOf(ppc')
    BY <1>4 DEF ParentCloses, files, objects, TypeOK, PlacesOf, Places
  <2>2. TypeOK'
    BY <1>4, <2>1 DEF ParentCloses, files, objects, TypeOK
  <2>3. SharedKept(h) /\ Holding(h)' /\ AtWork(h)'
    BY <1>4 DEF ParentCloses, files, objects, TypeOK, Objects, PlacesOf, ArraysOf, PlacesAt,
      Contents, Holders, PipesOf, FlagsOf, SharedKept, Holding, AtWork, Shared, InTurn
  <2> QED BY <2>2, <2>3
<1>5. CASE ParentWritesPipe(h)
  <2>1. Append(pipe[h].down, array[h]) \in Seq(Arrays)
    BY SeqOfArrays DEF TypeOK, ArraysOf, PipesOf, Contents
  <2>2. PlacesOf(ppc')
    BY <1>5, <2>1 DEF ParentWritesPipe, files, objects, TypeOK, PlacesOf, Places
  <2>3. PipesOf(pipe')
    BY <1>5, <2>1 DEF ParentWritesPipe, files, objects, TypeOK, PipesOf, ArraysOf
  <2>4. TypeOK'
    BY <1>5, <2>2, <2>3 DEF ParentWritesPipe, files, objects, TypeOK
  <2>5. SharedKept(h) /\ Holding(h)' /\ AtWork(h)'
    BY <1>5, <2>1 DEF ParentWritesPipe, files, objects, TypeOK, Objects, PlacesOf, ArraysOf,
      PlacesAt, Contents, Holders, PipesOf, FlagsOf, SharedKept, Holding, AtWork, Shared, InTurn
  <2> QED BY <2>4, <2>5
<1>6. CASE ParentReadsPipe(h)
  <2>1. pipe[h].up # <<>> => Head(pipe[h].up) \in Arrays /\ Tail(pipe[h].up) \in Seq(Arrays)
    BY SeqOfArrays DEF TypeOK, ArraysOf, PipesOf, Contents
  <2>2. PlacesOf(ppc')
    BY <1>6, <2>1 DEF ParentReadsPipe, files, objects, TypeOK, PlacesOf, Places
  <2>3. ArraysOf(array')
    BY <1>6, <2>1 DEF ParentReadsPipe, files, objects, TypeOK, ArraysOf
  <2>4. PipesOf(pipe')
    <3>1. CASE pipe[h].up = <<>>
      BY <1>6, <3>1 DEF ParentReadsPipe, TypeOK
    <3>2. CASE pipe[h].up # <<>>
      <4>1. pipe' = [pipe EXCEPT ![h].up = Tail(@)]
        BY <1>6, <3>2 DEF ParentReadsPipe
      <4> QED BY <2>1, <3>2, <4>1 DEF TypeOK, PipesOf
    <3> QED BY <3>1, <3>2
  <2>5. TypeOK'
    BY <1>6, <2>2, <2>3, <2>4 DEF ParentReadsPipe, files, objects, TypeOK
  <2>6. SharedKept(h) /\ Holding(h)' /\ AtWork(h)'
    BY <1>6, <2>1 DEF ParentReadsPipe, files, objects, TypeOK, Objects, PlacesOf, ArraysOf,
      PlacesAt, Contents, Holders, PipesOf, FlagsOf, SharedKept, Holding, AtWork, Shared, InTurn
  <2> QED BY <2>5, <2>6
<1>7. CASE ParentSends(h)
  <2>1. held[h] \in DOMAIN object /\ object[held[h]] \in Seq(Arrays)
    BY <1>7 DEF ParentSends, Holding, Shared, TypeOK, Objects, Holders
  <2>2. Append(object[held[h]], array[h]) \in Seq(Arrays)
    BY <2>1, SeqOfArrays DEF TypeOK, ArraysOf, PipesOf, Contents
  <2>3. PlacesOf(ppc')
    BY <1>7, <2>1, <2>2 DEF ParentSends, Sent, files, pipes, TypeOK, PlacesOf, Places
  <2>4. Objects(medium, key', object')
    BY <1>7, <2>1, <2>2 DEF ParentSends, Sent, files, pipes, TypeOK, Objects, ArraysOf
  <2>5. TypeOK'
    BY <1>7, <2>3, <2>4 DEF ParentSends, Sent, files, pipes, TypeOK
  <2>6. SharedKept(h) /\ Holding(h)' /\ AtWork(h)'
    BY <1>7, <2>1, <2>2 DEF ParentSends, Sent, files, pipes, TypeOK, Objects, PlacesOf,
      ArraysOf, PlacesAt, Contents, Holders, PipesOf, FlagsOf, SharedKept, Holding, AtWork,
        Shared, InTurn
  <2> QED BY <2>5, <2>6
<1>8. CASE ParentReceives(h)
  <2>1. held[h] \in DOMAIN object /\ held[h] = key /\ object[held[h]] \in Seq(Arrays)
    BY <1>8 DEF ParentReceives, Holding, Shared, TypeOK, Objects, Holders
  <2>2. Head(object[key]) \in Arrays /\ Tail(object[held[h]]) \in Seq(Arrays)
    BY <1>8, <2>1, SeqOfArrays DEF ParentReceives
  <2>3. PlacesOf(ppc')
    BY <1>8, <2>1, <2>2 DEF ParentReceives, Received, files, pipes, TypeOK, PlacesOf, Places
  <2>4. Objects(medium, key', object')
    BY <1>8, <2>1, <2>2 DEF ParentReceives, Received, files, pipes, TypeOK, Objects, ArraysOf
  <2>5. ArraysOf(array')
    BY <1>8, <2>1, <2>2 DEF ParentReceives, Received, files, pipes, TypeOK, ArraysOf
  <2>6. TypeOK'
    BY <1>8, <2>3, <2>4, <2>5 DEF ParentReceives, Received, files, pipes, TypeOK
  <2>7. SharedKept(h) /\ Holding(h)' /\ AtWork(h)'
    BY <1>8, <2>1, <2>2 DEF ParentReceives, Received, files, pipes, TypeOK, Objects, PlacesOf,
      ArraysOf, PlacesAt, Contents, Holders, PipesOf, FlagsOf, SharedKept, Holding, AtWork,
        Shared, InTurn
  <2> QED BY <2>6, <2>7
<1>9. CASE ParentCopies(h)
  <2>1. held[h] \in DOMAIN object /\ object[held[h]] \in Arrays /\ ARRAY_LENGTH \in Nat
    BY <1>9, Length DEF ParentCopies, Holding, Shared, TypeOK, Objects, Holders
  <2>2. at[h].parent \in Nat /\ at[h].parent + 1 \in 1 .. ARRAY_LENGTH
    BY <1>9, <2>1 DEF ParentCopies, AtWork, TypeOK, PlacesAt
  <2>3. [object[held[h]] EXCEPT ![at[h].parent + 1] = Initial[at[h].parent + 1]] \in Arrays
    BY <2>1, <2>2, ArrayType, Length DEF Arrays
  <2>4. /\ at'[h] = [parent |-> at[h].parent + 1, child |-> at[h].child]
        /\ DOMAIN object' = DOMAIN object /\ ppc'[h] \in {"wait", "copy"}
        /\ ppc'[h] = "copy" => at[h].parent + 1 # ARRAY_LENGTH
    BY <1>9, <2>1 DEF ParentCopies, TypeOK, PlacesAt, PlacesOf, Objects
  <2>5. PlacesOf(ppc')
    BY <1>9, <2>1, <2>2, <2>3, <2>4 DEF ParentCopies, files, pipes, TypeOK, PlacesOf, Places
  <2>6. Objects(medium, key', object')
    BY <1>9, <2>1, <2>2, <2>3, <2>4 DEF ParentCopies, files, pipes, TypeOK, Objects, ArraysOf
  <2>7. PlacesAt(at')
    <3>1. DOMAIN at' = Runs /\ at' = [r \in Runs |-> at'[r]]
            /\ \A r \in Runs \ {h} : at'[r] = at[r]
      BY <1>9 DEF ParentCopies, TypeOK, PlacesAt
    <3>2. at[h].parent + 1 \in Nat /\ at[h].child \in Nat \X Nat
      BY <2>2 DEF TypeOK, PlacesAt
    <3>3. at'[h] \in [parent : Nat, child : Nat \X Nat]
      BY <2>4, <3>2
    <3>4. \A r \in Runs : at'[r] \in [parent : Nat, child : Nat \X Nat]
      BY <3>1, <3>3 DEF TypeOK, PlacesAt
    <3> QED BY <3>1, <3>4 DEF PlacesAt
  <2>8. TypeOK'
    BY <1>9, <2>5, <2>6, <2>7 DEF ParentCopies, files, pipes, TypeOK
  <2>9. SharedKept(h) /\ Holding(h)' /\ AtWork(h)'
    <3>1. SharedKept(h) /\ Holding(h)'
      BY <1>9, <2>1, <2>4 DEF ParentCopies, files, SharedKept, Holding, Shared
    <3>2. cpc' = cpc
      BY <1>9 DEF ParentCopies
    <3>3. AtWork(h)'
      BY <1>9, <2>1, <2>2, <2>4, <3>2 DEF ParentCopies, AtWork, TypeOK, PlacesAt
    <3> QED BY <3>1, <3>3
  <2> QED BY <2>8, <2>9
<1>10. CASE ParentShows(h)
  <2>1. held[h] \in DOMAIN object /\ object[held[h]] \in Arrays
    BY <1>10 DEF ParentShows, Holding, Shared, TypeOK, Objects, Holders
  <2>2. PlacesOf(ppc')
    BY <1>10, <2>1 DEF ParentShows, files, objects, pipes, TypeOK, PlacesOf, Places
  <2>3. ArraysOf(array')
    BY <1>10, <2>1 DEF ParentShows, files, objects, pipes, TypeOK, ArraysOf
  <2>4. TypeOK'
    BY <1>10, <2>2, <2>3 DEF ParentShows, files, objects, pipes, TypeOK
  <2>5. SharedKept(h) /\ Holding(h)' /\ AtWork(h)'
    BY <1>10, <2>1 DEF ParentShows, files, objects, pipes, TypeOK, Objects, PlacesOf, ArraysOf,
      PlacesAt, Contents, Holders, PipesOf, FlagsOf, SharedKept, Holding, AtWork, Shared, InTurn
  <2> QED BY <2>4, <2>5
<1>11. CASE ParentRemoves(h)
  <2>1. PlacesOf(ppc')
    BY <1>11 DEF ParentRemoves, files, pipes, TypeOK, PlacesOf, Places
  <2>2. Objects(medium, key', object')
    BY <1>11 DEF ParentRemoves, files, pipes, TypeOK, Objects, ArraysOf
  <2>3. TypeOK'
    BY <1>11, <2>1, <2>2 DEF ParentRemoves, files, pipes, TypeOK
  <2>4. SharedKept(h) /\ Holding(h)' /\ AtWork(h)'
    BY <1>11 DEF ParentRemoves, files, pipes, TypeOK, Objects, PlacesOf, ArraysOf, PlacesAt,
      Contents, Holders, PipesOf, FlagsOf, SharedKept, Holding, AtWork, Shared, InTurn
  <2> QED BY <2>3, <2>4
<1>12. CASE Wait(h)
  <2>1. PlacesOf(ppc')
    BY <1>12 DEF Wait, files, objects, pipes, TypeOK, PlacesOf, Places
  <2>2. TypeOK'
    BY <1>12, <2>1 DEF Wait, files, objects, pipes, TypeOK
  <2>3. SharedKept(h) /\ Holding(h)' /\ AtWork(h)'
    BY <1>12 DEF Wait, files, objects, pipes, TypeOK, Objects, PlacesOf, ArraysOf, PlacesAt,
      Contents, Holders, PipesOf, FlagsOf, SharedKept, Holding, AtWork, Shared, InTurn
  <2> QED BY <2>2, <2>3
<1>13. CASE KillParent(h)
  <2>1. PlacesOf(ppc')
    BY <1>13 DEF KillParent, files, objects, TypeOK, PlacesOf, Places
  <2>2. TypeOK'
    BY <1>13, <2>1 DEF KillParent, files, objects, TypeOK
  <2>3. SharedKept(h) /\ Holding(h)' /\ AtWork(h)'
    BY <1>13 DEF KillParent, files, objects, TypeOK, Objects, PlacesOf, ArraysOf, PlacesAt,
      Contents, Holders, PipesOf, FlagsOf, SharedKept, Holding, AtWork, Shared, InTurn
  <2> QED BY <2>2, <2>3
<1> QED BY <1>1, <1>2, <1>3, <1>4, <1>5, <1>6, <1>7, <1>8, <1>9, <1>10, <1>11, <1>12, <1>13
           DEF Parent

(* The types, what the run holds and where it is, after a step of its child. *)
LEMMA ChildKeeps ==
  ASSUME IpcAssumption, TypeOK, NEW h \in Runs, Own(h), Child(h) \/ KillChild(h)
  PROVE  TypeOK' /\ SharedKept(h) /\ Holding(h)' /\ AtWork(h)'
<1> USE DEF ChildGoes, history, Ended, Own
<1>1. CASE Wake(h)
  <2>1. Valid(<<1, 2>>) /\ cpc'[h] \in {"read", "sort"}
    BY <1>1, Length DEF Wake, Valid, TypeOK, PlacesOf
  <2>2. PlacesOf(cpc')
    BY <1>1, <2>1 DEF Wake, files, objects, pipes, TypeOK, PlacesOf, Places
  <2>3. FlagsOf(late')
    BY <1>1, <2>1 DEF Wake, files, objects, pipes, TypeOK, FlagsOf
  <2>4. TypeOK'
    BY <1>1, <2>2, <2>3 DEF Wake, files, objects, pipes, TypeOK
  <2>5. SharedKept(h) /\ Holding(h)' /\ AtWork(h)'
    BY <1>1, <2>1 DEF Wake, files, objects, pipes, TypeOK, Objects, PlacesOf, ArraysOf,
      PlacesAt, Contents, Holders, PipesOf, FlagsOf, SharedKept, Holding, AtWork, Shared, InTurn
  <2> QED BY <2>4, <2>5
<1>2. CASE ChildReadsFile(h)
  <2>1. file # Absent => sortIntegerArray(readArrayFromFile(copy[h])) \in Arrays
    BY FileRead, SortType DEF TypeOK, ArraysOf, PipesOf, Contents
  <2>2. PlacesOf(cpc')
    BY <1>2, <2>1 DEF ChildReadsFile, files, objects, pipes, TypeOK, PlacesOf, Places
  <2>3. ArraysOf(copy')
    BY <1>2, <2>1 DEF ChildReadsFile, files, objects, pipes, TypeOK, ArraysOf
  <2>4. TypeOK'
    BY <1>2, <2>2, <2>3 DEF ChildReadsFile, files, objects, pipes, TypeOK
  <2>5. SharedKept(h) /\ Holding(h)' /\ AtWork(h)'
    BY <1>2, <2>1 DEF ChildReadsFile, files, objects, pipes, TypeOK, Objects, PlacesOf,
      ArraysOf, PlacesAt, Contents, Holders, PipesOf, FlagsOf, SharedKept, Holding, AtWork,
        Shared, InTurn
  <2> QED BY <2>4, <2>5
<1>3. CASE ChildTruncates(h)
  <2>1. PlacesOf(cpc')
    BY <1>3 DEF ChildTruncates, objects, pipes, TypeOK, PlacesOf, Places
  <2>2. Contents(file')
    BY <1>3 DEF ChildTruncates, objects, pipes, TypeOK, Contents, Contents, ArraysOf
  <2>3. TypeOK'
    BY <1>3, <2>1, <2>2 DEF ChildTruncates, objects, pipes, TypeOK
  <2>4. SharedKept(h) /\ Holding(h)' /\ AtWork(h)'
    BY <1>3 DEF ChildTruncates, objects, pipes, TypeOK, Objects, PlacesOf, ArraysOf, PlacesAt,
      Contents, Holders, PipesOf, FlagsOf, SharedKept, Holding, AtWork, Shared, InTurn
  <2> QED BY <2>3, <2>4
<1>4. CASE ChildFlushes(h)
  <2>1. PlacesOf(cpc')
    BY <1>4 DEF ChildFlushes, objects, pipes, TypeOK, PlacesOf, Places
  <2>2. Contents(file')
    BY <1>4 DEF ChildFlushes, objects, pipes, TypeOK, Contents, Contents, ArraysOf
  <2>3. TypeOK'
    BY <1>4, <2>1, <2>2 DEF ChildFlushes, objects, pipes, TypeOK
  <2>4. SharedKept(h) /\ Holding(h)' /\ AtWork(h)'
    BY <1>4 DEF ChildFlushes, objects, pipes, TypeOK, Objects, PlacesOf, ArraysOf, PlacesAt,
      Contents, Holders, PipesOf, FlagsOf, SharedKept, Holding, AtWork, Shared, InTurn
  <2> QED BY <2>3, <2>4
<1>5. CASE ChildCloses(h)
  <2>1. PlacesOf(cpc')
    BY <1>5 DEF ChildCloses, files, objects, TypeOK, PlacesOf, Places
  <2>2. TypeOK'
    BY <1>5, <2>1 DEF ChildCloses, files, objects, TypeOK
  <2>3. SharedKept(h) /\ Holding(h)' /\ AtWork(h)'
    BY <1>5 DEF ChildCloses, files, objects, TypeOK, Objects, PlacesOf, ArraysOf, PlacesAt,
      Contents, Holders, PipesOf, FlagsOf, SharedKept, Holding, AtWork, Shared, InTurn
  <2> QED BY <2>2, <2>3
<1>6. CASE ChildReadsPipe(h)
  <2>1. pipe[h].down # <<>> => sortIntegerArray(Head(pipe[h].down)) \in Arrays
          /\ Tail(pipe[h].down) \in Seq(Arrays)
    BY SeqOfArrays, SortType DEF TypeOK, ArraysOf, PipesOf, Contents
  <2>2. PlacesOf(cpc')
    BY <1>6, <2>1 DEF ChildReadsPipe, files, objects, TypeOK, PlacesOf, Places
  <2>3. ArraysOf(copy')
    BY <1>6, <2>1 DEF ChildReadsPipe, files, objects, TypeOK, ArraysOf
  <2>4. PipesOf(pipe')
    <3>1. CASE pipe[h].down = <<>>
      BY <1>6, <3>1 DEF ChildReadsPipe, TypeOK
    <3>2. CASE pipe[h].down # <<>>
      <4>1. pipe' = [pipe EXCEPT ![h].down = Tail(@)]
        BY <1>6, <3>2 DEF ChildReadsPipe
      <4> QED BY <2>1, <3>2, <4>1 DEF TypeOK, PipesOf
    <3> QED BY <3>1, <3>2
  <2>5. TypeOK'
    BY <1>6, <2>2, <2>3, <2>4 DEF ChildReadsPipe, files, objects, TypeOK
  <2>6. SharedKept(h) /\ Holding(h)' /\ AtWork(h)'
    BY <1>6, <2>1 DEF ChildReadsPipe, files, objects, TypeOK, Objects, PlacesOf, ArraysOf,
      PlacesAt, Contents, Holders, PipesOf, FlagsOf, SharedKept, Holding, AtWork, Shared, InTurn
  <2> QED BY <2>5, <2>6
<1>7. CASE ChildWritesPipe(h)
  <2>1. Append(pipe[h].up, copy[h]) \in Seq(Arrays)
    BY SeqOfArrays DEF TypeOK, ArraysOf, PipesOf, Contents
  <2>2. PlacesOf(cpc')
    BY <1>7, <2>1 DEF ChildWritesPipe, files, objects, TypeOK, PlacesOf, Places
  <2>3. PipesOf(pipe')
    BY <1>7, <2>1 DEF ChildWritesPipe, files, objects, TypeOK, PipesOf, ArraysOf
  <2>4. TypeOK'
    BY <1>7, <2>2, <2>3 DEF ChildWritesPipe, files, objects, TypeOK
  <2>5. SharedKept(h) /\ Holding(h)' /\ AtWork(h)'
    BY <1>7, <2>1 DEF ChildWritesPipe, files, objects, TypeOK, Objects, PlacesOf, ArraysOf,
      PlacesAt, Contents, Holders, PipesOf, FlagsOf, SharedKept, Holding, AtWork, Shared, InTurn
  <2> QED BY <2>4, <2>5
<1>8. CASE ChildReceives(h)
  <2>1. held[h] \in DOMAIN object /\ object[held[h]] \in Seq(Arrays)
    BY <1>8 DEF ChildReceives, InTurn, Holding, Shared, TypeOK, Objects, Holders
  <2>2. object[held[h]] # <<>> => sortIntegerArray(Head(object[held[h]])) \in Arrays
          /\ Tail(object[held[h]]) \in Seq(Arrays)
    BY <2>1, SeqOfArrays, SortType
  <2>3. PlacesOf(cpc')
    BY <1>8, <2>1, <2>2 DEF ChildReceives, Received, IsThere, files, pipes, objects, TypeOK,
      PlacesOf, Places
  <2>4. Objects(medium, key', object')
    <3>1. CASE held[h] = key /\ object[key] # <<>>
      <4>1. object' = [object EXCEPT ![held[h]] = Tail(@)] /\ key' = key /\ medium = "queue"
        BY <1>8, <3>1 DEF ChildReceives, Received, IsThere
      <4> QED BY <2>1, <2>2, <3>1, <4>1 DEF TypeOK, Objects
    <3>2. CASE ~(held[h] = key /\ object[key] # <<>>)
      BY <1>8, <3>2 DEF ChildReceives, IsThere, objects, TypeOK
    <3> QED BY <3>1, <3>2
  <2>5. ArraysOf(copy')
    BY <1>8, <2>1, <2>2 DEF ChildReceives, Received, IsThere, files, pipes, objects, TypeOK,
      ArraysOf
  <2>6. TypeOK'
    BY <1>8, <2>3, <2>4, <2>5
       DEF ChildReceives, Received, IsThere, files, pipes, objects, TypeOK
  <2>7. SharedKept(h) /\ Holding(h)' /\ AtWork(h)'
    BY <1>8, <2>1, <2>2 DEF ChildReceives, Received, IsThere, files, pipes, objects, TypeOK,
      Objects, PlacesOf, ArraysOf, PlacesAt, Contents, Holders, PipesOf, FlagsOf, SharedKept,
        Holding, AtWork, Shared, InTurn
  <2> QED BY <2>6, <2>7
<1>9. CASE ChildSends(h)
  <2>1. held[h] \in DOMAIN object /\ object[held[h]] \in Seq(Arrays)
    BY <1>9 DEF ChildSends, InTurn, Holding, Shared, TypeOK, Objects, Holders
  <2>2. Append(object[held[h]], copy[h]) \in Seq(Arrays)
    BY <2>1, SeqOfArrays DEF TypeOK, ArraysOf, PipesOf, Contents
  <2>3. PlacesOf(cpc')
    BY <1>9, <2>1, <2>2 DEF ChildSends, Sent, IsThere, files, pipes, objects, TypeOK, PlacesOf,
      Places
  <2>4. Objects(medium, key', object')
    BY <1>9, <2>1, <2>2 DEF ChildSends, Sent, IsThere, files, pipes, objects, TypeOK, Objects,
      ArraysOf
  <2>5. TypeOK'
    BY <1>9, <2>3, <2>4 DEF ChildSends, Sent, IsThere, files, pipes, objects, TypeOK
  <2>6. SharedKept(h) /\ Holding(h)' /\ AtWork(h)'
    BY <1>9, <2>1, <2>2 DEF ChildSends, Sent, IsThere, files, pipes, objects, TypeOK, Objects,
      PlacesOf, ArraysOf, PlacesAt, Contents, Holders, PipesOf, FlagsOf, SharedKept, Holding,
        AtWork, Shared, InTurn
  <2> QED BY <2>5, <2>6
<1>10. CASE ChildCompares(h)
  <2>1. held[h] \in DOMAIN object /\ object[held[h]] \in Arrays
    BY <1>10 DEF ChildCompares, InTurn, Holding, Shared, TypeOK, Objects, Holders
  <2>2. at[h].child \in Nat \X Nat /\ Valid(at[h].child)
    BY <1>10 DEF ChildCompares, AtWork, TypeOK, PlacesAt
  <2>3. PICK i, k : at[h].child = <<i, k>> /\ Valid(<<i, k>>)
    <3>1. at[h].child = <<at[h].child[1], at[h].child[2]>>
      BY <2>2
    <3> QED BY <2>2, <3>1
  <2>4. Exchange(object[held[h]], at[h].child) \in Arrays
    BY <2>1, <2>3, ExchangeType
  <2>5. /\ After(at[h].child) \in Nat \X Nat
        /\ at[h].child # <<ARRAY_LENGTH - 1, ARRAY_LENGTH>> => Valid(After(at[h].child))
    <3>1. ARRAY_LENGTH \in Nat /\ i \in Nat /\ k \in Nat /\ 1 <= i /\ i < k /\ k <= ARRAY_LENGTH
      BY <2>3, Length DEF Valid
    <3>2. CASE k < ARRAY_LENGTH
      <4>1. After(at[h].child) = <<i, k + 1>>
        BY <2>3, <3>2 DEF After
      <4> QED BY <3>1, <3>2, <4>1 DEF Valid
    <3>3. CASE k = ARRAY_LENGTH
      <4>1. After(at[h].child) = <<i + 1, i + 2>>
        BY <2>3, <3>1, <3>3 DEF After
      <4>2. at[h].child # <<ARRAY_LENGTH - 1, ARRAY_LENGTH>> => i + 2 <= ARRAY_LENGTH
        BY <2>3, <3>1, <3>3
      <4> QED BY <3>1, <4>1, <4>2 DEF Valid
    <3> QED BY <3>1, <3>2, <3>3
  <2>6. PlacesOf(cpc')
    BY <1>10, <2>1, <2>2, <2>3, <2>4, <2>5
       DEF ChildCompares, files, pipes, TypeOK, PlacesOf, Places
  <2>7. Objects(medium, key', object')
    BY <1>10, <2>1, <2>2, <2>3, <2>4, <2>5
       DEF ChildCompares, files, pipes, TypeOK, Objects, ArraysOf
  <2>8. PlacesAt(at')
    BY <1>10, <2>1, <2>2, <2>3, <2>4, <2>5 DEF ChildCompares, files, pipes, TypeOK, PlacesAt
  <2>9. TypeOK'
    BY <1>10, <2>6, <2>7, <2>8 DEF ChildCompares, files, pipes, TypeOK
  <2>10. SharedKept(h) /\ Holding(h)' /\ AtWork(h)'
    BY <1>10, <2>1, <2>2, <2>3, <2>4, <2>5
       DEF ChildCompares, files, pipes, TypeOK, Objects, PlacesOf, ArraysOf, PlacesAt, Contents,
         Holders, PipesOf, FlagsOf, SharedKept, Holding, AtWork, Shared, InTurn
  <2> QED BY <2>9, <2>10
<1>11. CASE KillChild(h)
  <2>1. PlacesOf(cpc')
    BY <1>11 DEF KillChild, files, objects, TypeOK, PlacesOf, Places
  <2>2. TypeOK'
    BY <1>11, <2>1 DEF KillChild, files, objects, TypeOK
  <2>3. SharedKept(h) /\ Holding(h)' /\ AtWork(h)'
    BY <1>11 DEF KillChild, files, objects, TypeOK, Objects, PlacesOf, ArraysOf, PlacesAt,
      Contents, Holders, PipesOf, FlagsOf, SharedKept, Holding, AtWork, Shared, InTurn
  <2> QED BY <2>2, <2>3
<1> QED BY <1>1, <1>2, <1>3, <1>4, <1>5, <1>6, <1>7, <1>8, <1>9, <1>10, <1>11 DEF Child

LEMMA StartKeeps ==
  ASSUME IpcAssumption, TypeOK, NEW h \in Runs, Own(h), Start(h)
  PROVE  TypeOK' /\ SharedKept(h) /\ Holding(h)' /\ AtWork(h)'
<1>1. /\ medium' = medium /\ file' = file /\ at' = at /\ pipe' = pipe /\ late' = late
      /\ Open(h) /\ ppc[h] = "off" /\ Started(h)
  BY StartMoves DEF Start, files
<1>2. /\ Objects(medium, key', object') /\ Holders(held')
         /\ DOMAIN object \subseteq DOMAIN object'
      /\ Shared => held'[h] = key' /\ key' \in DOMAIN object'
  BY <1>1, OpenIs
<1>3. /\ FirstStep \in Places \cap {"write", "close", "copy"}
      /\ ChildsFirst \in Places \cap {"sleep", "close", "read"}
  BY FirstSteps DEF TypeOK
<1>4. PlacesOf(ppc') /\ PlacesOf(cpc') /\ ppc'[h] = FirstStep /\ cpc'[h] = ChildsFirst
  BY <1>3 DEF Start, TypeOK, PlacesOf
<1>5. ArraysOf(array') /\ ArraysOf(copy')
  BY Length DEF Start, TypeOK, ArraysOf
<1>6. FlagsOf(alone')
  <2>1. PICK b \in BOOLEAN : alone' = [alone EXCEPT ![h] = b]
    BY DEF Start
  <2> QED BY <2>1 DEF TypeOK, FlagsOf
<1>7. TypeOK'
  BY <1>1, <1>2, <1>4, <1>5, <1>6 DEF TypeOK
<1>8. SharedKept(h)
  BY <1>1, <1>2 DEF SharedKept
<1>9. Holding(h)'
  BY <1>1, <1>2, <1>3, <1>4 DEF Holding, Shared
<1>10. AtWork(h)'
  <2>1. at'[h] = [parent |-> 0, child |-> <<1, 2>>]
    BY <1>1 DEF Own, AtWork
  <2> QED BY <1>3, <1>4, <2>1, Length DEF AtWork
<1> QED BY <1>7, <1>8, <1>9, <1>10

LEMMA OneParent ==
  ASSUME NEW r \in Runs, NEW h \in Runs, InTurn(r), InTurn(h), h # r, ppc[r] \notin Ended
  PROVE  ppc[h] \in Ended /\ ~Started(h)
<1>1. h \in 1 .. r - 1 \/ r \in 1 .. h - 1
  BY DEF Runs
<1>2. CASE h \in 1 .. r - 1
  BY <1>2 DEF InTurn, Started, Ended
<1>3. CASE r \in 1 .. h - 1
  BY <1>3 DEF InTurn, Started, Ended
<1> QED BY <1>1, <1>2, <1>3

(* Types, turns, what each run holds and where it is: kept by every step.  *)
LEMMA OwnKept ==
  ASSUME IpcAssumption, TypeOK, \A r \in Runs : Own(r), NEW h \in Runs, Step(h)
  PROVE  TypeOK' /\ Moved(h) /\ \A r \in Runs : Own(r)'
<1>1. Own(h) /\ InTurn(h)
  BY DEF Own
<1>2. Moved(h)
  BY <1>1, Moves
<1>3. TypeOK' /\ SharedKept(h) /\ Holding(h)' /\ AtWork(h)'
  BY <1>1, ParentKeeps, ChildKeeps, StartKeeps DEF Step
<1>4. \A r \in Runs : InTurn(r)'
  <2>1. \A r \in Runs : InTurn(r)
    BY DEF Own
  <2> QED BY <1>2, <2>1, TurnsKept
<1>5. ASSUME NEW r \in Runs \ {h} PROVE Holding(r)' /\ AtWork(r)'
  <2>1. Untouched(r) /\ medium' = medium /\ Own(r) /\ InTurn(r)
    BY <1>2 DEF Moved, Own
  <2>2. AtWork(r)'
    BY <2>1 DEF Untouched, Own, AtWork
  <2>3. ppc[r] \notin Ended => key' = key
    BY <1>1, <1>3, <2>1, OneParent DEF SharedKept
  <2>4. Holding(r)'
    BY <1>3, <2>1, <2>3 DEF Untouched, Own, Holding, Shared, SharedKept
  <2> QED BY <2>2, <2>4
<1> QED BY <1>2, <1>3, <1>4, <1>5 DEF Own

-----------------------------------------------------------------------------
LEMMA ParentGoesIs ==
  ASSUME TypeOK, NEW h \in Runs, NEW to, ParentGoes(h, to)
  PROVE  /\ ppc'[h] = to /\ cpc' = cpc /\ copy' = copy /\ late' = late /\ alone' = alone
         /\ medium' = medium
  BY DEF ParentGoes, history, TypeOK, PlacesOf

LEMMA ChildGoesIs ==
  ASSUME TypeOK, NEW h \in Runs, NEW to, ChildGoes(h, to)
  PROVE  /\ cpc'[h] = to /\ ppc' = ppc /\ array' = array /\ alone' = alone
         /\ medium' = medium
  BY DEF ChildGoes, TypeOK, PlacesOf

LEMMA TailSet ==
  ASSUME NEW S, NEW q \in Seq(S), q # <<>>
  PROVE  Head(q) \in ToSet(q) /\ ToSet(Tail(q)) \subseteq ToSet(q)
<1>1. /\ Tail(q) \in Seq(S) /\ Len(Tail(q)) = Len(q) - 1 /\ Head(q) = q[1]
      /\ \A i \in 1 .. Len(Tail(q)) : Tail(q)[i] = q[i + 1]
  BY HeadTailProperties
<1>2. DOMAIN q = 1 .. Len(q) /\ DOMAIN Tail(q) = 1 .. Len(Tail(q)) /\ Len(q) \in Nat \ {0}
  BY <1>1, LenProperties, EmptySeq
<1>3. PICK t : t = Tail(q)
  OBVIOUS
<1>4. \A i \in DOMAIN t : i + 1 \in DOMAIN q /\ t[i] = q[i + 1]
  BY <1>1, <1>2, <1>3
<1> QED BY <1>1, <1>2, <1>3, <1>4 DEF ToSet

(* Two pipes: whatever happens, only the array goes down and only sorted   *)
(* ones come up (pipe_ipc.c:53-88).                                        *)
LEMMA PipeKept ==
  ASSUME IpcAssumption, TypeOK, \A r \in Runs : Own(r), NEW h \in Runs, Step(h), Moved(h),
         NEW r \in Runs, PipeInv(r)
  PROVE  PipeInv(r)'
<1>1. SUFFICES ASSUME medium = "pipe", r = h PROVE PipeInv(h)'
  BY DEF Moved, Untouched, PipeInv
<1>2. /\ pipe[h].down \in Seq(Arrays) /\ pipe[h].up \in Seq(Arrays)
      /\ copy[h] \in Arrays /\ array[h] \in Arrays
  BY DEF TypeOK, PipesOf, ArraysOf
<1>3. Initial \in Arrays /\ Sorted(Initial, sortIntegerArray(Initial))
  BY Length, Sorts
<1> USE <1>1
<1>4. /\ ppc[h] \in {"close", "write"} => array[h] = Initial
      /\ ToSet(pipe[h].down) \subseteq {Initial}
      /\ cpc[h] = "write" => Sorted(Initial, copy[h])
      /\ \A b \in ToSet(pipe[h].up) : Sorted(Initial, b)
      /\ ppc[h] = "done" => Sorted(Initial, array[h])
  BY DEF PipeInv
<1>5. CASE Start(h)
  <2>1. FirstStep = "close" /\ ChildsFirst = "close"
    BY FirstSteps DEF TypeOK
  <2>2. /\ ppc'[h] = "close" /\ cpc'[h] = "close" /\ array'[h] = Initial /\ pipe' = pipe
    BY <1>5, <2>1 DEF Start, TypeOK, PlacesOf, ArraysOf
  <2> QED BY <1>4, <2>2 DEF PipeInv
<1>6. CASE ParentCloses(h)
  <2>1. ppc'[h] = "write" /\ ppc[h] = "close" /\ cpc' = cpc /\ array' = array /\ copy' = copy
          /\ pipe' = pipe
    BY <1>6, ParentGoesIs DEF ParentCloses
  <2> QED BY <1>4, <2>1 DEF PipeInv
<1>7. CASE ParentWritesPipe(h)
  <2>1. /\ ppc'[h] \in {"wait", "killed"} /\ cpc' = cpc /\ array' = array /\ copy' = copy
        /\ array[h] = Initial
    BY <1>4, <1>7, ParentGoesIs DEF ParentWritesPipe
  <2>2. pipe' = pipe \/ pipe' = [pipe EXCEPT ![h].down = Append(@, array[h])]
    BY <1>7 DEF ParentWritesPipe
  <2>3. ToSet(Append(pipe[h].down, array[h])) = ToSet(pipe[h].down) \union {array[h]}
    BY <1>2, EnQueue
  <2>4. pipe'[h].up = pipe[h].up /\ ToSet(pipe'[h].down) \subseteq {Initial}
    BY <1>4, <2>1, <2>2, <2>3 DEF TypeOK, PipesOf
  <2> QED BY <1>4, <2>1, <2>4 DEF PipeInv
<1>8. CASE ParentReadsPipe(h)
  <2>1. ppc'[h] \in {"done", "failed"} /\ cpc' = cpc /\ copy' = copy
    BY <1>8, ParentGoesIs DEF ParentReadsPipe
  <2>2. CASE pipe[h].up # <<>>
    <3>1. array'[h] = Head(pipe[h].up) /\ pipe' = [pipe EXCEPT ![h].up = Tail(@)]
      BY <1>8, <2>2 DEF ParentReadsPipe, TypeOK, ArraysOf
    <3>2. Head(pipe[h].up) \in ToSet(pipe[h].up)
            /\ ToSet(Tail(pipe[h].up)) \subseteq ToSet(pipe[h].up)
      BY <1>2, <2>2, TailSet
    <3>3. pipe'[h].down = pipe[h].down /\ pipe'[h].up = Tail(pipe[h].up)
      BY <3>1 DEF TypeOK, PipesOf
    <3> QED BY <1>4, <2>1, <3>1, <3>2, <3>3 DEF PipeInv
  <2>3. CASE pipe[h].up = <<>>
    <3>1. ppc'[h] = "failed" /\ pipe' = pipe
      BY <1>8, <2>3, ParentGoesIs DEF ParentReadsPipe
    <3> QED BY <1>4, <2>1, <3>1 DEF PipeInv
  <2> QED BY <2>2, <2>3
<1>9. CASE ChildCloses(h)
  <2>1. cpc'[h] = "read" /\ ppc' = ppc /\ array' = array /\ copy' = copy /\ pipe' = pipe
    BY <1>9, ChildGoesIs DEF ChildCloses
  <2> QED BY <1>4, <2>1 DEF PipeInv
<1>10. CASE ChildReadsPipe(h)
  <2>1. ppc' = ppc /\ array' = array
    BY <1>10, ChildGoesIs DEF ChildReadsPipe
  <2>2. CASE pipe[h].down # <<>>
    <3>1. Head(pipe[h].down) \in ToSet(pipe[h].down)
            /\ ToSet(Tail(pipe[h].down)) \subseteq ToSet(pipe[h].down)
      BY <1>2, <2>2, TailSet
    <3>2. Head(pipe[h].down) = Initial
      BY <1>4, <3>1
    <3>3. copy'[h] = sortIntegerArray(Initial) /\ pipe' = [pipe EXCEPT ![h].down = Tail(@)]
      BY <1>10, <2>2, <3>2 DEF ChildReadsPipe, TypeOK, ArraysOf
    <3>4. pipe'[h].up = pipe[h].up /\ pipe'[h].down = Tail(pipe[h].down)
      BY <3>3 DEF TypeOK, PipesOf
    <3> QED BY <1>3, <1>4, <2>1, <3>1, <3>3, <3>4 DEF PipeInv
  <2>3. CASE pipe[h].down = <<>>
    <3>1. cpc'[h] = "failed" /\ pipe' = pipe
      BY <1>10, <2>3, ChildGoesIs DEF ChildReadsPipe
    <3> QED BY <1>4, <2>1, <3>1 DEF PipeInv
  <2> QED BY <2>2, <2>3
<1>11. CASE ChildWritesPipe(h)
  <2>1. /\ ppc' = ppc /\ array' = array /\ copy' = copy /\ cpc[h] = "write"
        /\ cpc'[h] \in {"done", "killed"}
    BY <1>11, ChildGoesIs DEF ChildWritesPipe
  <2>2. pipe' = pipe \/ pipe' = [pipe EXCEPT ![h].up = Append(@, copy[h])]
    BY <1>11 DEF ChildWritesPipe
  <2>3. ToSet(Append(pipe[h].up, copy[h])) = ToSet(pipe[h].up) \union {copy[h]}
    BY <1>2, EnQueue
  <2>4. /\ pipe'[h].down = pipe[h].down
        /\ pipe'[h].up = pipe[h].up \/ pipe'[h].up = Append(pipe[h].up, copy[h])
    BY <2>2 DEF TypeOK, PipesOf
  <2>5. \A b \in ToSet(pipe'[h].up) : b \in ToSet(pipe[h].up) \/ b = copy[h]
    BY <2>3, <2>4
  <2> QED BY <1>4, <2>1, <2>4, <2>5 DEF PipeInv
<1>12. CASE Wait(h) \/ KillParent(h) \/ ParentRemoves(h)
  <2>1. ppc'[h] \in {"read", "killed"}
    <3>1. ~ParentRemoves(h)
      BY DEF ParentRemoves, Own, Holding, Shared
    <3> QED BY <1>12, <3>1, ParentGoesIs DEF Wait, KillParent
  <2>2. cpc' = cpc /\ array' = array /\ copy' = copy /\ pipe' = pipe
    BY <1>12, ParentGoesIs DEF Wait, KillParent, ParentRemoves, pipes
  <2> QED BY <1>4, <2>1, <2>2 DEF PipeInv
<1>13. CASE Wake(h) \/ KillChild(h)
  <2>1. ppc' = ppc /\ array' = array /\ copy' = copy /\ pipe' = pipe
          /\ cpc'[h] \in {"sort", "killed"}
    BY <1>13, ChildGoesIs DEF Wake, KillChild, pipes
  <2> QED BY <1>4, <2>1 DEF PipeInv
<1> QED
  BY <1>5, <1>6, <1>7, <1>8, <1>9, <1>10, <1>11, <1>12, <1>13
  DEF Step, Parent, Child, ParentTruncates, ParentFlushes, ParentReadsFile, ParentSends,
      ParentReceives, ParentCopies, ParentShows, ChildReadsFile, ChildTruncates, ChildFlushes,
      ChildReceives, ChildSends, ChildCompares

LEMMA OneArray ==
  ASSUME NEW b \in Arrays
  PROVE  Append(<<>>, b) = <<b>> /\ Head(<<b>>) = b /\ Tail(<<b>>) = <<>> /\ b \in ToSet(<<b>>)
<1>1. <<b>> \in Seq(Arrays) /\ <<b>> # <<>> /\ Len(<<b>>) = 1
  OBVIOUS
<1>2. Tail(<<b>>) \in Seq(Arrays) /\ Len(Tail(<<b>>)) = 0
  BY <1>1, HeadTailProperties
<1>3. Tail(<<b>>) = <<>>
  BY <1>2, EmptySeq
<1>4. Append(<<>>, b) = <<b>>
  OBVIOUS
<1>5. Head(<<b>>) = b
  OBVIOUS
<1>6. b \in ToSet(<<b>>)
  <2>1. 1 \in DOMAIN <<b>> /\ <<b>>[1] = b
    OBVIOUS
  <2> QED BY <2>1, Zenon DEF ToSet
<1> QED BY <1>3, <1>4, <1>5, <1>6

(* A run that is undisturbed and whose parent is there is the only one to  *)
(* take a step.                                                            *)
LEMMA Others ==
  ASSUME IpcAssumption, TypeOK, \A r \in Runs : Own(r), NEW h \in Runs, Step(h), Moved(h),
         NEW r \in Runs, r # h
  PROVE  Untouched(r) /\ medium' = medium /\ (alone[r] => ppc[r] \in Ended)
<1>1. \A g \in Runs : InTurn(g)
  BY DEF Own
<1>2. alone[r] => ppc[r] \in Ended
  BY <1>1, OnlyOne
<1> QED BY <1>2 DEF Moved

(* A message queue (message_queue_ipc.c:102-133).                          *)
LEMMA QueueKept ==
  ASSUME IpcAssumption, TypeOK, \A r \in Runs : Own(r), NEW h \in Runs, Step(h), Moved(h),
         NEW r \in Runs, QueueInv(r)
  PROVE  QueueInv(r)'
<1>1. CASE r # h
  <2>1. Untouched(r) /\ medium' = medium /\ (alone[r] => ppc[r] \in Ended)
    BY <1>1, Others
  <2> QED BY <2>1 DEF Untouched, QueueInv, Ended
<1>2. SUFFICES ASSUME medium = "queue", r = h PROVE QueueInv(h)'
  BY <1>1 DEF Moved, QueueInv
<1> USE <1>2
<1>3. /\ copy[h] \in Arrays /\ array[h] \in Arrays
      /\ Initial \in Arrays /\ Sorted(Initial, sortIntegerArray(Initial))
  BY Length, Sorts DEF TypeOK, ArraysOf
<1>4. /\ ppc[h] # "off" => held[h] \in DOMAIN object
      /\ ppc[h] \notin Ended => held[h] = key
      /\ ppc[h] \in {"read", "remove", "done"} => cpc[h] \in Ended
      /\ ppc[h] = "off" => cpc[h] = "off"
  BY DEF Own, Holding, InTurn, Shared
<1>5. CASE Start(h)
  <2>1. FirstStep = "write" /\ ChildsFirst = "read"
    BY FirstSteps DEF TypeOK
  <2>2. /\ ppc'[h] = "write" /\ cpc'[h] = "read" /\ array'[h] = Initial /\ Open(h)
        /\ alone'[h] => (key # Absent => object[key] = <<>>)
    BY <1>5, <2>1 DEF Start, TypeOK, PlacesOf, ArraysOf, FlagsOf
  <2>3. alone'[h] => object'[key'] = <<>>
    BY <2>2, OpenIs
  <2> QED BY <2>2, <2>3 DEF QueueInv
<1>6. alone[h] =>
        /\ ppc[h] = "write" => /\ array[h] = Initial /\ object[key] = <<>>
                               /\ cpc[h] \in {"read", "killed"}
        /\ ppc[h] \in {"wait", "read"} =>
             /\ cpc[h] = "read" => object[key] = <<Initial>>
             /\ cpc[h] = "write" => object[key] = <<>> /\ Sorted(Initial, copy[h])
             /\ cpc[h] = "done" => \E b \in ToSet(object[key]) : object[key] = <<b>>
                /\ Sorted(Initial, b)
        /\ ppc[h] \in {"remove", "done"} /\ cpc[h] = "done" => Sorted(Initial, array[h])
  BY DEF QueueInv
<1>7. ASSUME NEW b \in Arrays
      PROVE  Append(<<>>, b) = <<b>> /\ Head(<<b>>) = b /\ Tail(<<b>>) = <<>>
        /\ b \in ToSet(<<b>>)
  BY OneArray
<1>8. CASE ParentSends(h)
  <2>1. ppc[h] = "write" /\ ppc'[h] = "wait" /\ cpc' = cpc /\ alone' = alone
    BY <1>8, ParentGoesIs DEF ParentSends
  <2>2. object' = [object EXCEPT ![key] = Append(@, array[h])] /\ key' = key
          /\ key \in DOMAIN object
    BY <1>4, <1>8, <2>1 DEF ParentSends, Sent, Ended
  <2>3. alone[h] => object'[key'] = <<Initial>> /\ cpc[h] \in {"read", "killed"}
    BY <1>3, <1>6, <1>7, <2>1, <2>2
  <2> QED BY <2>1, <2>3 DEF QueueInv
<1>9. CASE ParentReceives(h)
  <2>1. /\ ppc[h] = "read" /\ ppc'[h] = "remove" /\ cpc' = cpc /\ alone' = alone
        /\ array'[h] = Head(object[key])
    BY <1>9, ParentGoesIs DEF ParentReceives, TypeOK, ArraysOf
  <2>2. alone[h] /\ cpc[h] = "done" => Sorted(Initial, array'[h])
    BY <1>6, <1>7, <2>1 DEF Sorted, Partly
  <2> QED BY <2>1, <2>2 DEF QueueInv
<1>10. CASE Wait(h)
  <2>1. /\ ppc[h] = "wait" /\ ppc'[h] = "read" /\ cpc' = cpc /\ alone' = alone /\ copy' = copy
        /\ object' = object /\ key' = key
    BY <1>10, ParentGoesIs DEF Wait, objects
  <2> QED BY <1>6, <2>1 DEF QueueInv
<1>11. CASE ParentRemoves(h)
  <2>1. /\ ppc[h] = "remove" /\ ppc'[h] = "done" /\ cpc' = cpc /\ alone' = alone
           /\ array' = array
    BY <1>11, ParentGoesIs DEF ParentRemoves
  <2> QED BY <1>6, <2>1 DEF QueueInv
<1>12. CASE KillParent(h)
  <2>1. ppc'[h] = "killed"
    BY <1>12, ParentGoesIs DEF KillParent
  <2> QED BY <2>1 DEF QueueInv
<1>13. CASE ChildReceives(h)
  <2>1. /\ cpc[h] = "read" /\ ppc' = ppc /\ alone' = alone /\ array' = array
        /\ cpc'[h] \in {"write", "failed"}
    BY <1>13, ChildGoesIs DEF ChildReceives
  <2>2. ppc[h] \notin {"off", "read", "remove", "done"}
    BY <1>4, <2>1 DEF Ended
  <2>3. CASE ppc[h] \in {"write", "wait"}
    <3>1. held[h] = key /\ key \in DOMAIN object
      BY <1>4, <2>3 DEF Ended
    <3>2. /\ object[key] # <<>> /\ cpc'[h] = "write" /\ key' = key
          /\ object' = [object EXCEPT ![key] = Tail(@)]
          /\ copy'[h] = sortIntegerArray(Head(object[key]))
      BY <1>13, <3>1, ChildGoesIs DEF ChildReceives, IsThere, Received, TypeOK, ArraysOf
    <3>3. alone[h] => ppc[h] = "wait" /\ object[key] = <<Initial>>
      BY <1>6, <2>1, <2>3, <3>2
    <3>4. alone[h] => object'[key'] = <<>> /\ copy'[h] = sortIntegerArray(Initial)
      BY <1>3, <1>7, <3>1, <3>2, <3>3
    <3> QED BY <1>3, <2>1, <3>2, <3>3, <3>4 DEF QueueInv
  <2>4. CASE ppc[h] \notin {"write", "wait"}
    BY <2>1, <2>2, <2>4 DEF QueueInv
  <2> QED BY <2>3, <2>4
<1>14. CASE ChildSends(h)
  <2>1. /\ cpc[h] = "write" /\ ppc' = ppc /\ alone' = alone /\ array' = array
        /\ cpc'[h] \in {"done", "failed"}
    BY <1>14, ChildGoesIs DEF ChildSends
  <2>2. ppc[h] \notin {"off", "read", "remove", "done"}
    BY <1>4, <2>1 DEF Ended
  <2>3. CASE ppc[h] = "wait"
    <3>1. held[h] = key /\ key \in DOMAIN object
      BY <1>4, <2>3 DEF Ended
    <3>2. /\ cpc'[h] = "done" /\ key' = key
             /\ object' = [object EXCEPT ![key] = Append(@, copy[h])]
      BY <1>14, <3>1, ChildGoesIs DEF ChildSends, IsThere, Sent
    <3>3. alone[h] => /\ copy[h] \in ToSet(object'[key']) /\ object'[key'] = <<copy[h]>>
                      /\ Sorted(Initial, copy[h])
      BY <1>3, <1>6, <1>7, <2>1, <2>3, <3>1, <3>2
    <3> QED BY <2>1, <2>3, <3>2, <3>3 DEF QueueInv
  <2>4. CASE ppc[h] # "wait"
    BY <1>6, <2>1, <2>2, <2>4 DEF QueueInv
  <2> QED BY <2>3, <2>4
<1>15. CASE Wake(h)
  <2>1. /\ cpc[h] = "sleep" /\ ppc' = ppc /\ alone' = alone /\ array' = array
           /\ cpc'[h] = "sort"
    BY <1>15, ChildGoesIs DEF Wake
  <2> QED BY <1>4, <1>6, <2>1 DEF QueueInv, Ended
<1>16. CASE KillChild(h)
  <2>1. /\ ppc' = ppc /\ alone' = alone /\ array' = array /\ cpc'[h] = "killed"
        /\ object' = object /\ key' = key
    BY <1>16, ChildGoesIs DEF KillChild, objects
  <2> QED BY <1>6, <2>1 DEF QueueInv
<1> QED
  BY <1>5, <1>8, <1>9, <1>10, <1>11, <1>12, <1>13, <1>14, <1>15, <1>16
  DEF Step, Parent, Child, ParentTruncates, ParentFlushes, ParentReadsFile, ParentCloses,
      ParentWritesPipe, ParentReadsPipe, ParentCopies, ParentShows, ChildReadsFile,
        ChildTruncates,
      ChildFlushes, ChildCloses, ChildReadsPipe, ChildWritesPipe, ChildCompares

(* A file (file_ipc.c:42-68).                                              *)
LEMMA FileKept ==
  ASSUME IpcAssumption, TypeOK, \A r \in Runs : Own(r), NEW h \in Runs, Step(h), Moved(h),
         NEW r \in Runs, FileInv(r)
  PROVE  FileInv(r)'
<1>1. CASE r # h
  <2>1. Untouched(r) /\ medium' = medium /\ (alone[r] => ppc[r] \in Ended)
    BY <1>1, Others
  <2> QED BY <2>1 DEF Untouched, FileInv, Ended
<1>2. SUFFICES ASSUME medium = "file", r = h PROVE FileInv(h)'
  BY <1>1 DEF Moved, FileInv
<1> USE <1>2
<1>3. /\ copy[h] \in Arrays /\ array[h] \in Arrays
      /\ Initial \in Arrays /\ Sorted(Initial, sortIntegerArray(Initial))
  BY Length, Sorts DEF TypeOK, ArraysOf
<1>4. /\ ppc[h] \in {"read", "remove", "done"} => cpc[h] \in Ended
      /\ ppc[h] = "off" => cpc[h] = "off"
  BY DEF Own, InTurn
<1>5. alone[h] =>
        /\ ppc[h] \in {"write", "flush"} => array[h] = Initial
        /\ ppc[h] \in {"write", "flush"} /\ cpc[h] \notin {"sleep", "killed"} => late[h]
        /\ ppc[h] \in {"wait", "read"} =>
             /\ cpc[h] = "sleep" => file = Initial
             /\ cpc[h] = "read" /\ ~late[h] => file = Initial
             /\ cpc[h] \in {"write", "flush"} /\ ~late[h] => Sorted(Initial, copy[h])
             /\ cpc[h] = "done" /\ ~late[h] => Sorted(Initial, file)
        /\ ppc[h] = "done" /\ cpc[h] = "done" /\ ~late[h] => Sorted(Initial, array[h])
  BY DEF FileInv
<1>6. CASE Start(h)
  <2>1. FirstStep = "write" /\ ChildsFirst = "sleep"
    BY FirstSteps DEF TypeOK
  <2>2. ppc'[h] = "write" /\ cpc'[h] = "sleep" /\ array'[h] = Initial
    BY <1>6, <2>1 DEF Start, TypeOK, PlacesOf, ArraysOf
  <2> QED BY <2>2 DEF FileInv
<1>7. CASE ParentTruncates(h)
  <2>1. /\ ppc[h] = "write" /\ ppc'[h] = "flush" /\ cpc' = cpc /\ alone' = alone
           /\ array' = array
        /\ late' = late
    BY <1>7, ParentGoesIs DEF ParentTruncates
  <2> QED BY <1>5, <2>1 DEF FileInv
<1>8. CASE ParentFlushes(h)
  <2>1. /\ ppc[h] = "flush" /\ ppc'[h] = "wait" /\ cpc' = cpc /\ alone' = alone
           /\ file' = array[h]
        /\ late' = late
    BY <1>8, ParentGoesIs DEF ParentFlushes
  <2> QED BY <1>5, <2>1 DEF FileInv
<1>9. CASE Wait(h)
  <2>1. /\ ppc[h] = "wait" /\ ppc'[h] = "read" /\ cpc' = cpc /\ alone' = alone /\ file' = file
        /\ late' = late /\ copy' = copy
    BY <1>9, ParentGoesIs DEF Wait, files
  <2> QED BY <1>5, <2>1 DEF FileInv
<1>10. CASE ParentReadsFile(h)
  <2>1. /\ ppc[h] = "read" /\ ppc'[h] = "done" /\ cpc' = cpc /\ alone' = alone /\ late' = late
        /\ array'[h] = readArrayFromFile(array[h])
    BY <1>10, ParentGoesIs DEF ParentReadsFile, TypeOK, ArraysOf
  <2>2. Sorted(Initial, file) => array'[h] = file
    BY <1>3, <2>1, FileRead DEF Sorted, Partly
  <2> QED BY <1>5, <2>1, <2>2 DEF FileInv
<1>11. CASE KillParent(h)
  <2>1. ppc'[h] = "killed"
    BY <1>11, ParentGoesIs DEF KillParent
  <2> QED BY <2>1 DEF FileInv
<1>12. CASE Wake(h)
  <2>1. /\ cpc[h] = "sleep" /\ cpc'[h] = "read" /\ ppc' = ppc /\ alone' = alone
           /\ array' = array
        /\ file' = file
    BY <1>12, ChildGoesIs DEF Wake, files
  <2>2. ppc[h] \in {"write", "flush"} => late'[h]
    BY <1>12 DEF Wake, TypeOK, FlagsOf
  <2>3. ppc[h] # "done"
    BY <1>4, <2>1 DEF Ended
  <2> QED BY <1>5, <2>1, <2>2, <2>3 DEF FileInv
<1>13. CASE ChildReadsFile(h)
  <2>1. /\ cpc[h] = "read" /\ cpc'[h] \in {"write", "failed"} /\ ppc' = ppc /\ alone' = alone
        /\ array' = array /\ file' = file /\ late' = late
    BY <1>13, ChildGoesIs DEF ChildReadsFile, files
  <2>2. cpc'[h] = "write" => copy'[h] = sortIntegerArray(readArrayFromFile(copy[h]))
    BY <1>13, ChildGoesIs DEF ChildReadsFile, TypeOK, ArraysOf
  <2>3. file = Initial => readArrayFromFile(copy[h]) = Initial
    BY <1>3, FileRead
  <2>4. ppc[h] # "done"
    BY <1>4, <2>1 DEF Ended
  <2> QED BY <1>3, <1>5, <2>1, <2>2, <2>3, <2>4 DEF FileInv
<1>14. CASE ChildTruncates(h)
  <2>1. /\ cpc[h] = "write" /\ cpc'[h] = "flush" /\ ppc' = ppc /\ alone' = alone
        /\ array' = array /\ copy' = copy /\ late' = late
    BY <1>14, ChildGoesIs DEF ChildTruncates
  <2> QED BY <1>5, <2>1 DEF FileInv
<1>15. CASE ChildFlushes(h)
  <2>1. /\ cpc[h] = "flush" /\ cpc'[h] = "done" /\ ppc' = ppc /\ alone' = alone
        /\ array' = array /\ file' = copy[h] /\ late' = late
    BY <1>15, ChildGoesIs DEF ChildFlushes
  <2>2. ppc[h] # "done"
    BY <1>4, <2>1 DEF Ended
  <2> QED BY <1>5, <2>1, <2>2 DEF FileInv
<1>16. CASE KillChild(h)
  <2>1. /\ ppc' = ppc /\ alone' = alone /\ array' = array /\ cpc'[h] = "killed" /\ late' = late
    BY <1>16, ChildGoesIs DEF KillChild
  <2> QED BY <1>5, <2>1 DEF FileInv
<1>17. ~ParentRemoves(h)
  BY DEF ParentRemoves, Own, Holding, Shared
<1> QED
  BY <1>6, <1>7, <1>8, <1>9, <1>10, <1>11, <1>12, <1>13, <1>14, <1>15, <1>16, <1>17
  DEF Step, Parent, Child, ParentCloses, ParentWritesPipe, ParentReadsPipe, ParentSends,
      ParentReceives, ParentCopies, ParentShows, ChildCloses, ChildReadsPipe, ChildWritesPipe,
      ChildReceives, ChildSends, ChildCompares

(* Shared memory (shared_memory_ipc.c:77-107).                             *)
LEMMA MemoryKept ==
  ASSUME IpcAssumption, TypeOK, \A r \in Runs : Own(r), NEW h \in Runs, Step(h), Moved(h),
         NEW r \in Runs, MemoryInv(r)
  PROVE  MemoryInv(r)'
<1>1. CASE r # h
  <2>1. Untouched(r) /\ medium' = medium /\ (alone[r] => ppc[r] \in Ended)
    BY <1>1, Others
  <2> QED BY <2>1 DEF Untouched, MemoryInv, Ended
<1>2. SUFFICES ASSUME medium = "memory", r = h PROVE MemoryInv(h)'
  BY <1>1 DEF Moved, MemoryInv
<1> USE <1>2
<1>3. Initial \in Arrays /\ ARRAY_LENGTH \in Nat /\ Partly(Initial, Initial, 1, 2)
  BY Length, StartOfSort
<1>4. /\ ppc[h] # "off" => held[h] \in DOMAIN object
      /\ ppc[h] \notin Ended => held[h] = key
      /\ ppc[h] \in {"read", "remove", "done"} => cpc[h] \in Ended
      /\ ppc[h] = "off" => cpc[h] = "off"
      /\ held[h] \in DOMAIN object => object[held[h]] \in Arrays
      /\ object = [k \in DOMAIN object |-> object[k]]
  BY DEF Own, Holding, InTurn, Shared, TypeOK, Objects
<1>5. alone[h] =>
        /\ ppc[h] = "copy" /\ cpc[h] \notin {"sleep", "killed"} => late[h]
        /\ ppc[h] = "copy" /\ cpc[h] = "sleep" =>
             \A i \in 1 .. at[h].parent : object[key][i] = Initial[i]
        /\ ppc[h] \in {"wait", "read"} =>
             /\ cpc[h] = "sleep" => object[key] = Initial
             /\ cpc[h] = "sort" /\ ~late[h] =>
                  Partly(Initial, object[key], at[h].child[1], at[h].child[2])
             /\ cpc[h] = "done" /\ ~late[h] => Sorted(Initial, object[key])
        /\ ppc[h] \in {"remove", "done"} /\ cpc[h] = "done" /\ ~late[h]
           => Sorted(Initial, array[h])
  BY DEF MemoryInv
<1>6. CASE Start(h)
  <2>1. FirstStep = "copy" /\ ChildsFirst = "sleep"
    BY FirstSteps DEF TypeOK
  <2>2. ppc'[h] = "copy" /\ cpc'[h] = "sleep" /\ at' = at /\ ppc[h] = "off"
    BY <1>6, <2>1 DEF Start, TypeOK, PlacesOf
  <2>3. at'[h].parent = 0 /\ 1 .. 0 = {}
    BY <2>2 DEF Own, AtWork
  <2> QED BY <2>2, <2>3 DEF MemoryInv
<1>7. CASE ParentCopies(h)
  <2>1. PICK i : i = at[h].parent + 1
    OBVIOUS
  <2>2. /\ ppc[h] = "copy" /\ ppc'[h] = (IF i = ARRAY_LENGTH THEN "wait" ELSE "copy")
        /\ cpc' = cpc /\ alone' = alone /\ late' = late /\ key' = key
    BY <1>7, <2>1, ParentGoesIs DEF ParentCopies
  <2>3. at[h].parent \in Nat /\ at[h].parent < ARRAY_LENGTH /\ i \in 1 .. ARRAY_LENGTH
    BY <1>3, <2>1, <2>2 DEF Own, AtWork, TypeOK, PlacesAt
  <2>4. at'[h].parent = i
    BY <1>7, <2>1 DEF ParentCopies, TypeOK, PlacesAt
  <2>5. key \in DOMAIN object /\ object' = [object EXCEPT ![key][i] = Initial[i]]
    BY <1>4, <1>7, <2>1, <2>2 DEF ParentCopies, Ended
  <2>6. object[key] \in Arrays /\ object'[key] = [object[key] EXCEPT ![i] = Initial[i]]
    BY <1>4, <2>2, <2>5 DEF Ended
  <2>7. /\ object'[key][i] = Initial[i] /\ object'[key] \in Arrays
        /\ \A k \in 1 .. ARRAY_LENGTH : k # i => object'[key][k] = object[key][k]
    BY <1>3, <2>3, <2>6 DEF Arrays
  <2>8. alone[h] /\ cpc[h] = "sleep" => \A k \in 1 .. i : object'[key][k] = Initial[k]
    <3>1. SUFFICES ASSUME alone[h], cpc[h] = "sleep", NEW k \in 1 .. i
                   PROVE  object'[key][k] = Initial[k]
      OBVIOUS
    <3>2. CASE k = i
      BY <2>7, <3>2
    <3>3. CASE k # i
      <4>1. k \in 1 .. at[h].parent /\ k \in 1 .. ARRAY_LENGTH
        BY <1>3, <2>1, <2>3, <3>3
      <4>2. object[key][k] = Initial[k]
        BY <1>5, <2>2, <3>1, <4>1
      <4> QED BY <2>7, <3>3, <4>1, <4>2
    <3> QED BY <3>2, <3>3
  <2>9. alone[h] /\ cpc[h] = "sleep" /\ i = ARRAY_LENGTH => object'[key] = Initial
    <3>1. SUFFICES ASSUME alone[h], cpc[h] = "sleep", i = ARRAY_LENGTH
                   PROVE  object'[key] = Initial
      OBVIOUS
    <3>2. PICK b : b = object'[key]
      OBVIOUS
    <3>3. b \in Arrays /\ \A k \in 1 .. ARRAY_LENGTH : b[k] = Initial[k]
      BY <2>7, <2>8, <3>1, <3>2
    <3>4. b = Initial
      BY <1>3, <3>3 DEF Arrays
    <3> QED BY <3>2, <3>4
  <2>10. CASE i = ARRAY_LENGTH
    BY <1>5, <2>2, <2>9, <2>10 DEF MemoryInv
  <2>11. CASE i # ARRAY_LENGTH
    BY <1>5, <2>2, <2>4, <2>8, <2>11 DEF MemoryInv
  <2> QED BY <2>10, <2>11
<1>8. CASE Wait(h)
  <2>1. /\ ppc[h] = "wait" /\ ppc'[h] = "read" /\ cpc' = cpc /\ alone' = alone /\ late' = late
        /\ object' = object /\ key' = key /\ at' = at
    BY <1>8, ParentGoesIs DEF Wait, objects
  <2> QED BY <1>5, <2>1 DEF MemoryInv
<1>9. CASE ParentShows(h)
  <2>1. /\ ppc[h] = "read" /\ ppc'[h] = "remove" /\ cpc' = cpc /\ alone' = alone /\ late' = late
        /\ array'[h] = object[held[h]]
    BY <1>9, ParentGoesIs DEF ParentShows, TypeOK, ArraysOf
  <2>2. held[h] = key
    BY <1>4, <2>1 DEF Ended
  <2> QED BY <1>5, <2>1, <2>2 DEF MemoryInv
<1>10. CASE ParentRemoves(h)
  <2>1. /\ ppc[h] = "remove" /\ ppc'[h] = "done" /\ cpc' = cpc /\ alone' = alone /\ late' = late
        /\ array' = array
    BY <1>10, ParentGoesIs DEF ParentRemoves
  <2> QED BY <1>5, <2>1 DEF MemoryInv
<1>11. CASE KillParent(h)
  <2>1. ppc'[h] = "killed"
    BY <1>11, ParentGoesIs DEF KillParent
  <2> QED BY <2>1 DEF MemoryInv
<1>12. CASE Wake(h)
  <2>1. /\ cpc[h] = "sleep" /\ cpc'[h] = "sort" /\ ppc' = ppc /\ alone' = alone
           /\ array' = array
        /\ object' = object /\ key' = key /\ at' = at
    BY <1>12, ChildGoesIs DEF Wake, objects
  <2>2. ppc[h] = "copy" => late'[h]
    BY <1>12 DEF Wake, TypeOK, FlagsOf
  <2>3. ppc[h] \notin {"read", "remove", "done"}
    BY <1>4, <2>1 DEF Ended
  <2>4. at[h].child[1] = 1 /\ at[h].child[2] = 2
    BY <2>1 DEF Own, AtWork
  <2> QED BY <1>3, <1>5, <2>1, <2>2, <2>3, <2>4 DEF MemoryInv
<1>13. CASE ChildCompares(h)
  <2>1. /\ cpc[h] = "sort" /\ ppc' = ppc /\ alone' = alone /\ array' = array /\ late' = late
        /\ key' = key /\ object' = [object EXCEPT ![held[h]] = Exchange(@, at[h].child)]
        /\ cpc'[h] = IF at[h].child = <<ARRAY_LENGTH - 1, ARRAY_LENGTH>> THEN "done" ELSE "sort"
    BY <1>13, ChildGoesIs DEF ChildCompares
  <2>2. ppc[h] \notin {"read", "remove", "done"}
    BY <1>4, <2>1 DEF Ended
  <2>3. CASE ppc[h] # "wait"
    BY <1>5, <2>1, <2>2, <2>3 DEF MemoryInv
  <2>4. CASE ppc[h] = "wait" /\ alone[h] /\ ~late[h]
    <3>1. held[h] = key /\ key \in DOMAIN object
      BY <1>4, <2>4 DEF Ended
    <3>2. at[h].child \in Nat \X Nat /\ Valid(at[h].child)
      BY <2>1 DEF Own, AtWork, TypeOK, PlacesAt
    <3>3. PICK i, k : i \in Nat /\ k \in Nat /\ at[h].child = <<i, k>>
      BY <3>2
    <3>4. Valid(<<i, k>>) /\ 1 <= i /\ i < k /\ k <= ARRAY_LENGTH
      BY <3>2, <3>3 DEF Valid
    <3>5. PICK b : b = object[key]
      OBVIOUS
    <3>6. Partly(Initial, b, i, k)
      BY <1>5, <2>1, <2>4, <3>3, <3>5
    <3>7. object'[key] = Exchange(b, <<i, k>>)
      BY <2>1, <3>1, <3>3, <3>5
    <3>8. Partly(Initial, object'[key], i, k + 1)
      BY ONLY IpcAssumption, <3>4, <3>6, <3>7, ExchangeSorts
    <3>9. at'[h].child = After(<<i, k>>)
      BY <1>13, <3>3 DEF ChildCompares, TypeOK, PlacesAt
    <3>10. CASE k < ARRAY_LENGTH
      <4>1. at'[h].child = <<i, k + 1>>
        BY <3>9, <3>10 DEF After
      <4>2. cpc'[h] = "sort"
        BY <2>1, <3>3, <3>10
      <4> QED BY <2>1, <2>4, <3>8, <4>1, <4>2 DEF MemoryInv
    <3>11. CASE k = ARRAY_LENGTH
      <4>1. at'[h].child = <<i + 1, i + 2>>
        BY <1>3, <3>9, <3>11 DEF After
      <4>2. i \in 1 .. ARRAY_LENGTH - 1
        BY <1>3, <3>3, <3>4
      <4>3. Partly(Initial, object'[key], i + 1, i + 2)
        BY ONLY IpcAssumption, <3>8, <3>11, <4>2, NextIndex
      <4>4. CASE i = ARRAY_LENGTH - 1
        <5>1. i + 1 = ARRAY_LENGTH /\ i + 2 = ARRAY_LENGTH + 1
          BY <1>3, <4>4
        <5>2. Sorted(Initial, object'[key]) /\ cpc'[h] = "done"
          BY <2>1, <3>3, <3>11, <4>3, <4>4, <5>1 DEF Sorted
        <5> QED BY <2>1, <2>4, <5>2 DEF MemoryInv
      <4>5. CASE i # ARRAY_LENGTH - 1
        <5>1. cpc'[h] = "sort"
          BY <2>1, <3>3, <4>5
        <5> QED BY <2>1, <2>4, <4>1, <4>3, <5>1 DEF MemoryInv
      <4> QED BY <4>4, <4>5
    <3> QED BY <1>3, <3>3, <3>4, <3>10, <3>11
  <2>5. CASE ppc[h] = "wait" /\ (~alone[h] \/ late[h])
    BY <2>1, <2>5 DEF MemoryInv
  <2> QED BY <2>3, <2>4, <2>5 DEF TypeOK, FlagsOf
<1>14. CASE KillChild(h)
  <2>1. /\ ppc' = ppc /\ alone' = alone /\ array' = array /\ cpc'[h] = "killed" /\ late' = late
    BY <1>14, ChildGoesIs DEF KillChild
  <2> QED BY <1>5, <2>1 DEF MemoryInv
<1> QED
  BY <1>6, <1>7, <1>8, <1>9, <1>10, <1>11, <1>12, <1>13, <1>14
  DEF Step, Parent, Child, ParentTruncates, ParentFlushes, ParentReadsFile, ParentCloses,
      ParentWritesPipe, ParentReadsPipe, ParentSends, ParentReceives, ChildReadsFile,
        ChildTruncates,
      ChildFlushes, ChildCloses, ChildReadsPipe, ChildWritesPipe, ChildReceives, ChildSends

-----------------------------------------------------------------------------
LEMMA StartsSound == ASSUME IpcAssumption, Init PROVE IInv
<1>1. TypeOK
  <2>1. Zeros \in Arrays /\ ARRAY_LENGTH \in Nat
    BY ArrayType, Length
  <2>2. PlacesOf(ppc) /\ PlacesOf(cpc) /\ FlagsOf(late) /\ FlagsOf(alone)
    BY DEF Init, PlacesOf, Places, FlagsOf
  <2>3. ArraysOf(array) /\ ArraysOf(copy)
    BY <2>1 DEF Init, ArraysOf
  <2>4. PlacesAt(at) /\ Contents(file) /\ Holders(held)
    BY DEF Init, PlacesAt, Contents, Holders
  <2>5. Objects(medium, key, object)
    <3>1. DOMAIN <<>> = {} /\ <<>> = [k \in {} |-> 0]
      OBVIOUS
    <3> QED BY <3>1 DEF Init, Objects
  <2>6. PipesOf(pipe)
    <3>1. <<>> \in Seq(Arrays)
      OBVIOUS
    <3> QED BY <3>1 DEF Init, PipesOf
  <2> QED BY <2>2, <2>3, <2>4, <2>5, <2>6 DEF Init, TypeOK
<1>2. ASSUME NEW r \in Runs PROVE Own(r)
  BY DEF Init, Own, InTurn, Holding, AtWork, Ended
<1>3. ASSUME NEW r \in Runs PROVE PipeInv(r) /\ QueueInv(r) /\ FileInv(r) /\ MemoryInv(r)
  <2>1. ToSet(<<>>) = {}
    BY DEF ToSet
  <2> QED BY <2>1 DEF Init, PipeInv, QueueInv, FileInv, MemoryInv
<1> QED BY <1>1, <1>2, <1>3 DEF IInv, Own

LEMMA NextKeeps == ASSUME IpcAssumption, IInv, [Next]_vars PROVE IInv'
<1>1. CASE Next
  <2>1. PICK h \in Runs : Step(h)
    BY <1>1 DEF Next, Step
  <2>2. TypeOK /\ \A r \in Runs : Own(r)
    BY DEF IInv, Own
  <2>3. TypeOK' /\ Moved(h) /\ \A r \in Runs : Own(r)'
    BY <2>1, <2>2, OwnKept
  <2>4. ASSUME NEW r \in Runs
        PROVE  PipeInv(r)' /\ QueueInv(r)' /\ FileInv(r)' /\ MemoryInv(r)'
    <3>1. PipeInv(r) /\ QueueInv(r) /\ FileInv(r) /\ MemoryInv(r)
      BY DEF IInv
    <3> QED BY <2>1, <2>2, <2>3, <3>1, PipeKept, QueueKept, FileKept, MemoryKept
  <2> QED BY <2>3, <2>4 DEF IInv, Own
<1>2. CASE UNCHANGED vars
  <2>1. /\ medium' = medium /\ ppc' = ppc /\ cpc' = cpc /\ array' = array /\ copy' = copy
        /\ at' = at /\ file' = file /\ key' = key /\ held' = held /\ object' = object
        /\ pipe' = pipe /\ late' = late /\ alone' = alone
    BY <1>2 DEF vars, files, objects, pipes, history
  <2>2. TypeOK'
    BY <2>1 DEF IInv, TypeOK
  <2>3. ASSUME NEW r \in Runs PROVE InTurn(r)' /\ Holding(r)' /\ AtWork(r)'
    BY <2>1 DEF IInv, InTurn, Holding, AtWork, Shared
  <2>4. ASSUME NEW r \in Runs PROVE PipeInv(r)' /\ QueueInv(r)'
    BY <2>1 DEF IInv, PipeInv, QueueInv
  <2>5. ASSUME NEW r \in Runs PROVE FileInv(r)' /\ MemoryInv(r)'
    BY <2>1 DEF IInv, FileInv, MemoryInv
  <2> QED BY <2>2, <2>3, <2>4, <2>5 DEF IInv
<1> QED BY <1>1, <1>2

LEMMA IInvShows == ASSUME IpcAssumption, IInv PROVE ShownSorted
<1>1. SUFFICES ASSUME NEW r \in Runs, ppc[r] = "done", Undisturbed(r) PROVE IsSorting(array[r])
  BY DEF ShownSorted
<1>2. medium \in {"file", "pipe", "queue", "memory"}
  BY FirstSteps DEF IInv, TypeOK
<1>3. CASE medium = "pipe"
  <2>1. Sorted(Initial, array[r])
    BY <1>1, <1>3 DEF IInv, PipeInv
  <2> QED BY <2>1, SortedIsSorting
<1>4. CASE medium = "queue"
  <2>1. alone[r] /\ cpc[r] = "done"
    BY <1>1, <1>4, Zenon DEF Undisturbed
  <2>2. Sorted(Initial, array[r])
    BY <1>1, <1>4, <2>1 DEF IInv, QueueInv
  <2> QED BY <2>2, SortedIsSorting
<1>5. CASE medium \in {"file", "memory"}
  <2>1. medium # "pipe" /\ medium # "queue"
    BY <1>5
  <2>2. alone[r] /\ cpc[r] = "done" /\ ~late[r]
    BY <1>1, <2>1, Zenon DEF Undisturbed
  <2>3. Sorted(Initial, array[r])
    BY <1>1, <1>5, <2>2 DEF IInv, FileInv, MemoryInv
  <2> QED BY <2>3, SortedIsSorting
<1> QED BY <1>2, <1>3, <1>4, <1>5

(* The inductive invariant: types, one parent at a time, and for each      *)
(* medium where the array is between the parent's and the child's steps.   *)
THEOREM IpcSound == Spec => []IInv
<1>1. Init => IInv
  BY StartsSound, IpcAssumption
<1>2. IInv /\ [Next]_vars => IInv'
  BY NextKeeps, IpcAssumption
<1> QED BY <1>1, <1>2, PTL DEF Spec

(* Whatever a parent shows is sorted, where nothing disturbed its run: for *)
(* every array, number of runs and interleaving with killed processes.     *)
THEOREM ShownSortedAlways == Spec => []ShownSorted
<1>1. IInv => ShownSorted
  BY IInvShows, IpcAssumption
<1> QED BY <1>1, IpcSound, PTL
=============================================================================
