--------------------------- MODULE ProgramProofs ----------------------------
(***************************************************************************)
(* What holds of the programs of MCUserFile and MCPrograms: UserFile, for  *)
(* any ids, names, limit and size of a buffer, Inventory, for any          *)
(* capacity, IDs and quantities, Sonar, for an image of any size, Spiral,  *)
(* for a matrix of any size, Teams, for any teams and players, and         *)
(* Calculator, for lines of any length.                                    *)
(***************************************************************************)
EXTENDS UserFile, Inventory, Sonar, Spiral, Teams, Calculator, QueueLemmas, FiniteSetTheorems

-----------------------------------------------------------------------------
(* What of a kill during a rewrite is in the file: a beginning.            *)
Written == pc = "flushed" => \E n \in 0 .. Len(userList) : records = SubSeq(userList, 1, n)

(* The array holds no more than is loaded (lines 115, 149).                *)
Fits == Len(userList) <= SIZE_LIMIT

IInv == TypeOK /\ OneUserPerId /\ Written /\ Fits

(* A beginning of a list. *)
LEMMA Beginning ==
  ASSUME NEW S, NEW q \in Seq(S), NEW n \in 0 .. Len(q)
  PROVE  /\ SubSeq(q, 1, n) \in Seq(S) /\ Len(SubSeq(q, 1, n)) = n
         /\ DOMAIN SubSeq(q, 1, n) = 1 .. n
         /\ \A i \in 1 .. n : SubSeq(q, 1, n)[i] = q[i]
<1>1. \A i \in 1 .. n : q[i] \in S
  BY ElementOfSeq
<1>2. 1 \in Int /\ n \in Int /\ n \in Nat
  BY LenProperties
<1>3. /\ SubSeq(q, 1, n) \in Seq(S)
      /\ Len(SubSeq(q, 1, n)) = IF 1 <= n THEN n - 1 + 1 ELSE 0
      /\ \A i \in 1 .. n - 1 + 1 : SubSeq(q, 1, n)[i] = q[1 + i - 1]
  BY <1>1, SubSeqProperties
<1>4. Len(SubSeq(q, 1, n)) = n
  BY <1>2, <1>3
<1>5. \A i \in 1 .. n : SubSeq(q, 1, n)[i] = q[i]
  BY <1>2, <1>3
<1>6. DOMAIN SubSeq(q, 1, n) = 1 .. n
  BY <1>3, <1>4, LenProperties
<1> QED BY <1>3, <1>4, <1>5, <1>6

(* A shorter list has as few users of an id. *)
LEMMA FewerUsers ==
  ASSUME NEW S, NEW q \in Seq(S), FirstIsUser(q), NEW n \in 0 .. Len(q)
  PROVE  FirstIsUser(SubSeq(q, 1, n))
<1> DEFINE r == SubSeq(q, 1, n)
<1>1. DOMAIN q = 1 .. Len(q) /\ DOMAIN r = 1 .. n /\ \A i \in 1 .. n : r[i] = q[i]
  BY Beginning, LenProperties
<1> HIDE DEF r
<1>2. FirstIsUser(r)
  BY <1>1 DEF FirstIsUser
<1> QED BY <1>2 DEF r

(* loadUsersFromFile (lines 14-30). *)
LEMMA Loaded ==
  ASSUME NEW q \in Seq(Records)
  PROVE  /\ loadUsersFromFile(q) \in Seq(Records)
         /\ Len(loadUsersFromFile(q)) = IF Len(q) < SIZE_LIMIT THEN Len(q) ELSE SIZE_LIMIT
         /\ DOMAIN loadUsersFromFile(q) = 1 .. Len(loadUsersFromFile(q))
         /\ \A i \in DOMAIN loadUsersFromFile(q) : loadUsersFromFile(q)[i] = q[i]
         /\ FirstIsUser(q) => FirstIsUser(loadUsersFromFile(q))
<1> DEFINE n == IF Len(q) < SIZE_LIMIT THEN Len(q) ELSE SIZE_LIMIT
<1>1. n \in 0 .. Len(q)
  BY LenProperties, UserAssumption
<1> HIDE DEF n
<1>2. loadUsersFromFile(q) = SubSeq(q, 1, n)
  BY DEF loadUsersFromFile, n
<1> QED BY <1>1, <1>2, Beginning, FewerUsers DEF n

(* A file no longer than the limit is loaded whole. *)
LEMMA AllLoaded ==
  ASSUME NEW q \in Seq(Records), Len(q) <= SIZE_LIMIT PROVE loadUsersFromFile(q) = q
<1>1. Len(q) \in Nat /\ SIZE_LIMIT \in Nat
  BY LenProperties, UserAssumption
<1>2. loadUsersFromFile(q) = SubSeq(q, 1, Len(q))
  BY <1>1 DEF loadUsersFromFile
<1> QED BY <1>2, SubSeqFull

(* A record behind the limit changes nothing of what is loaded. *)
LEMMA BehindLimit ==
  ASSUME NEW q \in Seq(Records), Len(q) >= SIZE_LIMIT, NEW r \in Records
  PROVE  loadUsersFromFile(Append(q, r)) = loadUsersFromFile(q)
<1> DEFINE p == Append(q, r)
           Old == loadUsersFromFile(q)
           New == loadUsersFromFile(p)
<1>1. p \in Seq(Records) /\ Len(p) = Len(q) + 1 /\ \A n \in 1 .. Len(q) : p[n] = q[n]
  BY AppendProperties
<1>2. Len(q) \in Nat /\ SIZE_LIMIT \in Nat
  BY LenProperties, UserAssumption
<1> HIDE DEF p
<1>3. /\ Old \in Seq(Records) /\ Len(Old) = SIZE_LIMIT
      /\ \A n \in 1 .. SIZE_LIMIT : Old[n] = q[n]
  BY <1>2, Loaded
<1>4. /\ New \in Seq(Records) /\ Len(New) = SIZE_LIMIT
      /\ \A n \in 1 .. SIZE_LIMIT : New[n] = p[n]
  BY <1>1, <1>2, Loaded
<1>5. \A n \in 1 .. SIZE_LIMIT : New[n] = Old[n]
  BY <1>1, <1>2, <1>3, <1>4
<1> HIDE DEF Old, New
<1>6. New = Old
  BY <1>3, <1>4, <1>5, SeqEqual
<1> QED BY <1>6 DEF New, Old, p

(* What an append adds, after a whole record and after a piece of one. *)
LEMMA Appended ==
  ASSUME IInv, NEW i \in Ids, NEW d \in Data, addUser(i, d)
  PROVE  /\ pc = "menu" /\ pc' = "menu" /\ userList' = userList /\ Absent(i)
         /\ rest' \in {None, Overrun} /\ (rest' = None <=> rest = None)
         /\ \E r \in Records :
              /\ records' = Append(records, r)
              /\ rest = None => r = User(i, d)
              /\ rest # None => \E h \in Ids : r = User(h, Mixed)
<1>1. /\ pc = "menu" /\ pc' = "menu" /\ userList' = userList /\ Absent(i)
      /\ rest' = IF rest = None THEN None ELSE Overrun
  BY DEF addUser, AppendUser
<1>2. None # Overrun
  BY DEF None, Overrun
<1>3. PICK r \in ReadAs(User(i, d)) : records' = Append(records, r)
  BY DEF addUser, AppendUser
<1>4. CASE rest = None
  <2>1. r = User(i, d)
    BY <1>3, <1>4 DEF ReadAs, None
  <2>2. r \in Records
    BY <2>1 DEF User, Records
  <2> QED BY <1>1, <1>2, <1>3, <1>4, <2>1, <2>2
<1>5. CASE rest # None
  <2>1. PICK h \in Ids : r = User(h, Mixed)
    <3>1. CASE rest.piece = "head"
      <4>1. rest.id \in Ids
        BY <3>1 DEF IInv, TypeOK, None, Overrun, Cut, User
      <4> QED BY <1>3, <3>1, <4>1 DEF ReadAs
    <3>2. CASE rest.piece # "head"
      <4>1. rest.piece # "none"
        BY <1>5, <3>2 DEF IInv, TypeOK, None, Overrun, Cut
      <4> QED BY <1>3, <3>2, <4>1 DEF ReadAs
    <3> QED BY <3>1, <3>2
  <2>2. r \in Records
    BY <2>1 DEF User, Records
  <2> QED BY <1>1, <1>2, <1>3, <1>5, <2>1, <2>2
<1> QED BY <1>4, <1>5

(* A record appended (line 104). *)
LEMMA AppendInv == ASSUME IInv, NEW i \in Ids, NEW d \in Data, addUser(i, d) PROVE IInv'
<1> DEFINE Old == loadUsersFromFile(records)
           New == loadUsersFromFile(records')
<1>1. PICK u \in Records :
        records' = Append(records, u) /\ (u.data = Mixed \/ u = User(i, d))
  BY Appended DEF User
<1>2. /\ pc = "menu" /\ pc' = pc /\ userList' = userList /\ rest' \in {None, Overrun}
      /\ \A n \in DOMAIN Old : Old[n].id # i
  BY Appended DEF Absent, Seen
<1>3. records \in Seq(Records) /\ FirstIsUser(Old) /\ FirstIsUser(userList)
  BY DEF IInv, TypeOK, OneUserPerId, Seen
<1>4. /\ records' \in Seq(Records) /\ Len(records') = Len(records) + 1
      /\ records'[Len(records) + 1] = u /\ \A n \in 1 .. Len(records) : records'[n] = records[n]
  BY <1>1, <1>3, AppendProperties
<1>5. TypeOK'
  BY <1>2, <1>4 DEF IInv, TypeOK
<1>6. FirstIsUser(New)
  <2>1. /\ Len(New) = IF Len(records') < SIZE_LIMIT THEN Len(records') ELSE SIZE_LIMIT
        /\ DOMAIN New = 1 .. Len(New) /\ \A n \in DOMAIN New : New[n] = records'[n]
    BY <1>4, Loaded
  <2>2. /\ Len(Old) = IF Len(records) < SIZE_LIMIT THEN Len(records) ELSE SIZE_LIMIT
        /\ DOMAIN Old = 1 .. Len(Old) /\ \A n \in DOMAIN Old : Old[n] = records[n]
    BY <1>3, Loaded
  <2> HIDE DEF New, Old
  <2>3. Len(records) \in Nat /\ SIZE_LIMIT \in Nat
    BY <1>3, LenProperties, UserAssumption
  <2>4. SUFFICES ASSUME NEW n \in DOMAIN New, NEW m \in DOMAIN New, n < m, New[n].id = New[m].id
                 PROVE  New[m].data = Mixed
    BY DEF FirstIsUser
  <2>5. n \in DOMAIN Old /\ New[n] = Old[n]
    BY <1>4, <2>1, <2>2, <2>3, <2>4
  <2>6. CASE m \in DOMAIN Old
    <3>1. New[m] = Old[m]
      BY <1>4, <2>1, <2>2, <2>3, <2>6
    <3> QED BY <1>3, <2>4, <2>5, <2>6, <3>1 DEF FirstIsUser
  <2>7. CASE m \notin DOMAIN Old
    <3>1. New[m] = u
      BY <1>4, <2>1, <2>2, <2>3, <2>7
    <3>2. u # User(i, d)
      BY <1>2, <2>4, <2>5, <3>1 DEF User
    <3> QED BY <1>1, <3>1, <3>2
  <2> QED BY <2>6, <2>7
<1> QED BY <1>2, <1>3, <1>5, <1>6 DEF IInv, OneUserPerId, Written, Fits, Seen

(* What all rewrites share (lines 41-44). *)
LEMMA RewriteInv ==
  ASSUME IInv, NEW q \in Seq(Records), FirstIsUser(q), Len(q) <= SIZE_LIMIT, Rewrite(q)
  PROVE  IInv'
<1>1. pc' = "truncated" /\ userList' = q /\ records' = <<>> /\ rest' = None
  BY DEF Rewrite
<1>2. TypeOK'
  BY <1>1 DEF TypeOK
<1>3. FirstIsUser(loadUsersFromFile(records'))
  <2>1. records' \in Seq(Records) /\ DOMAIN records' = {}
    BY <1>1, EmptySeq, LenProperties
  <2>2. FirstIsUser(records')
    BY <2>1 DEF FirstIsUser
  <2> QED BY <2>1, <2>2, Loaded
<1> QED BY <1>1, <1>2, <1>3 DEF IInv, OneUserPerId, Written, Fits, Seen

(* What is loaded fits. *)
LEMMA SeenFits == ASSUME IInv PROVE Seen \in Seq(Records) /\ Len(Seen) <= SIZE_LIMIT
<1>1. records \in Seq(Records)
  BY DEF IInv, TypeOK
<1>2. Len(records) \in Nat /\ SIZE_LIMIT \in Nat
  BY <1>1, LenProperties, UserAssumption
<1> QED BY <1>1, <1>2, Loaded DEF Seen

(* updateUser (lines 113-145). *)
LEMMA UpdateInv == ASSUME IInv, NEW i \in Ids, NEW d \in Data, updateUser(i, d) PROVE IInv'
<1>1. PICK n \in DOMAIN Seen : IsAt(n, i) /\ Rewrite([Seen EXCEPT ![n] = User(i, d)])
  BY DEF updateUser
<1> DEFINE q == [Seen EXCEPT ![n] = User(i, d)]
<1>2. Seen \in Seq(Records) /\ FirstIsUser(Seen) /\ DOMAIN Seen = 1 .. Len(Seen)
  BY Loaded, SMTT(20) DEF IInv, TypeOK, OneUserPerId, Seen
<1>3. User(i, d) \in Records /\ User(i, d).id = i
  BY DEF User, Records
<1>4. q \in Seq(Records) /\ DOMAIN q = DOMAIN Seen /\ q[n] = User(i, d)
      /\ \A m \in DOMAIN Seen : m # n => q[m] = Seen[m]
  BY <1>2, <1>3, ExceptSeq
<1>5. Seen[n].id = i /\ \A h \in 1 .. n - 1 : Seen[h].id # i
  BY <1>1 DEF IsAt
<1> HIDE DEF q
<1>6. FirstIsUser(q)
  <2>1. SUFFICES ASSUME NEW h \in DOMAIN Seen, NEW m \in DOMAIN Seen, h < m, q[h].id = q[m].id
                 PROVE  q[m].data = Mixed
    BY <1>4 DEF FirstIsUser
  <2>2. Seen[h].id = Seen[m].id
    BY <1>3, <1>4, <1>5, <2>1
  <2>3. m # n
    BY <1>2, <1>5, <2>1, <2>2
  <2> QED BY <1>2, <1>4, <2>1, <2>2, <2>3 DEF FirstIsUser
<1>7. Len(q) <= SIZE_LIMIT
  <2>1. Len(q) \in Nat /\ Len(Seen) \in Nat /\ 1 .. Len(q) = 1 .. Len(Seen)
    BY <1>2, <1>4, LenProperties
  <2>2. Len(q) = Len(Seen)
    BY <2>1
  <2> QED BY <2>2, SeenFits
<1> QED BY <1>1, <1>4, <1>6, <1>7, RewriteInv DEF q

(* deleteUser (lines 147-181). *)
LEMMA DeleteInv == ASSUME IInv, NEW i \in Ids, deleteUser(i) PROVE IInv'
<1>1. PICK n \in DOMAIN Seen : IsAt(n, i) /\ Rewrite(RemoveAt(Seen, n))
  BY DEF deleteUser
<1> DEFINE q == RemoveAt(Seen, n)
<1>2. Seen \in Seq(Records) /\ FirstIsUser(Seen) /\ DOMAIN Seen = 1 .. Len(Seen)
  BY Loaded, SMTT(20) DEF IInv, TypeOK, OneUserPerId, Seen
<1>3. /\ q \in Seq(Records) /\ Len(q) = Len(Seen) - 1 /\ DOMAIN q = 1 .. Len(q)
      /\ \A m \in DOMAIN q : q[m] = IF m < n THEN Seen[m] ELSE Seen[m + 1]
  BY <1>2, RemoveNode
<1>4. Len(Seen) \in Nat /\ n \in 1 .. Len(Seen)
  BY <1>2, LenProperties
<1> HIDE DEF q
<1>5. FirstIsUser(q)
  <2>1. SUFFICES ASSUME NEW h \in DOMAIN q, NEW m \in DOMAIN q, h < m, q[h].id = q[m].id
                 PROVE  q[m].data = Mixed
    BY DEF FirstIsUser
  <2>2. PICK a \in DOMAIN Seen, b \in DOMAIN Seen : a < b /\ q[h] = Seen[a] /\ q[m] = Seen[b]
    <3>1. h \in DOMAIN Seen /\ h + 1 \in DOMAIN Seen /\ m \in DOMAIN Seen
            /\ m + 1 \in DOMAIN Seen
      BY <1>2, <1>3, <1>4
    <3>2. CASE m < n
      BY <1>2, <1>3, <1>4, <2>1, <3>1, <3>2
    <3>3. CASE ~(m < n) /\ h < n
      <4>1. h < m + 1
        BY <1>2, <1>3, <1>4, <2>1
      <4> QED BY <1>3, <2>1, <3>1, <3>3, <4>1
    <3>4. CASE ~(h < n)
      <4>1. ~(m < n) /\ h + 1 < m + 1
        BY <1>2, <1>3, <1>4, <2>1, <3>4
      <4> QED BY <1>3, <2>1, <3>1, <3>4, <4>1
    <3> QED BY <3>2, <3>3, <3>4
  <2> QED BY <1>2, <2>1, <2>2 DEF FirstIsUser
<1>6. Len(q) <= SIZE_LIMIT
  BY <1>3, <1>4, SeenFits, UserAssumption
<1> QED BY <1>1, <1>3, <1>5, <1>6, RewriteInv DEF q

(* The steps of a rewrite, and a kill (lines 52-64). *)
LEMMA WriteBlocksInv == ASSUME IInv, WriteBlocks PROVE IInv'
<1>1. PICK n \in BLOCK .. Len(userList) :
        /\ records' = SubSeq(userList, 1, n)
        /\ rest' = None \/ (n < Len(userList) /\ rest' = Cut(userList[n + 1]))
  BY DEF WriteBlocks
<1>2. pc' = "flushed" /\ userList' = userList /\ userList \in Seq(Records)
      /\ FirstIsUser(userList) /\ Fits
  BY DEF WriteBlocks, IInv, TypeOK, OneUserPerId
<1>3. n \in 0 .. Len(userList)
  BY <1>2, UserAssumption, LenProperties
<1>4. records' \in Seq(Records) /\ FirstIsUser(records')
  BY <1>1, <1>2, <1>3, Beginning, FewerUsers
<1>5. rest' \in {None} \union {Cut(User(i, Mixed)) : i \in Ids}
  <2>1. CASE n < Len(userList) /\ rest' = Cut(userList[n + 1])
    <3>1. n + 1 \in 1 .. Len(userList)
      BY <1>2, <1>3, <2>1, LenProperties
    <3>2. userList[n + 1] \in Records
      BY <1>2, <3>1, ElementOfSeq
    <3>3. userList[n + 1].id \in Ids
      BY <3>2 DEF Records
    <3>4. Cut(userList[n + 1]) = Cut(User(userList[n + 1].id, Mixed))
      BY DEF Cut, User
    <3> QED BY <2>1, <3>3, <3>4
  <2> QED BY <1>1, <2>1
<1>6. TypeOK'
  BY <1>2, <1>4, <1>5 DEF TypeOK
<1>7. FirstIsUser(loadUsersFromFile(records'))
  BY <1>4, Loaded
<1> QED BY <1>1, <1>2, <1>3, <1>6, <1>7 DEF IInv, OneUserPerId, Written, Fits, Seen

LEMMA NoUsers == <<>> \in Seq(Records) /\ FirstIsUser(<<>>) /\ Len(<<>>) <= SIZE_LIMIT
<1>1. <<>> \in Seq(Records) /\ Len(<<>>) = 0
  BY EmptySeq
<1>2. FirstIsUser(<<>>)
  BY <1>1, LenProperties DEF FirstIsUser
<1> QED BY <1>1, <1>2, UserAssumption

LEMMA CloseInv == ASSUME IInv, Close PROVE IInv'
<1>1. pc' = "menu" /\ records' = userList /\ rest' = None /\ userList' = <<>>
      /\ userList \in Seq(Records) /\ FirstIsUser(userList)
  BY DEF Close, IInv, TypeOK, OneUserPerId
<1>2. FirstIsUser(loadUsersFromFile(records'))
  BY <1>1, Loaded
<1> QED BY <1>1, <1>2, NoUsers DEF IInv, TypeOK, OneUserPerId, Written, Fits, Seen

LEMMA KillInv == ASSUME IInv, Kill PROVE IInv'
  BY NoUsers DEF Kill, IInv, TypeOK, OneUserPerId, Written, Fits, Seen

LEMMA InitInv == Init => IInv
<1>1. SUFFICES ASSUME Init PROVE IInv
  OBVIOUS
<1>2. FirstIsUser(loadUsersFromFile(records))
  BY <1>1, NoUsers, Loaded DEF Init
<1> QED BY <1>1, <1>2, NoUsers DEF Init, IInv, TypeOK, OneUserPerId, Written, Fits, Seen

LEMMA NextInv == IInv /\ [Next]_vars => IInv'
<1>1. SUFFICES ASSUME IInv, [Next]_vars PROVE IInv'
  OBVIOUS
<1>2. ASSUME NEW i \in Ids, NEW d \in Data, addUser(i, d) PROVE IInv'
  BY <1>1, <1>2, AppendInv
<1>3. ASSUME NEW i \in Ids, NEW d \in Data, updateUser(i, d) PROVE IInv'
  BY <1>1, <1>3, UpdateInv
<1>4. ASSUME NEW i \in Ids, deleteUser(i) PROVE IInv'
  BY <1>1, <1>4, DeleteInv
<1>5. CASE WriteBlocks
  BY <1>1, <1>5, WriteBlocksInv
<1>6. CASE Close
  BY <1>1, <1>6, CloseInv
<1>7. CASE Kill
  BY <1>1, <1>7, KillInv
<1>8. CASE UNCHANGED vars
  BY <1>1, <1>8 DEF vars, IInv, TypeOK, OneUserPerId, Written, Fits, Seen
<1> QED BY <1>1, <1>2, <1>3, <1>4, <1>5, <1>6, <1>7, <1>8 DEF Next

-----------------------------------------------------------------------------
(* The inductive invariant holds in every reachable state. *)
THEOREM Invariance == Spec => []IInv
  BY InitInv, NextInv, PTL DEF Spec

(* Every variable has its type, whatever piece of a record a kill leaves   *)
(* (line 43).                                                              *)
THEOREM Typing == Spec => []TypeOK
<1>1. IInv => TypeOK
  BY DEF IInv
<1> QED BY <1>1, Invariance, PTL

(* For any limit and any length of the file, update and delete take the    *)
(* user that was added with the id (lines 89-96, 119-129, 153-167).        *)
THEOREM OneUserPerIdAlways == Spec => []OneUserPerId
<1>1. IInv => OneUserPerId
  BY DEF IInv
<1> QED BY <1>1, Invariance, PTL

-----------------------------------------------------------------------------
(* The program implements UserTable, step by step. *)

kept   == IF pc = "menu" THEN records ELSE userList
loaded == IF pc = "menu" THEN Seen ELSE userList
saving == pc # "menu"
whole  == pc # "menu" \/ rest = None

(* What the tables look at is what the program looks at. *)
LEMMA SameLook ==
  ASSUME pc = "menu"
  PROVE  /\ \A n, i : LoadedTable!IsAt(n, i) <=> IsAt(n, i)
         /\ \A i : LoadedTable!Absent(i) <=> Absent(i)
         /\ Seen = records => /\ \A n, i : Table!IsAt(n, i) <=> IsAt(n, i)
                              /\ \A i : Table!Absent(i) <=> Absent(i)
  BY DEF Table!IsAt, LoadedTable!IsAt, IsAt, Table!Absent, LoadedTable!Absent, Absent

(* A user added to a file that is loaded whole; behind the limit, none of  *)
(* the users that are loaded changes.                                      *)
LEMMA AddMaps ==
  ASSUME IInv, NEW i \in Ids, NEW d \in Data, addUser(i, d)
  PROVE  /\ Seen = records => Table!Add(i, d)
         /\ [LoadedTable!Add(i, d)]_<<loaded, saving, whole>>
<1>1. PICK r \in Records :
        /\ records' = Append(records, r)
        /\ rest = None => r = User(i, d)
        /\ rest # None => \E h \in Ids : r = User(h, Mixed)
  BY Appended
<1>2. /\ pc = "menu" /\ pc' = "menu" /\ Absent(i) /\ saving = FALSE /\ saving' = FALSE
      /\ whole = (rest = None) /\ whole' = whole
  BY Appended DEF saving, whole
<1>3. \A h, e : Table!User(h, e) = User(h, e) /\ LoadedTable!User(h, e) = User(h, e)
  BY DEF Table!User, LoadedTable!User, User
<1>4. records \in Seq(Records) /\ Len(records) \in Nat /\ SIZE_LIMIT \in Nat
  BY LenProperties, UserAssumption DEF IInv, TypeOK
<1>5. ASSUME Seen = records PROVE Table!Add(i, d)
  BY <1>1, <1>2, <1>3, <1>5, SameLook DEF Table!Add, saving, whole
<1>6. CASE Len(records) < SIZE_LIMIT
  <2>1. Seen = records
    BY <1>4, <1>6, AllLoaded DEF Seen
  <2>2. records' \in Seq(Records) /\ Len(records') <= SIZE_LIMIT
    BY <1>1, <1>4, <1>6, AppendProperties
  <2>3. Seen' = records'
    BY <2>2, AllLoaded DEF Seen
  <2>4. LoadedTable!Add(i, d)
    BY <1>1, <1>2, <1>3, <2>1, <2>3, SameLook DEF LoadedTable!Add, saving, whole
  <2> QED BY <1>5, <2>1, <2>4
<1>7. CASE Len(records) >= SIZE_LIMIT
  <2>1. Seen' = Seen
    BY <1>1, <1>4, <1>7, BehindLimit DEF Seen
  <2>2. loaded' = loaded
    BY <1>2, <2>1 DEF loaded
  <2> QED BY <1>2, <1>5, <2>2
<1> QED BY <1>4, <1>6, <1>7

LEMMA UpdateMaps ==
  ASSUME NEW i \in Ids, NEW d \in Data, updateUser(i, d)
  PROVE  LoadedTable!Update(i, d) /\ (Seen = records => Table!Update(i, d))
<1>1. PICK n \in DOMAIN Seen : IsAt(n, i) /\ Rewrite([Seen EXCEPT ![n] = User(i, d)])
  BY DEF updateUser
<1>2. pc = "menu" /\ pc' = "truncated" /\ userList' = [Seen EXCEPT ![n] = User(i, d)]
  BY <1>1 DEF Rewrite
<1>3. Table!User(i, d) = User(i, d) /\ LoadedTable!User(i, d) = User(i, d)
  BY DEF Table!User, LoadedTable!User, User
<1>4. LoadedTable!Update(i, d)
  BY <1>1, <1>2, <1>3, SameLook DEF LoadedTable!Update
<1>5. ASSUME Seen = records PROVE Table!Update(i, d)
  BY <1>1, <1>2, <1>3, <1>5, SameLook DEF Table!Update
<1> QED BY <1>4, <1>5

LEMMA DeleteMaps ==
  ASSUME NEW i \in Ids, deleteUser(i)
  PROVE  LoadedTable!Delete(i) /\ (Seen = records => Table!Delete(i))
<1>1. PICK n \in DOMAIN Seen : IsAt(n, i) /\ Rewrite(RemoveAt(Seen, n))
  BY DEF deleteUser
<1>2. pc = "menu" /\ pc' = "truncated" /\ userList' = RemoveAt(Seen, n)
  BY <1>1 DEF Rewrite
<1>3. Table!RemoveAt(Seen, n) = RemoveAt(Seen, n)
      /\ LoadedTable!RemoveAt(Seen, n) = RemoveAt(Seen, n)
  BY DEF Table!RemoveAt, LoadedTable!RemoveAt, RemoveAt
<1>4. LoadedTable!Delete(i)
  BY <1>1, <1>2, <1>3, SameLook DEF LoadedTable!Delete
<1>5. ASSUME Seen = records PROVE Table!Delete(i)
  BY <1>1, <1>2, <1>3, <1>5, SameLook DEF Table!Delete
<1> QED BY <1>4, <1>5

LEMMA CloseMaps == ASSUME IInv, Close PROVE Table!Saved /\ LoadedTable!Saved
<1>1. pc # "menu" /\ pc' = "menu" /\ records' = userList /\ rest' = None
  BY DEF Close
<1>2. userList \in Seq(Records) /\ Len(userList) <= SIZE_LIMIT
  BY DEF IInv, TypeOK, Fits
<1>3. Seen' = userList
  BY <1>1, <1>2, AllLoaded DEF Seen
<1> QED BY <1>1, <1>3 DEF Table!Saved, LoadedTable!Saved

(* What is left after a kill is a beginning of the table. *)
LEMMA KillMaps == ASSUME IInv, Kill PROVE Table!Killed /\ LoadedTable!Killed
<1>1. pc # "menu" /\ pc' = "menu" /\ records' = records /\ rest' = rest
  BY DEF Kill
<1>2. /\ userList \in Seq(Records) /\ Len(userList) \in Nat /\ Len(userList) <= SIZE_LIMIT
      /\ SIZE_LIMIT \in Nat /\ records \in Seq(Records)
  BY LenProperties, UserAssumption DEF IInv, TypeOK, Fits
<1>3. PICK n \in 0 .. Len(userList) : records = SubSeq(userList, 1, n)
  <2>1. CASE pc = "flushed"
    BY <2>1 DEF IInv, Written
  <2>2. CASE pc = "truncated"
    <3>1. 0 \in 0 .. Len(userList) /\ records = <<>>
      BY <1>2, <2>2 DEF IInv, TypeOK
    <3>2. SubSeq(userList, 1, 0) = <<>>
      BY <1>2, <3>1, Beginning, EmptySeq
    <3> QED BY <3>1, <3>2
  <2> QED BY <1>1, <2>1, <2>2 DEF IInv, TypeOK
<1>4. Len(records) <= SIZE_LIMIT
  <2>1. Len(records) = n
    BY <1>2, <1>3, Beginning
  <2> QED BY <1>2, <1>3, <2>1
<1>5. Seen' = records
  BY <1>1, <1>2, <1>4, AllLoaded DEF Seen
<1> QED BY <1>1, <1>3, <1>5 DEF Table!Killed, LoadedTable!Killed

LEMMA InitMaps == Init => Table!Init /\ LoadedTable!Init
<1>1. SUFFICES ASSUME Init PROVE Table!Init /\ LoadedTable!Init
  OBVIOUS
<1>2. Seen = <<>>
  BY <1>1, NoUsers, AllLoaded DEF Init, Seen
<1> QED BY <1>1, <1>2 DEF Init, Table!Init, LoadedTable!Init

LEMMA NextMaps ==
  ASSUME IInv, [Next]_vars
  PROVE  /\ Len(records) <= SIZE_LIMIT => [Table!Next]_<<kept, saving, whole>>
         /\ [LoadedTable!Next]_<<loaded, saving, whole>>
<1>1. ASSUME Len(records) <= SIZE_LIMIT PROVE Seen = records
  BY <1>1, AllLoaded DEF IInv, TypeOK, Seen
<1>2. ASSUME NEW i \in Ids, NEW d \in Data, addUser(i, d)
      PROVE  /\ Seen = records => Table!Next
             /\ [LoadedTable!Next]_<<loaded, saving, whole>>
  BY <1>2, AddMaps DEF Table!Next, LoadedTable!Next
<1>3. ASSUME NEW i \in Ids, NEW d \in Data, updateUser(i, d)
      PROVE  LoadedTable!Next /\ (Seen = records => Table!Next)
  BY <1>3, UpdateMaps DEF Table!Next, LoadedTable!Next
<1>4. ASSUME NEW i \in Ids, deleteUser(i)
      PROVE  LoadedTable!Next /\ (Seen = records => Table!Next)
  BY <1>4, DeleteMaps DEF Table!Next, LoadedTable!Next
<1>5. ASSUME WriteBlocks PROVE UNCHANGED <<kept, loaded, saving, whole>>
  BY <1>5 DEF WriteBlocks, kept, loaded, saving, whole
<1>6. ASSUME Close PROVE Table!Next /\ LoadedTable!Next
  BY <1>6, CloseMaps DEF Table!Next, LoadedTable!Next
<1>7. ASSUME Kill PROVE Table!Next /\ LoadedTable!Next
  BY <1>7, KillMaps DEF Table!Next, LoadedTable!Next
<1>8. ASSUME UNCHANGED vars PROVE UNCHANGED <<kept, loaded, saving, whole>>
  BY <1>8 DEF vars, kept, loaded, saving, whole, Seen
<1> QED BY <1>1, <1>2, <1>3, <1>4, <1>5, <1>6, <1>7, <1>8 DEF Next

(* As long as the file has no more users than are loaded, each command     *)
(* does to the whole of it what it says, in one step; then only a kill     *)
(* during a rewrite loses users, all from some place on, and only after    *)
(* one is a user read wrong: for any ids, limit and buffer.  The theorem   *)
(* says nothing of an update or delete of a longer file, which loses the   *)
(* users that were not loaded.                                             *)
THEOREM TableKept == Spec => KeepsTable
<1>1. IInv /\ [Next]_vars =>
        [Len(records) <= SIZE_LIMIT => Table!Next]_<<kept, saving, whole>>
  BY NextMaps
<1>2. Init => Table!Init
  BY InitMaps
<1> QED BY <1>1, <1>2, Invariance, PTL DEF Spec, KeepsTable, Table!vars, kept, saving, whole

(* However long the file is, each command does to the users that are       *)
(* loaded what it says, or adds a user behind them; of these users only a  *)
(* kill during a rewrite loses any.                                        *)
THEOREM LoadedKept == Spec => KeepsLoaded
<1>1. IInv /\ [Next]_vars => [LoadedTable!Next]_<<loaded, saving, whole>>
  BY NextMaps
<1>2. Init => LoadedTable!Init
  BY InitMaps
<1> QED BY <1>1, <1>2, Invariance, PTL
        DEF Spec, KeepsLoaded, LoadedTable!Spec, LoadedTable!vars, loaded, saving, whole
-----------------------------------------------------------------------------
(***************************************************************************)
(* What holds of Inventory for any capacities, IDs, names and quantities.  *)
(***************************************************************************)
StockInv == StockTypeOK /\ UniqueIDs

-----------------------------------------------------------------------------
(* findProductIndexByID (lines 20-30) finds the only product of an ID. *)
LEMMA TheOnlyOne ==
  ASSUME StockInv, NEW i \in Used
  PROVE  IsThere(productList[i].id) /\ findProductIndexByID(productList[i].id) = i
<1> DEFINE id == productList[i].id
           First(h) == Has(id, h) /\ \A k \in 0 .. h - 1 : ~Has(id, k)
<1>1. Used = 0 .. listSize - 1 /\ listSize \in Nat
  BY DEF StockInv, StockTypeOK, Used
<1>2. \A k \in Used : Has(id, k) => k = i
  BY DEF StockInv, UniqueIDs, Has
<1>3. Has(id, i)
  BY DEF Has
<1>4. First(i)
  BY <1>1, <1>2, <1>3
<1>5. \A h \in Used : First(h) => h = i
  BY <1>2
<1> HIDE DEF First
<1>6. (CHOOSE h \in Used : First(h)) = i
  BY <1>4, <1>5
<1> QED BY <1>3, <1>6 DEF IsThere, findProductIndexByID, First

LEMMA Known == ASSUME NEW id, IsThere(id) PROVE \E i \in Used : productList[i].id = id
  BY DEF IsThere, Has

LEMMA ProductIs ==
  ASSUME NEW id \in IDs, NEW l \in Labels, NEW q \in Quantities
  PROVE  Product(id, l, q) \in Products /\ Product(id, l, q).id = id
  BY DEF Product, Products

(* addProduct (lines 88-145) to an array that has room for the product and *)
(* begins with the products there are.                                     *)
LEMMA AddInv ==
  ASSUME StockInv, NEW c \in Nat, capacity' = c, listSize < c,
         NEW a \in [0 .. c - 1 -> Products \union {Blank, Junk}],
         \A i \in Used : a[i] = productList[i],
         NEW id \in IDs, NEW l \in Labels, NEW q \in Quantities, addProduct(a, id, l, q),
         stage' \in {"filling", "menu"}, stage' = "filling" => listSize + 1 < c
  PROVE  StockInv'
<1>1. listSize \in Nat /\ listSize' = listSize + 1 /\ listSize \in 0 .. c - 1
  BY DEF StockInv, StockTypeOK, addProduct
<1>2. /\ productList' = [a EXCEPT ![listSize] = Product(id, l, q)]
      /\ \A i \in Used : productList[i].id # id
  BY DEF addProduct, Added, IsThere, Has
<1>3. productList' \in [0 .. c - 1 -> Products \union {Blank, Junk}]
  BY <1>1, <1>2, ProductIs
<1>4. Used' = Used \union {listSize} /\ listSize \notin Used
  BY <1>1 DEF Used
<1>5. Used \subseteq 0 .. c - 1
  BY <1>1 DEF Used
<1>6. \A i \in Used' : productList'[i] =
        IF i = listSize THEN Product(id, l, q) ELSE productList[i]
  BY <1>1, <1>2, <1>4, <1>5
<1>7. \A i \in Used' : productList'[i] \in Products
  BY <1>4, <1>6, ProductIs DEF StockInv, StockTypeOK
<1>8. StockTypeOK'
  BY <1>1, <1>3, <1>7 DEF StockTypeOK, Slots
<1>9. UniqueIDs'
  <2>1. \A i \in Used' : i # listSize => i \in Used
          /\ productList'[i].id = productList[i].id
    BY <1>4, <1>6
  <2>2. productList'[listSize].id = id
    BY <1>4, <1>6, ProductIs
  <2> QED BY <1>2, <2>1, <2>2 DEF StockInv, UniqueIDs
<1> QED BY <1>8, <1>9 DEF StockInv

LEMMA ArrayType ==
  ASSUME StockInv, stage \in {"filling", "menu"}
  PROVE  /\ capacity \in Nat /\ listSize \in Nat /\ listSize <= capacity
         /\ productList \in [0 .. capacity - 1 -> Products \union {Blank, Junk}]
  BY DEF StockInv, StockTypeOK, Slots

(* The array before it grows (lines 70-86). *)
LEMMA Grown ==
  ASSUME StockInv, stage = "menu"
  PROVE  /\ Doubled \in Nat /\ capacity < Doubled
         /\ Reallocated \in [0 .. Doubled - 1 -> Products \union {Blank, Junk}]
         /\ \A i \in Used : Reallocated[i] = productList[i]
<1>1. Doubled \in Nat /\ capacity < Doubled
  BY ArrayType DEF Doubled
<1>2. Reallocated \in [0 .. Doubled - 1 -> Products \union {Blank, Junk}]
  BY <1>1, ArrayType DEF Reallocated, Slots
<1>3. \A i \in Used : i \in Slots /\ i \in 0 .. Doubled - 1
  BY <1>1, ArrayType DEF Used, Slots
<1> QED BY <1>1, <1>2, <1>3 DEF Reallocated

LEMMA FillInv ==
  ASSUME StockInv, NEW id \in IDs, NEW l \in Labels, NEW q \in Quantities, Fill(id, l, q)
  PROVE  StockInv'
<1>1. stage = "filling" /\ capacity' = capacity /\ addProduct(productList, id, l, q)
      /\ stage' = IF listSize + 1 = capacity THEN "menu" ELSE "filling"
  BY DEF Fill
<1>2. listSize < capacity /\ listSize \in Nat /\ capacity \in Nat
  BY <1>1, ArrayType DEF StockInv, StockTypeOK
<1>3. stage' = "filling" => listSize + 1 < capacity
  BY <1>1, <1>2
<1> QED BY <1>1, <1>2, <1>3, ArrayType, AddInv

LEMMA AddWithRoomInv ==
  ASSUME StockInv, NEW id \in IDs, NEW l \in Labels, NEW q \in Quantities,
         AddWithRoom(id, l, q)
  PROVE  StockInv'
<1>1. stage = "menu" /\ stage' = "menu" /\ capacity' = capacity
      /\ addProduct(productList, id, l, q) /\ listSize # capacity
  BY DEF AddWithRoom
<1>2. listSize < capacity
  BY <1>1, ArrayType
<1> QED BY <1>1, <1>2, ArrayType, AddInv

LEMMA AddWhenFullInv ==
  ASSUME StockInv, NEW id \in IDs, NEW l \in Labels, NEW q \in Quantities,
         AddWhenFull(id, l, q)
  PROVE  StockInv'
<1>1. stage = "menu" /\ stage' = "menu" /\ capacity' = Doubled /\ listSize = capacity
      /\ addProduct(Reallocated, id, l, q)
  BY DEF AddWhenFull
<1> QED BY <1>1, Grown, AddInv

LEMMA RefusedInv == ASSUME StockInv, RefusedWhenFull PROVE StockInv'
<1>1. /\ stage = "menu" /\ stage' = "menu" /\ capacity' = Doubled
         /\ productList' = Reallocated
      /\ listSize' = listSize /\ listSize = capacity
  BY DEF RefusedWhenFull
<1>2. Used' = Used /\ \A i \in Used : productList'[i] = productList[i]
  BY <1>1, Grown DEF Used
<1>3. StockTypeOK'
  BY <1>1, <1>2, Grown, ArrayType DEF StockInv, StockTypeOK, Slots
<1> QED BY <1>2, <1>3 DEF StockInv, UniqueIDs

(* handleUpdateQuantity (lines 161-193). *)
LEMMA StockUpdateInv ==
  ASSUME StockInv, NEW id \in IDs, NEW q \in Quantities, handleUpdateQuantity(id, q)
  PROVE  StockInv'
<1>1. stage = "menu" /\ stage' = stage /\ capacity' = capacity /\ listSize' = listSize
  BY DEF handleUpdateQuantity
<1>2. PICK i \in Used : productList[i].id = id
  BY Known DEF handleUpdateQuantity
<1>3. productList' = [productList EXCEPT ![i].quantity = q]
  BY <1>2, TheOnlyOne DEF handleUpdateQuantity
<1>4. Used' = Used /\ Used \subseteq Slots
  BY <1>1, ArrayType DEF Used, Slots
<1>5. productList[i] \in Products
  BY DEF StockInv, StockTypeOK
<1>6. [productList[i] EXCEPT !.quantity = q] \in Products
      /\ [productList[i] EXCEPT !.quantity = q].id = productList[i].id
  BY <1>5 DEF Products
<1>7. productList' = [productList EXCEPT ![i] = [productList[i] EXCEPT !.quantity = q]]
  BY <1>3
<1>8. productList' \in [Slots -> Products \union {Blank, Junk}]
  BY <1>1, <1>4, <1>6, <1>7, ArrayType DEF Slots
<1>9. \A k \in Used : productList'[k] \in Products
        /\ productList'[k].id = productList[k].id
  BY <1>1, <1>4, <1>6, <1>7, ArrayType DEF StockInv, StockTypeOK, Slots
<1>10. StockTypeOK'
  BY <1>1, <1>4, <1>8, <1>9 DEF StockInv, StockTypeOK, Slots
<1> QED BY <1>4, <1>9, <1>10 DEF StockInv, UniqueIDs

(* handleDeleteProduct (lines 288-316). *)
LEMMA DeletedAt ==
  ASSUME StockInv, NEW id \in IDs \union {0}, handleDeleteProduct(id)
  PROVE  \E i \in Used :
           /\ productList[i].id = id /\ listSize - 1 \in Used
              /\ Used' = Used \ {listSize - 1}
           /\ productList' \in [Slots -> Products \union {Blank, Junk}]
           /\ \A k \in Used' : productList'[k] = IF k = i THEN productList[listSize - 1]
                                                 ELSE productList[k]
<1>1. stage = "menu" /\ listSize' = listSize - 1
  BY DEF handleDeleteProduct
<1>2. PICK i \in Used : productList[i].id = id
  BY Known DEF handleDeleteProduct
<1>3. productList' = [productList EXCEPT ![i] = productList[listSize - 1],
                                          ![listSize - 1] = Blank]
  BY <1>2, TheOnlyOne DEF handleDeleteProduct, Closed
<1>4. listSize - 1 \in Used /\ Used' = Used \ {listSize - 1}
        /\ Used \subseteq Slots
  BY <1>1, ArrayType DEF Used, Slots
<1>5. productList \in [Slots -> Products \union {Blank, Junk}]
  BY <1>1, ArrayType DEF Slots
<1>6. productList' \in [Slots -> Products \union {Blank, Junk}]
  BY <1>3, <1>4, <1>5
<1>7. \A k \in Used' : productList'[k] =
        IF k = i THEN productList[listSize - 1] ELSE productList[k]
  BY <1>3, <1>4, <1>5
<1> QED BY <1>2, <1>4, <1>6, <1>7

LEMMA StockDeleteInv ==
  ASSUME StockInv, NEW id \in IDs \union {0}, handleDeleteProduct(id)
  PROVE  StockInv'
<1> DEFINE last == listSize - 1
<1>1. stage = "menu" /\ stage' = stage /\ capacity' = capacity /\ listSize' = last
  BY DEF handleDeleteProduct
<1>2. PICK i \in Used :
        /\ last \in Used /\ Used' = Used \ {last}
        /\ productList' \in [Slots -> Products \union {Blank, Junk}]
        /\ \A k \in Used' : productList'[k] =
           IF k = i THEN productList[last] ELSE productList[k]
  BY DeletedAt
<1>3. listSize \in Nat /\ listSize <= capacity /\ last \in Nat /\ last <= capacity
        /\ capacity \in Nat
  BY <1>1, <1>2, ArrayType DEF Used
<1>4. \A k \in Used' : productList'[k] \in Products
  BY <1>2 DEF StockInv, StockTypeOK
<1> HIDE DEF last
<1>5. StockTypeOK'
  BY <1>1, <1>2, <1>3, <1>4 DEF StockTypeOK, Slots
<1>6. UniqueIDs'
  BY <1>2 DEF StockInv, UniqueIDs
<1> QED BY <1>5, <1>6 DEF StockInv

LEMMA StartInv ==
  ASSUME StockInv, NEW number \in -1 .. INITIAL_PRODUCTS + 1, Start(number) PROVE StockInv'
<1>1. listSize = 0 /\ listSize' = 0 /\ capacity' = number /\ number \in Int
  BY DEF StockInv, StockTypeOK, Start
<1>2. Used' = {}
  BY <1>1 DEF Used
<1>3. StockTypeOK'
  <2>1. CASE stage' = "failed"
    BY <1>1, <1>2, <2>1 DEF StockTypeOK
  <2>2. CASE stage' # "failed"
    <3>1. number \in Nat /\ stage' = (IF number = 0 THEN "menu" ELSE "filling")
          /\ productList' = [i \in 0 .. number - 1 |-> Blank]
      BY <1>1, <2>2 DEF Start
    <3> QED BY <1>1, <1>2, <3>1 DEF StockTypeOK, Slots
  <2> QED BY <2>1, <2>2
<1> QED BY <1>2, <1>3 DEF StockInv, UniqueIDs

LEMMA StockInitInv == StockInit => StockInv
  BY InventoryAssumption DEF StockInit, StockInv, StockTypeOK, UniqueIDs, Used

LEMMA StockNextInv == StockInv /\ [StockNext]_stockVars => StockInv'
<1>1. SUFFICES ASSUME StockInv, [StockNext]_stockVars PROVE StockInv'
  OBVIOUS
<1>2. ASSUME NEW number \in -1 .. INITIAL_PRODUCTS + 1, Start(number) PROVE StockInv'
  BY <1>1, <1>2, StartInv
<1>3. ASSUME NEW id \in IDs, NEW l \in Labels, NEW q \in Quantities,
             Fill(id, l, q) \/ AddWithRoom(id, l, q) \/ AddWhenFull(id, l, q)
      PROVE  StockInv'
  BY <1>1, <1>3, FillInv, AddWithRoomInv, AddWhenFullInv
<1>4. ASSUME NEW id \in IDs, NEW q \in Quantities, handleUpdateQuantity(id, q)
      PROVE  StockInv'
  BY <1>1, <1>4, StockUpdateInv
<1>5. ASSUME NEW id \in IDs \union {0}, handleDeleteProduct(id) PROVE StockInv'
  BY <1>1, <1>5, StockDeleteInv
<1>6. CASE RefusedWhenFull
  BY <1>1, <1>6, RefusedInv
<1>7. CASE Exit \/ UNCHANGED stockVars
  BY <1>1, <1>7 DEF Exit, stockVars, StockInv, StockTypeOK, UniqueIDs, Used, Slots
<1> QED BY <1>1, <1>2, <1>3, <1>4, <1>5, <1>6, <1>7 DEF StockNext

-----------------------------------------------------------------------------
(* The inductive invariant holds in every reachable state. *)
THEOREM StockInvariance == StockSpec => []StockInv
  BY StockInitInv, StockNextInv, PTL DEF StockSpec

(* No product is written past the end of the array, and none is read that  *)
(* was never written, for any capacity (lines 139, 302, 365).              *)
THEOREM StockTyping == StockSpec => []StockTypeOK
<1>1. StockInv => StockTypeOK
  BY DEF StockInv
<1> QED BY <1>1, StockInvariance, PTL

(* Growing and closing holes never make an ID appear twice (line 132).     *)
THEOREM UniqueIDsAlways == StockSpec => []UniqueIDs
<1>1. StockInv => UniqueIDs
  BY DEF StockInv
<1> QED BY <1>1, StockInvariance, PTL

-----------------------------------------------------------------------------
(* The array implements the catalogue, step by step. *)
Entry(p) == [label |-> p.label, quantity |-> p.quantity]

(* The catalogue of the products in the array. *)
Listed ==
  /\ DOMAIN Stored = {productList[i].id : i \in Used}
  /\ \A i \in Used : Stored[productList[i].id] = Entry(productList[i])
  /\ Stored = [id \in DOMAIN Stored |-> Stored[id]]

LEMMA StoredIs == StockInv => Listed
<1>1. SUFFICES ASSUME StockInv PROVE Listed
  OBVIOUS
<1>2. \A i \in Used : findProductIndexByID(productList[i].id) = i
  BY <1>1, TheOnlyOne
<1> QED BY <1>2 DEF Listed, Stored, Entry

LEMMA StoredIsNext == StockInv' => Listed'
  BY StoredIs, PTL

LEMMA EmptyStored == ASSUME Used = {} PROVE Stored = [id \in {} |-> 0]
  BY DEF Stored

(* A catalogue is what it has of each ID. *)
LEMMA SameCatalogue ==
  ASSUME NEW f, NEW g, f = [id \in DOMAIN f |-> f[id]], g = [id \in DOMAIN g |-> g[id]],
         DOMAIN f = DOMAIN g, \A id \in DOMAIN f : f[id] = g[id]
  PROVE  f = g
  OBVIOUS

(* When the products in use stay the same, so does the catalogue. *)
LEMMA StoredStays ==
  ASSUME StockInv, StockInv', Used' = Used,
         \A i \in Used : productList'[i] = productList[i]
  PROVE  Stored' = Stored
<1>1. Listed /\ Listed'
  BY StoredIs, StoredIsNext
<1>2. \A i \in Used : productList'[i].id = productList[i].id
        /\ Entry(productList'[i]) = Entry(productList[i])
  OBVIOUS
<1>3. DOMAIN Stored' = DOMAIN Stored
  BY <1>1, <1>2 DEF Listed
<1>4. ASSUME NEW id \in DOMAIN Stored PROVE Stored'[id] = Stored[id]
  <2>1. PICK i \in Used : id = productList[i].id
    BY <1>1 DEF Listed
  <2>2. Stored[productList[i].id] = Entry(productList[i])
    BY <1>1 DEF Listed
  <2>3. Stored'[productList'[i].id] = Entry(productList'[i])
    BY <1>1 DEF Listed, Entry
  <2> QED BY <1>2, <2>1, <2>2, <2>3
<1> QED BY <1>1, <1>3, <1>4, SameCatalogue DEF Listed

LEMMA CatalogueAdd ==
  ASSUME StockInv, StockInv', NEW id \in IDs, NEW l \in Labels, NEW q \in Quantities,
         NEW c \in Nat, listSize < c,
         NEW a \in [0 .. c - 1 -> Products \union {Blank, Junk}],
         \A i \in Used : a[i] = productList[i], addProduct(a, id, l, q)
  PROVE  Promise!Add(id, [label |-> l, quantity |-> q])
<1>1. listSize \in Nat /\ listSize' = listSize + 1 /\ listSize \in 0 .. c - 1
        /\ told' = Silence
  BY DEF StockInv, StockTypeOK, addProduct
<1>2. /\ productList' = [a EXCEPT ![listSize] = Product(id, l, q)]
      /\ \A i \in Used : productList[i].id # id
  BY DEF addProduct, Added, IsThere, Has
<1>3. Used' = Used \union {listSize} /\ listSize \notin Used
        /\ Used \subseteq 0 .. c - 1
  BY <1>1 DEF Used
<1>4. /\ productList'[listSize] = Product(id, l, q)
      /\ \A i \in Used : productList'[i] = productList[i]
  BY <1>1, <1>2, <1>3
<1>5. /\ DOMAIN Stored' = {productList'[i].id : i \in Used'}
      /\ \A i \in Used' : Stored'[productList'[i].id] = Entry(productList'[i])
      /\ Stored' = [h \in DOMAIN Stored' |-> Stored'[h]]
  BY StoredIsNext DEF Listed, Entry
<1>6. /\ DOMAIN Stored = {productList[i].id : i \in Used}
      /\ \A i \in Used : Stored[productList[i].id] = Entry(productList[i])
  BY StoredIs DEF Listed
<1>7. Product(id, l, q).id = id
        /\ Entry(Product(id, l, q)) = [label |-> l, quantity |-> q]
  BY DEF Product, Entry
<1>8. id \notin DOMAIN Stored /\ DOMAIN Stored' = DOMAIN Stored \union {id}
  BY <1>2, <1>3, <1>4, <1>5, <1>6, <1>7
<1>9. \A h \in DOMAIN Stored' :
        Stored'[h] = IF h = id THEN [label |-> l, quantity |-> q] ELSE Stored[h]
  BY <1>2, <1>3, <1>4, <1>5, <1>6, <1>7
<1>10. Stored' = [h \in DOMAIN Stored \union {id} |->
                    IF h = id THEN [label |-> l, quantity |-> q] ELSE Stored[h]]
  BY <1>5, <1>8, <1>9
<1>11. told' = Promise!Silence
  BY <1>1 DEF Silence, Promise!Silence
<1> QED BY <1>8, <1>10, <1>11 DEF Promise!Add

LEMMA CatalogueUpdate ==
  ASSUME StockInv, StockInv', NEW id \in IDs, NEW q \in Quantities,
         handleUpdateQuantity(id, q)
  PROVE  Promise!Update(id, q)
<1>1. stage = "menu" /\ listSize' = listSize /\ told' = <<"updated", id>>
  BY DEF handleUpdateQuantity
<1>2. PICK i \in Used : productList[i].id = id
  BY Known DEF handleUpdateQuantity
<1>3. productList' = [productList EXCEPT ![i].quantity = q]
  BY <1>2, TheOnlyOne DEF handleUpdateQuantity
<1>4. Used' = Used /\ Used \subseteq Slots
        /\ productList \in [Slots -> Products \union {Blank, Junk}]
  BY <1>1, ArrayType DEF Used, Slots
<1>5. /\ \A k \in Used : productList[k] \in Products
      /\ \A k \in Used : k # i => productList'[k] = productList[k]
      /\ productList'[i] = [productList[i] EXCEPT !.quantity = q]
  BY <1>3, <1>4 DEF StockInv, StockTypeOK
<1>6. /\ productList'[i].id = id /\ productList'[i].quantity = q
      /\ productList'[i].label = productList[i].label
  BY <1>2, <1>5 DEF Products
<1>7. /\ DOMAIN Stored' = {productList'[k].id : k \in Used}
      /\ \A k \in Used : Stored'[productList'[k].id] = Entry(productList'[k])
      /\ Stored' = [h \in DOMAIN Stored' |-> Stored'[h]]
  BY <1>4, StoredIsNext DEF Listed, Entry
<1>8. Listed
  BY StoredIs
<1>9. id \in DOMAIN Stored /\ Stored[id] = Entry(productList[i])
  BY <1>2, <1>8 DEF Listed
<1>10. DOMAIN Stored' = DOMAIN Stored
  <2>1. \A k \in Used : productList'[k].id = productList[k].id
    BY <1>2, <1>5, <1>6
  <2> QED BY <1>7, <1>8, <2>1 DEF Listed
<1> DEFINE g == [Stored EXCEPT ![id].quantity = q]
<1>11. g = [Stored EXCEPT ![id] = [Stored[id] EXCEPT !.quantity = q]]
  OBVIOUS
<1>12. ASSUME NEW h \in DOMAIN Stored PROVE Stored'[h] = g[h]
  <2>1. PICK k \in Used : h = productList[k].id
    BY <1>8 DEF Listed
  <2>2. CASE k = i
    <3>1. Stored'[id] = Entry(productList'[i])
      BY <1>6, <1>7
    <3>2. [Stored[id] EXCEPT !.quantity = q] = Entry(productList'[i])
      BY <1>6, <1>9 DEF Entry
    <3> QED BY <1>2, <1>9, <1>11, <2>1, <2>2, <3>1, <3>2
  <2>3. CASE k # i
    <3>1. h # id
      BY <1>2, <2>1, <2>3 DEF StockInv, UniqueIDs
    <3>2. Stored'[h] = Entry(productList[k]) /\ Stored[h] = Entry(productList[k])
      BY <1>5, <1>7, <1>8, <2>1, <2>3 DEF Listed
    <3> QED BY <1>11, <3>1, <3>2
  <2> QED BY <2>2, <2>3
<1>13. DOMAIN g = DOMAIN Stored /\ g = [h \in DOMAIN g |-> g[h]]
  BY <1>11
<1> HIDE DEF g
<1>14. Stored' = g
  BY <1>7, <1>10, <1>12, <1>13, SameCatalogue
<1> QED BY <1>1, <1>9, <1>14 DEF Promise!Update, g

LEMMA CatalogueDelete ==
  ASSUME StockInv, StockInv', NEW id \in IDs \union {0}, handleDeleteProduct(id)
  PROVE  Promise!Delete(id)
<1> DEFINE last == listSize - 1
<1>1. told' = <<"deleted", id>>
  BY DEF handleDeleteProduct
<1>2. PICK i \in Used :
        /\ productList[i].id = id /\ last \in Used /\ Used' = Used \ {last}
        /\ \A k \in Used' : productList'[k] =
           IF k = i THEN productList[last] ELSE productList[k]
  BY DeletedAt
<1>3. /\ DOMAIN Stored' = {productList'[k].id : k \in Used'}
      /\ \A k \in Used' : Stored'[productList'[k].id] = Entry(productList'[k])
      /\ Stored' = [h \in DOMAIN Stored' |-> Stored'[h]]
  BY StoredIsNext DEF Listed, Entry
<1>4. /\ DOMAIN Stored = {productList[k].id : k \in Used}
      /\ \A k \in Used : Stored[productList[k].id] = Entry(productList[k])
  BY StoredIs DEF Listed
<1> HIDE DEF last
<1>5. ASSUME NEW k \in Used'
      PROVE  \E h \in Used \ {i} : productList'[k] = productList[h]
  BY <1>2, <1>5
<1>6. ASSUME NEW h \in Used \ {i}
      PROVE  \E k \in Used' : productList'[k] = productList[h]
  <2>1. CASE h = last
    <3>1. i \in Used' /\ productList'[i] = productList[last]
      BY <1>2, <1>6, <2>1
    <3> QED BY <2>1, <3>1
  <2>2. CASE h # last
    BY <1>2, <1>6, <2>2
  <2> QED BY <2>1, <2>2
<1>7. \A h \in Used : h # i => productList[h].id # id
  BY <1>2 DEF StockInv, UniqueIDs
<1>8. id \in DOMAIN Stored /\ DOMAIN Stored' = DOMAIN Stored \ {id}
  BY <1>2, <1>3, <1>4, <1>5, <1>6, <1>7
<1>9. ASSUME NEW h \in DOMAIN Stored' PROVE Stored'[h] = Stored[h]
  <2>1. PICK k \in Used' : h = productList'[k].id
    BY <1>3
  <2>2. PICK j \in Used : productList'[k] = productList[j]
    BY <1>5
  <2> QED BY <1>3, <1>4, <2>1, <2>2
<1>10. Stored' = [h \in DOMAIN Stored \ {id} |-> Stored[h]]
  BY <1>3, <1>8, <1>9
<1> QED BY <1>1, <1>8, <1>10 DEF Promise!Delete

LEMMA CatalogueInit == StockInit => Promise!Init
<1>1. ASSUME StockInit PROVE Promise!Init
  <2>1. Used = {}
    BY <1>1 DEF StockInit, Used
  <2> QED BY <1>1, <2>1, EmptyStored
             DEF StockInit, Promise!Init, Silence, Promise!Silence
<1> QED BY <1>1

LEMMA CatalogueNext ==
  ASSUME StockInv, StockInv', [StockNext]_stockVars
  PROVE  [Promise!Next]_<<Stored, told>>
<1> DEFINE Stutter == Stored' = Stored /\ told' = told
<1>1. ASSUME NEW id \in IDs, NEW l \in Labels, NEW q \in Quantities,
             Fill(id, l, q) \/ AddWithRoom(id, l, q) \/ AddWhenFull(id, l, q)
      PROVE  Promise!Next
  <2>1. CASE Fill(id, l, q) \/ AddWithRoom(id, l, q)
    <3>1. stage \in {"filling", "menu"} /\ addProduct(productList, id, l, q)
          /\ (stage = "menu" => listSize # capacity)
      BY <2>1 DEF Fill, AddWithRoom
    <3>2. listSize < capacity /\ capacity \in Nat
      BY <3>1, ArrayType DEF StockInv, StockTypeOK
    <3>3. Promise!Add(id, [label |-> l, quantity |-> q])
      BY <3>1, <3>2, ArrayType, CatalogueAdd
    <3> QED BY <3>3 DEF Promise!Next, Promise!Product
  <2>2. CASE AddWhenFull(id, l, q)
    <3>1. stage = "menu" /\ listSize = capacity /\ addProduct(Reallocated, id, l, q)
      BY <2>2 DEF AddWhenFull
    <3>2. Promise!Add(id, [label |-> l, quantity |-> q])
      BY <3>1, Grown, CatalogueAdd
    <3> QED BY <3>2 DEF Promise!Next, Promise!Product
  <2> QED BY <1>1, <2>1, <2>2
<1>2. ASSUME NEW id \in IDs, NEW q \in Quantities, handleUpdateQuantity(id, q)
      PROVE  Promise!Next
  BY <1>2, CatalogueUpdate DEF Promise!Next
<1>3. ASSUME NEW id \in IDs \union {0}, handleDeleteProduct(id) PROVE Promise!Next
  <2>1. \E i \in Used : productList[i].id = id
    BY <1>3, Known DEF handleDeleteProduct
  <2>2. id \in IDs
    BY <2>1 DEF StockInv, StockTypeOK, Products
  <2> QED BY <1>3, <2>2, CatalogueDelete DEF Promise!Next
<1>4. ASSUME RefusedWhenFull PROVE Stutter
  <2>1. /\ stage = "menu" /\ productList' = Reallocated /\ listSize' = listSize
           /\ told' = told
    BY <1>4 DEF RefusedWhenFull
  <2>2. Used' = Used /\ \A i \in Used : productList'[i] = productList[i]
    BY <2>1, Grown DEF Used
  <2> QED BY <2>1, <2>2, StoredStays
<1>5. ASSUME NEW number \in -1 .. INITIAL_PRODUCTS + 1, Start(number) PROVE Stutter
  <2>1. listSize = 0 /\ listSize' = 0 /\ told' = told
    BY <1>5 DEF StockInv, StockTypeOK, Start
  <2>2. Used = {} /\ Used' = {}
    BY <2>1 DEF Used
  <2> QED BY <2>1, <2>2, StoredStays
<1>6. ASSUME Exit \/ UNCHANGED stockVars PROVE Stutter
  <2>1. listSize' = listSize /\ productList' = productList /\ told' = told
    BY <1>6 DEF Exit, stockVars
  <2>2. Used' = Used
    BY <2>1 DEF Used
  <2> QED BY <2>1, <2>2, StoredStays
<1> QED BY <1>1, <1>2, <1>3, <1>4, <1>5, <1>6 DEF StockNext

(* For any capacities, IDs and quantities the array keeps the catalogue:   *)
(* no step loses or changes a product but the one that the user is told of *)
(* (lines 70-145, 187, 310).                                               *)
THEOREM CatalogueKept == StockSpec => ImplementsCatalogue
<1>1. StockInv /\ StockInv' /\ [StockNext]_stockVars
        => [Promise!Next]_<<Stored, told>>
  BY CatalogueNext
<1>2. StockInit => Promise!Init
  BY CatalogueInit
<1> QED BY <1>1, <1>2, StockInvariance, PTL
           DEF StockSpec, ImplementsCatalogue, Promise!Spec

-----------------------------------------------------------------------------
Byte == 0 .. 255

(* The places that the loop has behind it when it is at p. *)
Before(q, p) == q[1] < p[1] \/ (q[1] = p[1] /\ q[2] < p[2])

(* The place of a pair that is swapped at which the loop does it. *)
Upper(q) == IF q[1] <= q[2] THEN q ELSE Flipped(q)
Left(q)  == IF 2 * q[2] <= imageSize - 1 THEN q ELSE Mirrored(q)

ImageTypeOK ==
  /\ imageSize \in Nat \ {0} /\ original \in [Places -> Byte] /\ image \in [Places -> Int]
  /\ place \in Places
  /\ doing \in {"transposing", "reversing", "smoothing", "unpacking", "done"}

Packed(q) == Average(Turned, q) * 256 + Turned[q]

(* What is at q in each of the loops, before it comes to q and after. *)
HalfTransposed(q) == IF Before(Upper(q), place) THEN original[Flipped(q)] ELSE original[q]
HalfReversed(q)   == IF Before(Left(q), place) THEN Turned[q] ELSE original[Flipped(q)]
HalfSmoothed(q)   == IF Before(q, place) THEN Packed(q) ELSE Turned[q]
HalfUnpacked(q)   == IF Before(q, place) THEN Average(Turned, q) ELSE Packed(q)

ImageInv ==
  /\ ImageTypeOK
  /\ doing = "transposing" => \A q \in Places : image[q] = HalfTransposed(q)
  /\ doing = "reversing"   => \A q \in Places : image[q] = HalfReversed(q)
  /\ doing = "smoothing"   => \A q \in Places : image[q] = HalfSmoothed(q)
  /\ doing = "unpacking"   => \A q \in Places : image[q] = HalfUnpacked(q)
  /\ doing = "done"        => \A q \in Places : image[q] = Average(Turned, q)

-----------------------------------------------------------------------------
LEMMA Dividing ==
  ASSUME NEW s \in Int, NEW n \in 1 .. 9, 0 <= s, s <= n * 255
  PROVE  s \div n \in 0 .. 255
<1>1. CASE n = 1 BY <1>1
<1>2. CASE n = 2 BY <1>2
<1>3. CASE n = 3 BY <1>3
<1>4. CASE n = 4 BY <1>4
<1>5. CASE n = 5 BY <1>5
<1>6. CASE n = 6 BY <1>6
<1>7. CASE n = 7 BY <1>7
<1>8. CASE n = 8 BY <1>8
<1>9. CASE n = 9 BY <1>9
<1> QED BY <1>1, <1>2, <1>3, <1>4, <1>5, <1>6, <1>7, <1>8, <1>9

LEMMA Bytes16 ==
  ASSUME NEW x \in Byte, NEW y \in Byte
  PROVE  /\ unpackLowerByte(x) = x
         /\ unpackLowerByte(y * 256 + x) = x
         /\ unpackHigherByte(y * 256 + x) = y
         /\ packTo16Bits(y, x) = y * 256 + x
         /\ y * 256 + x \in Nat
BY DEF Byte, unpackLowerByte, unpackHigherByte, packTo16Bits, BYTE_MASK, INPUT_UPPER_LIMIT

Ones == [q \in Places |-> 1]

LEMMA AtBounds ==
  ASSUME NEW v \in [Places -> Byte], NEW r \in Int, NEW c \in Int
  PROVE  /\ At(Ones, r, c) \in 0 .. 1 /\ At(v, r, c) \in Int
         /\ 0 <= At(v, r, c) /\ At(v, r, c) <= At(Ones, r, c) * 255
<1>1. CASE <<r, c>> \in Places
  <2>1. v[<<r, c>>] \in Byte
    BY <1>1
  <2>2. Ones[<<r, c>>] = 1
    BY <1>1 DEF Ones
  <2>3. At(v, r, c) = v[<<r, c>>] /\ At(Ones, r, c) = 1
    BY <1>1, <2>2 DEF At
  <2> QED BY <2>1, <2>3 DEF Byte
<1>2. CASE <<r, c>> \notin Places
  BY <1>2 DEF At
<1> QED BY <1>1, <1>2

LEMMA InRowBounds ==
  ASSUME NEW v \in [Places -> Byte], NEW r \in Int, NEW c \in Int
  PROVE  /\ InRow(Ones, r, c) \in 0 .. 3 /\ InRow(v, r, c) \in Int
         /\ 0 <= InRow(v, r, c) /\ InRow(v, r, c) <= InRow(Ones, r, c) * 255
         /\ <<r, c>> \in Places => InRow(Ones, r, c) >= 1
<1>1. c - 1 \in Int /\ c + 1 \in Int
  OBVIOUS
<1>2. /\ At(Ones, r, c - 1) \in 0 .. 1 /\ At(v, r, c - 1) \in Int
      /\ 0 <= At(v, r, c - 1) /\ At(v, r, c - 1) <= At(Ones, r, c - 1) * 255
  BY <1>1, AtBounds
<1>3. /\ At(Ones, r, c) \in 0 .. 1 /\ At(v, r, c) \in Int
      /\ 0 <= At(v, r, c) /\ At(v, r, c) <= At(Ones, r, c) * 255
  BY AtBounds
<1>4. /\ At(Ones, r, c + 1) \in 0 .. 1 /\ At(v, r, c + 1) \in Int
      /\ 0 <= At(v, r, c + 1) /\ At(v, r, c + 1) <= At(Ones, r, c + 1) * 255
  BY <1>1, AtBounds
<1>5. <<r, c>> \in Places => At(Ones, r, c) = 1
  BY DEF At, Ones
<1> QED BY <1>2, <1>3, <1>4, <1>5 DEF InRow

(* The average of bytes is a byte. *)
LEMMA AverageByte ==
  ASSUME imageSize \in Nat \ {0}, NEW v \in [Places -> Byte], NEW p \in Places
  PROVE  Average(v, p) \in Byte
<1>1. PICK r \in Int, c \in Int : p = <<r, c>>
  BY DEF Places, Rows
<1>2. r - 1 \in Int /\ r + 1 \in Int /\ p[1] = r /\ p[2] = c
  BY <1>1
<1>3. /\ InRow(Ones, r - 1, c) \in 0 .. 3 /\ InRow(v, r - 1, c) \in Int
      /\ 0 <= InRow(v, r - 1, c) /\ InRow(v, r - 1, c) <= InRow(Ones, r - 1, c) * 255
  BY <1>2, InRowBounds
<1>4. /\ InRow(Ones, r, c) \in 0 .. 3 /\ InRow(v, r, c) \in Int
      /\ 0 <= InRow(v, r, c) /\ InRow(v, r, c) <= InRow(Ones, r, c) * 255
      /\ InRow(Ones, r, c) >= 1
  BY <1>1, InRowBounds
<1>5. /\ InRow(Ones, r + 1, c) \in 0 .. 3 /\ InRow(v, r + 1, c) \in Int
      /\ 0 <= InRow(v, r + 1, c) /\ InRow(v, r + 1, c) <= InRow(Ones, r + 1, c) * 255
  BY <1>2, InRowBounds
<1>6. WindowSum(Ones, p) \in 1 .. 9 /\ WindowSum(v, p) \in Int /\ 0 <= WindowSum(v, p)
      /\ WindowSum(v, p) <= WindowSum(Ones, p) * 255
  <2>1. \A u : WindowSum(u, p) = InRow(u, r - 1, c) + InRow(u, r, c) + InRow(u, r + 1, c)
    BY ONLY <1>2, Zenon DEF WindowSum
  <2> QED BY <1>3, <1>4, <1>5, <2>1
<1>7. Average(v, p) = WindowSum(v, p) \div WindowSum(Ones, p)
  BY DEF Average, Ones
<1> QED BY <1>6, <1>7, Dividing DEF Byte

-----------------------------------------------------------------------------
(* Where a loop is after one of its places. *)
LEMMA Advance ==
  ASSUME ImageTypeOK, NEW next \in {"reversing", "smoothing", "unpacking", "done"}, Goes(next)
  PROVE  /\ imageSize' = imageSize /\ original' = original /\ Places' = Places
         /\ place' \in Places
         /\ \/ /\ doing' = doing
               /\ \A q \in Places : Before(q, place') <=> Before(q, place) \/ q = place
            \/ /\ doing' = next
               /\ \A q \in Places : ~Before(q, place') /\ (Before(q, place) \/ q = place)
<1>1. PICK r \in Rows, c \in Rows : place = <<r, c>>
  BY DEF ImageTypeOK, Places
<1>2. imageSize \in Nat \ {0} /\ r \in Int /\ c \in Int /\ 0 <= r /\ 0 <= c
      /\ r <= imageSize - 1 /\ c <= imageSize - 1
  BY DEF ImageTypeOK, Rows
<1>3. imageSize' = imageSize /\ original' = original /\ Places' = Places
  BY DEF Goes, Places, Rows
<1>4. \A q \in Places : /\ q = <<q[1], q[2]>> /\ q[1] \in Int /\ q[2] \in Int
                        /\ 0 <= q[1] /\ 0 <= q[2]
                        /\ q[1] <= imageSize - 1 /\ q[2] <= imageSize - 1
  BY <1>2 DEF Places, Rows
<1>5. CASE c + 1 < imageSize
  <2>1. place' = <<r, c + 1>> /\ doing' = doing
    BY <1>1, <1>2, <1>5 DEF Goes
  <2>2. place' \in Places
    BY <1>2, <1>5, <2>1 DEF Places, Rows
  <2>3. ASSUME NEW q \in Places PROVE Before(q, place') <=> Before(q, place) \/ q = place
    <3>1. q[2] < c + 1 <=> q[2] < c \/ q[2] = c
      BY <1>2, <1>4
    <3>2. q = <<r, c>> <=> q[1] = r /\ q[2] = c
      BY <1>4
    <3>3. Before(q, place) <=> q[1] < r \/ (q[1] = r /\ q[2] < c)
      BY <1>1 DEF Before
    <3>4. Before(q, place') <=> q[1] < r \/ (q[1] = r /\ q[2] < c + 1)
      BY <2>1 DEF Before
    <3> QED BY <1>1, <3>1, <3>2, <3>3, <3>4
  <2> QED BY <1>3, <2>1, <2>2, <2>3
<1>6. CASE c + 1 = imageSize /\ r + 1 < imageSize
  <2>1. place' = <<r + 1, 0>> /\ doing' = doing
    BY <1>1, <1>2, <1>6 DEF Goes
  <2>2. place' \in Places
    BY <1>2, <1>6, <2>1 DEF Places, Rows
  <2>3. ASSUME NEW q \in Places PROVE Before(q, place') <=> Before(q, place) \/ q = place
    <3>1. /\ q[1] < r + 1 <=> q[1] < r \/ q[1] = r
          /\ ~(q[2] < 0) /\ (q[2] < c \/ q[2] = c)
      BY <1>2, <1>4, <1>6
    <3>2. q = <<r, c>> <=> q[1] = r /\ q[2] = c
      BY <1>4
    <3>3. Before(q, place) <=> q[1] < r \/ (q[1] = r /\ q[2] < c)
      BY <1>1 DEF Before
    <3>4. Before(q, place') <=> q[1] < r + 1 \/ (q[1] = r + 1 /\ q[2] < 0)
      BY <2>1 DEF Before
    <3> QED BY <1>1, <3>1, <3>2, <3>3, <3>4
  <2> QED BY <1>3, <2>1, <2>2, <2>3
<1>7. CASE c + 1 = imageSize /\ r + 1 = imageSize
  <2>1. place' = <<0, 0>> /\ doing' = next
    BY <1>1, <1>2, <1>7 DEF Goes
  <2>2. place' \in Places
    BY <1>2, <2>1 DEF Places, Rows
  <2>3. ASSUME NEW q \in Places
        PROVE  ~Before(q, place') /\ (Before(q, place) \/ q = place)
    <3>1. /\ q[1] < r \/ q[1] = r
          /\ (q[2] < c \/ q[2] = c)
      BY <1>2, <1>4, <1>7
    <3>2. q = <<r, c>> <=> q[1] = r /\ q[2] = c
      BY <1>4
    <3>3. ~(q[1] < 0) /\ ~(q[2] < 0)
      BY <1>4
    <3>4. Before(q, place) <=> q[1] < r \/ (q[1] = r /\ q[2] < c)
      BY <1>1 DEF Before
    <3>5. Before(q, place') <=> q[1] < 0 \/ (q[1] = 0 /\ q[2] < 0)
      BY <2>1 DEF Before
    <3> QED BY <1>1, <3>1, <3>2, <3>3, <3>4, <3>5
  <2> QED BY <1>3, <2>1, <2>2, <2>3
<1> QED BY <1>2, <1>5, <1>6, <1>7

(* The two parts of a pair, and what the place of a turned element was.    *)
LEMMA Pairs ==
  ASSUME ImageTypeOK, NEW q \in Places
  PROVE  /\ q = <<q[1], q[2]>> /\ q[1] \in Rows /\ q[2] \in Rows
         /\ Flipped(q) \in Places /\ Flipped(q)[1] = q[2] /\ Flipped(q)[2] = q[1]
         /\ Flipped(Flipped(q)) = q
         /\ Mirrored(q) \in Places /\ Mirrored(q)[1] = q[1]
         /\ Mirrored(q)[2] = imageSize - 1 - q[2]
         /\ Mirrored(Mirrored(q)) = q
         /\ Turned[q] = original[Flipped(Mirrored(q))]
<1>1. q = <<q[1], q[2]>> /\ q[1] \in Rows /\ q[2] \in Rows
  BY DEF Places
<1>2. Flipped(q) = <<q[2], q[1]>> /\ Mirrored(q) = <<q[1], imageSize - 1 - q[2]>>
  BY DEF Flipped, Mirrored
<1>3. imageSize - 1 - q[2] \in Rows /\ imageSize - 1 - (imageSize - 1 - q[2]) = q[2]
  BY <1>1 DEF Rows, ImageTypeOK
<1>4. Flipped(q) \in Places /\ Mirrored(q) \in Places
  BY <1>1, <1>2, <1>3 DEF Places
<1>5. Flipped(Flipped(q)) = <<q[1], q[2]>>
  BY <1>2 DEF Flipped
<1>6. Mirrored(Mirrored(q)) = <<q[1], imageSize - 1 - (imageSize - 1 - q[2])>>
  BY <1>2 DEF Mirrored
<1>7. Turned[q] = original[Flipped(Mirrored(q))]
  BY DEF Turned
<1> QED BY <1>1, <1>2, <1>3, <1>4, <1>5, <1>6, <1>7

LEMMA Bytes8 ==
  ASSUME ImageTypeOK
  PROVE  /\ Turned \in [Places -> Byte]
         /\ \A q \in Places : /\ original[q] \in Byte /\ Turned[q] \in Byte
                              /\ Average(Turned, q) \in Byte
<1>1. \A q \in Places : original[q] \in Byte
  BY DEF ImageTypeOK
<1>2. \A q \in Places : Flipped(Mirrored(q)) \in Places
  BY Pairs
<1>3. Turned \in [Places -> Byte]
  BY <1>1, <1>2 DEF Turned
<1>4. \A q \in Places : Average(Turned, q) \in Byte
  BY <1>3, AverageByte DEF ImageTypeOK
<1> QED BY <1>1, <1>3, <1>4

LEMMA SwappedIs ==
  ASSUME ImageTypeOK, NEW p \in Places, NEW q \in Places
  PROVE  /\ Swapped(p, q) \in [Places -> Int]
         /\ Swapped(p, q)[p] = image[q] /\ Swapped(p, q)[q] = image[p]
         /\ \A u \in Places \ {p, q} : Swapped(p, q)[u] = image[u]
BY DEF Swapped, ImageTypeOK

(* One place of each loop. *)
LEMMA Transposes ==
  ASSUME ImageInv, transposeMatrix, NEW q \in Places
  PROVE  image'[q] = IF Before(Upper(q), place) \/ Upper(q) = place
                     THEN original[Flipped(q)] ELSE original[q]
<1>1. /\ ImageTypeOK /\ place \in Places
      /\ \A u \in Places : image[u] = HalfTransposed(u)
  BY DEF ImageInv, ImageTypeOK, transposeMatrix
<1>2. ~Before(place, place)
  BY <1>1, Pairs DEF Before, Rows, ImageTypeOK
<1>3. /\ q[1] \in Int /\ q[2] \in Int /\ place[1] \in Int /\ place[2] \in Int
  BY <1>1, Pairs DEF Rows, ImageTypeOK
<1>4. /\ Upper(q) = place => place[1] <= place[2] /\ (q = place \/ q = Flipped(place))
      /\ place[1] = place[2] => place = Flipped(place)
  <2>1. q[1] <= q[2] \/ Flipped(q)[1] <= Flipped(q)[2]
    BY <1>1, <1>3, Pairs
  <2>2. Flipped(Flipped(q)) = q
    BY <1>1, Pairs
  <2>3. place = <<place[1], place[2]>>
    BY <1>1, Pairs
  <2> QED BY <1>3, <2>1, <2>2, <2>3 DEF Upper, Flipped
<1>5. CASE place[1] < place[2]
  <2>1. /\ Upper(place) = place /\ Upper(Flipped(place)) = place
        /\ Flipped(Flipped(place)) = place /\ Flipped(place) \in Places
    BY <1>1, <1>3, <1>5, Pairs DEF Upper
  <2>2. image[place] = original[place] /\ image[Flipped(place)] = original[Flipped(place)]
    BY <1>1, <1>2, <2>1 DEF HalfTransposed
  <2>3. image' = Swapped(place, Flipped(place))
    BY <1>5 DEF transposeMatrix
  <2>4. image'[place] = original[Flipped(place)] /\ image'[Flipped(place)] = original[place]
    BY <1>1, <2>1, <2>2, <2>3, SwappedIs
  <2>5. q \notin {place, Flipped(place)} => image'[q] = image[q]
    BY <1>1, <2>1, <2>3, SwappedIs
  <2> QED BY <1>1, <1>4, <2>1, <2>4, <2>5 DEF HalfTransposed
<1>6. CASE ~(place[1] < place[2])
  <2>1. image' = image
    BY <1>6 DEF transposeMatrix
  <2>2. Upper(q) = place => q = place /\ Flipped(q) = q
    BY <1>3, <1>4, <1>6
  <2> QED BY <1>1, <2>1, <2>2 DEF HalfTransposed
<1> QED BY <1>5, <1>6

LEMMA Reverses ==
  ASSUME ImageInv, reverseMatrixRows, NEW q \in Places
  PROVE  image'[q] = IF Before(Left(q), place) \/ Left(q) = place
                     THEN Turned[q] ELSE original[Flipped(q)]
<1>1. /\ ImageTypeOK /\ place \in Places
      /\ \A u \in Places : image[u] = HalfReversed(u)
  BY DEF ImageInv, ImageTypeOK, reverseMatrixRows
<1>2. ~Before(place, place)
  BY <1>1, Pairs DEF Before, Rows, ImageTypeOK
<1>3. /\ q[1] \in Int /\ q[2] \in Int /\ place[1] \in Int /\ place[2] \in Int
      /\ imageSize \in Int
  BY <1>1, Pairs DEF Rows, ImageTypeOK
<1>4. /\ Left(q) = place => 2 * place[2] <= imageSize - 1 /\ (q = place \/ q = Mirrored(place))
      /\ 2 * place[2] = imageSize - 1 => place = Mirrored(place)
  <2>1. 2 * q[2] <= imageSize - 1 \/ 2 * Mirrored(q)[2] <= imageSize - 1
    <3>1. Mirrored(q)[2] = imageSize - 1 - q[2]
      BY <1>1, Pairs
    <3> QED BY <1>3, <3>1
  <2>2. Mirrored(Mirrored(q)) = q
    BY <1>1, Pairs
  <2>3. 2 * place[2] = imageSize - 1 => place = Mirrored(place)
    <3>1. place = <<place[1], place[2]>>
      BY <1>1, Pairs
    <3>2. 2 * place[2] = imageSize - 1 => imageSize - 1 - place[2] = place[2]
      BY <1>3
    <3> QED BY <3>1, <3>2 DEF Mirrored
  <2> QED BY <1>3, <2>1, <2>2, <2>3 DEF Left
<1>5. CASE 2 * place[2] < imageSize - 1
  <2>1. Mirrored(place)[2] = imageSize - 1 - place[2]
    BY <1>1, Pairs
  <2>2. 2 * place[2] <= imageSize - 1 /\ ~(2 * Mirrored(place)[2] <= imageSize - 1)
    BY <1>3, <1>5, <2>1
  <2>3. Mirrored(Mirrored(place)) = place /\ Mirrored(place) \in Places
    BY <1>1, Pairs
  <2>4. Left(place) = place /\ Left(Mirrored(place)) = place
    BY <2>2, <2>3 DEF Left
  <2>5. image[place] = original[Flipped(place)]
        /\ image[Mirrored(place)] = original[Flipped(Mirrored(place))]
    BY <1>1, <1>2, <2>3, <2>4 DEF HalfReversed
  <2>6. image' = Swapped(place, Mirrored(place))
    BY <1>5 DEF reverseMatrixRows
  <2>7. Turned[place] = original[Flipped(Mirrored(place))]
        /\ Turned[Mirrored(place)] = original[Flipped(place)]
    BY <1>1, <2>3, Pairs
  <2>8. image'[place] = Turned[place] /\ image'[Mirrored(place)] = Turned[Mirrored(place)]
    BY <1>1, <2>3, <2>5, <2>6, <2>7, SwappedIs
  <2>9. q \notin {place, Mirrored(place)} => image'[q] = image[q]
    BY <1>1, <2>3, <2>6, SwappedIs
  <2> QED BY <1>1, <1>4, <2>4, <2>8, <2>9 DEF HalfReversed
<1>6. CASE ~(2 * place[2] < imageSize - 1)
  <2>1. image' = image
    BY <1>6 DEF reverseMatrixRows
  <2>2. Left(q) = place => q = place /\ Mirrored(q) = q
    <3>1. 2 * place[2] <= imageSize - 1 => 2 * place[2] = imageSize - 1
      BY <1>3, <1>6
    <3> QED BY <1>4, <3>1
  <2>3. Turned[q] = original[Flipped(Mirrored(q))]
    BY <1>1, Pairs
  <2> QED BY <1>1, <2>1, <2>2, <2>3 DEF HalfReversed
<1> QED BY <1>5, <1>6

LEMMA SmoothsOne ==
  ASSUME ImageInv, applySmoothingFilter, NEW q \in Places
  PROVE  image'[q] = IF Before(q, place) \/ q = place THEN Packed(q) ELSE Turned[q]
<1>1. /\ ImageTypeOK /\ place \in Places
      /\ \A u \in Places : image[u] = HalfSmoothed(u)
  BY DEF ImageInv, ImageTypeOK, applySmoothingFilter
<1>2. ~Before(place, place)
  BY <1>1, Pairs DEF Before, Rows, ImageTypeOK
<1>3. \A u \in Places : unpackLowerByte(image[u]) = Turned[u]
  BY <1>1, Bytes8, Bytes16 DEF HalfSmoothed, Packed
<1>4. [u \in Places |-> unpackLowerByte(image[u])] = Turned
  BY <1>3 DEF Turned
<1>5. image[place] = Turned[place]
  BY <1>1, <1>2 DEF HalfSmoothed
<1>6. /\ packTo16Bits(Average(Turned, place), Turned[place]) = Packed(place)
      /\ Packed(place) \in Nat
  BY <1>1, Bytes8, Bytes16 DEF Packed
<1>7. image' = [image EXCEPT ![place] = Packed(place)]
  <2>1. packTo16Bits(Average([u \in Places |-> unpackLowerByte(image[u])], place), image[place])
          = Packed(place)
    BY <1>4, <1>5, <1>6
  <2>2. Packed(place) # -1
    BY <1>6
  <2> QED BY <2>1, <2>2, Zenon DEF applySmoothingFilter
<1>8. image'[place] = Packed(place) /\ (q # place => image'[q] = image[q])
  BY <1>1, <1>7 DEF ImageTypeOK
<1> QED BY <1>1, <1>8 DEF HalfSmoothed

LEMMA Unpacks ==
  ASSUME ImageInv, unpackMatrixValues, NEW q \in Places
  PROVE  image'[q] = IF Before(q, place) \/ q = place THEN Average(Turned, q) ELSE Packed(q)
<1>1. /\ ImageTypeOK /\ place \in Places
      /\ \A u \in Places : image[u] = HalfUnpacked(u)
  BY DEF ImageInv, ImageTypeOK, unpackMatrixValues
<1>2. ~Before(place, place)
  BY <1>1, Pairs DEF Before, Rows, ImageTypeOK
<1>3. image[place] = Packed(place)
  BY <1>1, <1>2 DEF HalfUnpacked
<1>4. unpackHigherByte(Packed(place)) = Average(Turned, place)
  BY <1>1, Bytes8, Bytes16 DEF Packed
<1>5. /\ image'[place] = unpackHigherByte(image[place])
      /\ q # place => image'[q] = image[q]
  BY <1>1 DEF unpackMatrixValues, ImageTypeOK
<1> QED BY <1>1, <1>3, <1>4, <1>5 DEF HalfUnpacked

-----------------------------------------------------------------------------
(* The matrix keeps its places, whatever is written to one.                *)
LEMMA ImageStays ==
  ASSUME ImageTypeOK, ImageNext
  PROVE  image' \in [Places -> Int]
<1>1. CASE transposeMatrix
  <2>1. place \in Places /\ Flipped(place) \in Places
    BY Pairs DEF ImageTypeOK
  <2> QED BY <1>1, <2>1, SwappedIs DEF transposeMatrix, ImageTypeOK
<1>2. CASE reverseMatrixRows
  <2>1. place \in Places /\ Mirrored(place) \in Places
    BY Pairs DEF ImageTypeOK
  <2> QED BY <1>2, <2>1, SwappedIs DEF reverseMatrixRows, ImageTypeOK
<1>3. CASE applySmoothingFilter
  <2>1. PICK x : /\ x = packTo16Bits(
                             Average([q \in Places |-> unpackLowerByte(image[q])], place),
                             image[place])
                 /\ image' = IF x # -1 THEN [image EXCEPT ![place] = x] ELSE image
    BY <1>3, Zenon DEF applySmoothingFilter
  <2>2. x \in Int
    <3>1. Average([q \in Places |-> unpackLowerByte(image[q])], place) \in Byte
      <4>1. \A q \in Places : unpackLowerByte(image[q]) \in Byte
        BY DEF ImageTypeOK, unpackLowerByte, BYTE_MASK, Byte
      <4>2. [q \in Places |-> unpackLowerByte(image[q])] \in [Places -> Byte]
        BY <4>1
      <4> QED BY <4>2, AverageByte DEF ImageTypeOK
    <3>2. image[place] \in Int
      BY DEF ImageTypeOK
    <3>3. \A y \in Byte : packTo16Bits(y, image[place]) \in Int
      BY <3>2 DEF packTo16Bits, Byte
    <3> QED BY <2>1, <3>1, <3>3
  <2> QED BY <2>1, <2>2 DEF ImageTypeOK
<1>4. CASE unpackMatrixValues
  <2>1. unpackHigherByte(image[place]) \in Int
    BY DEF ImageTypeOK, unpackHigherByte, BYTE_MASK
  <2>2. image' = [image EXCEPT ![place] = unpackHigherByte(image[place])]
    BY <1>4 DEF unpackMatrixValues
  <2> QED BY <2>1, <2>2 DEF ImageTypeOK
<1> QED BY <1>1, <1>2, <1>3, <1>4 DEF ImageNext

(* What does not depend on where a loop is.                                *)
LEMMA SameOriginal ==
  ASSUME imageSize' = imageSize, original' = original, Places' = Places
  PROVE  /\ Turned' = Turned
         /\ \A q \in Places : /\ Upper(q)' = Upper(q) /\ Left(q)' = Left(q)
                              /\ Average(Turned, q)' = Average(Turned, q)
                              /\ Packed(q)' = Packed(q)
<1>1. Turned' = Turned
  BY DEF Turned, Flipped, Mirrored
<1>2. Rows' = Rows
  BY DEF Rows
<1>3. \A q \in Places : Average(Turned, q)' = Average(Turned, q)
  BY <1>1 DEF Average, WindowSum, InRow, At
<1>4. \A q \in Places : Packed(q)' = Packed(q)
  BY <1>1, <1>3 DEF Packed
<1>5. \A q \in Places : Upper(q)' = Upper(q) /\ Left(q)' = Left(q)
  BY DEF Upper, Left, Flipped, Mirrored
<1> QED BY <1>1, <1>3, <1>4, <1>5

LEMMA ImageTyped ==
  ASSUME ImageTypeOK, ImageNext
  PROVE  ImageTypeOK'
<1>1. PICK next \in {"reversing", "smoothing", "unpacking", "done"} : Goes(next)
  BY DEF ImageNext, transposeMatrix, reverseMatrixRows, applySmoothingFilter, unpackMatrixValues
<1>2. /\ imageSize' = imageSize /\ original' = original /\ Places' = Places
      /\ place' \in Places /\ doing' \in {doing, next}
  BY <1>1, Advance
<1>3. image' \in [Places -> Int]
  BY ImageStays
<1> QED BY <1>2, <1>3 DEF ImageTypeOK

LEMMA TransposeInv == ASSUME ImageInv, transposeMatrix PROVE ImageInv'
<1>1. ImageTypeOK /\ ImageTypeOK' /\ Goes("reversing") /\ doing = "transposing"
  BY ImageTyped DEF ImageInv, ImageNext, transposeMatrix
<1>2. /\ imageSize' = imageSize /\ original' = original /\ Places' = Places
      /\ \/ /\ doing' = doing
            /\ \A q \in Places : Before(q, place') <=> Before(q, place) \/ q = place
         \/ /\ doing' = "reversing"
            /\ \A q \in Places : ~Before(q, place') /\ (Before(q, place) \/ q = place)
  BY <1>1, Advance
<1>3. Turned' = Turned /\ \A q \in Places : Upper(q)' = Upper(q) /\ Left(q)' = Left(q)
  BY <1>2, SameOriginal
<1>4. ASSUME NEW q \in Places
      PROVE  Upper(q) \in Places /\ Left(q) \in Places
  BY <1>1, Pairs DEF Upper, Left
<1>5. CASE doing' = doing
  <2>1. ASSUME NEW q \in Places PROVE image'[q] = HalfTransposed(q)'
    <3>1. Before(Upper(q), place') <=> Before(Upper(q), place) \/ Upper(q) = place
      BY <1>1, <1>2, <1>4, <1>5
    <3>2. HalfTransposed(q)' = IF Before(Upper(q), place')
                               THEN original[Flipped(q)] ELSE original[q]
      BY <1>2, <1>3 DEF HalfTransposed, Before, Flipped
    <3> QED BY <3>1, <3>2, Transposes
  <2> QED BY <1>1, <1>2, <1>5, <2>1 DEF ImageInv
<1>6. CASE doing' = "reversing"
  <2>1. ASSUME NEW q \in Places PROVE image'[q] = HalfReversed(q)'
    <3>1. ~Before(Left(q), place') /\ (Before(Upper(q), place) \/ Upper(q) = place)
      BY <1>1, <1>2, <1>4, <1>6
    <3>2. HalfReversed(q)' = IF Before(Left(q), place')
                             THEN Turned[q] ELSE original[Flipped(q)]
      BY <1>2, <1>3 DEF HalfReversed, Before, Flipped
    <3> QED BY <3>1, <3>2, Transposes
  <2> QED BY <1>1, <1>2, <1>6, <2>1 DEF ImageInv
<1> QED BY <1>2, <1>5, <1>6

LEMMA ReverseInv == ASSUME ImageInv, reverseMatrixRows PROVE ImageInv'
<1>1. ImageTypeOK /\ ImageTypeOK' /\ Goes("smoothing") /\ doing = "reversing"
  BY ImageTyped DEF ImageInv, ImageNext, reverseMatrixRows
<1>2. /\ imageSize' = imageSize /\ original' = original /\ Places' = Places
      /\ \/ /\ doing' = doing
            /\ \A q \in Places : Before(q, place') <=> Before(q, place) \/ q = place
         \/ /\ doing' = "smoothing"
            /\ \A q \in Places : ~Before(q, place') /\ (Before(q, place) \/ q = place)
  BY <1>1, Advance
<1>3. Turned' = Turned /\ \A q \in Places : Left(q)' = Left(q) /\ Packed(q)' = Packed(q)
  BY <1>2, SameOriginal
<1>4. ASSUME NEW q \in Places
      PROVE  Left(q) \in Places
  BY <1>1, Pairs DEF Left
<1>5. CASE doing' = doing
  <2>1. ASSUME NEW q \in Places PROVE image'[q] = HalfReversed(q)'
    <3>1. Before(Left(q), place') <=> Before(Left(q), place) \/ Left(q) = place
      BY <1>1, <1>2, <1>4, <1>5
    <3>2. HalfReversed(q)' = IF Before(Left(q), place')
                             THEN Turned[q] ELSE original[Flipped(q)]
      BY <1>2, <1>3 DEF HalfReversed, Before, Flipped
    <3> QED BY <3>1, <3>2, Reverses
  <2> QED BY <1>1, <1>2, <1>5, <2>1 DEF ImageInv
<1>6. CASE doing' = "smoothing"
  <2>1. ASSUME NEW q \in Places PROVE image'[q] = HalfSmoothed(q)'
    <3>1. ~Before(q, place') /\ (Before(Left(q), place) \/ Left(q) = place)
      BY <1>1, <1>2, <1>4, <1>6
    <3>2. HalfSmoothed(q)' = IF Before(q, place') THEN Packed(q) ELSE Turned[q]
      BY <1>2, <1>3 DEF HalfSmoothed, Before
    <3> QED BY <3>1, <3>2, Reverses
  <2> QED BY <1>1, <1>2, <1>6, <2>1 DEF ImageInv
<1> QED BY <1>2, <1>5, <1>6

LEMMA SmoothInv == ASSUME ImageInv, applySmoothingFilter PROVE ImageInv'
<1>1. ImageTypeOK /\ ImageTypeOK' /\ Goes("unpacking") /\ doing = "smoothing"
  BY ImageTyped DEF ImageInv, ImageNext, applySmoothingFilter
<1>2. /\ imageSize' = imageSize /\ original' = original /\ Places' = Places
      /\ \/ /\ doing' = doing
            /\ \A q \in Places : Before(q, place') <=> Before(q, place) \/ q = place
         \/ /\ doing' = "unpacking"
            /\ \A q \in Places : ~Before(q, place') /\ (Before(q, place) \/ q = place)
  BY <1>1, Advance
<1>3. Turned' = Turned /\ \A q \in Places : /\ Average(Turned, q)' = Average(Turned, q)
                                           /\ Packed(q)' = Packed(q)
  BY <1>2, SameOriginal
<1>4. ASSUME NEW q \in Places
      PROVE  /\ HalfSmoothed(q)' = IF Before(q, place') THEN Packed(q) ELSE Turned[q]
             /\ HalfUnpacked(q)' = IF Before(q, place') THEN Average(Turned, q) ELSE Packed(q)
  BY <1>2, <1>3 DEF HalfSmoothed, HalfUnpacked, Before
<1>5. CASE doing' = doing
  <2>1. \A q \in Places : image'[q] = HalfSmoothed(q)'
    BY <1>1, <1>2, <1>4, <1>5, SmoothsOne
  <2> QED BY <1>1, <1>2, <1>5, <2>1 DEF ImageInv
<1>6. CASE doing' = "unpacking"
  <2>1. \A q \in Places : image'[q] = HalfUnpacked(q)'
    BY <1>1, <1>2, <1>4, <1>6, SmoothsOne
  <2> QED BY <1>1, <1>2, <1>6, <2>1 DEF ImageInv
<1> QED BY <1>2, <1>5, <1>6

LEMMA UnpackInv == ASSUME ImageInv, unpackMatrixValues PROVE ImageInv'
<1>1. ImageTypeOK /\ ImageTypeOK' /\ Goes("done") /\ doing = "unpacking"
  BY ImageTyped DEF ImageInv, ImageNext, unpackMatrixValues
<1>2. /\ imageSize' = imageSize /\ original' = original /\ Places' = Places
      /\ \/ /\ doing' = doing
            /\ \A q \in Places : Before(q, place') <=> Before(q, place) \/ q = place
         \/ /\ doing' = "done"
            /\ \A q \in Places : ~Before(q, place') /\ (Before(q, place) \/ q = place)
  BY <1>1, Advance
<1>3. Turned' = Turned /\ \A q \in Places : /\ Average(Turned, q)' = Average(Turned, q)
                                           /\ Packed(q)' = Packed(q)
  BY <1>2, SameOriginal
<1>4. ASSUME NEW q \in Places
      PROVE  HalfUnpacked(q)' = IF Before(q, place') THEN Average(Turned, q) ELSE Packed(q)
  BY <1>2, <1>3 DEF HalfUnpacked, Before
<1>5. CASE doing' = doing
  <2>1. \A q \in Places : image'[q] = HalfUnpacked(q)'
    BY <1>1, <1>2, <1>4, <1>5, Unpacks
  <2> QED BY <1>1, <1>2, <1>5, <2>1 DEF ImageInv
<1>6. CASE doing' = "done"
  <2>1. \A q \in Places : image'[q] = Average(Turned, q)'
    BY <1>1, <1>2, <1>3, <1>6, Unpacks
  <2> QED BY <1>1, <1>2, <1>6, <2>1 DEF ImageInv
<1> QED BY <1>2, <1>5, <1>6

LEMMA ImageInitInv == ImageInit => ImageInv
<1> SUFFICES ASSUME ImageInit PROVE ImageInv
  OBVIOUS
<1>1. imageSize \in Nat \ {0} /\ original \in [Places -> Byte]
  BY ImageAssumption DEF ImageInit, Byte
<1>2. place = <<0, 0>> /\ place \in Places
  BY <1>1 DEF ImageInit, ImageReady, Places, Rows
<1>3. ImageTypeOK
  BY <1>1, <1>2 DEF ImageInit, ImageReady, ImageTypeOK, Byte
<1>4. \A q \in Places : Upper(q) \in Places
  BY <1>3, Pairs DEF Upper
<1>5. \A q \in Places : q[1] \in Nat /\ q[2] \in Nat
  BY <1>1 DEF Places, Rows
<1>6. \A q \in Places : ~Before(q, place)
  BY <1>2, <1>5 DEF Before
<1>7. \A q \in Places : image[q] = HalfTransposed(q)
  BY <1>4, <1>6 DEF HalfTransposed, ImageInit, ImageReady
<1> QED BY <1>3, <1>7 DEF ImageInv, ImageInit, ImageReady

LEMMA ImageNextInv == ImageInv /\ [ImageNext]_imageVars => ImageInv'
<1> SUFFICES ASSUME ImageInv, [ImageNext]_imageVars PROVE ImageInv'
  OBVIOUS
<1>1. CASE UNCHANGED imageVars
  <2>1. /\ imageSize' = imageSize /\ original' = original /\ image' = image
        /\ doing' = doing /\ place' = place
    BY <1>1 DEF imageVars
  <2>2. Places' = Places
    BY <2>1 DEF Places, Rows
  <2>3. /\ Turned' = Turned
        /\ \A q \in Places : /\ Upper(q)' = Upper(q) /\ Left(q)' = Left(q)
                             /\ Average(Turned, q)' = Average(Turned, q)
                             /\ Packed(q)' = Packed(q)
    BY <2>1, <2>2, SameOriginal
  <2>4. ASSUME NEW q \in Places
        PROVE  /\ HalfTransposed(q)' = HalfTransposed(q) /\ HalfReversed(q)' = HalfReversed(q)
               /\ HalfSmoothed(q)' = HalfSmoothed(q) /\ HalfUnpacked(q)' = HalfUnpacked(q)
    BY <2>1, <2>3 DEF HalfTransposed, HalfReversed, HalfSmoothed, HalfUnpacked, Before, Flipped
  <2> QED BY <2>1, <2>2, <2>3, <2>4 DEF ImageInv, ImageTypeOK
<1> QED BY <1>1, TransposeInv, ReverseInv, SmoothInv, UnpackInv DEF ImageNext

(* What each place of the image holds in each of the four loops, before    *)
(* the loop comes to it and after (sonar_image_processing.c:55-135).       *)
THEOREM ImageInvariance == ImageSpec => []ImageInv
<1> QED BY ImageInitInv, ImageNextInv, PTL DEF ImageSpec

(* For an image of any size each element becomes the average of the turned *)
(* matrix around it, though its neighbours were smoothed before it: the    *)
(* low byte still has what a neighbour reads (lines 103-135).              *)
THEOREM SmoothsAlways == ImageSpec => []Smooths
<1>1. ImageInv => Smooths
  <2> SUFFICES ASSUME ImageInv, doing = "done"
               PROVE  image = [q \in Places |-> Average(Turned, q)]
    BY DEF Smooths
  <2>1. image \in [Places -> Int] /\ \A q \in Places : image[q] = Average(Turned, q)
    BY DEF ImageInv, ImageTypeOK
  <2> QED BY <2>1
<1> QED BY <1>1, ImageInvariance, PTL

-----------------------------------------------------------------------------
Side == 0 .. spiralSize - 1

(* The cells of the rings outside ring g, and how far a cell is along it.  *)
Full(g) == 4 * g * (spiralSize - g)
EdgeOf(g) == spiralSize - 1 - 2 * g
OnRing(r, c, g) ==
  /\ g \in Int /\ 0 <= g /\ g <= r /\ g <= c
  /\ r <= spiralSize - 1 - g /\ c <= spiralSize - 1 - g
  /\ r = g \/ c = g \/ r = spiralSize - 1 - g \/ c = spiralSize - 1 - g
Along(r, c, g) == IF r = g THEN c - g
                  ELSE IF c = spiralSize - 1 - g THEN EdgeOf(g) + r - g
                  ELSE IF r = spiralSize - 1 - g THEN 2 * EdgeOf(g) + spiralSize - 1 - g - c
                  ELSE 3 * EdgeOf(g) + spiralSize - 1 - g - r

SpiralTypeOK ==
  /\ spiralSize \in Nat \ {0} /\ padding \in 1 .. spiralSize
  /\ row \in Side /\ column \in Side /\ currentValue \in Int /\ side \in 1 .. 5
  /\ spiral \in [Cells -> Int \union {Unset}]

(* Where each side of ring padding - 1 may be, and where the rest stays.   *)
OnSide ==
  LET g == padding - 1
      h == spiralSize - 1 - g IN
  /\ side \in {1, 5} => row = g /\ g - 1 <= column /\ column <= h
  /\ side = 2 => column = h /\ g <= row /\ row <= h
  /\ side = 3 => row = h /\ g <= column /\ column <= h
  /\ side = 4 => column = g /\ row <= h /\ (g < row \/ (row = g /\ g = h))
InTheMiddle == \/ 2 * row = spiralSize - 1 /\ column = row
               \/ 2 * row = spiralSize /\ column = row - 1

Filled ==
  \A r, c \in Side :
    PlaceOf(r, c) < currentValue \/ (side = 5 /\ PlaceOf(r, c) = currentValue)
      => spiral[r * spiralSize + c] = PlaceOf(r, c)

SpiralInv ==
  /\ SpiralTypeOK
  /\ IF EdgeOf(padding - 1) >= 0 THEN OnSide ELSE InTheMiddle
  /\ side = 5 => padding = spiralSize
  /\ currentValue = PlaceOf(row, column)
  /\ Filled

-----------------------------------------------------------------------------
(* An offset belongs to one cell. *)
LEMMA Offset ==
  ASSUME spiralSize \in Nat \ {0}, NEW r \in Side, NEW c \in Side
  PROVE  /\ r * spiralSize + c \in Cells
         /\ \A t, d \in Side : r * spiralSize + c = t * spiralSize + d => r = t /\ c = d
<1> DEFINE s == spiralSize
<1>1. /\ s \in Int /\ s > 0 /\ r \in Int /\ c \in Int
      /\ 0 <= r /\ 0 <= c /\ r <= s - 1 /\ c <= s - 1
  BY DEF Side
<1> HIDE DEF s
<1>2. ASSUME NEW x \in Int, NEW y \in Int, 0 <= x, x < y
      PROVE  x * s + s <= y * s /\ x * s \in Int /\ y * s \in Int /\ 0 <= x * s
  <2>1. PICK z \in Int : y = x + 1 + z /\ 0 <= z
    <3>1. y - x - 1 \in Int /\ y = x + 1 + (y - x - 1) /\ 0 <= y - x - 1
      BY <1>2
    <3> QED BY <3>1
  <2>2. y * s = x * s + s + z * s /\ 0 <= z * s /\ 0 <= x * s /\ x * s \in Int /\ z * s \in Int
    BY ONLY <1>1, <1>2, <2>1
  <2> QED BY ONLY <1>1, <2>2
<1>3. r * s + c \in 0 .. s * s - 1
  <2>1. r * s + s <= s * s /\ r * s \in Int /\ s * s \in Int /\ 0 <= r * s
    BY <1>1, <1>2
  <2> QED BY ONLY <1>1, <2>1
<1>4. ASSUME NEW t \in Side, NEW d \in Side, r * s + c = t * s + d PROVE r = t /\ c = d
  <2>1. t \in Int /\ d \in Int /\ 0 <= t /\ 0 <= d /\ t <= s - 1 /\ d <= s - 1
    BY DEF Side, s
  <2>2. ~(r < t)
    <3>1. r < t => r * s + s <= t * s /\ r * s \in Int /\ t * s \in Int
      BY <1>1, <1>2, <2>1
    <3> QED BY ONLY <1>1, <1>4, <2>1, <3>1
  <2>3. ~(t < r)
    <3>1. t < r => t * s + s <= r * s /\ r * s \in Int /\ t * s \in Int
      BY <1>1, <1>2, <2>1
    <3> QED BY ONLY <1>1, <1>4, <2>1, <3>1
  <2>4. r = t
    BY ONLY <1>1, <2>1, <2>2, <2>3
  <2>5. r * s \in Int
    BY ONLY <1>1
  <2> QED BY ONLY <1>1, <1>4, <2>1, <2>4, <2>5
<1> QED BY <1>3, <1>4 DEF s, Cells

(* PlaceOf, by the ring of a cell. *)
LEMMA Placed ==
  ASSUME spiralSize \in Nat \ {0}, NEW r \in Side, NEW c \in Side
  PROVE  /\ \E g \in Int : OnRing(r, c, g)
         /\ \A g : OnRing(r, c, g) => PlaceOf(r, c) = Full(g) + 1 + Along(r, c, g)
<1> DEFINE s == spiralSize
           T == {r, c, s - 1 - r, s - 1 - c}
           m == Min(T)
<1>1. s \in Int /\ r \in Int /\ c \in Int /\ 0 <= r /\ 0 <= c /\ r <= s - 1 /\ c <= s - 1
  BY DEF Side
<1>2. s - 1 - r \in Nat /\ s - 1 - c \in Nat /\ r \in Nat /\ c \in Nat
  BY <1>1
<1> HIDE DEF s
<1>3. T \subseteq Nat /\ T # {}
  BY <1>2
<1>4. m \in T /\ \A y \in T : m <= y
  <2>1. \E x \in T : \A y \in T : x <= y
    BY <1>3, Least
  <2> QED BY ONLY <2>1, Zenon DEF Min
<1>5. /\ m \in Int /\ 0 <= m /\ m <= r /\ m <= c /\ m <= s - 1 - r /\ m <= s - 1 - c
      /\ m = r \/ m = c \/ m = s - 1 - r \/ m = s - 1 - c
  <2>1. m \in Nat
    BY <1>3, <1>4
  <2> HIDE DEF m
  <2> QED BY <1>4, <2>1
<1>6. PlaceOf(r, c) = Full(m) + 1 + Along(r, c, m)
  BY Zenon DEF PlaceOf, Full, Along, EdgeOf, s
<1> HIDE DEF m
<1>7. OnRing(r, c, m)
  BY <1>1, <1>5 DEF OnRing, s
<1>8. \A g : OnRing(r, c, g) => g = m
  BY <1>1, <1>5 DEF OnRing, s
<1> QED BY <1>5, <1>6, <1>7, <1>8

(* Full, from one ring to the next and to the last.                        *)
LEMMA Rings ==
  ASSUME spiralSize \in Nat \ {0}, NEW g \in Int, 0 <= g, EdgeOf(g) >= 0
  PROVE  /\ Full(g) \in Int /\ EdgeOf(g) \in Int /\ Full(0) = 0
         /\ Full(g + 1) = Full(g) + 4 * EdgeOf(g)
         /\ \A h \in Int : g < h /\ EdgeOf(h) >= 0 => Full(g) + 4 * EdgeOf(g) <= Full(h)
         /\ spiralSize * spiralSize \in Int
         /\ EdgeOf(g) > 0 => Full(g) + 4 * EdgeOf(g) <= spiralSize * spiralSize
         /\ EdgeOf(g) = 0 => Full(g) + 1 = spiralSize * spiralSize
         /\ EdgeOf(g) = 1 => Full(g) + 4 = spiralSize * spiralSize
<1> DEFINE s == spiralSize
           e == EdgeOf(g)
<1>1. s \in Int /\ e \in Int /\ s = 2 * g + 1 + e /\ 0 <= e
  BY DEF EdgeOf
<1>2. \A h : Full(h) = 4 * h * (s - h) /\ EdgeOf(h) = s - 1 - 2 * h
  BY DEF Full, EdgeOf
<1> HIDE DEF s, e
<1>3. Full(g) \in Int /\ s * s \in Int
  BY <1>1, <1>2
<1>4. Full(g + 1) = Full(g) + 4 * e
  <2>1. 4 * (g + 1) * (s - (g + 1)) = 4 * g * (s - g) + 4 * (s - 1 - 2 * g)
    BY ONLY <1>1, g \in Int
  <2>2. e = s - 1 - 2 * g
    BY ONLY <1>1, g \in Int
  <2> QED BY <1>2, <2>1, <2>2
<1>5. ASSUME NEW h \in Int, g < h, EdgeOf(h) >= 0 PROVE Full(g) + 4 * e <= Full(h)
  <2>1. PICK d \in Int : h = g + 1 + d /\ 0 <= d
    <3>1. h - g - 1 \in Int /\ h = g + 1 + (h - g - 1) /\ 0 <= h - g - 1
      BY ONLY <1>5, g \in Int
    <3> QED BY <3>1
  <2>2. PICK f \in Int : f = s - 1 - 2 * h /\ 0 <= f /\ e = 2 + 2 * d + f
    BY <1>1, <1>2, <1>5, <2>1
  <2>3. s = 2 * g + 3 + 2 * d + f
    BY ONLY <1>1, <2>2, <2>1, g \in Int
  <2>4. 4 * h * (s - h) = 4 * g * (s - g) + 4 * e + 4 * d * (1 + d + f)
    <3>1. s - h = g + 2 + d + f /\ s - g = g + 3 + 2 * d + f
      BY ONLY <2>1, <2>2, <2>3, g \in Int
    <3>2. 4 * (g + 1 + d) * (g + 2 + d + f) =
            4 * g * (g + 3 + 2 * d + f) + 4 * (2 + 2 * d + f) + 4 * d * (1 + d + f)
      BY ONLY <2>1, <2>2, g \in Int
    <3> QED BY <2>1, <2>2, <3>1, <3>2
  <2>5. 0 <= 4 * d * (1 + d + f) /\ 4 * d * (1 + d + f) \in Int
    BY ONLY <2>1, <2>2
  <2>6. Full(h) = Full(g) + 4 * e + 4 * d * (1 + d + f)
    BY ONLY <1>2, <2>4
  <2> QED BY ONLY <1>1, <1>3, <2>5, <2>6
<1>6. s * s = 4 * g * (s - g) + (e + 1) * (e + 1)
  <2>1. (2 * g + 1 + e) * (2 * g + 1 + e) = 4 * g * ((2 * g + 1 + e) - g) + (e + 1) * (e + 1)
    BY ONLY <1>1, g \in Int
  <2> QED BY ONLY <1>1, <2>1
<1>7. s * s = Full(g) + (e + 1) * (e + 1)
  BY ONLY <1>2, <1>6
<1>8. e > 0 => 4 * e <= (e + 1) * (e + 1) /\ (e + 1) * (e + 1) \in Int
  <2>1. (e + 1) * (e + 1) = 4 * e + (e - 1) * (e - 1)
    BY ONLY <1>1
  <2>2. 0 <= (e - 1) * (e - 1) /\ (e - 1) * (e - 1) \in Int
    BY ONLY <1>1
  <2> QED BY ONLY <1>1, <2>1, <2>2
<1>9. /\ e > 0 => Full(g) + 4 * e <= s * s
      /\ e = 0 => Full(g) + 1 = s * s
      /\ e = 1 => Full(g) + 4 = s * s
  BY ONLY <1>1, <1>3, <1>7, <1>8
<1>10. Full(0) = 0
  BY ONLY <1>1, <1>2
<1> QED BY <1>1, <1>3, <1>4, <1>5, <1>9, <1>10 DEF s, e

(* A cell lies within its ring.                                            *)
LEMMA WithinRing ==
  ASSUME spiralSize \in Nat \ {0}, NEW r \in Side, NEW c \in Side, NEW g, OnRing(r, c, g)
  PROVE  /\ EdgeOf(g) \in Int /\ 0 <= EdgeOf(g)
         /\ Along(r, c, g) \in Int /\ 0 <= Along(r, c, g)
         /\ EdgeOf(g) = 0 => Along(r, c, g) = 0
         /\ EdgeOf(g) > 0 => Along(r, c, g) < 4 * EdgeOf(g)
BY DEF OnRing, Along, EdgeOf, Side

LEMMA AlongOnce ==
  ASSUME spiralSize \in Nat \ {0}, NEW r \in Side, NEW c \in Side, NEW g, OnRing(r, c, g),
         NEW t \in Side, NEW d \in Side, OnRing(t, d, g), Along(r, c, g) = Along(t, d, g)
  PROVE  r = t /\ c = d
BY DEF OnRing, Along, EdgeOf, Side

(* No two cells have the same place, and none is after the last. *)
LEMMA PlacesDiffer ==
  ASSUME spiralSize \in Nat \ {0}, NEW r \in Side, NEW c \in Side
  PROVE  /\ PlaceOf(r, c) \in Int /\ PlaceOf(r, c) <= spiralSize * spiralSize
         /\ \A t, d \in Side : PlaceOf(r, c) = PlaceOf(t, d) => r = t /\ c = d
<1> DEFINE n == spiralSize * spiralSize
<1>1. ASSUME NEW t \in Side, NEW d \in Side, NEW g \in Int, OnRing(t, d, g)
      PROVE  /\ PlaceOf(t, d) \in Int /\ 0 <= g /\ EdgeOf(g) >= 0
             /\ Full(g) < PlaceOf(t, d) /\ PlaceOf(t, d) <= n
             /\ \A h \in Int : g < h /\ EdgeOf(h) >= 0 => PlaceOf(t, d) <= Full(h)
  <2>1. PlaceOf(t, d) = Full(g) + 1 + Along(t, d, g)
    BY <1>1, Placed
  <2>2. /\ EdgeOf(g) \in Int /\ 0 <= EdgeOf(g)
        /\ Along(t, d, g) \in Int /\ 0 <= Along(t, d, g)
        /\ EdgeOf(g) = 0 => Along(t, d, g) = 0
        /\ EdgeOf(g) > 0 => Along(t, d, g) < 4 * EdgeOf(g)
    BY <1>1, WithinRing
  <2>3. 0 <= g
    BY <1>1 DEF OnRing
  <2>4. /\ Full(g) \in Int /\ n \in Int
        /\ \A h \in Int : g < h /\ EdgeOf(h) >= 0 => Full(g) + 4 * EdgeOf(g) <= Full(h)
        /\ EdgeOf(g) > 0 => Full(g) + 4 * EdgeOf(g) <= n
        /\ EdgeOf(g) = 0 => Full(g) + 1 = n
    BY <2>2, <2>3, Rings
  <2> HIDE DEF n
  <2>5. PlaceOf(t, d) \in Int /\ Full(g) < PlaceOf(t, d) /\ PlaceOf(t, d) <= n
    BY ONLY <2>1, <2>2, <2>4
  <2>6. ASSUME NEW h \in Int, g < h, EdgeOf(h) >= 0 PROVE PlaceOf(t, d) <= Full(h)
    <3>1. Full(g) + 4 * EdgeOf(g) <= Full(h)
      BY <2>4, <2>6
    <3>2. EdgeOf(g) > 0
      BY <1>1, <2>6 DEF EdgeOf
    <3>3. Full(h) \in Int
      BY <2>3, <2>6, Rings
    <3> QED BY ONLY <2>1, <2>2, <2>4, <3>1, <3>2, <3>3
  <2> QED BY <2>2, <2>3, <2>5, <2>6
<1>2. PICK g \in Int : OnRing(r, c, g)
  BY Placed
<1>3. /\ PlaceOf(r, c) \in Int /\ 0 <= g /\ EdgeOf(g) >= 0
      /\ Full(g) < PlaceOf(r, c) /\ PlaceOf(r, c) <= n
      /\ \A h \in Int : g < h /\ EdgeOf(h) >= 0 => PlaceOf(r, c) <= Full(h)
  BY <1>1, <1>2
<1>4. ASSUME NEW t \in Side, NEW d \in Side, PlaceOf(r, c) = PlaceOf(t, d) PROVE r = t /\ c = d
  <2>1. PICK h \in Int : OnRing(t, d, h)
    BY Placed
  <2>2. /\ PlaceOf(t, d) \in Int /\ 0 <= h /\ EdgeOf(h) >= 0
        /\ Full(h) < PlaceOf(t, d)
        /\ \A i \in Int : h < i /\ EdgeOf(i) >= 0 => PlaceOf(t, d) <= Full(i)
    BY <1>1, <2>1
  <2>3. Full(g) \in Int /\ Full(h) \in Int
    BY <1>3, <2>2, Rings
  <2>4. ~(g < h) /\ ~(h < g)
    BY <1>3, <1>4, <2>2, <2>3
  <2>5. g = h
    BY <2>4
  <2>6. /\ PlaceOf(r, c) = Full(g) + 1 + Along(r, c, g)
        /\ PlaceOf(t, d) = Full(g) + 1 + Along(t, d, g)
    BY <1>2, <2>1, <2>5, Placed
  <2>7. Along(r, c, g) \in Int /\ Along(t, d, g) \in Int
    BY <1>2, <2>1, <2>5, WithinRing
  <2>8. Along(r, c, g) = Along(t, d, g)
    <3>1. Full(g) + 1 + Along(r, c, g) = Full(g) + 1 + Along(t, d, g)
      BY <1>4, <2>6
    <3> QED BY ONLY <2>3, <2>7, <3>1
  <2> QED BY <1>2, <2>1, <2>5, <2>8, AlongOnce
<1> QED BY <1>3, <1>4

(* One step along a ring, or from the end of one to the next.              *)
LEMMA StepAlong ==
  ASSUME spiralSize \in Nat \ {0}, NEW g \in Int, NEW r \in Side, NEW c \in Side,
         NEW t \in Side, NEW d \in Side, OnRing(r, c, g), OnRing(t, d, g),
         Along(t, d, g) = Along(r, c, g) + 1
  PROVE  PlaceOf(t, d) = PlaceOf(r, c) + 1
<1>1. /\ PlaceOf(r, c) = Full(g) + 1 + Along(r, c, g)
      /\ PlaceOf(t, d) = Full(g) + 1 + Along(t, d, g)
  BY Placed
<1>2. 0 <= g /\ EdgeOf(g) >= 0
  BY WithinRing DEF OnRing
<1>3. Full(g) \in Int /\ Along(r, c, g) \in Int
  BY <1>2, WithinRing, Rings
<1>4. Full(g) + 1 + (Along(r, c, g) + 1) = Full(g) + 1 + Along(r, c, g) + 1
  BY ONLY <1>3
<1> QED BY <1>1, <1>4

LEMMA StepIn ==
  ASSUME spiralSize \in Nat \ {0}, NEW g \in Int, 0 < g, EdgeOf(g) >= 0
  PROVE  PlaceOf(g, g) = PlaceOf(g, g - 1) + 1
<1>1. g \in Side /\ g - 1 \in Side
  BY DEF Side, EdgeOf
<1>2. /\ OnRing(g, g, g) /\ Along(g, g, g) = 0
      /\ OnRing(g, g - 1, g - 1) /\ Along(g, g - 1, g - 1) = 4 * EdgeOf(g - 1) - 1
      /\ EdgeOf(g - 1) \in Int /\ EdgeOf(g - 1) >= 0
  BY DEF OnRing, Along, EdgeOf
<1>3. /\ PlaceOf(g, g) = Full(g) + 1 + 0
      /\ PlaceOf(g, g - 1) = Full(g - 1) + 1 + (4 * EdgeOf(g - 1) - 1)
  BY <1>1, <1>2, Placed
<1>4. Full(g - 1) \in Int /\ Full((g - 1) + 1) = Full(g - 1) + 4 * EdgeOf(g - 1)
  BY <1>2, Rings
<1>5. (g - 1) + 1 = g
  OBVIOUS
<1> QED BY ONLY <1>2, <1>3, <1>4, <1>5

(* The cell of the last place. *)
LEMMA MiddleCell ==
  ASSUME spiralSize \in Nat \ {0}, NEW r \in Side, NEW c \in Side,
         \/ 2 * r = spiralSize - 1 /\ c = r
         \/ 2 * r = spiralSize /\ c = r - 1
  PROVE  PlaceOf(r, c) = spiralSize * spiralSize
<1>1. r \in Int /\ c \in Int /\ 0 <= c /\ 0 <= r
  BY DEF Side
<1>2. OnRing(r, c, c) /\ EdgeOf(c) \in {0, 1} /\ Along(r, c, c) = 3 * EdgeOf(c)
  BY <1>1 DEF OnRing, Along, EdgeOf, Side
<1>3. PlaceOf(r, c) = Full(c) + 1 + 3 * EdgeOf(c)
  BY <1>2, Placed
<1>4. /\ Full(c) \in Int
      /\ EdgeOf(c) = 0 => Full(c) + 1 = spiralSize * spiralSize
      /\ EdgeOf(c) = 1 => Full(c) + 4 = spiralSize * spiralSize
  BY <1>1, <1>2, Rings
<1>5. CASE EdgeOf(c) = 0 BY ONLY <1>3, <1>4, <1>5
<1>6. CASE EdgeOf(c) = 1 BY ONLY <1>3, <1>4, <1>6
<1> QED BY <1>2, <1>5, <1>6

(* Where a step of the four loops leads. *)
LEMMA Walks ==
  ASSUME SpiralInv, Walk
  PROVE  /\ spiralSize' = spiralSize /\ padding' = padding /\ side' = side /\ side # 5
         /\ row' \in Side /\ column' \in Side
         /\ EdgeOf(padding - 1) >= 0 /\ OnSide'
         /\ PlaceOf(row', column') = PlaceOf(row, column) + 1
<1> DEFINE g == padding - 1
           h == spiralSize - 1 - g
<1>1. /\ spiralSize' = spiralSize /\ padding' = padding /\ side' = side
      /\ side \in 1 .. 4 /\ padding < spiralSize
  BY DEF Walk, InPadding
<1>2. /\ spiralSize \in Nat \ {0} /\ spiralSize \in Int /\ g \in Int /\ 0 <= g
      /\ row \in Int /\ column \in Int /\ row \in Side /\ column \in Side
      /\ padding = g + 1 /\ h \in Int /\ h = spiralSize - 1 - g /\ spiralSize - padding = h
      /\ 0 <= row /\ 0 <= column /\ row <= spiralSize - 1 /\ column <= spiralSize - 1
  BY DEF SpiralInv, SpiralTypeOK, Side
<1>3. CASE side = 1
  <2>1. column < h /\ column' = column + 1 /\ row' = row
    BY <1>2, <1>3 DEF Walk, GoesOn
  <2>2. EdgeOf(g) >= 0
    BY <1>2, <2>1 DEF SpiralInv, InTheMiddle, EdgeOf
  <2>3. row = g /\ g - 1 <= column
    BY <1>3, <2>2 DEF SpiralInv, OnSide
  <2>4. row' \in Side /\ column' \in Side
    BY <1>2, <2>1 DEF Side
  <2>5. OnSide'
    BY <1>1, <1>2, <1>3, <2>1, <2>3 DEF OnSide
  <2>6. CASE column = g - 1
    <3>1. 0 < g /\ column' = g /\ row' = g
      BY <1>2, <2>1, <2>3, <2>6
    <3>2. PlaceOf(g, g) = PlaceOf(g, g - 1) + 1
      BY <1>2, <2>2, <3>1, StepIn
    <3> QED BY <1>1, <1>3, <2>2, <2>3, <2>4, <2>5, <2>6, <3>1, <3>2
  <2>7. CASE column # g - 1
    <3>1. g <= column
      BY <1>2, <2>3, <2>7
    <3>2. /\ OnRing(row, column, g) /\ OnRing(row', column', g)
          /\ Along(row', column', g) = Along(row, column, g) + 1
      BY <1>2, <2>1, <2>2, <2>3, <3>1 DEF OnRing, Along, EdgeOf
    <3>3. PlaceOf(row', column') = PlaceOf(row, column) + 1
      BY <1>2, <2>4, <3>2, StepAlong
    <3> QED BY <1>1, <1>3, <2>2, <2>4, <2>5, <3>3
  <2> QED BY <2>6, <2>7
<1>4. CASE side = 2
  <2>1. row < h /\ row' = row + 1 /\ column' = column
    BY <1>2, <1>4 DEF Walk, GoesOn
  <2>2. EdgeOf(g) >= 0
    BY <1>2, <2>1 DEF SpiralInv, InTheMiddle, EdgeOf
  <2>3. column = h /\ g <= row
    BY <1>4, <2>2 DEF SpiralInv, OnSide
  <2>4. row' \in Side /\ column' \in Side
    BY <1>2, <2>1 DEF Side
  <2>5. OnSide'
    BY <1>1, <1>2, <1>4, <2>1, <2>3 DEF OnSide
  <2>6. /\ OnRing(row, column, g) /\ OnRing(row', column', g)
        /\ Along(row', column', g) = Along(row, column, g) + 1
    BY <1>2, <2>1, <2>2, <2>3 DEF OnRing, Along, EdgeOf
  <2>7. PlaceOf(row', column') = PlaceOf(row, column) + 1
    BY <1>2, <2>4, <2>6, StepAlong
  <2> QED BY <1>1, <1>4, <2>2, <2>4, <2>5, <2>7
<1>5. CASE side = 3
  <2>1. column >= g + 1 /\ column' = column - 1 /\ row' = row
    BY <1>2, <1>5 DEF Walk, GoesOn
  <2>2. EdgeOf(g) >= 0
    BY <1>2, <2>1 DEF SpiralInv, InTheMiddle, EdgeOf
  <2>3. row = h /\ column <= h
    BY <1>5, <2>2 DEF SpiralInv, OnSide
  <2>4. row' \in Side /\ column' \in Side
    BY <1>2, <2>1 DEF Side
  <2>5. OnSide'
    BY <1>1, <1>2, <1>5, <2>1, <2>3 DEF OnSide
  <2>6. /\ OnRing(row, column, g) /\ OnRing(row', column', g)
        /\ Along(row', column', g) = Along(row, column, g) + 1
    BY <1>2, <2>1, <2>2, <2>3 DEF OnRing, Along, EdgeOf
  <2>7. PlaceOf(row', column') = PlaceOf(row, column) + 1
    BY <1>2, <2>4, <2>6, StepAlong
  <2> QED BY <1>1, <1>5, <2>2, <2>4, <2>5, <2>7
<1>6. CASE side = 4
  <2>1. row >= g + 2 /\ row' = row - 1 /\ column' = column
    BY <1>2, <1>6 DEF Walk, GoesOn
  <2>2. EdgeOf(g) >= 0
    BY <1>2, <2>1 DEF SpiralInv, InTheMiddle, EdgeOf
  <2>3. column = g /\ row <= h
    BY <1>6, <2>2 DEF SpiralInv, OnSide
  <2>4. row' \in Side /\ column' \in Side
    BY <1>2, <2>1 DEF Side
  <2>5. OnSide'
    BY <1>1, <1>2, <1>6, <2>1, <2>3 DEF OnSide
  <2>6. /\ OnRing(row, column, g) /\ OnRing(row', column', g)
        /\ Along(row', column', g) = Along(row, column, g) + 1
    BY <1>2, <2>1, <2>2, <2>3 DEF OnRing, Along, EdgeOf
  <2>7. PlaceOf(row', column') = PlaceOf(row, column) + 1
    BY <1>2, <2>4, <2>6, StepAlong
  <2> QED BY <1>1, <1>6, <2>2, <2>4, <2>5, <2>7
<1> QED BY <1>1, <1>3, <1>4, <1>5, <1>6

(* The value goes to its cell, and no cell before it loses its own.        *)
LEMMA Stores ==
  ASSUME SpiralInv, Store, side # 5
  PROVE  /\ spiral' \in [Cells -> Int \union {Unset}]
         /\ \A r, c \in Side : PlaceOf(r, c) < currentValue \/ PlaceOf(r, c) = currentValue
              => spiral'[r * spiralSize + c] = PlaceOf(r, c)
<1>1. /\ spiralSize \in Nat \ {0} /\ row \in Side /\ column \in Side /\ currentValue \in Int
      /\ spiral \in [Cells -> Int \union {Unset}] /\ currentValue = PlaceOf(row, column)
      /\ Filled
  BY DEF SpiralInv, SpiralTypeOK
<1>2. row * spiralSize + column \in Cells
  BY <1>1, Offset
<1>3. spiral' = [spiral EXCEPT ![row * spiralSize + column] = currentValue]
  BY DEF Store
<1>4. spiral' \in [Cells -> Int \union {Unset}]
  BY <1>1, <1>3
<1>5. ASSUME NEW r \in Side, NEW c \in Side,
             PlaceOf(r, c) < currentValue \/ PlaceOf(r, c) = currentValue
      PROVE  spiral'[r * spiralSize + c] = PlaceOf(r, c)
  <2>1. r * spiralSize + c \in Cells
    BY <1>1, Offset
  <2>2. CASE r = row /\ c = column
    BY <1>1, <1>2, <1>3, <2>2
  <2>3. CASE ~(r = row /\ c = column)
    <3>1. PlaceOf(r, c) # currentValue
      BY <1>1, <2>3, PlacesDiffer
    <3>2. spiral[r * spiralSize + c] = PlaceOf(r, c)
      BY <1>1, <1>5, <3>1 DEF Filled
    <3>3. r * spiralSize + c # row * spiralSize + column
      BY <1>1, <2>3, Offset
    <3> QED BY <1>1, <1>3, <2>1, <3>2, <3>3
  <2> QED BY <2>2, <2>3
<1> QED BY <1>4, <1>5

(* PlaceOf depends on the size only. *)
LEMMA SamePlaces ==
  ASSUME spiralSize' = spiralSize
  PROVE  /\ Side' = Side /\ Cells' = Cells
         /\ \A r, c : PlaceOf(r, c)' = PlaceOf(r, c)
         /\ PlaceOf(row, column)' = PlaceOf(row', column')
<1>1. Side' = Side /\ Cells' = Cells
  BY DEF Side, Cells
<1>2. \A r, c : PlaceOf(r, c)' = PlaceOf(r, c)
  BY DEF PlaceOf
<1>3. PlaceOf(row, column)' = PlaceOf(row', column')
  BY DEF PlaceOf
<1> QED BY <1>1, <1>2, <1>3

LEMMA WalkInv == ASSUME SpiralInv, Walk PROVE SpiralInv'
<1>1. /\ spiralSize' = spiralSize /\ padding' = padding /\ side' = side /\ side # 5
      /\ row' \in Side /\ column' \in Side
      /\ EdgeOf(padding - 1) >= 0 /\ OnSide'
      /\ PlaceOf(row', column') = PlaceOf(row, column) + 1
  BY Walks
<1>2. /\ Side' = Side /\ Cells' = Cells
      /\ \A r, c : PlaceOf(r, c)' = PlaceOf(r, c)
      /\ PlaceOf(row, column)' = PlaceOf(row', column')
  BY <1>1, SamePlaces
<1>3. /\ SpiralTypeOK /\ currentValue = PlaceOf(row, column) /\ currentValue' = currentValue + 1
      /\ currentValue \in Int /\ Store
  BY DEF SpiralInv, SpiralTypeOK, Walk
<1>4. /\ spiral' \in [Cells -> Int \union {Unset}]
      /\ \A r, c \in Side : PlaceOf(r, c) < currentValue \/ PlaceOf(r, c) = currentValue
           => spiral'[r * spiralSize + c] = PlaceOf(r, c)
  BY <1>1, <1>3, Stores
<1>5. SpiralTypeOK'
  BY <1>1, <1>2, <1>3, <1>4 DEF SpiralTypeOK
<1>6. Filled'
  <2>1. ASSUME NEW r \in Side, NEW c \in Side, PlaceOf(r, c) < currentValue'
        PROVE  spiral'[r * spiralSize + c] = PlaceOf(r, c)
    <3>1. PlaceOf(r, c) \in Int
      BY <1>3, PlacesDiffer DEF SpiralTypeOK
    <3>2. PlaceOf(r, c) < currentValue \/ PlaceOf(r, c) = currentValue
      BY <1>3, <2>1, <3>1
    <3> QED BY <1>4, <3>2
  <2> QED BY <1>1, <1>2, <2>1 DEF Filled
<1>7. currentValue' = PlaceOf(row, column)'
  BY <1>1, <1>2, <1>3
<1>8. EdgeOf(padding - 1)' >= 0
  BY <1>1 DEF EdgeOf
<1> QED BY <1>1, <1>5, <1>6, <1>7, <1>8 DEF SpiralInv

LEMMA TurnInv == ASSUME SpiralInv, Turn PROVE SpiralInv'
<1> DEFINE g == padding - 1
           h == spiralSize - 1 - g
<1>1. /\ spiralSize' = spiralSize /\ row' = row /\ column' = column /\ spiral' = spiral
      /\ currentValue' = currentValue /\ side \in 1 .. 4 /\ side # 5 /\ padding < spiralSize
      /\ side' = IF side = 4 THEN 1 ELSE side + 1
      /\ padding' = IF side = 4 THEN padding + 1 ELSE padding
  BY DEF Turn, InPadding
<1>2. /\ Side' = Side /\ Cells' = Cells
      /\ \A r, c : PlaceOf(r, c)' = PlaceOf(r, c)
      /\ PlaceOf(row, column)' = PlaceOf(row', column')
  BY <1>1, SamePlaces
<1>3. /\ spiralSize \in Int /\ g \in Int /\ 0 <= g /\ padding \in Int
      /\ row \in Int /\ column \in Int /\ padding = g + 1 /\ 1 <= padding
      /\ h = spiralSize - 1 - g /\ spiralSize - padding = h
      /\ 0 <= row /\ 0 <= column /\ row <= spiralSize - 1 /\ column <= spiralSize - 1
  BY DEF SpiralInv, SpiralTypeOK, Side
<1>4. SpiralTypeOK' /\ side' # 5
  BY <1>1, <1>2, <1>3 DEF SpiralInv, SpiralTypeOK
<1>5. Filled' /\ currentValue' = PlaceOf(row, column)'
  BY <1>1, <1>2, <1>4 DEF SpiralInv, Filled
<1>6. IF EdgeOf(padding - 1)' >= 0 THEN OnSide' ELSE InTheMiddle'
  <2>1. CASE side = 1
    <3>1. ~(column < h) /\ side' = 2 /\ padding' = padding
      BY <1>1, <1>3, <2>1 DEF Turn, GoesOn
    <3>2. EdgeOf(g)' = EdgeOf(g) /\ (InTheMiddle => InTheMiddle')
      BY <1>1, <3>1 DEF EdgeOf, InTheMiddle
    <3>3. EdgeOf(g) >= 0 => OnSide'
      BY <1>1, <1>3, <2>1, <3>1 DEF SpiralInv, OnSide, EdgeOf
    <3> QED BY <3>2, <3>3 DEF SpiralInv
  <2>2. CASE side = 2
    <3>1. ~(row < h) /\ side' = 3 /\ padding' = padding
      BY <1>1, <1>3, <2>2 DEF Turn, GoesOn
    <3>2. EdgeOf(g)' = EdgeOf(g) /\ (InTheMiddle => InTheMiddle')
      BY <1>1, <3>1 DEF EdgeOf, InTheMiddle
    <3>3. EdgeOf(g) >= 0 => OnSide'
      BY <1>1, <1>3, <2>2, <3>1 DEF SpiralInv, OnSide, EdgeOf
    <3> QED BY <3>2, <3>3 DEF SpiralInv
  <2>3. CASE side = 3
    <3>1. ~(column >= g + 1) /\ side' = 4 /\ padding' = padding
      BY <1>1, <1>3, <2>3 DEF Turn, GoesOn
    <3>2. EdgeOf(g)' = EdgeOf(g) /\ (InTheMiddle => InTheMiddle')
      BY <1>1, <3>1 DEF EdgeOf, InTheMiddle
    <3>3. EdgeOf(g) >= 0 => OnSide'
      BY <1>1, <1>3, <2>3, <3>1 DEF SpiralInv, OnSide, EdgeOf
    <3> QED BY <3>2, <3>3 DEF SpiralInv
  <2>4. CASE side = 4
    <3>1. ~(row >= g + 2) /\ side' = 1 /\ padding' = padding + 1
      BY <1>1, <1>3, <2>4 DEF Turn, GoesOn
    <3>2. EdgeOf(padding - 1)' = spiralSize - 1 - 2 * (g + 1)
      BY <1>1, <1>3, <3>1 DEF EdgeOf
    <3>3. CASE EdgeOf(g) >= 0
      <4>1. column = g /\ row <= h /\ (g < row \/ (row = g /\ g = h))
        BY <2>4, <3>3 DEF SpiralInv, OnSide
      <4>2. CASE spiralSize - 1 - 2 * (g + 1) >= 0
        BY <1>1, <1>3, <3>1, <3>2, <4>1, <4>2 DEF OnSide
      <4>3. CASE ~(spiralSize - 1 - 2 * (g + 1) >= 0)
        BY <1>1, <1>3, <3>1, <3>2, <3>3, <4>1, <4>3 DEF InTheMiddle, EdgeOf
      <4> QED BY <4>2, <4>3
    <3>4. CASE ~(EdgeOf(g) >= 0)
      <4>1. InTheMiddle /\ ~(EdgeOf(padding - 1)' >= 0)
        BY <1>3, <3>2, <3>4 DEF SpiralInv, EdgeOf
      <4> QED BY <1>1, <4>1 DEF InTheMiddle
    <3> QED BY <3>3, <3>4
  <2> QED BY <1>1, <2>1, <2>2, <2>3, <2>4
<1> QED BY <1>4, <1>5, <1>6 DEF SpiralInv

LEMMA LastCellInv == ASSUME SpiralInv, LastCell PROVE SpiralInv'
<1>1. /\ spiralSize' = spiralSize /\ row' = row /\ column' = column /\ padding' = padding
      /\ currentValue' = currentValue /\ side = 1 /\ side' = 5 /\ ~(padding < spiralSize)
      /\ Store
  BY DEF LastCell, InPadding
<1>2. /\ Side' = Side /\ Cells' = Cells
      /\ \A r, c : PlaceOf(r, c)' = PlaceOf(r, c)
      /\ PlaceOf(row, column)' = PlaceOf(row', column')
  BY <1>1, SamePlaces
<1>3. /\ spiral' \in [Cells -> Int \union {Unset}]
      /\ \A r, c \in Side : PlaceOf(r, c) < currentValue \/ PlaceOf(r, c) = currentValue
           => spiral'[r * spiralSize + c] = PlaceOf(r, c)
  BY <1>1, Stores
<1>4. SpiralTypeOK' /\ padding' = spiralSize'
  BY <1>1, <1>2, <1>3 DEF SpiralInv, SpiralTypeOK
<1>5. Filled' /\ currentValue' = PlaceOf(row, column)'
  BY <1>1, <1>2, <1>3 DEF SpiralInv, Filled
<1>6. IF EdgeOf(padding - 1)' >= 0 THEN OnSide' ELSE InTheMiddle'
  <2>1. EdgeOf(padding - 1)' = EdgeOf(padding - 1)
    BY <1>1 DEF EdgeOf
  <2>2. InTheMiddle => InTheMiddle'
    BY <1>1 DEF InTheMiddle
  <2>3. OnSide => OnSide'
    BY <1>1 DEF OnSide
  <2> QED BY <2>1, <2>2, <2>3 DEF SpiralInv
<1> QED BY <1>4, <1>5, <1>6 DEF SpiralInv

LEMMA SpiralInitInv == SpiralInit => SpiralInv
<1> SUFFICES ASSUME SpiralInit PROVE SpiralInv
  OBVIOUS
<1>1. /\ spiralSize \in Nat \ {0} /\ row = 0 /\ column = 0 /\ padding = 1 /\ currentValue = 1
      /\ side = 1 /\ spiral = [c \in Cells |-> Unset]
  BY SpiralAssumption DEF SpiralInit, SpiralReady
<1>2. SpiralTypeOK
  BY <1>1 DEF SpiralTypeOK, Side
<1>3. 0 \in Side /\ OnRing(0, 0, 0) /\ Along(0, 0, 0) = 0 /\ EdgeOf(0) >= 0
  BY <1>1 DEF Side, OnRing, Along, EdgeOf
<1>4. Full(0) = 0
  BY <1>1, <1>3, Rings
<1>5. PlaceOf(0, 0) = Full(0) + 1 + Along(0, 0, 0)
  BY <1>1, <1>3, Placed
<1>6. PlaceOf(0, 0) = 1
  BY ONLY <1>3, <1>4, <1>5
<1>7. OnSide /\ EdgeOf(padding - 1) >= 0
  BY <1>1, <1>3 DEF OnSide
<1>8. Filled
  <2>1. ASSUME NEW r \in Side, NEW c \in Side PROVE ~(PlaceOf(r, c) < 1)
    <3>1. PICK g \in Int : OnRing(r, c, g)
      BY <1>1, Placed
    <3>2. PlaceOf(r, c) = Full(g) + 1 + Along(r, c, g)
      BY <1>1, <3>1, Placed
    <3>3. 0 <= g /\ EdgeOf(g) >= 0 /\ Along(r, c, g) \in Int /\ 0 <= Along(r, c, g)
      BY <1>1, <3>1, WithinRing DEF OnRing
    <3>4. Full(g) \in Int /\ 0 <= Full(g)
      <4>1. Full(g) \in Int
        BY <1>1, <3>3, Rings
      <4>2. 0 < g => Full(0) + 4 * EdgeOf(0) <= Full(g)
        BY <1>1, <1>3, <3>3, Rings
      <4>3. EdgeOf(0) \in Int
        BY <1>1 DEF EdgeOf
      <4> QED BY <1>3, <1>4, <3>3, <4>1, <4>2, <4>3
    <3> QED BY ONLY <3>2, <3>3, <3>4
  <2> QED BY <1>1, <2>1 DEF Filled
<1> QED BY <1>1, <1>2, <1>6, <1>7, <1>8 DEF SpiralInv

LEMMA SpiralNextInv == SpiralInv /\ [SpiralNext]_spiralVars => SpiralInv'
<1> SUFFICES ASSUME SpiralInv, [SpiralNext]_spiralVars PROVE SpiralInv'
  OBVIOUS
<1>1. CASE UNCHANGED spiralVars
  <2>1. /\ spiralSize' = spiralSize /\ spiral' = spiral /\ row' = row /\ column' = column
        /\ padding' = padding /\ currentValue' = currentValue /\ side' = side
    BY <1>1 DEF spiralVars
  <2>2. /\ Side' = Side /\ Cells' = Cells
        /\ \A r, c : PlaceOf(r, c)' = PlaceOf(r, c)
        /\ PlaceOf(row, column)' = PlaceOf(row', column')
    BY <2>1, SamePlaces
  <2>3. SpiralTypeOK' /\ Filled'
    BY <2>1, <2>2 DEF SpiralInv, SpiralTypeOK, Filled
  <2>4. /\ EdgeOf(padding - 1)' = EdgeOf(padding - 1)
        /\ InTheMiddle' = InTheMiddle /\ OnSide' = OnSide
    BY <2>1 DEF EdgeOf, InTheMiddle, OnSide
  <2> QED BY <2>1, <2>2, <2>3, <2>4 DEF SpiralInv
<1> QED BY <1>1, WalkInv, TurnInv, LastCellInv DEF SpiralNext

(* Where the four loops of a ring are, and that the cells before have      *)
(* their places (lines 13-40).                                             *)
THEOREM SpiralInvariance == SpiralSpec => []SpiralInv
<1> QED BY SpiralInitInv, SpiralNextInv, PTL DEF SpiralSpec

(* For a matrix of any size every cell has its place in the end, the       *)
(* middle and the only cell of a matrix of one too (lines 13-40).          *)
THEOREM SpiralsAlways == SpiralSpec => []Spirals
<1>1. SpiralInv => Spirals
  <2> SUFFICES ASSUME SpiralInv, side = 5, NEW r \in Side, NEW c \in Side
               PROVE  spiral[r * spiralSize + c] = PlaceOf(r, c)
    BY DEF Spirals, Side
  <2>1. /\ spiralSize \in Nat \ {0} /\ row \in Side /\ column \in Side
        /\ padding = spiralSize /\ currentValue = PlaceOf(row, column) /\ Filled
    BY DEF SpiralInv, SpiralTypeOK
  <2>2. \/ 2 * row = spiralSize - 1 /\ column = row
        \/ 2 * row = spiralSize /\ column = row - 1
    <3>1. CASE EdgeOf(padding - 1) >= 0
      BY <2>1, <3>1 DEF SpiralInv, OnSide, EdgeOf, Side
    <3>2. CASE ~(EdgeOf(padding - 1) >= 0)
      BY <3>2 DEF SpiralInv, InTheMiddle
    <3> QED BY <3>1, <3>2
  <2>3. currentValue = spiralSize * spiralSize
    BY <2>1, <2>2, MiddleCell
  <2>4. PlaceOf(r, c) \in Int /\ PlaceOf(r, c) <= spiralSize * spiralSize
    BY <2>1, PlacesDiffer
  <2>5. spiralSize * spiralSize \in Int
    BY <2>1
  <2>6. PlaceOf(r, c) < currentValue \/ PlaceOf(r, c) = currentValue
    BY ONLY <2>3, <2>4, <2>5
  <2> QED BY <2>1, <2>6 DEF Filled
<1> QED BY <1>1, SpiralInvariance, PTL

-----------------------------------------------------------------------------
(* A player in a list, and a node of the heap. *)
PlayerNodes ==
  [playerID : PlayerIDs, teamName : 0 .. teamCount, role : Roles, strikeRate : Nat, index : Int]
HeapNodes == [data : PlayerNodes, array : Nat, index : Nat]

(* What the heap compares, and which node is a child of which.             *)
Keys(h) == [i \in DOMAIN h |-> h[i].data.index]
Child(p, j) == j = 2 * p \/ j = 2 * p + 1

(* No child is above its parent; the same but for the node i and its       *)
(* parent, which may be in the wrong order; but for i and its children.    *)
Ordered(K) == \A p, j \in DOMAIN K : Child(p, j) => K[j] <= K[p]
Across(K, i) == \A p, j \in DOMAIN K : Child(p, i) /\ Child(i, j) => K[j] <= K[p]
Rising(K, i)  == Across(K, i) /\ \A p, j \in DOMAIN K : Child(p, j) /\ j # i => K[j] <= K[p]
Sinking(K, i) == Across(K, i) /\ \A p, j \in DOMAIN K : Child(p, j) /\ p # i => K[j] <= K[p]

IsHeap(h) == Ordered(Keys(h))

(* Two values change places. *)
Exchanged(q, i, k, r) ==
  /\ r[i] = q[k] /\ r[k] = q[i]
  /\ \A j \in DOMAIN q : j # i /\ j # k => r[j] = q[j]

(* A swap moves two values and has the same ones. *)
LEMMA SwapIs ==
  ASSUME NEW S, NEW m \in Nat, NEW q \in [1 .. m -> S], NEW i \in 1 .. m, NEW k \in 1 .. m
  PROVE  /\ Swap(q, i, k) \in [1 .. m -> S]
         /\ Exchanged(q, i, k, Swap(q, i, k))
         /\ ToSet(Swap(q, i, k)) = ToSet(q)
         /\ IsInjective(q) => IsInjective(Swap(q, i, k))
<1> DEFINE r == Swap(q, i, k)
<1>1. r \in [1 .. m -> S]
  BY DEF Swap
<1>2. \A j \in 1 .. m : r[j] = IF j = i THEN q[k] ELSE IF j = k THEN q[i] ELSE q[j]
  BY DEF Swap
<1>3. DOMAIN r = 1 .. m /\ DOMAIN q = 1 .. m
  BY <1>1
<1> HIDE DEF r
<1>4. ToSet(r) = ToSet(q)
  <2>1. \A j \in 1 .. m : \E l \in 1 .. m : r[j] = q[l]
    BY <1>2
  <2>2. \A j \in 1 .. m : \E l \in 1 .. m : q[j] = r[l]
    BY <1>2
  <2>3. ToSet(r) = {r[j] : j \in 1 .. m} /\ ToSet(q) = {q[j] : j \in 1 .. m}
    BY <1>3 DEF ToSet
  <2>4. ASSUME NEW x PROVE x \in ToSet(r) <=> x \in ToSet(q)
    <3>1. x \in ToSet(r) <=> \E j \in 1 .. m : x = r[j]
      BY ONLY <2>3, Zenon
    <3>2. x \in ToSet(q) <=> \E j \in 1 .. m : x = q[j]
      BY ONLY <2>3, Zenon
    <3> QED BY ONLY <2>1, <2>2, <3>1, <3>2, Zenon
  <2> QED BY <2>4, Zenon
<1>5. IsInjective(q) => IsInjective(r)
  BY <1>2, <1>3 DEF IsInjective
<1>6. Exchanged(q, i, k, r)
  BY <1>2, <1>3 DEF Exchanged
<1> QED BY <1>1, <1>4, <1>5, <1>6 DEF r

(* A greater node goes up, past its parent. *)
LEMMA Rises ==
  ASSUME NEW m \in Nat, NEW K \in [1 .. m -> Int], NEW i \in 1 .. m, NEW p \in 1 .. m,
         Child(p, i), Rising(K, i), K[i] > K[p],
         NEW L \in [1 .. m -> Int],
         Exchanged(K, i, p, L)
  PROVE  Rising(L, p)
<1>0. /\ L[i] = K[p] /\ L[p] = K[i]
      /\ \A j \in 1 .. m : j # i /\ j # p => L[j] = K[j]
  BY DEF Exchanged
<1> USE <1>0
<1>1. DOMAIN K = 1 .. m /\ DOMAIN L = 1 .. m
  OBVIOUS
<1>2. p # i /\ p < i
  BY DEF Child
<1>3. ASSUME NEW a \in 1 .. m, NEW j \in 1 .. m, Child(a, j), j # p PROVE L[j] <= L[a]
  <2>1. CASE j = i
    <3>1. a = p
      BY <1>3, <2>1 DEF Child
    <3> QED BY <1>2, <2>1, <3>1
  <2>2. CASE j # i /\ a = i
    <3>1. K[j] <= K[p]
      BY <1>1, <1>3, <2>2 DEF Rising, Across
    <3>2. L[j] = K[j] /\ L[a] = K[p]
      BY <1>3, <2>2
    <3> QED BY <3>1, <3>2
  <2>3. CASE j # i /\ a # i
    <3>1. K[j] <= K[a]
      BY <1>1, <1>3, <2>3 DEF Rising
    <3>2. L[j] = K[j] /\ (L[a] = K[a] \/ (a = p /\ L[a] = K[i]))
      BY <1>3, <2>3
    <3>3. K[j] \in Int /\ K[a] \in Int /\ K[i] \in Int /\ K[p] \in Int
      OBVIOUS
    <3> QED BY <3>1, <3>2, <3>3
  <2> QED BY <2>1, <2>2, <2>3
<1>4. ASSUME NEW a \in 1 .. m, NEW j \in 1 .. m, Child(a, p), Child(p, j) PROVE L[j] <= L[a]
  <2>1. K[p] <= K[a] /\ a # p /\ a # i /\ p # i /\ j # p /\ L[a] = K[a]
    BY <1>1, <1>2, <1>4 DEF Rising, Child
  <2>2. CASE j = i
    BY <2>1, <2>2
  <2>3. CASE j # i
    <3>1. K[j] <= K[p] /\ L[j] = K[j]
      BY <1>1, <1>4, <2>1, <2>3 DEF Rising
    <3>2. K[j] \in Int /\ K[a] \in Int /\ K[p] \in Int
      OBVIOUS
    <3> QED BY <2>1, <3>1, <3>2
  <2> QED BY <2>2, <2>3
<1> QED BY <1>1, <1>3, <1>4 DEF Rising, Across

(* A node that is not above its parent has come up far enough. *)
LEMMA Risen ==
  ASSUME NEW m \in Nat, NEW K \in [1 .. m -> Int], NEW i \in 1 .. m, Rising(K, i),
         \A p \in 1 .. m : Child(p, i) => K[i] <= K[p]
  PROVE  Ordered(K)
  BY DEF Rising, Ordered

(* A node goes down, past the greater of its children. *)
LEMMA Sinks ==
  ASSUME NEW m \in Nat, NEW K \in [1 .. m -> Int], NEW i \in 1 .. m, NEW c \in 1 .. m,
         Child(i, c), Sinking(K, i), K[i] < K[c],
         \A j \in 1 .. m : Child(i, j) => K[j] <= K[c],
         NEW L \in [1 .. m -> Int],
         Exchanged(K, i, c, L)
  PROVE  Sinking(L, c)
<1>0. /\ L[i] = K[c] /\ L[c] = K[i]
      /\ \A j \in 1 .. m : j # i /\ j # c => L[j] = K[j]
  BY DEF Exchanged
<1> USE <1>0
<1>1. DOMAIN K = 1 .. m /\ DOMAIN L = 1 .. m
  OBVIOUS
<1>2. c # i /\ i < c
  BY DEF Child
<1>3. ASSUME NEW a \in 1 .. m, NEW j \in 1 .. m, Child(a, j), a # c PROVE L[j] <= L[a]
  <2>0. K[j] \in Int /\ K[a] \in Int /\ K[i] \in Int /\ K[c] \in Int /\ a # j
    BY <1>3 DEF Child
  <2>1. CASE a = i
    <3>1. K[j] <= K[c] /\ j # i
      BY <1>3, <2>0, <2>1
    <3> QED BY <1>2, <2>0, <2>1, <3>1
  <2>2. CASE a # i
    <3>1. K[j] <= K[a] /\ L[a] = K[a]
      BY <1>1, <1>3, <2>2 DEF Sinking
    <3>2. j # c
      BY <1>3, <2>2 DEF Child
    <3>3. CASE j = i
      <4>1. K[c] <= K[a]
        BY <1>1, <1>3, <3>3 DEF Sinking, Across
      <4> QED BY <3>1, <3>3, <4>1
    <3>4. CASE j # i
      BY <3>1, <3>2, <3>4
    <3> QED BY <3>3, <3>4
  <2> QED BY <2>1, <2>2
<1>4. ASSUME NEW a \in 1 .. m, NEW j \in 1 .. m, Child(a, c), Child(c, j) PROVE L[j] <= L[a]
  <2>1. a = i /\ j # i /\ j # c
    BY <1>2, <1>4 DEF Child
  <2>2. K[j] <= K[c]
    BY <1>1, <1>2, <1>4 DEF Sinking
  <2> QED BY <2>1, <2>2
<1> QED BY <1>1, <1>3, <1>4 DEF Sinking, Across

(* A node that no child is above has gone down far enough. *)
LEMMA Sunk ==
  ASSUME NEW m \in Nat, NEW K \in [1 .. m -> Int], NEW i \in 1 .. m, Sinking(K, i),
         \A j \in 1 .. m : Child(i, j) => K[j] <= K[i]
  PROVE  Ordered(K)
  BY DEF Sinking, Ordered

(* The parent of a node. *)
LEMMA ParentOf ==
  ASSUME NEW j \in Nat \ {0}
  PROVE  /\ j \div 2 \in Nat /\ j \div 2 < j /\ (j \div 2 = 0 <=> j = 1)
         /\ j \div 2 > 0 => Child(j \div 2, j)
         /\ \A p \in Nat : Child(p, j) => p = j \div 2
  BY DEF Child

(* The root is the greatest. *)
LEMMA RootIsGreatest ==
  ASSUME NEW m \in Nat, NEW K \in [1 .. m -> Int], Ordered(K)
  PROVE  \A j \in 1 .. m : K[j] <= K[1]
<1> DEFINE S == {j \in 1 .. m : ~(K[j] <= K[1])}
<1>1. SUFFICES ASSUME S # {} PROVE FALSE
  OBVIOUS
<1>2. S \subseteq Nat
  OBVIOUS
<1>3. PICK j \in S : \A y \in S : j <= y
  <2> HIDE DEF S
  <2> QED BY <1>1, <1>2, Least
<1>4. j \in 1 .. m /\ ~(K[j] <= K[1]) /\ j # 1 /\ j \in Nat \ {0}
  OBVIOUS
<1>5. PICK p \in Nat : p < j /\ p > 0 /\ Child(p, j)
  BY <1>4, ParentOf
<1>6. p \in 1 .. m /\ p \notin S
  BY <1>3, <1>4, <1>5
<1>7. K[j] <= K[p] /\ K[p] <= K[1] /\ 1 \in 1 .. m
  BY <1>4, <1>5, <1>6 DEF Ordered
<1>8. K[j] \in Int /\ K[p] \in Int /\ K[1] \in Int
  BY <1>4, <1>6, <1>7
<1> QED BY <1>4, <1>7, <1>8

-----------------------------------------------------------------------------
(* The same nodes, each as often. *)
SameNodes(h, r) == ToSet(r) = ToSet(h) /\ (IsInjective(h) => IsInjective(r))

(* What nodes are compared by. *)
LEMMA KeysAre ==
  ASSUME NEW m \in Nat, NEW h \in [1 .. m -> HeapNodes]
  PROVE  /\ Keys(h) \in [1 .. m -> Int]
         /\ \A i \in 1 .. m : Keys(h)[i] = h[i].data.index
<1>1. ASSUME NEW i \in 1 .. m PROVE h[i].data.index \in Int
  <2>1. h[i] \in HeapNodes
    OBVIOUS
  <2>2. h[i].data \in PlayerNodes
    BY <2>1 DEF HeapNodes
  <2> QED BY <2>2 DEF PlayerNodes
<1>2. DOMAIN h = 1 .. m
  OBVIOUS
<1> QED BY <1>1, <1>2 DEF Keys

(* What swapNodes does to them (max_heap.c:3-13). *)
LEMMA SwapsKeys ==
  ASSUME NEW m \in Nat, NEW h \in [1 .. m -> HeapNodes], NEW i \in 1 .. m, NEW k \in 1 .. m
  PROVE  /\ swapNodes(h, i, k) \in [1 .. m -> HeapNodes] /\ SameNodes(h, swapNodes(h, i, k))
         /\ Exchanged(Keys(h), i, k, Keys(swapNodes(h, i, k)))
<1>1. PICK r : r = swapNodes(h, i, k)
  OBVIOUS
<1>0. /\ Swap(h, i, k) \in [1 .. m -> HeapNodes]
      /\ Exchanged(h, i, k, Swap(h, i, k))
      /\ ToSet(Swap(h, i, k)) = ToSet(h)
      /\ IsInjective(h) => IsInjective(Swap(h, i, k))
  BY SwapIs
<1>2. r \in [1 .. m -> HeapNodes] /\ SameNodes(h, r)
  BY <1>0, <1>1 DEF swapNodes, SameNodes
<1>3. Exchanged(h, i, k, r)
  BY <1>0, <1>1 DEF swapNodes
<1>4. /\ \A j \in 1 .. m : Keys(r)[j] = r[j].data.index
      /\ \A j \in 1 .. m : Keys(h)[j] = h[j].data.index
      /\ DOMAIN h = 1 .. m /\ DOMAIN Keys(h) = 1 .. m
  BY <1>2, KeysAre
<1>5. Exchanged(Keys(h), i, k, Keys(r))
  BY <1>3, <1>4 DEF Exchanged
<1> QED BY <1>1, <1>2, <1>5

(* Where a loop of the heap is. *)
Turning(m) == [heap : [1 .. m -> HeapNodes], node : 1 .. m]

(* One turn of the loop of insertInMaxHeap (lines 29-35).                  *)
LEMMA UpIs ==
  ASSUME NEW m \in Nat, NEW at \in Turning(m)
  PROVE  /\ Up(at) \in Turning(m) /\ SameNodes(at.heap, Up(at).heap)
         /\ Rising(Keys(at.heap), at.node) =>
              \/ Up(at) = at /\ IsHeap(at.heap)
              \/ Rising(Keys(Up(at).heap), Up(at).node) /\ Up(at).node < at.node
         /\ Rising(Keys(at.heap), at.node) /\ IsHeap(at.heap) => Up(at) = at
<1>1. PICK h \in [1 .. m -> HeapNodes] : h = at.heap
  BY DEF Turning
<1>2. PICK i \in 1 .. m : i = at.node
  BY DEF Turning
<1>3. PICK p \in Nat : p = i \div 2
  BY ParentOf
<1>4. PICK K \in [1 .. m -> Int] : K = Keys(h) /\ \A j \in 1 .. m : K[j] = h[j].data.index
  BY KeysAre
<1>5. /\ p < i /\ (p = 0 <=> i = 1) /\ (p > 0 => Child(p, i))
      /\ \A a \in Nat : Child(a, i) => a = p
  <2>1. i \in Nat \ {0}
    OBVIOUS
  <2> QED BY ONLY <1>3, <2>1, ParentOf
<1>6. CASE p > 0 /\ K[i] > K[p]
  <2>1. p \in 1 .. m
    BY <1>5, <1>6
  <2>2. PICK r : r = swapNodes(h, i, p)
    OBVIOUS
  <2>3. Up(at) = [heap |-> r, node |-> p]
    BY <1>1, <1>2, <1>3, <1>4, <1>6, <2>1, <2>2 DEF Up
  <2>4. r \in [1 .. m -> HeapNodes] /\ SameNodes(h, r)
    BY <2>1, <2>2, SwapsKeys
  <2>5. PICK L \in [1 .. m -> Int] : L = Keys(r)
    BY <2>4, KeysAre
  <2>6. Exchanged(K, i, p, L)
    BY <1>4, <2>1, <2>2, <2>5, SwapsKeys
  <2>7. ASSUME Rising(K, i) PROVE Rising(L, p)
    <3>1. Child(p, i) /\ K[i] > K[p]
      BY <1>5, <1>6
    <3> QED BY ONLY m \in Nat, K \in [1 .. m -> Int], L \in [1 .. m -> Int], i \in 1 .. m,
                    <2>1, <2>6, <2>7, <3>1, Rises
  <2>8. ~Ordered(K)
    BY <1>5, <1>6, <2>1 DEF Ordered
  <2>9. /\ Up(at) \in Turning(m) /\ Up(at).heap = r /\ Up(at).node = p
    BY <2>1, <2>3, <2>4 DEF Turning
  <2> QED BY <1>1, <1>2, <1>4, <1>5, <2>4, <2>5, <2>7, <2>8, <2>9 DEF IsHeap
<1>7. CASE ~(p > 0 /\ K[i] > K[p])
  <2>1. Up(at) = at
    <3>1. p > 0 => p \in 1 .. m
      BY <1>5
    <3>2. ~(p > 0 /\ at.heap[at.node].data.index > at.heap[p].data.index)
      BY <1>1, <1>2, <1>4, <1>7, <3>1
    <3> QED BY <1>2, <1>3, <3>2 DEF Up
  <2>2. Rising(K, i) => Ordered(K)
    <3>1. \A a \in 1 .. m : Child(a, i) => K[i] <= K[a]
      BY <1>5, <1>7
    <3> QED BY <3>1, Risen
  <2> QED BY <1>1, <1>2, <1>4, <2>1, <2>2 DEF IsHeap, SameNodes
<1> QED BY <1>6, <1>7

(* The length of a heap. *)
LEMMA LengthOf ==
  ASSUME NEW S, NEW m \in Nat, NEW q \in [1 .. m -> S]
  PROVE  q \in Seq(S) /\ Len(q) = m /\ DOMAIN q = 1 .. m
<1>1. q \in Seq(S)
  BY SeqDef
<1>2. DOMAIN q = 1 .. m /\ DOMAIN q = 1 .. Len(q) /\ Len(q) \in Nat
  BY <1>1, LenProperties
<1>3. Len(q) = m
  <2>1. PICK n \in Nat : n = Len(q)
    BY <1>2
  <2>2. 1 .. m = 1 .. n
    BY <1>2, <2>1
  <2> QED BY <2>1, <2>2
<1> QED BY <1>1, <1>2, <1>3

(* One of two nodes, if the second is there. *)
LEMMA LargerIs ==
  ASSUME NEW m \in Nat, NEW h \in [1 .. m -> HeapNodes], NEW i \in 1 .. m, NEW k \in Nat \ {0}
  PROVE  /\ Larger(h, i, k) \in 1 .. m /\ Larger(h, i, k) \in {i, k}
         /\ Keys(h)[i] <= Keys(h)[Larger(h, i, k)]
         /\ k <= m => Keys(h)[k] <= Keys(h)[Larger(h, i, k)]
         /\ Larger(h, i, k) # i => Keys(h)[i] < Keys(h)[Larger(h, i, k)]
<1>1. PICK K \in [1 .. m -> Int] : K = Keys(h) /\ \A j \in 1 .. m : K[j] = h[j].data.index
  BY KeysAre
<1>2. Len(h) = m
  BY LengthOf
<1>3. K[i] \in Int /\ (k <= m => k \in 1 .. m /\ K[k] \in Int)
  OBVIOUS
<1>4. CASE k <= m /\ K[i] < K[k]
  <2>1. Larger(h, i, k) = k
    BY <1>1, <1>2, <1>3, <1>4 DEF Larger
  <2> QED BY <1>1, <1>3, <1>4, <2>1
<1>5. CASE ~(k <= m /\ K[i] < K[k])
  <2>1. Larger(h, i, k) = i
    BY <1>1, <1>2, <1>3, <1>5 DEF Larger
  <2> QED BY <1>1, <1>3, <1>5, <2>1
<1> QED BY <1>4, <1>5

(* One turn of the loop of deleteFromMaxHeap (lines 54-76).                *)
LEMMA DownIs ==
  ASSUME NEW m \in Nat, NEW at \in Turning(m)
  PROVE  /\ Down(at) \in Turning(m) /\ SameNodes(at.heap, Down(at).heap)
         /\ Sinking(Keys(at.heap), at.node) =>
              \/ Down(at) = at /\ IsHeap(at.heap)
              \/ Sinking(Keys(Down(at).heap), Down(at).node) /\ Down(at).node > at.node
         /\ Sinking(Keys(at.heap), at.node) /\ IsHeap(at.heap) => Down(at) = at
<1>1. PICK h \in [1 .. m -> HeapNodes] : h = at.heap
  BY DEF Turning
<1>2. PICK i \in 1 .. m : i = at.node
  BY DEF Turning
<1>3. PICK K \in [1 .. m -> Int] : K = Keys(h) /\ \A j \in 1 .. m : K[j] = h[j].data.index
  BY KeysAre
<1>4. PICK l \in 1 .. m : l = Larger(h, i, 2 * i)
  <2>1. 2 * i \in Nat \ {0}
    OBVIOUS
  <2> QED BY <2>1, LargerIs
<1>5. /\ l \in {i, 2 * i} /\ K[i] <= K[l] /\ (2 * i <= m => K[2 * i] <= K[l])
      /\ l # i => K[i] < K[l]
  <2>1. 2 * i \in Nat \ {0}
    OBVIOUS
  <2> QED BY <1>3, <1>4, <2>1, LargerIs
<1>6. PICK c \in 1 .. m : c = Larger(h, l, 2 * i + 1)
  <2>1. 2 * i + 1 \in Nat \ {0}
    OBVIOUS
  <2> QED BY <2>1, LargerIs
<1>7. /\ c \in {l, 2 * i + 1} /\ K[l] <= K[c] /\ (2 * i + 1 <= m => K[2 * i + 1] <= K[c])
      /\ c # l => K[l] < K[c]
  <2>1. 2 * i + 1 \in Nat \ {0}
    OBVIOUS
  <2> QED BY <1>3, <1>6, <2>1, LargerIs
<1>8. K[i] \in Int /\ K[l] \in Int /\ K[c] \in Int
  OBVIOUS
<1>9. \A j \in 1 .. m : Child(i, j) => K[j] <= K[c]
  <2>1. ASSUME NEW j \in 1 .. m, Child(i, j) PROVE K[j] <= K[c]
    <3>1. K[j] \in Int
      OBVIOUS
    <3>2. CASE j = 2 * i
      BY <1>5, <1>7, <1>8, <3>1, <3>2
    <3>3. CASE j = 2 * i + 1
      BY <1>7, <1>8, <3>1, <3>3
    <3> QED BY <2>1, <3>2, <3>3 DEF Child
  <2> QED BY <2>1
<1>10. CASE c # i
  <2>1. Child(i, c) /\ K[i] < K[c] /\ c > i
    BY <1>5, <1>7, <1>8, <1>10 DEF Child
  <2>2. PICK r : r = swapNodes(h, i, c)
    OBVIOUS
  <2>3. Down(at) = [heap |-> r, node |-> c]
    BY <1>1, <1>2, <1>4, <1>6, <1>10, <2>2 DEF Down
  <2>4. r \in [1 .. m -> HeapNodes] /\ SameNodes(h, r)
    BY <2>2, SwapsKeys
  <2>5. PICK L \in [1 .. m -> Int] : L = Keys(r)
    BY <2>4, KeysAre
  <2>6. Exchanged(K, i, c, L)
    BY <1>3, <2>2, <2>5, SwapsKeys
  <2>7. ASSUME Sinking(K, i) PROVE Sinking(L, c)
    BY ONLY m \in Nat, K \in [1 .. m -> Int], L \in [1 .. m -> Int], i \in 1 .. m, c \in 1 .. m,
            <1>9, <2>1, <2>6, <2>7, Sinks
  <2>8. ~Ordered(K)
    BY <1>8, <2>1 DEF Ordered
  <2>9. Down(at) \in Turning(m) /\ Down(at).heap = r /\ Down(at).node = c
    BY <2>3, <2>4 DEF Turning
  <2> QED BY <1>1, <1>2, <1>3, <2>1, <2>4, <2>5, <2>7, <2>8, <2>9 DEF IsHeap
<1>11. CASE c = i
  <2>1. Down(at) = at
    BY <1>1, <1>2, <1>4, <1>6, <1>11 DEF Down
  <2>2. Sinking(K, i) => Ordered(K)
    BY <1>9, <1>11, Sunk
  <2> QED BY <1>1, <1>2, <1>3, <2>1, <2>2 DEF IsHeap, SameNodes
<1> QED BY <1>10, <1>11

(* A loop whose turns are all alike. *)
Repeated(g, X, c, m, F) ==
  g \in [0 .. m -> X] /\ \A k \in 0 .. m : g[k] = IF k = 0 THEN c ELSE F[g[k - 1]]

(* A step repeated m times. *)
LEMMA Repeats ==
  ASSUME NEW X, NEW c \in X, NEW m \in Nat, NEW F \in [X -> X]
  PROVE  \E g : Repeated(g, X, c, m, F)
<1> DEFINE G == [k \in 0 + 1 .. m |-> F]
<1>1. PICK f \in [0 + 1 .. m -> [X -> X]] : \A k \in 0 + 1 .. m : f[k] = F
  <2>1. G \in [0 + 1 .. m -> [X -> X]] /\ \A k \in 0 + 1 .. m : G[k] = F
    OBVIOUS
  <2> HIDE DEF G
  <2> QED BY <2>1
<1>2. PICK g : Passes(g, X, c, 0, m, f)
  <2>1. Turns(f, X, 0, m) /\ 0 \in Nat /\ 0 <= m
    BY <1>1 DEF Turns
  <2> QED BY ONLY c \in X, m \in Nat, <2>1, Loop
<1>3. g \in [0 .. m -> X] /\ \A k \in 0 .. m : g[k] = IF k = 0 THEN c ELSE f[k][g[k - 1]]
  BY <1>2, Zenon DEF Passes
<1>4. ASSUME NEW k \in 0 .. m PROVE g[k] = IF k = 0 THEN c ELSE F[g[k - 1]]
  <2>1. CASE k = 0
    BY <1>3, <2>1
  <2>2. CASE k # 0
    <3>1. k \in 0 + 1 .. m
      BY <2>2
    <3> QED BY <1>1, <1>3, <2>2, <3>1
  <2> QED BY <2>1, <2>2
<1> QED BY <1>3, <1>4 DEF Repeated

(* A node goes up as far as it must: insertInMaxHeap (max_heap.c:15-36).    *)
LEMMA InsertIs ==
  ASSUME NEW n \in Nat, NEW h \in [1 .. n -> HeapNodes], NEW e \in HeapNodes, NEW room \in Nat
  PROVE  LET r == insertInMaxHeap(h, room, e) IN
         /\ n >= room => r = h
         /\ n < room =>
              /\ r \in [1 .. n + 1 -> HeapNodes] /\ (IsHeap(h) => IsHeap(r))
              /\ ToSet(r) = ToSet(h) \union {e}
              /\ IsInjective(h) /\ e \notin ToSet(h) => IsInjective(r)
<1>1. PICK m \in Nat : m = n + 1
  OBVIOUS
<1>2. h \in Seq(HeapNodes) /\ Len(h) = n /\ DOMAIN h = 1 .. n
  BY LengthOf
<1>3. PICK q \in [1 .. m -> HeapNodes] :
        /\ q = Append(h, e) /\ q[m] = e /\ (\A i \in 1 .. n : q[i] = h[i])
        /\ ToSet(q) = ToSet(h) \union {e}
        /\ IsInjective(h) /\ e \notin ToSet(h) => IsInjective(q)
  <2>1. /\ Append(h, e) \in Seq(HeapNodes) /\ ToSet(Append(h, e)) = ToSet(h) \union {e}
        /\ IsInjective(h) /\ e \notin ToSet(h) => IsInjective(Append(h, e))
    BY <1>2, EnQueue
  <2>2. /\ Len(Append(h, e)) = m /\ Append(h, e)[m] = e
        /\ \A i \in 1 .. n : Append(h, e)[i] = h[i]
    BY <1>1, <1>2, AppendProperties
  <2>3. Append(h, e) \in [1 .. m -> HeapNodes]
    BY <2>1, <2>2, LenProperties, ElementOfSeq
  <2> QED BY <2>1, <2>2, <2>3
<1>4. PICK c \in Turning(m) : c = [heap |-> q, node |-> m]
  <2>1. m \in 1 .. m
    BY <1>1
  <2> QED BY <2>1 DEF Turning
<1> DEFINE Ups(g) == [k \in 0 .. Len(h) + 1 |->
             IF k = 0 THEN [heap |-> Append(h, e), node |-> Len(h) + 1] ELSE Up(g[k - 1])]
           at == CHOOSE g : g = Ups(g)
<1>5. \E g : g = Ups(g)
  <2>1. PICK F \in [Turning(m) -> Turning(m)] : \A x \in Turning(m) : F[x] = Up(x)
    <3> DEFINE G == [x \in Turning(m) |-> Up(x)]
    <3>1. \A x \in Turning(m) : Up(x) \in Turning(m)
      BY UpIs
    <3>2. G \in [Turning(m) -> Turning(m)] /\ \A x \in Turning(m) : G[x] = Up(x)
      BY <3>1
    <3> HIDE DEF G
    <3> QED BY <3>2
  <2>2. PICK g : Repeated(g, Turning(m), c, m, F)
    BY Repeats
  <2> USE <2>2 DEF Repeated
  <2>3. ASSUME NEW k \in 0 .. m PROVE g[k] = IF k = 0 THEN c ELSE Up(g[k - 1])
    <3>1. CASE k = 0
      BY <2>2, <3>1
    <3>2. CASE k # 0
      <4>1. k - 1 \in 0 .. m
        BY <3>2
      <4>2. g[k - 1] \in Turning(m)
        BY <2>2, <4>1
      <4> QED BY <2>1, <2>2, <3>2, <4>2
    <3> QED BY <3>1, <3>2
  <2>4. g = [k \in 0 .. m |-> g[k]]
    BY <2>2
  <2>5. g = Ups(g)
    BY <1>1, <1>2, <1>3, <1>4, <2>3, <2>4
  <2> HIDE DEF Ups
  <2> QED BY <2>5
<1>6. at = Ups(at)
  <2> HIDE DEF Ups
  <2> QED BY <1>5, Zenon
<1>7. insertInMaxHeap(h, room, e) = IF n >= room THEN h ELSE at[m].heap
  <2>1. insertInMaxHeap(h, room, e) = IF Len(h) >= room THEN h ELSE at[Len(h) + 1].heap
    BY Zenon DEF insertInMaxHeap
  <2> QED BY <1>1, <1>2, <2>1
<1> HIDE DEF at
<1>8. \A k \in 0 .. m : at[k] = IF k = 0 THEN c ELSE Up(at[k - 1])
  BY <1>1, <1>2, <1>3, <1>4, <1>6
<1> HIDE DEF Ups
<1> DEFINE S == {k \in 0 .. m :
               /\ at[k] \in Turning(m) /\ SameNodes(q, at[k].heap)
               /\ Rising(Keys(q), m) => /\ Rising(Keys(at[k].heap), at[k].node)
                                        /\ IsHeap(at[k].heap) \/ at[k].node <= m - k}
<1>9. 0 \in S
  <2>1. at[0] = c /\ c.heap = q /\ c.node = m
    BY <1>4, <1>8
  <2> QED BY <2>1 DEF SameNodes
<1>10. ASSUME NEW k \in 0 + 1 .. m, k - 1 \in S PROVE k \in S
  <2>1. PICK x \in Turning(m) : x = at[k - 1]
    BY <1>10
  <2>2. k \in 0 .. m /\ k # 0
    OBVIOUS
  <2>3. at[k] = Up(x)
    BY <1>8, <2>1, <2>2
  <2>4. /\ SameNodes(q, x.heap)
        /\ Rising(Keys(q), m) => Rising(Keys(x.heap), x.node) /\
                                 (IsHeap(x.heap) \/ x.node <= m - (k - 1))
    BY <1>10, <2>1
  <2>5. PICK y \in Turning(m) : y = Up(x)
    BY UpIs
  <2>6. SameNodes(q, y.heap)
    BY <2>4, <2>5, UpIs DEF SameNodes
  <2>7. ASSUME Rising(Keys(q), m)
        PROVE  Rising(Keys(y.heap), y.node) /\ (IsHeap(y.heap) \/ y.node <= m - k)
    <3>1. x.node \in Nat /\ y.node \in Nat
      BY DEF Turning
    <3>2. \/ y = x /\ IsHeap(x.heap)
          \/ Rising(Keys(y.heap), y.node) /\ y.node < x.node
      BY <2>4, <2>5, <2>7, UpIs
    <3>3. IsHeap(x.heap) => y = x
      BY <2>4, <2>5, <2>7, UpIs
    <3> QED BY <2>4, <2>7, <3>1, <3>2, <3>3
  <2> QED BY <2>2, <2>3, <2>5, <2>6, <2>7
<1>11. m \in S
  <2> HIDE DEF S
  <2>1. 0 .. m \subseteq S
    BY ONLY <1>9, <1>10, m \in Nat, 0 \in Nat, Upwards
  <2> QED BY <2>1
<1>12. PICK r \in [1 .. m -> HeapNodes] : r = at[m].heap
  BY <1>11 DEF Turning
<1>13. /\ SameNodes(q, r)
       /\ Rising(Keys(q), m) => IsHeap(r)
  <2>1. at[m].node \in 1 .. m
    BY <1>11 DEF Turning
  <2> QED BY <1>11, <1>12, <2>1
<1>14. ASSUME IsHeap(h) PROVE Rising(Keys(q), m)
  <2>1. PICK K \in [1 .. m -> Int] : K = Keys(q) /\ \A j \in 1 .. m : K[j] = q[j].data.index
    BY KeysAre
  <2>2. PICK L \in [1 .. n -> Int] : L = Keys(h) /\ \A j \in 1 .. n : L[j] = h[j].data.index
    BY KeysAre
  <2>3. ASSUME NEW j \in 1 .. n PROVE K[j] = L[j] /\ j \in 1 .. m
    <3>1. j \in 1 .. m /\ q[j] = h[j]
      BY <1>1, <1>3
    <3> QED BY <2>1, <2>2, <3>1
  <2>4. Ordered(L)
    BY <1>14, <2>2 DEF IsHeap
  <2>5. ASSUME NEW p \in 1 .. m, NEW j \in 1 .. m, Child(p, j), j # m PROVE K[j] <= K[p]
    <3>1. p \in 1 .. n /\ j \in 1 .. n
      BY <1>1, <2>5 DEF Child
    <3> QED BY <2>3, <2>4, <2>5, <3>1 DEF Ordered
  <2>6. \A j \in 1 .. m : ~Child(m, j)
    BY DEF Child
  <2> QED BY <2>1, <2>5, <2>6 DEF Rising, Across
<1> QED BY <1>1, <1>3, <1>7, <1>12, <1>13, <1>14 DEF SameNodes

(* Without its root, and with its last node there instead, a heap is one   *)
(* but for the root.                                                       *)
LEMMA RootGoes ==
  ASSUME NEW n \in Nat \ {0}, NEW h \in [1 .. n -> HeapNodes], NEW m \in Nat, m = n - 1,
         NEW q, q = [i \in 1 .. m |-> IF i = 1 THEN h[m + 1] ELSE h[i]]
  PROVE  /\ q \in [1 .. m -> HeapNodes]
         /\ IsHeap(h) => Sinking(Keys(q), 1)
         /\ IsInjective(h) => IsInjective(q) /\ ToSet(q) = ToSet(h) \ {h[1]}
<1>1. q \in [1 .. m -> HeapNodes]
  OBVIOUS
<1>2. /\ \A i \in 1 .. m : q[i] = IF i = 1 THEN h[n] ELSE h[i]
      /\ DOMAIN q = 1 .. m /\ DOMAIN h = 1 .. n
  OBVIOUS
<1>3. ASSUME IsHeap(h) PROVE Sinking(Keys(q), 1)
  <2>1. PICK K \in [1 .. m -> Int] : K = Keys(q) /\ \A j \in 1 .. m : K[j] = q[j].data.index
    BY <1>1, KeysAre
  <2>2. PICK L \in [1 .. n -> Int] : L = Keys(h) /\ \A j \in 1 .. n : L[j] = h[j].data.index
    BY KeysAre
  <2>3. ASSUME NEW j \in 1 .. m, j # 1 PROVE K[j] = L[j] /\ j \in 1 .. n
    <3>1. j \in 1 .. n /\ q[j] = h[j]
      BY <1>2, <2>3
    <3> QED BY ONLY j \in 1 .. m, <2>1, <2>2, <3>1
  <2>4. Ordered(L)
    BY <1>3, <2>2 DEF IsHeap
  <2>5. ASSUME NEW p \in 1 .. m, NEW j \in 1 .. m, Child(p, j), p # 1 PROVE K[j] <= K[p]
    <3>1. j # 1
      BY <2>5 DEF Child
    <3>2. p \in 1 .. n /\ j \in 1 .. n /\ K[j] = L[j] /\ K[p] = L[p]
      BY <2>3, <2>5, <3>1
    <3> QED BY <2>4, <2>5, <3>2 DEF Ordered
  <2>6. \A p \in 1 .. m : ~Child(p, 1)
    BY DEF Child
  <2> QED BY <2>1, <2>5, <2>6 DEF Sinking, Across
<1>4. ASSUME IsInjective(h) PROVE IsInjective(q) /\ ToSet(q) = ToSet(h) \ {h[1]}
  <2> DEFINE f == [i \in 1 .. m |-> IF i = 1 THEN n ELSE i]
  <2>1. f \in [1 .. m -> 1 .. n] /\ \A i \in 1 .. m : f[i] # 1
    OBVIOUS
  <2>2. \A i, k \in 1 .. m : f[i] = f[k] => i = k
    OBVIOUS
  <2>3. \A k \in 1 .. n : k # 1 => \E i \in 1 .. m : f[i] = k
    <3>1. ASSUME NEW k \in 1 .. n, k # 1 PROVE \E i \in 1 .. m : f[i] = k
      <4>1. CASE k = n
        <5>1. 1 \in 1 .. m /\ f[1] = k
          BY <3>1, <4>1
        <5> QED BY <5>1
      <4>2. CASE k # n
        <5>1. k \in 1 .. m /\ f[k] = k
          BY <3>1, <4>2
        <5> QED BY <5>1
      <4> QED BY <4>1, <4>2
    <3> QED BY <3>1
  <2>4. \A i \in 1 .. m : q[i] = h[f[i]]
    BY <1>2
  <2>5. \A i, k \in 1 .. n : h[i] = h[k] => i = k
    BY <1>2, <1>4 DEF IsInjective
  <2> HIDE DEF f
  <2>6. \A i, k \in 1 .. m : q[i] = q[k] => i = k
    BY <2>1, <2>2, <2>4, <2>5
  <2>7. ASSUME NEW x PROVE x \in ToSet(q) <=> x \in ToSet(h) \ {h[1]}
    <3>1. x \in ToSet(q) <=> \E i \in 1 .. m : x = h[f[i]]
      BY <1>2, <2>4 DEF ToSet
    <3>2. x \in ToSet(h) <=> \E k \in 1 .. n : x = h[k]
      BY <1>2 DEF ToSet
    <3>3. 1 \in 1 .. n
      OBVIOUS
    <3>4. ASSUME NEW i \in 1 .. m, x = h[f[i]] PROVE x \in ToSet(h) /\ x # h[1]
      BY <2>1, <2>5, <3>2, <3>3, <3>4
    <3>5. ASSUME NEW k \in 1 .. n, x = h[k], x # h[1] PROVE \E i \in 1 .. m : x = h[f[i]]
      BY <2>3, <3>5
    <3> QED BY <3>1, <3>2, <3>4, <3>5
  <2>8. ToSet(q) = ToSet(h) \ {h[1]}
    BY <2>7, Zenon
  <2> QED BY <1>2, <2>6, <2>8 DEF IsInjective
<1> QED BY <1>1, <1>3, <1>4

(* The root goes, and what comes in its place goes down as far as it must: *)
(* deleteFromMaxHeap (max_heap.c:38-77).                                   *)
LEMMA DeleteIs ==
  ASSUME NEW n \in Nat \ {0}, NEW h \in [1 .. n -> HeapNodes]
  PROVE  LET r == deleteFromMaxHeap(h) IN
         /\ r \in [1 .. n - 1 -> HeapNodes] /\ (IsHeap(h) => IsHeap(r))
         /\ IsInjective(h) => IsInjective(r) /\ ToSet(r) = ToSet(h) \ {h[1]}
<1>1. PICK m \in Nat : m = n - 1
  OBVIOUS
<1>2. Len(h) = n
  BY LengthOf
<1>3. PICK q : q = [i \in 1 .. m |-> IF i = 1 THEN h[m + 1] ELSE h[i]]
  OBVIOUS
<1>4. /\ q \in [1 .. m -> HeapNodes]
      /\ IsHeap(h) => Sinking(Keys(q), 1)
      /\ IsInjective(h) => IsInjective(q) /\ ToSet(q) = ToSet(h) \ {h[1]}
  BY <1>1, <1>3, RootGoes
<1> DEFINE others == [i \in 1 .. Len(h) - 1 |-> IF i = 1 THEN h[Len(h) - 1 + 1] ELSE h[i]]
           Downs(g) == [k \in 0 .. Len(h) - 1 |->
             IF k = 0 THEN [heap |-> others, node |-> 1] ELSE Down(g[k - 1])]
           at == CHOOSE g : g = Downs(g)
<1>5. deleteFromMaxHeap(h) = at[Len(h) - 1].heap
  BY Zenon DEF deleteFromMaxHeap
<1>6. others = q /\ Len(h) - 1 = m
  BY <1>1, <1>2, <1>3
<1> HIDE DEF others
<1>7. CASE m = 0
  <2> DEFINE g0 == [k \in 0 .. 0 |-> [heap |-> q, node |-> 1]]
  <2>1. g0 = Downs(g0)
    <3>1. ASSUME NEW k \in 0 .. 0
          PROVE  g0[k] = IF k = 0 THEN [heap |-> others, node |-> 1] ELSE Down(g0[k - 1])
      BY <1>6
    <3>2. g0 = [k \in 0 .. 0 |-> g0[k]]
      OBVIOUS
    <3> HIDE DEF g0
    <3> QED BY <1>6, <1>7, <3>1, <3>2
  <2>2. at = Downs(at)
    <3> HIDE DEF Downs, g0
    <3> QED BY <2>1, Zenon
  <2>3. at[0] = [heap |-> q, node |-> 1]
    <3> HIDE DEF at
    <3> QED BY <1>6, <2>2
  <2> HIDE DEF at
  <2>4. deleteFromMaxHeap(h) = q
    BY <1>1, <1>2, <1>5, <1>6, <1>7, <2>3
  <2>5. IsHeap(q)
    BY <1>4, <1>7 DEF IsHeap, Ordered, Keys
  <2> QED BY <1>1, <1>4, <2>4, <2>5
<1>8. CASE m # 0
  <2>1. PICK c \in Turning(m) : c = [heap |-> q, node |-> 1]
    <3>1. 1 \in 1 .. m
      BY <1>8
    <3> QED BY <1>4, <3>1 DEF Turning
  <2>2. \E g : g = Downs(g)
    <3>1. PICK F \in [Turning(m) -> Turning(m)] : \A x \in Turning(m) : F[x] = Down(x)
      <4> DEFINE G == [x \in Turning(m) |-> Down(x)]
      <4>1. \A x \in Turning(m) : Down(x) \in Turning(m)
        BY DownIs
      <4>2. G \in [Turning(m) -> Turning(m)] /\ \A x \in Turning(m) : G[x] = Down(x)
        BY <4>1
      <4> HIDE DEF G
      <4> QED BY <4>2
    <3>2. PICK g : Repeated(g, Turning(m), c, m, F)
      BY Repeats
    <3> USE <3>2 DEF Repeated
    <3>3. ASSUME NEW k \in 0 .. m PROVE g[k] = IF k = 0 THEN c ELSE Down(g[k - 1])
      <4>1. CASE k = 0
        BY <3>2, <4>1
      <4>2. CASE k # 0
        <5>1. k - 1 \in 0 .. m
          BY <4>2
        <5>2. g[k - 1] \in Turning(m)
          BY <3>2, <5>1
        <5> QED BY <3>1, <3>2, <4>2, <5>2
      <4> QED BY <4>1, <4>2
    <3>4. g = [k \in 0 .. m |-> g[k]]
      BY <3>2
    <3>5. g = Downs(g)
      BY <1>6, <2>1, <3>3, <3>4
    <3> HIDE DEF Downs
    <3> QED BY <3>5
  <2>3. at = Downs(at)
    <3> HIDE DEF Downs
    <3> QED BY <2>2, Zenon
  <2> HIDE DEF at
  <2>4. \A k \in 0 .. m : at[k] = IF k = 0 THEN c ELSE Down(at[k - 1])
    BY <1>6, <2>1, <2>3
  <2> HIDE DEF Downs
  <2> DEFINE S == {k \in 0 .. m :
               /\ at[k] \in Turning(m) /\ SameNodes(q, at[k].heap)
               /\ Sinking(Keys(q), 1) => /\ Sinking(Keys(at[k].heap), at[k].node)
                                         /\ IsHeap(at[k].heap) \/ at[k].node >= k + 1}
  <2>5. 0 \in S
    <3>1. at[0] = c /\ c.heap = q /\ c.node = 1
      BY <2>1, <2>4
    <3> QED BY <3>1 DEF SameNodes
  <2>6. ASSUME NEW k \in 0 + 1 .. m, k - 1 \in S PROVE k \in S
    <3>1. PICK x \in Turning(m) : x = at[k - 1]
      BY <2>6
    <3>2. k \in 0 .. m /\ k # 0
      OBVIOUS
    <3>3. at[k] = Down(x)
      BY <2>4, <3>1, <3>2
    <3>4. /\ SameNodes(q, x.heap)
          /\ Sinking(Keys(q), 1) => Sinking(Keys(x.heap), x.node) /\
                                    (IsHeap(x.heap) \/ x.node >= k)
      BY <2>6, <3>1
    <3>5. PICK y \in Turning(m) : y = Down(x)
      BY DownIs
    <3>6. SameNodes(q, y.heap)
      BY <3>4, <3>5, DownIs DEF SameNodes
    <3>7. ASSUME Sinking(Keys(q), 1)
          PROVE  Sinking(Keys(y.heap), y.node) /\ (IsHeap(y.heap) \/ y.node >= k + 1)
      <4>1. x.node \in Nat /\ y.node \in Nat
        BY DEF Turning
      <4>2. \/ y = x /\ IsHeap(x.heap)
            \/ Sinking(Keys(y.heap), y.node) /\ y.node > x.node
        BY <3>4, <3>5, <3>7, DownIs
      <4>3. IsHeap(x.heap) => y = x
        BY <3>4, <3>5, <3>7, DownIs
      <4> QED BY <3>4, <3>7, <4>1, <4>2, <4>3
    <3> QED BY <3>2, <3>3, <3>5, <3>6, <3>7
  <2>7. m \in S
    <3> HIDE DEF S
    <3>1. 0 .. m \subseteq S
      BY ONLY <2>5, <2>6, m \in Nat, 0 \in Nat, Upwards
    <3> QED BY <3>1
  <2>8. PICK r \in [1 .. m -> HeapNodes] : r = at[m].heap
    BY <2>7 DEF Turning
  <2>9. SameNodes(q, r) /\ (Sinking(Keys(q), 1) => IsHeap(r))
    <3>1. at[m].node \in 1 .. m
      BY <2>7 DEF Turning
    <3> QED BY <2>7, <2>8, <3>1
  <2>10. deleteFromMaxHeap(h) = r
    BY <1>5, <1>6, <2>8
  <2> QED BY <1>1, <1>4, <2>9, <2>10 DEF SameNodes
<1> QED BY <1>7, <1>8

-----------------------------------------------------------------------------
(* The lists that are merged. *)
RankedLists(n) == {l \in [1 .. n -> Seq(PlayerNodes)] : \A a \in 1 .. n : Descending(l[a])}

(* The lists, and what is in them. *)
LEMMA ListsAre ==
  ASSUME NEW n \in Nat, NEW lists \in RankedLists(n)
  PROVE  /\ DOMAIN lists = 1 .. n /\ Len(lists) = n
         /\ \A a \in 1 .. n :
              /\ lists[a] \in Seq(PlayerNodes) /\ Len(lists[a]) \in Nat
              /\ DOMAIN lists[a] = 1 .. Len(lists[a])
              /\ \A i \in 1 .. Len(lists[a]) : lists[a][i] \in PlayerNodes
              /\ Descending(lists[a])
<1>1. PICK S : S = Seq(PlayerNodes)
  OBVIOUS
<1>2. lists \in [1 .. n -> S] /\ \A a \in 1 .. n : Descending(lists[a])
  BY <1>1 DEF RankedLists
<1>3. DOMAIN lists = 1 .. n /\ Len(lists) = n
  BY <1>2, LengthOf
<1>4. ASSUME NEW a \in 1 .. n
      PROVE  /\ lists[a] \in Seq(PlayerNodes) /\ Len(lists[a]) \in Nat
             /\ DOMAIN lists[a] = 1 .. Len(lists[a])
             /\ \A i \in 1 .. Len(lists[a]) : lists[a][i] \in PlayerNodes
  <2>1. PICK q \in Seq(PlayerNodes) : q = lists[a]
    BY <1>1, <1>2
  <2> QED BY <2>1, LenProperties, ElementOfSeq
<1> QED BY <1>2, <1>3, <1>4

(* What comes into the heap tells which list it is from and its place in it. *)
LEMMA ElementIs ==
  ASSUME NEW n \in Nat, NEW lists \in RankedLists(n), NEW a \in 1 .. n,
         NEW i \in 1 .. Len(lists[a])
  PROVE  LET e == Element(lists, a, i) IN
         /\ e \in HeapNodes /\ e.array = a /\ e.index = i /\ e.data = lists[a][i]
         /\ e.data.index \in Int
<1>1. lists[a][i] \in PlayerNodes
  BY ListsAre
<1>2. a \in Nat /\ i \in Nat
  BY ListsAre
<1>3. lists[a][i].index \in Int
  <2>1. PICK p \in PlayerNodes : p = lists[a][i]
    BY <1>1
  <2>2. p.index \in Int
    BY DEF PlayerNodes
  <2> QED BY <2>1, <2>2
<1> QED BY <1>1, <1>2, <1>3 DEF Element, HeapNodes

(* A sequence is a function of its length. *)
LEMMA AsFunction ==
  ASSUME NEW S, NEW q \in Seq(S)
  PROVE  \E m \in Nat : m = Len(q) /\ q \in [1 .. m -> S]
<1>1. Len(q) \in Nat /\ q \in [1 .. Len(q) -> S]
  BY LenProperties, ElementOfSeq
<1> QED BY <1>1

(* A sequence without repetitions is no longer than a set that tells its   *)
(* elements apart.                                                         *)
LEMMA NoLonger ==
  ASSUME NEW S, NEW q \in Seq(S), IsInjective(q), NEW T, IsFiniteSet(T),
         NEW f \in [ToSet(q) -> T],
         \A x, y \in ToSet(q) : f[x] = f[y] => x = y
  PROVE  Len(q) <= Cardinality(T)
<1>1. PICK m \in Nat : m = Len(q) /\ q \in [1 .. m -> S]
  BY AsFunction
<1> DEFINE g == [i \in 1 .. m |-> f[q[i]]]
<1>2. \A i \in 1 .. m : q[i] \in ToSet(q)
  BY <1>1 DEF ToSet
<1>3. g \in [1 .. m -> T]
  BY <1>2
<1>4. ASSUME NEW i \in 1 .. m, NEW k \in 1 .. m, g[i] = g[k] PROVE i = k
  <2>1. q[i] = q[k]
    BY <1>2, <1>4
  <2>2. DOMAIN q = 1 .. m
    BY <1>1
  <2> QED BY <2>1, <2>2 DEF IsInjective
<1> HIDE DEF g
<1>5. g \in Injection(1 .. m, T)
  BY <1>3, <1>4 DEF Injection, IsInjective
<1>6. Cardinality(1 .. m) <= Cardinality(T)
  BY <1>5, FS_Injection
<1>7. Cardinality(1 .. m) = m
  BY FS_Interval
<1> QED BY <1>1, <1>6, <1>7

(* The next player of a list comes into the heap.                          *)
LEMMA WithNextIs ==
  ASSUME NEW n \in Nat, NEW lists \in RankedLists(n), NEW heap \in Seq(HeapNodes),
         NEW a \in 1 .. n,
         NEW i \in Nat \ {0}
  PROVE  LET w == WithNext(lists, heap, a, i) IN
         /\ w \in Seq(HeapNodes)
         /\ i > Len(lists[a]) => w = heap
         /\ i <= Len(lists[a]) /\ Len(heap) < n =>
              /\ IsHeap(heap) => IsHeap(w)
              /\ ToSet(w) = ToSet(heap) \union {Element(lists, a, i)}
              /\ IsInjective(heap) /\ Element(lists, a, i) \notin ToSet(heap) => IsInjective(w)
<1>1. PICK l \in Nat : l = Len(lists[a])
  BY ListsAre
<1>2. Len(lists) = n
  BY ListsAre
<1>3. PICK w : w = WithNext(lists, heap, a, i)
  OBVIOUS
<1>4. CASE i > l
  <2>1. w = heap
    BY <1>1, <1>3, <1>4 DEF WithNext
  <2> QED BY <1>1, <1>3, <1>4, <2>1
<1>5. CASE ~(i > l)
  <2>1. PICK e \in HeapNodes : e = Element(lists, a, i)
    <3>1. i \in 1 .. Len(lists[a])
      BY <1>1, <1>5
    <3> QED BY <3>1, ElementIs
  <2>2. PICK m \in Nat : m = Len(heap) /\ heap \in [1 .. m -> HeapNodes]
    BY AsFunction
  <2>3. w = insertInMaxHeap(heap, n, e)
    BY <1>1, <1>2, <1>3, <1>5, <2>1 DEF WithNext
  <2>4. /\ m >= n => w = heap
        /\ m < n => /\ w \in [1 .. m + 1 -> HeapNodes] /\ (IsHeap(heap) => IsHeap(w))
                    /\ ToSet(w) = ToSet(heap) \union {e}
                    /\ IsInjective(heap) /\ e \notin ToSet(heap) => IsInjective(w)
    BY <2>2, <2>3, InsertIs
  <2>5. w \in Seq(HeapNodes)
    <3>1. m < n => w \in Seq(HeapNodes)
      <4>1. m + 1 \in Nat
        OBVIOUS
      <4> QED BY <2>4, <4>1, LengthOf
    <3> QED BY <2>4, <3>1
  <2> QED BY <1>1, <1>3, <1>5, <2>1, <2>2, <2>4, <2>5
<1> QED BY <1>4, <1>5

(* The heap has the first players of the lists before k. *)
FirstsUpTo(lists, k, h) ==
  /\ h \in Seq(HeapNodes) /\ IsHeap(h) /\ IsInjective(h)
  /\ \A e : e \in ToSet(h) <=>
              \E a \in 1 .. k : 1 <= Len(lists[a]) /\ e = Element(lists, a, 1)

(* The first player of the next list comes in. *)
LEMMA FirstComes ==
  ASSUME NEW n \in Nat, NEW lists \in RankedLists(n), NEW k \in 1 .. n, NEW h,
         FirstsUpTo(lists, k - 1, h)
  PROVE  FirstsUpTo(lists, k, WithNext(lists, h, k, 1))
<1>1. /\ h \in Seq(HeapNodes) /\ IsHeap(h) /\ IsInjective(h)
      /\ \A e : e \in ToSet(h) <=>
                  \E a \in 1 .. k - 1 : 1 <= Len(lists[a]) /\ e = Element(lists, a, 1)
  BY DEF FirstsUpTo
<1>2. ASSUME NEW a \in 1 .. k - 1, 1 <= Len(lists[a])
      PROVE  Element(lists, a, 1).array = a /\ a \in 1 .. n
  <2>1. a \in 1 .. n /\ 1 \in 1 .. Len(lists[a])
    BY <1>2, ListsAre
  <2> QED BY <2>1, ElementIs
<1>3. Len(h) <= k - 1
  <2> DEFINE f == [e \in ToSet(h) |-> e.array]
  <2>1. \A e \in ToSet(h) : \E a \in 1 .. k - 1 : e = Element(lists, a, 1) /\ e.array = a
    BY <1>1, <1>2
  <2>2. f \in [ToSet(h) -> 1 .. k - 1] /\ \A e \in ToSet(h) : f[e] = e.array
    BY <2>1
  <2>3. \A x, y \in ToSet(h) : f[x] = f[y] => x = y
    BY <2>1, <2>2
  <2> HIDE DEF f
  <2>4. IsFiniteSet(1 .. k - 1) /\ Cardinality(1 .. k - 1) = k - 1
    BY FS_Interval
  <2>5. Len(h) <= Cardinality(1 .. k - 1)
    BY ONLY <1>1, <2>2, <2>3, <2>4, NoLonger
  <2> QED BY <2>4, <2>5
<1>4. PICK w : w = WithNext(lists, h, k, 1)
  OBVIOUS
<1>5. Len(h) \in Nat /\ Len(h) < n
  BY <1>1, <1>3, LenProperties
<1>6. CASE 1 > Len(lists[k])
  <2>1. w = h
    BY <1>1, <1>4, <1>6, WithNextIs
  <2>2. \A a \in 1 .. k : 1 <= Len(lists[a]) => a \in 1 .. k - 1
    BY <1>6, ListsAre
  <2>3. \A a \in 1 .. k - 1 : a \in 1 .. k
    OBVIOUS
  <2> QED BY <1>1, <1>4, <2>1, <2>2, <2>3 DEF FirstsUpTo
<1>7. CASE ~(1 > Len(lists[k]))
  <2>1. 1 <= Len(lists[k]) /\ 1 \in 1 .. Len(lists[k])
    BY <1>7, ListsAre
  <2>2. PICK e : e = Element(lists, k, 1) /\ e.array = k
    BY <2>1, ElementIs
  <2>3. e \notin ToSet(h)
    BY <1>1, <1>2, <2>2
  <2>4. /\ w \in Seq(HeapNodes) /\ IsHeap(w) /\ IsInjective(w)
        /\ ToSet(w) = ToSet(h) \union {e}
    BY <1>1, <1>4, <1>5, <2>1, <2>2, <2>3, WithNextIs
  <2>5. \A a \in 1 .. k : a \in 1 .. k - 1 \/ a = k
    OBVIOUS
  <2>6. \A a \in 1 .. k - 1 : a \in 1 .. k
    OBVIOUS
  <2>7. ASSUME NEW x
        PROVE  x \in ToSet(w) <=>
                 \E a \in 1 .. k : 1 <= Len(lists[a]) /\ x = Element(lists, a, 1)
    <3>1. x \in ToSet(w) <=> x \in ToSet(h) \/ x = e
      BY <2>4
    <3>2. k \in 1 .. k
      OBVIOUS
    <3> QED BY ONLY <1>1, <2>1, <2>2, <2>5, <2>6, <3>1, <3>2, Zenon
  <2> QED BY <1>4, <2>4, <2>7 DEF FirstsUpTo
<1> QED BY <1>6, <1>7

(* The first loop of the display: lines 97-106. *)
LEMMA FirstsIs ==
  ASSUME NEW n \in Nat, NEW lists \in RankedLists(n)
  PROVE  FirstsUpTo(lists, n, Firsts(lists))
<1>1. Len(lists) = n
  BY ListsAre
<1> DEFINE X == Seq(HeapNodes)
           Makes(g) == [a \in 0 .. Len(lists) |->
                         IF a = 0 THEN <<>> ELSE WithNext(lists, g[a - 1], a, 1)]
           at == CHOOSE g : g = Makes(g)
<1>2. Firsts(lists) = at[Len(lists)]
  BY Zenon DEF Firsts
<1>3. \A a \in 1 .. n, h \in X : WithNext(lists, h, a, 1) \in X
  BY WithNextIs
<1>4. <<>> \in X
  BY EmptySeq
<1> HIDE DEF X
<1>5. \E g : g = Makes(g)
  <2> DEFINE G == [a \in 0 + 1 .. n |-> [h \in X |-> WithNext(lists, h, a, 1)]]
  <2>1. PICK f \in [0 + 1 .. n -> [X -> X]] :
          \A a \in 1 .. n : \A h \in X : f[a][h] = WithNext(lists, h, a, 1)
    <3>1. G \in [0 + 1 .. n -> [X -> X]]
      BY <1>3
    <3>2. \A a \in 1 .. n : \A h \in X : G[a][h] = WithNext(lists, h, a, 1)
      OBVIOUS
    <3> HIDE DEF G
    <3> QED BY <3>1, <3>2
  <2>2. PICK g : Passes(g, X, <<>>, 0, n, f)
    <3>1. Turns(f, X, 0, n) /\ 0 \in Nat /\ 0 <= n
      BY DEF Turns
    <3> QED BY ONLY <1>4, n \in Nat, <3>1, Loop
  <2> USE <2>2 DEF Passes
  <2>3. ASSUME NEW a \in 0 .. n
        PROVE  g[a] = IF a = 0 THEN <<>> ELSE WithNext(lists, g[a - 1], a, 1)
    <3>1. CASE a = 0
      BY <2>2, <3>1
    <3>2. CASE a # 0
      <4>1. a \in 1 .. n /\ a - 1 \in 0 .. n
        BY <3>2
      <4>2. g[a - 1] \in X
        BY <2>2, <4>1
      <4> QED BY <2>1, <2>2, <3>2, <4>1, <4>2
    <3> QED BY <3>1, <3>2
  <2>4. g = [a \in 0 .. n |-> g[a]]
    BY <2>2
  <2>5. g = Makes(g)
    BY <1>1, <2>3, <2>4
  <2> HIDE DEF Makes
  <2> QED BY <2>5
<1>6. at = Makes(at)
  <2> HIDE DEF Makes
  <2> QED BY <1>5, Zenon
<1> HIDE DEF at
<1>7. \A a \in 0 .. n : at[a] = IF a = 0 THEN <<>> ELSE WithNext(lists, at[a - 1], a, 1)
  BY <1>1, <1>6
<1> HIDE DEF Makes
<1> DEFINE S == {a \in 0 .. n : FirstsUpTo(lists, a, at[a])}
<1>8. 0 \in S
  <2>1. at[0] = <<>>
    BY <1>7
  <2>2. DOMAIN <<>> = {}
    OBVIOUS
  <2>3. <<>> \in Seq(HeapNodes)
    BY EmptySeq
  <2>4. IsHeap(<<>>)
    BY <2>2 DEF IsHeap, Ordered, Keys
  <2>5. IsInjective(<<>>) /\ ToSet(<<>>) = {}
    BY <2>2 DEF IsInjective, ToSet
  <2>6. 1 .. 0 = {}
    OBVIOUS
  <2>7. FirstsUpTo(lists, 0, <<>>)
    BY <2>3, <2>4, <2>5, <2>6, Zenon DEF FirstsUpTo
  <2> QED BY <2>1, <2>7
<1>9. ASSUME NEW a \in 0 + 1 .. n, a - 1 \in S PROVE a \in S
  <2>1. PICK h : h = at[a - 1]
    OBVIOUS
  <2>2. a \in 0 .. n /\ a # 0 /\ a \in 1 .. n
    OBVIOUS
  <2>3. FirstsUpTo(lists, a - 1, h)
    BY <1>9, <2>1
  <2>4. at[a] = WithNext(lists, h, a, 1)
    BY <1>7, <2>1, <2>2
  <2>5. FirstsUpTo(lists, a, WithNext(lists, h, a, 1))
    BY <2>2, <2>3, FirstComes
  <2> QED BY <2>2, <2>4, <2>5
<1>10. n \in S
  <2> HIDE DEF S
  <2>1. 0 .. n \subseteq S
    BY ONLY <1>8, <1>9, n \in Nat, 0 \in Nat, Upwards
  <2> QED BY <2>1
<1> QED BY <1>1, <1>2, <1>10

-----------------------------------------------------------------------------
(* The first t[a] players of each list a have been taken from it.  The heap *)
(* has the next of each, what is shown is what was taken.                  *)
Counts(lists, n, t) == t \in [1 .. n -> Nat] /\ \A a \in 1 .. n : t[a] <= Len(lists[a])
HasNext(lists, n, t, h) ==
  \A e : e \in ToSet(h) <=>
           \E a \in 1 .. n : t[a] + 1 <= Len(lists[a]) /\ e = Element(lists, a, t[a] + 1)
HasTaken(lists, n, t, q) ==
  \A e : e \in ToSet(q) <=> \E a \in 1 .. n : \E i \in 1 .. t[a] : e = Element(lists, a, i)
InRank(q) == \A i, k \in DOMAIN q : i < k => q[i].data.index >= q[k].data.index

(* Where the display is between two turns of its second loop. *)
Merging(lists, n, t, so) ==
  /\ Counts(lists, n, t)
  /\ so.heap \in Seq(HeapNodes) /\ IsHeap(so.heap) /\ IsInjective(so.heap)
  /\ HasNext(lists, n, t, so.heap)
  /\ so.shown \in Seq(HeapNodes) /\ IsInjective(so.shown)
  /\ HasTaken(lists, n, t, so.shown) /\ InRank(so.shown)
  /\ \A e \in ToSet(so.heap), s \in ToSet(so.shown) : s.data.index >= e.data.index

(* The root is from list a, of which one more is taken. *)
NextIs(lists, n, t, so, a, u) ==
  /\ so.heap # <<>> /\ t[a] + 1 <= Len(lists[a]) /\ so.heap[1] = Element(lists, a, t[a] + 1)
  /\ u = [t EXCEPT ![a] = t[a] + 1]

(* The root of a heap is its greatest node. *)
LEMMA TopIs ==
  ASSUME NEW h \in Seq(HeapNodes), IsHeap(h), h # <<>>
  PROVE  /\ h[1] \in HeapNodes /\ h[1] \in ToSet(h)
         /\ \A e \in ToSet(h) : e.data.index <= h[1].data.index
<1>1. PICK m \in Nat : m = Len(h) /\ h \in [1 .. m -> HeapNodes]
  BY AsFunction
<1>2. m # 0
  BY <1>1, EmptySeq
<1>3. PICK K \in [1 .. m -> Int] : K = Keys(h) /\ \A j \in 1 .. m : K[j] = h[j].data.index
  BY <1>1, KeysAre
<1>4. \A j \in 1 .. m : K[j] <= K[1]
  BY <1>3, RootIsGreatest DEF IsHeap
<1>5. 1 \in 1 .. m /\ DOMAIN h = 1 .. m
  BY <1>1, <1>2
<1>6. ASSUME NEW e \in ToSet(h) PROVE e.data.index <= h[1].data.index
  <2>1. PICK j \in 1 .. m : e = h[j]
    BY <1>5 DEF ToSet
  <2> QED BY <1>3, <1>4, <1>5, <2>1
<1>7. h[1] \in HeapNodes /\ h[1] \in ToSet(h)
  BY <1>1, <1>5 DEF ToSet
<1> QED BY <1>6, <1>7

(* What is in a list and what is its place there are known from a node.    *)
LEMMA SameElement ==
  ASSUME NEW n \in Nat, NEW lists \in RankedLists(n), NEW a \in 1 .. n, NEW b \in 1 .. n,
         NEW i \in 1 .. Len(lists[a]), NEW k \in 1 .. Len(lists[b]),
         Element(lists, a, i) = Element(lists, b, k)
  PROVE  a = b /\ i = k
<1>1. Element(lists, a, i).array = a /\ Element(lists, a, i).index = i
  BY ElementIs
<1>2. Element(lists, b, k).array = b /\ Element(lists, b, k).index = k
  BY ElementIs
<1> QED BY <1>1, <1>2

(* The root is taken from the heap, and the next of its list comes in.     *)
LEMMA HeapTurns ==
  ASSUME NEW n \in Nat, NEW lists \in RankedLists(n), NEW t, NEW so, Merging(lists, n, t, so),
         NEW a \in 1 .. n, NEW u, NextIs(lists, n, t, so, a, u),
         NEW w, w = WithNext(lists, deleteFromMaxHeap(so.heap), a, t[a] + 2)
  PROVE  /\ w \in Seq(HeapNodes) /\ IsHeap(w) /\ IsInjective(w)
         /\ HasNext(lists, n, u, w)
<1>0. /\ so.heap # <<>> /\ t[a] + 1 <= Len(lists[a]) /\ so.heap[1] = Element(lists, a, t[a] + 1)
      /\ u = [t EXCEPT ![a] = t[a] + 1]
  BY DEF NextIs
<1> USE <1>0
<1>1. /\ t \in [1 .. n -> Nat] /\ \A b \in 1 .. n : t[b] <= Len(lists[b])
      /\ so.heap \in Seq(HeapNodes) /\ IsHeap(so.heap) /\ IsInjective(so.heap)
      /\ \A e : e \in ToSet(so.heap) <=>
              \E b \in 1 .. n : t[b] + 1 <= Len(lists[b]) /\ e = Element(lists, b, t[b] + 1)
  BY DEF Merging, Counts, HasNext
<1>2. PICK h \in Seq(HeapNodes) : h = so.heap
  BY <1>1
<1>3. PICK m \in Nat \ {0} : m = Len(h) /\ h \in [1 .. m -> HeapNodes]
  <2>1. PICK m \in Nat : m = Len(h) /\ h \in [1 .. m -> HeapNodes]
    BY AsFunction
  <2>2. m # 0
    BY <1>2, <2>1, EmptySeq
  <2> QED BY <2>1, <2>2
<1>4. PICK top : top = h[1] /\ top = Element(lists, a, t[a] + 1)
  BY <1>2
<1>5. PICK r : r = deleteFromMaxHeap(h)
  OBVIOUS
<1>6. /\ r \in [1 .. m - 1 -> HeapNodes] /\ IsHeap(r) /\ IsInjective(r)
      /\ ToSet(r) = ToSet(h) \ {top}
  <2>1. IsHeap(h) /\ IsInjective(h)
    BY <1>1, <1>2
  <2> QED BY <1>3, <1>4, <1>5, <2>1, DeleteIs
<1>7. r \in Seq(HeapNodes) /\ Len(r) = m - 1
  <2>1. m - 1 \in Nat
    OBVIOUS
  <2> QED BY <1>6, <2>1, LengthOf
<1>8. \A b \in 1 .. n : t[b] \in Nat /\ Len(lists[b]) \in Nat
  BY <1>1, ListsAre
<1>9. ASSUME NEW b \in 1 .. n, t[b] + 1 <= Len(lists[b])
      PROVE  /\ Element(lists, b, t[b] + 1).array = b
             /\ Element(lists, b, t[b] + 1) = top => b = a
  <2>1. t[b] + 1 \in 1 .. Len(lists[b]) /\ t[a] + 1 \in 1 .. Len(lists[a])
    BY <1>8, <1>9
  <2>2. Element(lists, b, t[b] + 1).array = b /\ Element(lists, a, t[a] + 1).array = a
    BY <2>1, ElementIs
  <2> QED BY <1>4, <2>2
<1>10. \A e : e \in ToSet(r) <=>
         \E b \in 1 .. n : /\ b # a /\ t[b] + 1 <= Len(lists[b])
                           /\ e = Element(lists, b, t[b] + 1)
  <2>1. ASSUME NEW e
        PROVE  e \in ToSet(r) <=>
                 \E b \in 1 .. n : /\ b # a /\ t[b] + 1 <= Len(lists[b])
                                   /\ e = Element(lists, b, t[b] + 1)
    <3>1. e \in ToSet(r) <=> e # top /\ e \in ToSet(h)
      BY <1>6
    <3>2. e \in ToSet(h) <=>
            \E b \in 1 .. n : t[b] + 1 <= Len(lists[b]) /\ e = Element(lists, b, t[b] + 1)
      BY <1>1, <1>2
    <3> QED BY ONLY <1>4, <1>9, <3>1, <3>2, Zenon
  <2> QED BY <2>1
<1>11. Len(r) < n
  <2> DEFINE f == [e \in ToSet(r) |-> e.array]
             T == (1 .. n) \ {a}
  <2>1. \A e \in ToSet(r) : \E b \in T : e = Element(lists, b, t[b] + 1) /\ e.array = b
    BY <1>9, <1>10
  <2>2. IsFiniteSet(T) /\ Cardinality(T) = n - 1
    <3>1. IsFiniteSet(1 .. n) /\ Cardinality(1 .. n) = n
      BY FS_Interval
    <3> QED BY <3>1, FS_RemoveElement
  <2> HIDE DEF T
  <2>3. f \in [ToSet(r) -> T] /\ \A e \in ToSet(r) : f[e] = e.array
    BY <2>1
  <2>4. \A x, y \in ToSet(r) : f[x] = f[y] => x = y
    BY <2>1, <2>3
  <2> HIDE DEF f
  <2>5. Len(r) <= Cardinality(T)
    BY ONLY <1>6, <1>7, <2>2, <2>3, <2>4, NoLonger
  <2> QED BY <1>7, <2>2, <2>5
<1>12. /\ u[a] = t[a] + 1 /\ \A b \in 1 .. n : b # a => u[b] = t[b]
       /\ t[a] + 2 = u[a] + 1 /\ t[a] + 2 \in Nat \ {0}
  BY <1>1, <1>8
<1>13. PICK i \in Nat \ {0} : i = t[a] + 2 /\ i = u[a] + 1
  BY <1>12
<1>14. w = WithNext(lists, r, a, i)
  BY <1>2, <1>5, <1>13
<1>15. CASE i > Len(lists[a])
  <2>1. w = r
    BY <1>7, <1>14, <1>15, WithNextIs
  <2>2. ~(u[a] + 1 <= Len(lists[a]))
    BY <1>8, <1>13, <1>15
  <2>3. ASSUME NEW e
        PROVE  e \in ToSet(w) <=>
                 \E b \in 1 .. n : u[b] + 1 <= Len(lists[b]) /\ e = Element(lists, b, u[b] + 1)
    <3>1. \A b \in 1 .. n : b # a => u[b] = t[b]
      BY <1>12
    <3> QED BY ONLY a \in 1 .. n, <1>10, <2>1, <2>2, <3>1, Zenon
  <2> QED BY <1>6, <1>7, <2>1, <2>3 DEF HasNext
<1>16. CASE ~(i > Len(lists[a]))
  <2>1. i <= Len(lists[a]) /\ i \in 1 .. Len(lists[a])
    BY <1>8, <1>16
  <2>2. PICK x : x = Element(lists, a, i) /\ x.array = a
    BY <2>1, ElementIs
  <2>3. x \notin ToSet(r)
    BY <1>9, <1>10, <2>2
  <2>4. /\ w \in Seq(HeapNodes) /\ IsHeap(w) /\ IsInjective(w)
        /\ ToSet(w) = ToSet(r) \union {x}
    <3>1. /\ Element(lists, a, i) \notin ToSet(r)
          /\ IsHeap(r) /\ IsInjective(r) /\ r \in Seq(HeapNodes)
      BY <1>6, <1>7, <2>2, <2>3
    <3>2. /\ WithNext(lists, r, a, i) \in Seq(HeapNodes) /\ IsHeap(WithNext(lists, r, a, i))
          /\ IsInjective(WithNext(lists, r, a, i))
          /\ ToSet(WithNext(lists, r, a, i)) = ToSet(r) \union {Element(lists, a, i)}
      BY ONLY n \in Nat, lists \in RankedLists(n), a \in 1 .. n, i \in Nat \ {0}, <1>11, <2>1,
              <3>1, WithNextIs
    <3> QED BY <1>14, <2>2, <3>2
  <2>5. u[a] + 1 <= Len(lists[a]) /\ x = Element(lists, a, u[a] + 1)
    BY <1>13, <2>1, <2>2
  <2>6. ASSUME NEW e
        PROVE  e \in ToSet(w) <=>
                 \E b \in 1 .. n : u[b] + 1 <= Len(lists[b]) /\ e = Element(lists, b, u[b] + 1)
    <3>1. e \in ToSet(w) <=> e \in ToSet(r) \/ e = x
      BY <2>4
    <3>2. \A b \in 1 .. n : b # a => u[b] = t[b]
      BY <1>12
    <3> QED BY ONLY a \in 1 .. n, <1>10, <2>5, <3>1, <3>2, Zenon
  <2> QED BY <2>4, <2>6 DEF HasNext
<1> QED BY <1>15, <1>16

(* What is shown grows by the root. *)
LEMMA ShownGrows ==
  ASSUME NEW n \in Nat, NEW lists \in RankedLists(n), NEW t, NEW so, Merging(lists, n, t, so),
         NEW a \in 1 .. n, NEW u, NextIs(lists, n, t, so, a, u),
         NEW q, q = Append(so.shown, so.heap[1])
  PROVE  /\ q \in Seq(HeapNodes) /\ IsInjective(q) /\ Len(q) = Len(so.shown) + 1
         /\ ToSet(q) = ToSet(so.shown) \union {so.heap[1]}
         /\ HasTaken(lists, n, u, q) /\ InRank(q)
<1>0. /\ so.heap # <<>> /\ t[a] + 1 <= Len(lists[a]) /\ so.heap[1] = Element(lists, a, t[a] + 1)
      /\ u = [t EXCEPT ![a] = t[a] + 1]
  BY DEF NextIs
<1> USE <1>0
<1>1. /\ t \in [1 .. n -> Nat] /\ \A b \in 1 .. n : t[b] <= Len(lists[b])
      /\ so.heap \in Seq(HeapNodes) /\ IsHeap(so.heap)
      /\ so.shown \in Seq(HeapNodes) /\ IsInjective(so.shown)
      /\ \A e : e \in ToSet(so.shown) <=>
                  \E b \in 1 .. n : \E i \in 1 .. t[b] : e = Element(lists, b, i)
      /\ \A i, k \in DOMAIN so.shown :
           i < k => so.shown[i].data.index >= so.shown[k].data.index
      /\ \A e \in ToSet(so.heap), s \in ToSet(so.shown) : s.data.index >= e.data.index
  BY DEF Merging, Counts, HasTaken, InRank
<1>2. PICK s \in Seq(HeapNodes) : s = so.shown
  BY <1>1
<1>3. PICK top \in HeapNodes : top = so.heap[1] /\ top \in ToSet(so.heap)
  BY <1>1, TopIs
<1>4. \A b \in 1 .. n : t[b] \in Nat /\ Len(lists[b]) \in Nat /\ t[b] <= Len(lists[b])
  BY <1>1, ListsAre
<1>5. t[a] + 1 \in 1 .. Len(lists[a]) /\ t[a] + 1 \in Nat
  BY <1>4
<1>6. top \notin ToSet(s)
  <2>1. SUFFICES ASSUME top \in ToSet(s) PROVE FALSE
    OBVIOUS
  <2>0. PICK b \in 1 .. n : \E i \in 1 .. t[b] : top = Element(lists, b, i)
    BY <1>1, <1>2, <2>1
  <2>2. PICK i \in 1 .. t[b] : top = Element(lists, b, i)
    BY <2>0
  <2>3. i \in 1 .. Len(lists[b]) /\ i <= t[b]
    BY <1>4
  <2>4. Element(lists, b, i) = Element(lists, a, t[a] + 1)
    BY <1>3, <2>2
  <2>5. b = a /\ i = t[a] + 1
    BY ONLY n \in Nat, lists \in RankedLists(n), a \in 1 .. n, b \in 1 .. n, <1>5, <2>3, <2>4,
            SameElement
  <2> QED BY <1>4, <2>3, <2>5
<1>7. /\ q \in Seq(HeapNodes) /\ IsInjective(q) /\ ToSet(q) = ToSet(s) \union {top}
  BY <1>1, <1>2, <1>3, <1>6, EnQueue
<1>8. PICK l \in Nat : l = Len(s) /\ DOMAIN s = 1 .. l
  BY LenProperties
<1>9. /\ Len(q) = l + 1 /\ DOMAIN q = 1 .. l + 1 /\ q[l + 1] = top
      /\ \A i \in 1 .. l : q[i] = s[i]
  <2>1. q = Append(s, top)
    BY <1>2, <1>3
  <2>2. /\ Len(q) = l + 1 /\ q[l + 1] = top
        /\ \A i \in 1 .. l : q[i] = s[i]
    BY ONLY s \in Seq(HeapNodes), top \in HeapNodes, <1>8, <2>1, AppendProperties
  <2> QED BY <1>7, <2>2, LenProperties
<1>10. u[a] = t[a] + 1 /\ \A b \in 1 .. n : b # a => u[b] = t[b]
  BY <1>1
<1>11. ASSUME NEW e
       PROVE  e \in ToSet(q) <=>
                \E b \in 1 .. n : \E i \in 1 .. u[b] : e = Element(lists, b, i)
  <2>1. e \in ToSet(q) <=> e \in ToSet(s) \/ e = top
    BY <1>7
  <2>2. e \in ToSet(s) <=> \E b \in 1 .. n : \E i \in 1 .. t[b] : e = Element(lists, b, i)
    BY <1>1, <1>2
  <2>3. top = Element(lists, a, t[a] + 1)
    BY <1>3
  <2>4. \A i : i \in 1 .. u[a] <=> i \in 1 .. t[a] \/ i = t[a] + 1
    BY <1>4, <1>10
  <2>5. \A b \in 1 .. n : b # a => u[b] = t[b]
    BY <1>10
  <2>6. ASSUME e \in ToSet(q)
        PROVE  \E b \in 1 .. n : \E i \in 1 .. u[b] : e = Element(lists, b, i)
    <3>1. CASE e = top
      BY <2>3, <2>4, <3>1
    <3>2. CASE e \in ToSet(s)
      <4>0. PICK b \in 1 .. n : \E i \in 1 .. t[b] : e = Element(lists, b, i)
        BY <2>2, <3>2
      <4>1. PICK i \in 1 .. t[b] : e = Element(lists, b, i)
        BY <4>0
      <4>2. i \in 1 .. u[b]
        <5>1. CASE b = a
          BY <2>4, <5>1
        <5>2. CASE b # a
          BY <2>5, <5>2
        <5> QED BY <5>1, <5>2
      <4> QED BY <4>1, <4>2
    <3> QED BY <2>1, <2>6, <3>1, <3>2
  <2>7. ASSUME NEW b \in 1 .. n, NEW i \in 1 .. u[b], e = Element(lists, b, i)
        PROVE  e \in ToSet(q)
    <3>1. CASE i \in 1 .. t[b]
      BY <2>1, <2>2, <2>7, <3>1
    <3>2. CASE i \notin 1 .. t[b]
      <4>1. b = a
        BY <2>5, <3>2
      <4>2. i = t[a] + 1
        BY <2>4, <3>2, <4>1
      <4> QED BY <2>1, <2>3, <2>7, <4>1, <4>2
    <3> QED BY <3>1, <3>2
  <2> QED BY <2>6, <2>7
<1>12. ASSUME NEW i \in DOMAIN q, NEW k \in DOMAIN q, i < k
       PROVE  q[i].data.index >= q[k].data.index
  <2>1. i \in 1 .. l /\ q[i] = s[i] /\ s[i] \in ToSet(s)
    BY <1>8, <1>9, <1>12 DEF ToSet
  <2>2. CASE k \in 1 .. l
    <3>1. q[k] = s[k]
      BY <1>9, <2>2
    <3> QED BY <1>1, <1>2, <1>8, <1>12, <2>1, <2>2, <3>1
  <2>3. CASE k = l + 1
    BY <1>1, <1>2, <1>3, <1>9, <2>1, <2>3
  <2> QED BY <1>9, <2>2, <2>3
<1>13. Len(q) = Len(so.shown) + 1
  BY <1>2, <1>8, <1>9
<1>14. HasTaken(lists, n, u, q) /\ InRank(q)
  BY <1>11, <1>12 DEF HasTaken, InRank
<1> QED BY <1>2, <1>3, <1>7, <1>13, <1>14

(* One turn of the second loop: lines 108-124.                             *)
LEMMA ExtractedIs ==
  ASSUME NEW n \in Nat, NEW lists \in RankedLists(n), NEW t, NEW so, Merging(lists, n, t, so)
  PROVE  /\ so.heap = <<>> => Extracted(lists, so) = so
         /\ so.heap # <<>> =>
              /\ \E u : Merging(lists, n, u, Extracted(lists, so))
              /\ Len(Extracted(lists, so).shown) = Len(so.shown) + 1
              /\ Extracted(lists, so) \in [heap : Seq(HeapNodes), shown : Seq(HeapNodes)]
<1>1. so.heap = <<>> => Extracted(lists, so) = so
  BY DEF Extracted
<1>2. SUFFICES ASSUME so.heap # <<>>
      PROVE  /\ \E u : Merging(lists, n, u, Extracted(lists, so))
             /\ Len(Extracted(lists, so).shown) = Len(so.shown) + 1
             /\ Extracted(lists, so) \in [heap : Seq(HeapNodes), shown : Seq(HeapNodes)]
  BY <1>1
<1>3. /\ t \in [1 .. n -> Nat] /\ \A b \in 1 .. n : t[b] <= Len(lists[b])
      /\ so.heap \in Seq(HeapNodes) /\ IsHeap(so.heap) /\ IsInjective(so.heap)
      /\ \A e : e \in ToSet(so.heap) <=>
              \E b \in 1 .. n : t[b] + 1 <= Len(lists[b]) /\ e = Element(lists, b, t[b] + 1)
      /\ \A e \in ToSet(so.heap), s \in ToSet(so.shown) : s.data.index >= e.data.index
      /\ so.shown \in Seq(HeapNodes)
  BY DEF Merging, Counts, HasNext
<1>4. /\ so.heap[1] \in HeapNodes /\ so.heap[1] \in ToSet(so.heap)
      /\ \A e \in ToSet(so.heap) : e.data.index <= so.heap[1].data.index
  BY <1>2, <1>3, TopIs
<1>5. PICK top : top = so.heap[1]
  OBVIOUS
<1>6. PICK a \in 1 .. n : t[a] + 1 <= Len(lists[a]) /\ top = Element(lists, a, t[a] + 1)
  BY <1>3, <1>4, <1>5
<1>7. \A b \in 1 .. n : t[b] \in Nat /\ Len(lists[b]) \in Nat /\ t[b] <= Len(lists[b])
  BY <1>3, ListsAre
<1>8. /\ t[a] + 1 \in 1 .. Len(lists[a]) /\ top.array = a /\ top.index + 1 = t[a] + 2
      /\ top.data = lists[a][t[a] + 1]
  <2>1. t[a] + 1 \in 1 .. Len(lists[a])
    BY <1>6, <1>7
  <2>2. top.array = a /\ top.index = t[a] + 1 /\ top.data = lists[a][t[a] + 1]
    BY <1>6, <2>1, ElementIs
  <2> QED BY <1>7, <2>1, <2>2
<1>9. PICK u : u = [t EXCEPT ![a] = t[a] + 1]
  OBVIOUS
<1>10. PICK w : w = WithNext(lists, deleteFromMaxHeap(so.heap), a, t[a] + 2)
  OBVIOUS
<1>11. PICK q : q = Append(so.shown, so.heap[1])
  OBVIOUS
<1>12. PICK y : y = Extracted(lists, so)
  OBVIOUS
<1>13. y = [heap |-> w, shown |-> q]
  BY <1>2, <1>5, <1>8, <1>10, <1>11, <1>12 DEF Extracted
<1>14. y.heap = w /\ y.shown = q
  BY <1>13
<1>15. so.heap[1] = Element(lists, a, t[a] + 1)
  BY <1>5, <1>6
<1>23. NextIs(lists, n, t, so, a, u)
  BY <1>2, <1>6, <1>9, <1>15 DEF NextIs
<1>16. /\ w \in Seq(HeapNodes) /\ IsHeap(w) /\ IsInjective(w) /\ HasNext(lists, n, u, w)
  BY <1>10, <1>23, HeapTurns
<1>17. /\ q \in Seq(HeapNodes) /\ IsInjective(q) /\ Len(q) = Len(so.shown) + 1
       /\ ToSet(q) = ToSet(so.shown) \union {so.heap[1]}
       /\ HasTaken(lists, n, u, q) /\ InRank(q)
  BY <1>11, <1>23, ShownGrows
<1>18. /\ u \in [1 .. n -> Nat] /\ u[a] = t[a] + 1 /\ \A b \in 1 .. n : b # a => u[b] = t[b]
  BY <1>3, <1>7, <1>9
<1>19. \A b \in 1 .. n : u[b] <= Len(lists[b])
  BY <1>6, <1>7, <1>18
<1>20. ASSUME NEW e \in ToSet(w) PROVE e.data.index \in Int /\ top.data.index >= e.data.index
  <2>1. PICK b \in 1 .. n : u[b] + 1 <= Len(lists[b]) /\ e = Element(lists, b, u[b] + 1)
    BY <1>16 DEF HasNext
  <2>2. u[b] + 1 \in 1 .. Len(lists[b])
    BY <1>7, <1>18, <2>1
  <2>3. e.data = lists[b][u[b] + 1] /\ e.data.index \in Int
    BY <2>1, <2>2, ElementIs
  <2>4. CASE b = a
    <3>1. Descending(lists[a]) /\ DOMAIN lists[a] = 1 .. Len(lists[a])
      BY ListsAre
    <3>2. t[a] + 1 < u[a] + 1
      BY <1>7, <1>18
    <3>3. lists[a][t[a] + 1].index >= lists[a][u[a] + 1].index
      BY <1>8, <2>2, <2>4, <3>1, <3>2 DEF Descending
    <3> QED BY <1>8, <2>3, <2>4, <3>3
  <2>5. CASE b # a
    <3>1. t[b] + 1 <= Len(lists[b]) /\ e = Element(lists, b, t[b] + 1)
      BY <1>18, <2>1, <2>5
    <3>2. e \in ToSet(so.heap)
      BY <1>3, <3>1
    <3>3. top \in HeapNodes /\ top.data.index \in Int
      <4>1. top.data.index \in Int
        BY <1>6, <1>8, ElementIs
      <4> QED BY <1>4, <1>5, <4>1
    <3> QED BY <1>4, <1>5, <2>3, <3>2, <3>3
  <2> QED BY <2>4, <2>5
<1>21. ASSUME NEW e \in ToSet(w), NEW s \in ToSet(q) PROVE s.data.index >= e.data.index
  <2>1. top.data.index \in Int
    BY <1>6, <1>8, ElementIs
  <2>2. CASE s = top
    BY <1>20, <2>2
  <2>3. CASE s \in ToSet(so.shown)
    <3>1. s.data.index >= top.data.index
      BY <1>3, <1>4, <1>5, <2>3
    <3>2. s \in HeapNodes
      BY <1>3, <2>3, SetOfQueue
    <3>3. s.data.index \in Int
      BY <3>2 DEF HeapNodes, PlayerNodes
    <3> QED BY <1>20, <2>1, <3>1, <3>3
  <2> QED BY <1>5, <1>17, <2>2, <2>3
<1>22. Merging(lists, n, u, y)
  <2>1. Counts(lists, n, u)
    BY <1>18, <1>19 DEF Counts
  <2> QED BY <1>14, <1>16, <1>17, <1>21, <2>1 DEF Merging
<1>24. y \in [heap : Seq(HeapNodes), shown : Seq(HeapNodes)]
  BY <1>13, <1>16, <1>17
<1> QED BY <1>12, <1>14, <1>17, <1>22, <1>24

-----------------------------------------------------------------------------
(* The places in the lists, of which there are finitely many. *)
LEMMA EntriesAre ==
  ASSUME NEW n \in Nat, NEW lists \in RankedLists(n)
  PROVE  /\ IsFiniteSet(Entries(lists))
         /\ \A a \in 1 .. n : \A i \in 1 .. Len(lists[a]) : <<a, i>> \in Entries(lists)
<1>1. /\ DOMAIN lists = 1 .. n
      /\ \A a \in 1 .. n : Len(lists[a]) \in Nat /\ DOMAIN lists[a] = 1 .. Len(lists[a])
  BY ListsAre
<1> DEFINE f == [a \in 1 .. n |-> {a} \X DOMAIN lists[a]]
           T == {{a} \X DOMAIN lists[a] : a \in 1 .. n}
<1>2. Entries(lists) = UNION T
  BY <1>1 DEF Entries
<1>3. IsFiniteSet(T)
  <2>1. f \in [1 .. n -> T] /\ \A y \in T : \E a \in 1 .. n : f[a] = y
    OBVIOUS
  <2> HIDE DEF f, T
  <2>2. f \in Surjection(1 .. n, T)
    BY <2>1 DEF Surjection
  <2>3. IsFiniteSet(1 .. n)
    BY FS_Interval
  <2> QED BY <2>2, <2>3, FS_Surjection
<1>4. ASSUME NEW y \in T PROVE IsFiniteSet(y)
  <2>1. PICK a \in 1 .. n : y = {a} \X DOMAIN lists[a]
    OBVIOUS
  <2>2. PICK l \in Nat : DOMAIN lists[a] = 1 .. l
    BY <1>1
  <2>3. IsFiniteSet({a}) /\ IsFiniteSet(1 .. l)
    <3>1. IsFiniteSet({a})
      BY FS_Singleton
    <3>2. IsFiniteSet(1 .. l)
      BY FS_Interval
    <3> QED BY <3>1, <3>2
  <2>4. IsFiniteSet({a} \X (1 .. l))
    BY <2>3, FS_Product
  <2> QED BY <2>1, <2>2, <2>4
<1>5. IsFiniteSet(UNION T)
  <2>1. \A y \in T : IsFiniteSet(y)
    BY <1>4
  <2> HIDE DEF T
  <2> QED BY ONLY <1>3, <2>1, FS_UNION
<1>6. ASSUME NEW a \in 1 .. n, NEW i \in 1 .. Len(lists[a]) PROVE <<a, i>> \in UNION T
  <2>1. <<a, i>> \in {a} \X DOMAIN lists[a]
    BY <1>1
  <2>2. {a} \X DOMAIN lists[a] \in T
    OBVIOUS
  <2> HIDE DEF T
  <2> QED BY <2>1, <2>2
<1> HIDE DEF T
<1> QED BY <1>2, <1>5, <1>6

(* No more is shown than there is in the lists. *)
LEMMA NoMoreShown ==
  ASSUME NEW n \in Nat, NEW lists \in RankedLists(n), NEW t, NEW so, Merging(lists, n, t, so)
  PROVE  Len(so.shown) <= Cardinality(Entries(lists))
<1>1. PICK q : q = so.shown
  OBVIOUS
<1>2. Counts(lists, n, t) /\ q \in Seq(HeapNodes) /\ IsInjective(q) /\ HasTaken(lists, n, t, q)
  BY <1>1 DEF Merging
<1>3. PICK T : T = Entries(lists)
  OBVIOUS
<1>4. /\ IsFiniteSet(T)
      /\ \A a \in 1 .. n : \A i \in 1 .. Len(lists[a]) : <<a, i>> \in T
  BY <1>3, EntriesAre
<1> DEFINE f == [e \in ToSet(q) |-> <<e.array, e.index>>]
<1>5. ASSUME NEW e \in ToSet(q)
      PROVE  \E a \in 1 .. n : \E i \in 1 .. Len(lists[a]) :
               e = Element(lists, a, i) /\ e.array = a /\ e.index = i
  <2>1. PICK a \in 1 .. n : \E i \in 1 .. t[a] : e = Element(lists, a, i)
    BY <1>2 DEF HasTaken
  <2>2. PICK i \in 1 .. t[a] : e = Element(lists, a, i)
    BY <2>1
  <2>3. i \in 1 .. Len(lists[a])
    <3>1. t[a] \in Nat /\ t[a] <= Len(lists[a]) /\ Len(lists[a]) \in Nat
      BY <1>2, ListsAre DEF Counts
    <3> QED BY <3>1
  <2> QED BY <2>2, <2>3, ElementIs
<1>6. f \in [ToSet(q) -> T]
  <2>1. \A e \in ToSet(q) : <<e.array, e.index>> \in T
    BY <1>4, <1>5
  <2> QED BY <2>1
<1>7. ASSUME NEW x \in ToSet(q), NEW y \in ToSet(q), f[x] = f[y] PROVE x = y
  <2>1. x.array = y.array /\ x.index = y.index
    BY <1>7
  <2>2. PICK a \in 1 .. n : \E i \in 1 .. Len(lists[a]) :
               x = Element(lists, a, i) /\ x.array = a /\ x.index = i
    BY <1>5
  <2>3. PICK b \in 1 .. n : \E i \in 1 .. Len(lists[b]) :
               y = Element(lists, b, i) /\ y.array = b /\ y.index = i
    BY <1>5
  <2> QED BY <2>1, <2>2, <2>3
<1> HIDE DEF f
<1>8. Len(q) <= Cardinality(T)
  BY ONLY <1>2, <1>4, <1>6, <1>7, NoLonger
<1> QED BY <1>1, <1>3, <1>8

(* What the second loop goes through. *)
Merges(lists, n) ==
  {so \in [heap : Seq(HeapNodes), shown : Seq(HeapNodes)] : \E t : Merging(lists, n, t, so)}

(* The second loop starts with the first players of the lists. *)
LEMMA MergeStarts ==
  ASSUME NEW n \in Nat, NEW lists \in RankedLists(n)
  PROVE  [heap |-> Firsts(lists), shown |-> <<>>] \in Merges(lists, n)
<1>1. PICK h : h = Firsts(lists)
  OBVIOUS
<1>2. FirstsUpTo(lists, n, h)
  BY <1>1, FirstsIs
<1>3. PICK t : t = [a \in 1 .. n |-> 0]
  OBVIOUS
<1>4. t \in [1 .. n -> Nat] /\ \A a \in 1 .. n : t[a] = 0 /\ t[a] + 1 = 1
  BY <1>3
<1>5. Counts(lists, n, t)
  BY <1>4, ListsAre DEF Counts
<1>6. HasNext(lists, n, t, h)
  BY <1>2, <1>4 DEF HasNext, FirstsUpTo
<1>7. /\ <<>> \in Seq(HeapNodes) /\ DOMAIN <<>> = {}
  BY EmptySeq
<1>8. IsInjective(<<>>) /\ InRank(<<>>) /\ ToSet(<<>>) = {}
  BY <1>7 DEF IsInjective, InRank, ToSet
<1>9. HasTaken(lists, n, t, <<>>)
  BY <1>4, <1>8 DEF HasTaken
<1>10. PICK so : so = [heap |-> h, shown |-> <<>>]
  OBVIOUS
<1>11. so.heap = h /\ so.shown = <<>> /\ so \in [heap : Seq(HeapNodes), shown : Seq(HeapNodes)]
  BY <1>2, <1>7, <1>10 DEF FirstsUpTo
<1>12. Merging(lists, n, t, so)
  BY <1>2, <1>5, <1>6, <1>7, <1>8, <1>9, <1>11 DEF Merging, FirstsUpTo
<1> QED BY <1>1, <1>10, <1>11, <1>12 DEF Merges

(* The second loop ends when the heap is empty.                            *)
LEMMA MergeEnds ==
  ASSUME NEW n \in Nat, NEW lists \in RankedLists(n)
  PROVE  \E so \in Merges(lists, n) :
           /\ so.heap = <<>>
           /\ printMergedSortedPlayers(lists) = [k \in DOMAIN so.shown |-> so.shown[k].data]
<1>1. PICK m \in Nat : m = Cardinality(Entries(lists))
  <2>1. Cardinality(Entries(lists)) \in Nat
    BY EntriesAre, FS_CardinalityType
  <2> QED BY <2>1
<1>2. PICK X : X = Merges(lists, n)
  OBVIOUS
<1>3. PICK c \in X : c = [heap |-> Firsts(lists), shown |-> <<>>]
  BY <1>2, MergeStarts
<1> DEFINE Follows(g) == [k \in 0 .. Cardinality(Entries(lists)) |->
             IF k = 0 THEN [heap |-> Firsts(lists), shown |-> <<>>]
             ELSE Extracted(lists, g[k - 1])]
           at == CHOOSE g : g = Follows(g)
<1>4. printMergedSortedPlayers(lists) =
        [k \in DOMAIN at[Cardinality(Entries(lists))].shown |->
           at[Cardinality(Entries(lists))].shown[k].data]
  BY Zenon DEF printMergedSortedPlayers
<1>5. ASSUME NEW x \in X
      PROVE  /\ Extracted(lists, x) \in X
             /\ x.heap = <<>> => Extracted(lists, x) = x
             /\ x.heap # <<>> => Len(Extracted(lists, x).shown) = Len(x.shown) + 1
  <2>1. PICK t : Merging(lists, n, t, x)
    BY <1>2 DEF Merges
  <2> QED BY <1>2, <2>1, ExtractedIs, SMTT(20) DEF Merges
<1>6. \E g : g = Follows(g)
  <2>1. PICK F \in [X -> X] : \A x \in X : F[x] = Extracted(lists, x)
    <3> DEFINE G == [x \in X |-> Extracted(lists, x)]
    <3>1. G \in [X -> X] /\ \A x \in X : G[x] = Extracted(lists, x)
      BY <1>5
    <3> HIDE DEF G
    <3> QED BY <3>1
  <2>2. PICK g : Repeated(g, X, c, m, F)
    BY Repeats
  <2> USE <2>2 DEF Repeated
  <2>3. ASSUME NEW k \in 0 .. m PROVE g[k] = IF k = 0 THEN c ELSE Extracted(lists, g[k - 1])
    <3>1. CASE k = 0
      BY <2>2, <3>1
    <3>2. CASE k # 0
      <4>1. k - 1 \in 0 .. m
        BY <3>2
      <4>2. g[k - 1] \in X
        BY <2>2, <4>1
      <4> QED BY <2>1, <2>2, <3>2, <4>2
    <3> QED BY <3>1, <3>2
  <2>4. g = [k \in 0 .. m |-> g[k]]
    BY <2>2
  <2>5. g = Follows(g)
    BY <1>1, <1>3, <2>3, <2>4
  <2> HIDE DEF Follows
  <2> QED BY <2>5
<1>7. at = Follows(at)
  <2> HIDE DEF Follows
  <2> QED BY <1>6, Zenon
<1> HIDE DEF at
<1>8. \A k \in 0 .. m : at[k] = IF k = 0 THEN c ELSE Extracted(lists, at[k - 1])
  BY <1>1, <1>3, <1>7
<1> HIDE DEF Follows
<1> DEFINE S == {k \in 0 .. m : at[k] \in X /\ (at[k].heap = <<>> \/ Len(at[k].shown) = k)}
<1>9. 0 \in S
  <2>1. at[0] = c /\ c.shown = <<>>
    BY <1>3, <1>8
  <2> QED BY <2>1, EmptySeq
<1>10. ASSUME NEW k \in 0 + 1 .. m, k - 1 \in S PROVE k \in S
  <2>1. PICK x \in X : x = at[k - 1] /\ (x.heap = <<>> \/ Len(x.shown) = k - 1)
    BY <1>10
  <2>2. k \in 0 .. m /\ k # 0 /\ k - 1 + 1 = k
    OBVIOUS
  <2>3. at[k] = Extracted(lists, x)
    BY <1>8, <2>1, <2>2
  <2>4. CASE x.heap = <<>>
    BY <1>5, <2>1, <2>2, <2>3, <2>4
  <2>5. CASE x.heap # <<>>
    BY <1>5, <2>1, <2>2, <2>3, <2>5
  <2> QED BY <2>4, <2>5
<1>11. m \in S
  <2> HIDE DEF S
  <2>1. 0 .. m \subseteq S
    BY ONLY <1>9, <1>10, m \in Nat, 0 \in Nat, Upwards
  <2> QED BY <2>1
<1>12. PICK so \in X : so = at[m] /\ (so.heap = <<>> \/ Len(so.shown) = m)
  BY <1>11
<1>13. so.heap = <<>>
  <2>1. SUFFICES ASSUME so.heap # <<>> PROVE FALSE
    OBVIOUS
  <2>2. PICK y \in X : y = Extracted(lists, so) /\ Len(y.shown) = m + 1
    BY <1>5, <1>12, <2>1
  <2>3. PICK t : Merging(lists, n, t, y)
    BY <1>2 DEF Merges
  <2>4. Len(y.shown) <= m
    BY <1>1, <2>3, NoMoreShown
  <2> QED BY <2>2, <2>4
<1> QED BY <1>1, <1>2, <1>4, <1>12, <1>13

-----------------------------------------------------------------------------
(* No player is in two places. *)
NoneTwice(lists, n) ==
  \A a, b \in 1 .. n : \A i \in 1 .. Len(lists[a]) : \A k \in 1 .. Len(lists[b]) :
    lists[a][i].playerID = lists[b][k].playerID => a = b /\ i = k

(* The lists are merged into one that is ranked and has each player once:  *)
(* printMergedSortedPlayers (max_heap.c:79-127).                           *)
LEMMA MergedIs ==
  ASSUME NEW n \in Nat, NEW lists \in RankedLists(n), NoneTwice(lists, n)
  PROVE  LET q == printMergedSortedPlayers(lists) IN
         /\ Descending(q) /\ Once(q)
         /\ \A p : p \in ToSet(q) <=> \E a \in 1 .. n : p \in ToSet(lists[a])
<1>1. PICK so \in Merges(lists, n) :
        /\ so.heap = <<>>
        /\ printMergedSortedPlayers(lists) = [k \in DOMAIN so.shown |-> so.shown[k].data]
  BY MergeEnds
<1>2. PICK t : Merging(lists, n, t, so)
  BY DEF Merges
<1>3. PICK s \in Seq(HeapNodes) :
        s = so.shown /\ IsInjective(s) /\ HasTaken(lists, n, t, s) /\ InRank(s)
  BY <1>2 DEF Merging
<1>4. PICK m \in Nat : m = Len(s) /\ s \in [1 .. m -> HeapNodes]
  BY AsFunction
<1>5. PICK q : q = printMergedSortedPlayers(lists)
  OBVIOUS
<1>6. q = [k \in 1 .. m |-> s[k].data]
  BY <1>1, <1>3, <1>4, <1>5
<1>7. /\ q \in [1 .. m -> PlayerNodes] /\ \A k \in 1 .. m : q[k] = s[k].data
  <2>1. ASSUME NEW k \in 1 .. m PROVE s[k].data \in PlayerNodes
    <3>1. s[k] \in HeapNodes
      BY <1>4
    <3> QED BY <3>1 DEF HeapNodes
  <2> QED BY <1>6, <2>1
<1>8. Len(q) = m /\ DOMAIN q = 1 .. m /\ DOMAIN s = 1 .. m
  BY <1>4, <1>7, LengthOf
<1>9. Descending(q)
  BY <1>3, <1>7, <1>8 DEF Descending, InRank
<1>10. \A a \in 1 .. n : t[a] \in Nat /\ t[a] = Len(lists[a])
  <2>1. ASSUME NEW a \in 1 .. n PROVE t[a] \in Nat /\ t[a] = Len(lists[a])
    <3>1. t[a] \in Nat /\ Len(lists[a]) \in Nat /\ t[a] <= Len(lists[a])
      BY <1>2, ListsAre DEF Merging, Counts
    <3>2. ToSet(so.heap) = {}
      BY <1>1 DEF ToSet
    <3>3. ~(t[a] + 1 <= Len(lists[a]))
      <4>1. HasNext(lists, n, t, so.heap)
        BY <1>2 DEF Merging
      <4> QED BY <3>2, <4>1, Zenon DEF HasNext
    <3> QED BY <3>1, <3>3
  <2> QED BY <2>1
<1>11. ASSUME NEW k \in 1 .. m
       PROVE  \E a \in 1 .. n : \E i \in 1 .. Len(lists[a]) :
                s[k] = Element(lists, a, i) /\ q[k] = lists[a][i]
  <2>1. s[k] \in ToSet(s)
    BY <1>8 DEF ToSet
  <2>2. PICK a \in 1 .. n : \E i \in 1 .. t[a] : s[k] = Element(lists, a, i)
    BY <1>3, <2>1 DEF HasTaken
  <2>3. PICK i \in 1 .. Len(lists[a]) : s[k] = Element(lists, a, i)
    BY <1>10, <2>2
  <2>4. s[k].data = lists[a][i]
    BY <2>3, ElementIs
  <2> QED BY <1>7, <2>3, <2>4
<1>12. ASSUME NEW p PROVE p \in ToSet(q) <=> \E a \in 1 .. n : p \in ToSet(lists[a])
  <2>1. \A a \in 1 .. n : DOMAIN lists[a] = 1 .. Len(lists[a])
    BY ListsAre
  <2>2. ASSUME p \in ToSet(q) PROVE \E a \in 1 .. n : p \in ToSet(lists[a])
    <3>1. PICK k \in 1 .. m : p = q[k]
      BY <1>8, <2>2 DEF ToSet
    <3>2. PICK a \in 1 .. n : \E i \in 1 .. Len(lists[a]) : q[k] = lists[a][i]
      BY <1>11
    <3> QED BY <2>1, <3>1, <3>2 DEF ToSet
  <2>3. ASSUME NEW a \in 1 .. n, p \in ToSet(lists[a]) PROVE p \in ToSet(q)
    <3>1. PICK i \in 1 .. Len(lists[a]) : p = lists[a][i]
      BY <2>1, <2>3 DEF ToSet
    <3>2. Element(lists, a, i).data = p
      BY <3>1, ElementIs
    <3>3. Element(lists, a, i) \in ToSet(s)
      BY <1>3, <1>10 DEF HasTaken
    <3>4. PICK k \in 1 .. m : s[k] = Element(lists, a, i)
      BY <1>8, <3>3 DEF ToSet
    <3>5. q[k] = p
      BY <1>7, <3>2, <3>4
    <3> QED BY <1>8, <3>5 DEF ToSet
  <2> QED BY <2>2, <2>3
<1>13. Once(q)
  <2> DEFINE g == [k \in 1 .. m |-> q[k].playerID]
             T == {q[k].playerID : k \in 1 .. m}
  <2>1. g \in [1 .. m -> T] /\ (\A y \in T : \E k \in 1 .. m : g[k] = y)
        /\ \A k \in 1 .. m : g[k] = q[k].playerID
    OBVIOUS
  <2>2. ASSUME NEW i \in 1 .. m, NEW k \in 1 .. m, q[i].playerID = q[k].playerID PROVE i = k
    <3>1. PICK a \in 1 .. n : \E j \in 1 .. Len(lists[a]) :
            s[i] = Element(lists, a, j) /\ q[i] = lists[a][j]
      BY <1>11
    <3>2. PICK j \in 1 .. Len(lists[a]) : s[i] = Element(lists, a, j) /\ q[i] = lists[a][j]
      BY <3>1
    <3>3. PICK b \in 1 .. n : \E l \in 1 .. Len(lists[b]) :
            s[k] = Element(lists, b, l) /\ q[k] = lists[b][l]
      BY <1>11
    <3>4. PICK l \in 1 .. Len(lists[b]) : s[k] = Element(lists, b, l) /\ q[k] = lists[b][l]
      BY <3>3
    <3>5. a = b /\ j = l
      BY <2>2, <3>2, <3>4 DEF NoneTwice
    <3>6. s[i] = s[k]
      BY <3>2, <3>4, <3>5
    <3> QED BY <1>3, <1>8, <3>6 DEF IsInjective
  <2> HIDE DEF g, T
  <2>3. g \in Bijection(1 .. m, T)
    BY <2>1, <2>2 DEF Bijection, Injection, Surjection, IsInjective
  <2>4. Cardinality(T) = m
    BY <2>3, FS_CountingElements DEF ExistsBijection
  <2> QED BY <1>8, <2>4 DEF Once, T
<1> QED BY <1>5, <1>9, <1>12, <1>13

-----------------------------------------------------------------------------
(* A player of the data is a node of the lists. *)
LEMMA PlayerIs ==
  ASSUME NEW id \in PlayerIDs, NEW name \in 0 .. teamCount, NEW s \in Careers
  PROVE  /\ Player(id, name, s) \in PlayerNodes /\ s.role \in Roles
         /\ Player(id, name, s).role = s.role /\ Player(id, name, s).playerID = id
<1>1. /\ s.role \in Roles /\ s.battingAverage \in Nat /\ s.strikeRate \in Nat
      /\ s.wickets \in Nat /\ s.economyRate \in Nat
  BY TeamsAssumption
<1>2. s.battingAverage * s.strikeRate \in Int /\ 200 * s.wickets \in Int
  BY <1>1
<1>3. calculatePerformanceIndex(s) \in Int
  <2>1. CASE s.role = "Batsman"
    BY <1>2, <2>1 DEF calculatePerformanceIndex
  <2>2. CASE s.role = "Bowler"
    BY <1>1, <1>2, <2>2 DEF calculatePerformanceIndex
  <2>3. CASE s.role = "All-rounder"
    BY <1>2, <2>3 DEF calculatePerformanceIndex
  <2> QED BY <1>1, <2>1, <2>2, <2>3 DEF Roles
<1> QED BY <1>1, <1>3 DEF Player, PlayerNodes

(* The new player p is at c, and those from there on are one further. *)
Inserted(q, c, p, w) ==
  /\ c \in 1 .. Len(q) + 1 /\ Len(w) = Len(q) + 1 /\ w[c] = p
  /\ \A k \in 1 .. Len(w) : k < c => w[k] = q[k]
  /\ \A k \in 1 .. Len(w) : k > c => w[k] = q[k - 1]

(* InsertAt makes room at c. *)
LEMMA InsertAtIs ==
  ASSUME NEW S, NEW q \in Seq(S), NEW c \in 1 .. Len(q) + 1, NEW p \in S
  PROVE  InsertAt(q, c, p) \in Seq(S) /\ Inserted(q, c, p, InsertAt(q, c, p))
<1>1. PICK m \in Nat : m = Len(q) /\ q \in [1 .. m -> S]
  BY AsFunction
<1>2. PICK a : a = SubSeq(q, 1, c - 1)
  OBVIOUS
<1>3. PICK b : b = SubSeq(q, c, Len(q))
  OBVIOUS
<1>4. a \in Seq(S) /\ Len(a) = c - 1 /\ \A i \in 1 .. c - 1 : a[i] = q[i]
  <2>1. \A i \in 1 .. c - 1 : q[i] \in S
    BY <1>1
  <2>2. /\ SubSeq(q, 1, c - 1) \in Seq(S)
        /\ Len(SubSeq(q, 1, c - 1)) = IF 1 <= c - 1 THEN (c - 1) - 1 + 1 ELSE 0
        /\ \A i \in 1 .. (c - 1) - 1 + 1 : SubSeq(q, 1, c - 1)[i] = q[1 + i - 1]
    BY <2>1, SubSeqProperties
  <2> QED BY <1>1, <1>2, <2>2
<1>5. b \in Seq(S) /\ Len(b) = m + 1 - c /\ \A i \in 1 .. m + 1 - c : b[i] = q[c + i - 1]
  <2>1. \A i \in c .. m : q[i] \in S
    BY <1>1
  <2>2. /\ SubSeq(q, c, m) \in Seq(S)
        /\ Len(SubSeq(q, c, m)) = IF c <= m THEN m - c + 1 ELSE 0
        /\ \A i \in 1 .. m - c + 1 : SubSeq(q, c, m)[i] = q[c + i - 1]
    BY <2>1, SubSeqProperties
  <2> QED BY <1>1, <1>3, <2>2
<1>6. <<p>> \in Seq(S) /\ Len(<<p>>) = 1 /\ <<p>>[1] = p
  OBVIOUS
<1>7. PICK d : d = a \o <<p>>
  OBVIOUS
<1>8. d \in Seq(S) /\ Len(d) = c /\ \A i \in 1 .. c : d[i] = IF i <= c - 1 THEN a[i] ELSE p
  <2>1. /\ a \o <<p>> \in Seq(S) /\ Len(a \o <<p>>) = Len(a) + Len(<<p>>)
        /\ \A i \in 1 .. Len(a) + Len(<<p>>) :
             (a \o <<p>>)[i] = IF i <= Len(a) THEN a[i] ELSE <<p>>[i - Len(a)]
    BY <1>4, <1>6, ConcatProperties
  <2>2. \A i \in 1 .. c : d[i] = IF i <= c - 1 THEN a[i] ELSE <<p>>[i - (c - 1)]
    BY <1>4, <1>6, <1>7, <2>1
  <2>3. \A i \in 1 .. c : ~(i <= c - 1) => i - (c - 1) = 1
    OBVIOUS
  <2> QED BY <1>4, <1>6, <1>7, <2>1, <2>2, <2>3
<1>9. PICK w : w = d \o b
  OBVIOUS
<1>10. w \in Seq(S) /\ Len(w) = m + 1
       /\ \A i \in 1 .. m + 1 : w[i] = IF i <= c THEN d[i] ELSE b[i - c]
  <2>1. /\ d \o b \in Seq(S) /\ Len(d \o b) = Len(d) + Len(b)
        /\ \A i \in 1 .. Len(d) + Len(b) :
             (d \o b)[i] = IF i <= Len(d) THEN d[i] ELSE b[i - Len(d)]
    BY <1>5, <1>8, ConcatProperties
  <2> QED BY <1>1, <1>5, <1>8, <1>9, <2>1
<1>11. w = InsertAt(q, c, p)
  BY <1>2, <1>3, <1>7, <1>9 DEF InsertAt
<1>12. c \in 1 .. m + 1
  BY <1>1
<1>13. w[c] = p
  BY <1>8, <1>10, <1>12
<1>14. ASSUME NEW k \in 1 .. m + 1, k < c PROVE w[k] = q[k]
  BY <1>4, <1>8, <1>10, <1>12, <1>14, SMTT(20)
<1>15. ASSUME NEW k \in 1 .. m + 1, k > c PROVE w[k] = q[k - 1]
  <2>1. PICK l \in 1 .. m + 1 - c : l = k - c /\ c + l - 1 = k - 1
    BY <1>12, <1>15
  <2>2. b[l] = q[c + l - 1]
    BY <1>5
  <2>3. w[k] = b[k - c]
    BY <1>10, <1>12, <1>15
  <2> QED BY <2>1, <2>2, <2>3
<1> QED BY <1>1, <1>10, <1>11, <1>12, <1>13, <1>14, <1>15 DEF Inserted

(* A list stays ranked: insertPlayerByPerformanceIndex                     *)
(* (ICC_Player_Performance_Analyzer.c).                                    *)
LEMMA InsertedByIndex ==
  ASSUME NEW q \in Seq(PlayerNodes), Descending(q), NEW p \in PlayerNodes
  PROVE  LET w == insertPlayerByPerformanceIndex(q, p) IN
         /\ w \in Seq(PlayerNodes) /\ Descending(w)
         /\ \E c \in 1 .. Len(q) + 1 : Inserted(q, c, p, w)
<1>1. PICK m \in Nat : m = Len(q) /\ q \in [1 .. m -> PlayerNodes]
  BY AsFunction
<1>2. DOMAIN q = 1 .. m
  BY <1>1
<1>3. p.index \in Int /\ \A k \in 1 .. m : q[k].index \in Int
  BY <1>1 DEF PlayerNodes
<1> DEFINE Behind(i) == /\ \A k \in 1 .. i - 1 : q[k].index >= p.index
                        /\ i \in DOMAIN q => p.index > q[i].index
           c == CHOOSE i \in 1 .. Len(q) + 1 : Behind(i)
<1>4. \E i \in 1 .. Len(q) + 1 : Behind(i)
  <2> DEFINE I == {i \in 1 .. m + 1 : i \in 1 .. m => p.index > q[i].index}
  <2>1. I \subseteq Nat /\ m + 1 \in I
    OBVIOUS
  <2>2. PICK i \in I : \A y \in I : i <= y
    <3> HIDE DEF I
    <3> QED BY <2>1, Least
  <2>3. ASSUME NEW k \in 1 .. i - 1 PROVE q[k].index >= p.index
    <3>1. k \in 1 .. m /\ k \notin I
      BY <2>2
    <3>2. ~(p.index > q[k].index)
      BY <3>1
    <3> QED BY <1>3, <3>1, <3>2
  <2>4. i \in DOMAIN q => p.index > q[i].index
    BY <1>2
  <2>5. i \in 1 .. Len(q) + 1
    BY <1>1
  <2> QED BY <2>3, <2>4, <2>5
<1>5. c \in 1 .. Len(q) + 1 /\ Behind(c)
  <2> HIDE DEF Behind
  <2> QED BY <1>4
<1>6. insertPlayerByPerformanceIndex(q, p) = InsertAt(q, c, p)
  BY Zenon DEF insertPlayerByPerformanceIndex
<1>7. /\ \A k \in 1 .. c - 1 : q[k].index >= p.index
      /\ c \in 1 .. m => p.index > q[c].index
  BY <1>2, <1>5
<1> HIDE DEF c, Behind
<1>8. PICK w : w = InsertAt(q, c, p)
  OBVIOUS
<1>9. w \in Seq(PlayerNodes) /\ Inserted(q, c, p, w)
  BY <1>5, <1>8, InsertAtIs
<1>10. c \in 1 .. m + 1 /\ DOMAIN w = 1 .. m + 1
  BY <1>1, <1>5, <1>9, LenProperties DEF Inserted
<1>11. /\ w[c] = p
       /\ \A k \in 1 .. m + 1 : k < c => w[k] = q[k]
       /\ \A k \in 1 .. m + 1 : k > c => w[k] = q[k - 1]
  BY <1>1, <1>9 DEF Inserted
<1>12. \A i, k \in 1 .. m : i < k => q[i].index >= q[k].index
  BY <1>2 DEF Descending
<1>13. ASSUME NEW i \in 1 .. m + 1, NEW k \in 1 .. m + 1, i < k
       PROVE  w[i].index >= w[k].index
  <2>1. CASE k < c
    <3>1. w[i] = q[i] /\ w[k] = q[k] /\ i \in 1 .. m /\ k \in 1 .. m
      BY <1>10, <1>11, <1>13, <2>1
    <3> QED BY <1>12, <1>13, <3>1
  <2>2. CASE k = c
    <3>1. w[i] = q[i] /\ w[k] = p /\ i \in 1 .. c - 1
      BY <1>10, <1>11, <1>13, <2>2
    <3> QED BY <1>7, <3>1
  <2>3. CASE k > c /\ i < c
    <3>1. w[i] = q[i] /\ w[k] = q[k - 1] /\ i \in 1 .. m /\ k - 1 \in 1 .. m /\ i \in 1 .. c - 1
          /\ c \in 1 .. m
      BY <1>10, <1>11, <1>13, <2>3
    <3>2. q[i].index >= p.index /\ p.index > q[c].index
      BY <1>7, <3>1
    <3>3. c = k - 1 \/ q[c].index >= q[k - 1].index
      BY <1>10, <1>12, <2>3, <3>1
    <3> QED BY <1>3, <3>1, <3>2, <3>3
  <2>4. CASE k > c /\ i = c
    <3>1. w[i] = p /\ w[k] = q[k - 1] /\ k - 1 \in 1 .. m /\ c \in 1 .. m
      BY <1>10, <1>11, <1>13, <2>4
    <3>2. p.index > q[c].index
      BY <1>7, <3>1
    <3>3. c = k - 1 \/ q[c].index >= q[k - 1].index
      BY <1>10, <1>12, <2>4, <3>1
    <3> QED BY <1>3, <3>1, <3>2, <3>3
  <2>5. CASE k > c /\ i > c
    <3>1. w[i] = q[i - 1] /\ w[k] = q[k - 1] /\ i - 1 \in 1 .. m /\ k - 1 \in 1 .. m
      BY <1>10, <1>11, <1>13, <2>5
    <3> QED BY <1>12, <1>13, <3>1
  <2> QED BY <1>10, <2>1, <2>2, <2>3, <2>4, <2>5
<1>14. Descending(w)
  BY <1>10, <1>13 DEF Descending
<1> QED BY <1>5, <1>6, <1>8, <1>9, <1>14

-----------------------------------------------------------------------------
(* The lists of the teams: ranked, of players of their role, and no ID is  *)
(* there twice.                                                            *)
PlayerLists == [Roles -> Seq(PlayerNodes)]
Ranks(P) == \A i \in 1 .. teamCount : \A r \in Roles : Descending(P[i][r])
HaveRoles(P) == \A i \in 1 .. teamCount : \A r \in Roles :
                  \A k \in 1 .. Len(P[i][r]) : P[i][r][k].role = r
ApartIn(P, i, j, r, s) ==
  \A k \in 1 .. Len(P[i][r]) : \A l \in 1 .. Len(P[j][s]) :
    P[i][r][k].playerID = P[j][s][l].playerID => i = j /\ r = s /\ k = l
Apart(P) == \A i, j \in 1 .. teamCount : \A r, s \in Roles : ApartIn(P, i, j, r, s)
ListsOK(P) == P \in [1 .. teamCount -> PlayerLists] /\ Ranks(P) /\ HaveRoles(P) /\ Apart(P)

(* One of the lists. *)
LEMMA ListIs ==
  ASSUME NEW P \in [1 .. teamCount -> PlayerLists], NEW i \in 1 .. teamCount, NEW r \in Roles
  PROVE  /\ P[i] \in PlayerLists /\ P[i][r] \in Seq(PlayerNodes)
         /\ Len(P[i][r]) \in Nat /\ DOMAIN P[i][r] = 1 .. Len(P[i][r])
         /\ \A k \in 1 .. Len(P[i][r]) : P[i][r][k] \in PlayerNodes
<1>1. PICK S : S = Seq(PlayerNodes)
  OBVIOUS
<1>2. P[i] \in PlayerLists
  OBVIOUS
<1>3. P[i] \in [Roles -> S]
  BY <1>1, <1>2 DEF PlayerLists
<1>4. PICK q \in Seq(PlayerNodes) : q = P[i][r]
  BY <1>1, <1>3
<1>5. Len(q) \in Nat /\ DOMAIN q = 1 .. Len(q) /\ \A k \in 1 .. Len(q) : q[k] \in PlayerNodes
  BY LenProperties, ElementOfSeq
<1> QED BY <1>2, <1>4, <1>5

(* A player of a new ID comes into the list of its role in team a. *)
WithPlayer(P, a, p) == [P EXCEPT ![a] = [P[a] EXCEPT ![p.role] =
                     insertPlayerByPerformanceIndex(P[a][p.role], p)]]
NewIn(P, p) ==
  \A i \in 1 .. teamCount : \A r \in Roles :
    \A k \in 1 .. Len(P[i][r]) : P[i][r][k].playerID # p.playerID

(* With a player more, of a new ID, the lists stay as they have to be. *)
LEMMA ListsGrow ==
  ASSUME NEW P, ListsOK(P), NEW a \in 1 .. teamCount, NEW p \in PlayerNodes, NewIn(P, p)
  PROVE  ListsOK(WithPlayer(P, a, p))
<1>1. P \in [1 .. teamCount -> PlayerLists] /\ Ranks(P) /\ HaveRoles(P) /\ Apart(P)
  BY DEF ListsOK
<1>2. p.role \in Roles
  BY DEF PlayerNodes
<1>3. PICK q \in Seq(PlayerNodes) : q = P[a][p.role] /\ Descending(q)
  BY <1>1, <1>2, ListIs DEF Ranks
<1>4. PICK w \in Seq(PlayerNodes) :
        /\ w = insertPlayerByPerformanceIndex(P[a][p.role], p) /\ Descending(w)
        /\ \E c \in 1 .. Len(q) + 1 : Inserted(q, c, p, w)
  BY <1>3, InsertedByIndex
<1>5. PICK c \in 1 .. Len(q) + 1 : Inserted(q, c, p, w)
  BY <1>4
<1>6. PICK Q : Q = WithPlayer(P, a, p)
  OBVIOUS
<1>7. Q = [P EXCEPT ![a] = [P[a] EXCEPT ![p.role] = w]]
  BY <1>4, <1>6 DEF WithPlayer
<1>8. P[a] \in PlayerLists
  BY <1>1
<1>9. [P[a] EXCEPT ![p.role] = w] \in PlayerLists
  <2>1. PICK S : S = Seq(PlayerNodes)
    OBVIOUS
  <2>2. P[a] \in [Roles -> S] /\ w \in S
    BY <1>8, <2>1 DEF PlayerLists
  <2>3. [P[a] EXCEPT ![p.role] = w] \in [Roles -> S]
    BY <1>2, <2>2
  <2> QED BY <2>1, <2>3 DEF PlayerLists
<1>10. Q \in [1 .. teamCount -> PlayerLists]
  BY <1>1, <1>7, <1>9
<1>11. \A i \in 1 .. teamCount : \A r \in Roles :
         Q[i][r] = IF i = a /\ r = p.role THEN w ELSE P[i][r]
  <2>1. \A r \in Roles : [P[a] EXCEPT ![p.role] = w][r] = IF r = p.role THEN w ELSE P[a][r]
    BY <1>8 DEF PlayerLists
  <2>2. \A i \in 1 .. teamCount : Q[i] = IF i = a THEN [P[a] EXCEPT ![p.role] = w] ELSE P[i]
    BY <1>1, <1>7
  <2> QED BY <2>1, <2>2
<1>12. PICK m \in Nat : m = Len(q)
  BY LenProperties
<1>13. /\ c \in 1 .. m + 1 /\ Len(w) = m + 1 /\ w[c] = p
       /\ \A k \in 1 .. m + 1 : k < c => w[k] = q[k]
       /\ \A k \in 1 .. m + 1 : k > c => w[k] = q[k - 1]
  BY <1>5, <1>12 DEF Inserted
<1> DEFINE New(i, r, k) == i = a /\ r = p.role /\ k = c
           Was(i, r, k) == IF i = a /\ r = p.role /\ k > c THEN k - 1 ELSE k
<1>14. ASSUME NEW i \in 1 .. teamCount, NEW r \in Roles, NEW k \in 1 .. Len(Q[i][r])
       PROVE  /\ New(i, r, k) => Q[i][r][k] = p
              /\ ~New(i, r, k) => /\ Was(i, r, k) \in 1 .. Len(P[i][r])
                                  /\ Q[i][r][k] = P[i][r][Was(i, r, k)]
  <2>1. CASE i = a /\ r = p.role
    <3>1. Q[i][r] = w /\ P[i][r] = q /\ k \in 1 .. m + 1
      BY <1>3, <1>11, <1>13, <1>14, <2>1
    <3>2. CASE k = c
      BY <1>13, <2>1, <3>1, <3>2
    <3>3. CASE k < c
      <4>1. k \in 1 .. m /\ w[k] = q[k] /\ ~(k > c) /\ k # c
        BY <1>13, <3>1, <3>3
      <4> QED BY <1>12, <3>1, <4>1
    <3>4. CASE k > c
      <4>1. k - 1 \in 1 .. m /\ w[k] = q[k - 1] /\ k # c
        BY <1>13, <3>1, <3>4
      <4> QED BY <1>12, <2>1, <3>1, <3>4, <4>1
    <3> QED BY <1>13, <3>1, <3>2, <3>3, <3>4
  <2>2. CASE ~(i = a /\ r = p.role)
    <3>1. Q[i][r] = P[i][r] /\ Was(i, r, k) = k /\ ~New(i, r, k)
      BY <1>11, <2>2
    <3> QED BY <1>14, <3>1
  <2> QED BY <2>1, <2>2
<1>15. ASSUME NEW i \in 1 .. teamCount, NEW r \in Roles
       PROVE  /\ Descending(Q[i][r])
              /\ \A k \in 1 .. Len(Q[i][r]) : Q[i][r][k].role = r
  <2>1. Descending(P[i][r]) /\ \A k \in 1 .. Len(P[i][r]) : P[i][r][k].role = r
    BY <1>1 DEF Ranks, HaveRoles
  <2>2. Descending(Q[i][r])
    <3>1. CASE i = a /\ r = p.role
      BY <1>4, <1>11, <3>1
    <3>2. CASE ~(i = a /\ r = p.role)
      <4>1. Q[i][r] = P[i][r]
        BY <1>11, <3>2
      <4> QED BY <2>1, <4>1
    <3> QED BY <3>1, <3>2
  <2>3. ASSUME NEW k \in 1 .. Len(Q[i][r]) PROVE Q[i][r][k].role = r
    <3>1. CASE New(i, r, k)
      BY <1>14, <3>1
    <3>2. CASE ~New(i, r, k)
      <4>1. /\ Was(i, r, k) \in 1 .. Len(P[i][r]) /\ Q[i][r][k] = P[i][r][Was(i, r, k)]
        BY <1>14, <3>2
      <4> HIDE DEF Was
      <4> QED BY <2>1, <4>1
    <3> QED BY <3>1, <3>2
  <2> QED BY <2>2, <2>3
<1>16. ASSUME NEW i \in 1 .. teamCount, NEW j \in 1 .. teamCount,
              NEW r \in Roles, NEW s \in Roles
       PROVE  ApartIn(Q, i, j, r, s)
  <2>0. SUFFICES ASSUME NEW k \in 1 .. Len(Q[i][r]), NEW l \in 1 .. Len(Q[j][s]),
                        Q[i][r][k].playerID = Q[j][s][l].playerID
                 PROVE  i = j /\ r = s /\ k = l
    BY DEF ApartIn
  <2>1. /\ New(i, r, k) => Q[i][r][k] = p
        /\ ~New(i, r, k) => /\ Was(i, r, k) \in 1 .. Len(P[i][r])
                            /\ Q[i][r][k] = P[i][r][Was(i, r, k)]
    BY <1>14
  <2>2. /\ New(j, s, l) => Q[j][s][l] = p
        /\ ~New(j, s, l) => /\ Was(j, s, l) \in 1 .. Len(P[j][s])
                            /\ Q[j][s][l] = P[j][s][Was(j, s, l)]
    BY <1>14
  <2>3. CASE New(i, r, k) /\ New(j, s, l)
    BY <2>3
  <2>4. CASE New(i, r, k) /\ ~New(j, s, l)
    <3> HIDE DEF New, Was
    <3> QED BY <2>0, <2>1, <2>2, <2>4 DEF NewIn
  <2>5. CASE ~New(i, r, k) /\ New(j, s, l)
    <3> HIDE DEF New, Was
    <3> QED BY <2>0, <2>1, <2>2, <2>5 DEF NewIn
  <2>6. CASE ~New(i, r, k) /\ ~New(j, s, l)
    <3>1. i = j /\ r = s /\ Was(i, r, k) = Was(j, s, l)
      <4> HIDE DEF New, Was
      <4>1. PICK x \in 1 .. Len(P[i][r]) : x = Was(i, r, k) /\ Q[i][r][k] = P[i][r][x]
        BY <2>1, <2>6
      <4>2. PICK y \in 1 .. Len(P[j][s]) : y = Was(j, s, l) /\ Q[j][s][l] = P[j][s][y]
        BY <2>2, <2>6
      <4>3. P[i][r][x].playerID = P[j][s][y].playerID
        BY <2>0, <4>1, <4>2
      <4>4. i = j /\ r = s /\ x = y
        <5>1. Apart(P)
          BY <1>1
        <5>2. ApartIn(P, i, j, r, s)
          BY <5>1 DEF Apart
        <5> QED BY ONLY <4>3, <5>2, Zenon DEF ApartIn
      <4> QED BY <4>1, <4>2, <4>4
    <3>2. Len(Q[i][r]) \in Nat /\ k \in Int /\ l \in Int
      BY <1>10, <3>1, ListIs
    <3>3. k = l
      <4>1. i = a /\ r = p.role => k # c /\ l # c
        BY <2>6, <3>1
      <4> QED BY <1>13, <3>1, <3>2, <4>1
    <3> QED BY <3>1, <3>3
  <2> QED BY <2>3, <2>4, <2>5, <2>6
<1> HIDE DEF New, Was
<1>17. Ranks(Q) /\ HaveRoles(Q)
  BY <1>15 DEF Ranks, HaveRoles
<1>18. Apart(Q)
  BY <1>16 DEF Apart
<1> QED BY <1>6, <1>10, <1>17, <1>18 DEF ListsOK

-----------------------------------------------------------------------------
(* The teams, whatever their averages (in V) are; the lists of their       *)
(* players; and every ID is that of a team.                                *)
TeamNodes(V) ==
  [teamID : 1 .. teamCount, name : 1 .. teamCount, totalPlayers : Nat, average : V,
   players : PlayerLists]
TeamsBy(V) == [1 .. teamCount -> TeamNodes(V)]
ListsIn(T) == [i \in 1 .. teamCount |-> T[i].players]
AllIDs(T) == \A id \in 1 .. teamCount : \E i \in 1 .. teamCount : T[i].teamID = id
TeamsOK(T) == (\E V : T \in TeamsBy(V)) /\ ListsOK(ListsIn(T)) /\ AllIDs(T)

(* The teams and their lists, one by one. *)
LEMMA TeamIs ==
  ASSUME NEW V, NEW T \in TeamsBy(V)
  PROVE  /\ DOMAIN T = 1 .. teamCount /\ Len(T) = teamCount
         /\ ListsIn(T) \in [1 .. teamCount -> PlayerLists]
         /\ \A i \in 1 .. teamCount :
              /\ T[i] \in TeamNodes(V) /\ T[i].players \in PlayerLists
              /\ ListsIn(T)[i] = T[i].players
<1>1. \A i \in 1 .. teamCount : T[i] \in TeamNodes(V)
  BY DEF TeamsBy
<1>2. \A i \in 1 .. teamCount : T[i].players \in PlayerLists
  BY <1>1 DEF TeamNodes
<1>3. DOMAIN T = 1 .. teamCount /\ Len(T) = teamCount
  <2>1. teamCount \in Nat
    BY TeamsAssumption
  <2> QED BY <2>1, LengthOf DEF TeamsBy
<1> QED BY <1>1, <1>2, <1>3 DEF ListsIn

(* An average more. *)
LEMMA MoreAverages ==
  ASSUME NEW V, NEW x, NEW t \in TeamNodes(V)
  PROVE  t \in TeamNodes(V \union {x}) /\ [t EXCEPT !.average = x] \in TeamNodes(V \union {x})
BY DEF TeamNodes

(* A team with a player more: insertPlayerIntoTeam. *)
LEMMA TeamWithPlayer ==
  ASSUME NEW V, NEW t \in TeamNodes(V), NEW p \in PlayerNodes,
         \A r \in Roles : Descending(t.players[r])
  PROVE  LET u == insertPlayerIntoTeam(t, p) IN
         /\ u \in TeamNodes(V) /\ u.teamID = t.teamID
         /\ u.players = [t.players EXCEPT ![p.role] =
                           insertPlayerByPerformanceIndex(t.players[p.role], p)]
<1>1. PICK S : S = Seq(PlayerNodes)
  OBVIOUS
<1>2. t.players \in [Roles -> S] /\ t.totalPlayers \in Nat /\ p.role \in Roles
  BY <1>1 DEF TeamNodes, PlayerLists, PlayerNodes
<1>3. PICK q \in Seq(PlayerNodes) : q = t.players[p.role] /\ Descending(q)
  BY <1>1, <1>2
<1>4. PICK w \in Seq(PlayerNodes) : w = insertPlayerByPerformanceIndex(t.players[p.role], p)
  BY <1>3, InsertedByIndex
<1>5. PICK l \in [Roles -> S] : l = [t.players EXCEPT ![p.role] = w]
  BY <1>1, <1>2, <1>4
<1>6. insertPlayerIntoTeam(t, p) = [t EXCEPT !.players = l, !.totalPlayers = t.totalPlayers + 1]
  BY <1>2, <1>4, <1>5 DEF insertPlayerIntoTeam, TeamNodes
<1>7. l \in PlayerLists
  BY <1>1, <1>5 DEF PlayerLists
<1>8. PICK u : u = [t EXCEPT !.players = l, !.totalPlayers = t.totalPlayers + 1]
  OBVIOUS
<1>9. u \in TeamNodes(V) /\ u.teamID = t.teamID /\ u.players = l
  <2>1. PICK n \in Nat : n = t.totalPlayers + 1
    BY <1>2
  <2>2. u = [teamID |-> t.teamID, name |-> t.name, totalPlayers |-> n, average |-> t.average,
             players |-> l]
    BY <1>8, <2>1 DEF TeamNodes
  <2>3. /\ t.teamID \in 1 .. teamCount /\ t.name \in 1 .. teamCount /\ t.average \in V
    BY DEF TeamNodes
  <2> QED BY <1>7, <2>2, <2>3 DEF TeamNodes
<1> QED BY <1>4, <1>5, <1>6, <1>8, <1>9

(* One team of the array has a player more, of a new ID. *)
LEMMA TeamGrows ==
  ASSUME NEW T, TeamsOK(T), NEW i \in 1 .. teamCount, NEW p \in PlayerNodes,
         NewIn(ListsIn(T), p),
         NEW W, \A j \in 1 .. teamCount : T[j] \in TeamNodes(W),
         NEW t \in TeamNodes(W), t.teamID = T[i].teamID,
         t.players = [T[i].players EXCEPT ![p.role] =
                        insertPlayerByPerformanceIndex(T[i].players[p.role], p)]
  PROVE  TeamsOK([T EXCEPT ![i] = t])
<1>1. PICK V : T \in TeamsBy(V)
  BY DEF TeamsOK
<1>2. PICK U : U = [T EXCEPT ![i] = t]
  OBVIOUS
<1>3. DOMAIN T = 1 .. teamCount
  BY <1>1, TeamIs
<1>4. U \in TeamsBy(W)
  BY <1>1, <1>2 DEF TeamsBy
<1>5. \A j \in 1 .. teamCount : U[j] = IF j = i THEN t ELSE T[j]
  BY <1>2, <1>3
<1>6. ListsIn(U) = WithPlayer(ListsIn(T), i, p)
  <2>1. PICK P \in [1 .. teamCount -> PlayerLists] : P = ListsIn(T)
    BY <1>1, TeamIs
  <2>2. \A j \in 1 .. teamCount : P[j] = T[j].players
    BY <2>1 DEF ListsIn
  <2>3. PICK l : l = t.players
    OBVIOUS
  <2>4. WithPlayer(P, i, p) = [P EXCEPT ![i] = l]
    BY <2>2, <2>3 DEF WithPlayer
  <2>5. PICK G : G = [P EXCEPT ![i] = l]
    OBVIOUS
  <2>6. G = [j \in 1 .. teamCount |-> G[j]]
    BY <2>5
  <2>7. \A j \in 1 .. teamCount : U[j].players = G[j]
    <3>1. ASSUME NEW j \in 1 .. teamCount PROVE U[j].players = G[j]
      <4>1. CASE j = i
        <5>1. U[j] = t /\ G[j] = l
          BY <1>5, <2>5, <4>1
        <5> QED BY <2>3, <5>1
      <4>2. CASE j # i
        <5>1. U[j] = T[j] /\ G[j] = P[j]
          BY <1>5, <2>5, <4>2
        <5> QED BY <2>2, <5>1
      <4> QED BY <4>1, <4>2
    <3> QED BY <3>1
  <2>8. ListsIn(U) = [j \in 1 .. teamCount |-> G[j]]
    BY <2>7, Zenon DEF ListsIn
  <2> QED BY <2>1, <2>4, <2>5, <2>6, <2>8
<1>7. ListsOK(ListsIn(U))
  <2>1. ListsOK(ListsIn(T))
    BY DEF TeamsOK
  <2> QED BY <1>6, <2>1, ListsGrow
<1>8. AllIDs(U)
  <2>1. AllIDs(T)
    BY DEF TeamsOK
  <2>2. \A j \in 1 .. teamCount : U[j].teamID = T[j].teamID
    BY <1>5
  <2> QED BY <2>1, <2>2 DEF AllIDs
<1> QED BY <1>2, <1>4, <1>7, <1>8 DEF TeamsOK

(* Other averages. *)
LEMMA SamePlayers ==
  ASSUME NEW T, TeamsOK(T), NEW U, NEW W, U \in TeamsBy(W),
         \A i \in 1 .. teamCount : U[i].players = T[i].players /\ U[i].teamID = T[i].teamID
  PROVE  TeamsOK(U)
<1>1. ListsIn(U) = ListsIn(T)
  BY Zenon DEF ListsIn
<1>2. AllIDs(U)
  BY DEF TeamsOK, AllIDs
<1> QED BY <1>1, <1>2 DEF TeamsOK

(* A place in which no player has the ID. *)
LEMMA NotFound ==
  ASSUME NEW V, teamsArray \in TeamsBy(V), NEW p, ~findPlayerByID(p.playerID)
  PROVE  NewIn(ListsIn(teamsArray), p)
<1> SUFFICES ASSUME NEW i \in 1 .. teamCount, NEW r \in Roles,
                    NEW k \in 1 .. Len(ListsIn(teamsArray)[i][r])
             PROVE  ListsIn(teamsArray)[i][r][k].playerID # p.playerID
  BY DEF NewIn
<1>1. PICK q : q = teamsArray[i].players[r]
  OBVIOUS
<1>2. ListsIn(teamsArray)[i][r] = q /\ DOMAIN q = 1 .. Len(q) /\ i \in DOMAIN teamsArray
  BY <1>1, TeamIs, ListIs
<1>3. q[k] \in ToSet(q)
  BY <1>2 DEF ToSet
<1>4. q[k] \in ListsOf(teamsArray[i])[r]
  BY <1>1, <1>3 DEF ListsOf
<1>5. q[k] \in PlayersOf(teamsArray[i])
  BY <1>4, Zenon DEF PlayersOf
<1>6. q[k] \in AllPlayers
  BY <1>2, <1>5, Zenon DEF AllPlayers
<1> QED BY <1>2, <1>6 DEF findPlayerByID

-----------------------------------------------------------------------------
(* Teams that change places. *)
LEMMA SwapTeams ==
  ASSUME NEW V, NEW T \in TeamsBy(V), TeamsOK(T),
         NEW i \in 1 .. teamCount, NEW k \in 1 .. teamCount
  PROVE  Swap(T, i, k) \in TeamsBy(V) /\ TeamsOK(Swap(T, i, k))
<1>1. PICK U : U = Swap(T, i, k)
  OBVIOUS
<1>2. T \in [1 .. teamCount -> TeamNodes(V)] /\ DOMAIN T = 1 .. teamCount
  BY TeamIs DEF TeamsBy
<1>3. U \in TeamsBy(V)
  BY <1>1, <1>2 DEF Swap, TeamsBy
<1> DEFINE f(j) == IF j = i THEN k ELSE IF j = k THEN i ELSE j
<1>4. \A j \in 1 .. teamCount : U[j] = T[f(j)]
  BY <1>1, <1>2 DEF Swap
<1>5. /\ \A j \in 1 .. teamCount : f(j) \in 1 .. teamCount /\ f(f(j)) = j
      /\ \A j, l \in 1 .. teamCount : f(j) = f(l) => j = l
  OBVIOUS
<1> HIDE DEF f
<1>6. PICK P \in [1 .. teamCount -> PlayerLists] : P = ListsIn(T)
  BY TeamIs
<1>7. PICK Q \in [1 .. teamCount -> PlayerLists] : Q = ListsIn(U)
  BY <1>3, TeamIs
<1>8. \A j \in 1 .. teamCount : Q[j] = P[f(j)]
  BY <1>4, <1>5, <1>6, <1>7 DEF ListsIn
<1>9. Ranks(P) /\ HaveRoles(P) /\ Apart(P)
  BY <1>6 DEF TeamsOK, ListsOK
<1>10. Ranks(Q) /\ HaveRoles(Q)
  BY <1>5, <1>8, <1>9 DEF Ranks, HaveRoles
<1>11. Apart(Q)
  <2> SUFFICES ASSUME NEW a \in 1 .. teamCount, NEW b \in 1 .. teamCount,
                      NEW r \in Roles, NEW s \in Roles,
                      NEW x \in 1 .. Len(Q[a][r]), NEW y \in 1 .. Len(Q[b][s]),
                      Q[a][r][x].playerID = Q[b][s][y].playerID
               PROVE  a = b /\ r = s /\ x = y
    BY DEF Apart, ApartIn
  <2>1. PICK c \in 1 .. teamCount : c = f(a) /\ Q[a] = P[c]
    BY <1>5, <1>8
  <2>2. PICK d \in 1 .. teamCount : d = f(b) /\ Q[b] = P[d]
    BY <1>5, <1>8
  <2>3. PICK k1 \in 1 .. Len(P[c][r]) : k1 = x
    BY <2>1
  <2>4. PICK l1 \in 1 .. Len(P[d][s]) : l1 = y
    BY <2>2
  <2>5. P[c][r][k1].playerID = P[d][s][l1].playerID
    BY <2>1, <2>2, <2>3, <2>4
  <2>6. Apart(P)
    BY <1>9
  <2>7. ApartIn(P, c, d, r, s)
    BY <2>6 DEF Apart
  <2>8. c = d /\ r = s /\ k1 = l1
    BY ONLY <2>5, <2>7, Zenon DEF ApartIn
  <2> QED BY <1>5, <2>1, <2>2, <2>3, <2>4, <2>8
<1>12. AllIDs(U)
  <2> SUFFICES ASSUME NEW id \in 1 .. teamCount
               PROVE  \E j \in 1 .. teamCount : U[j].teamID = id
    BY DEF AllIDs
  <2>1. PICK j \in 1 .. teamCount : T[j].teamID = id
    BY DEF TeamsOK, AllIDs
  <2>2. f(j) \in 1 .. teamCount /\ U[f(j)] = T[j]
    BY <1>4, <1>5
  <2> QED BY <2>1, <2>2
<1> QED BY <1>1, <1>3, <1>7, <1>10, <1>11, <1>12 DEF TeamsOK, ListsOK

-----------------------------------------------------------------------------
(* The search by name ends at a team or outside of the array. *)
LEMMA SearchIs ==
  ASSUME NEW V, teamsArray \in TeamsBy(V), NEW name
  PROVE  binarySearchTeamsName(name) \in 0 .. teamCount
<1>1. PICK n \in Nat : n = teamCount
  BY TeamsAssumption
<1>2. Len(teamsArray) = n
  BY <1>1, TeamIs
<1> DEFINE X == [low : 1 .. n + 1, high : 0 .. n]
           Makes(g) == [k \in 0 .. Len(teamsArray) |->
             IF k = 0 THEN [low |-> 1, high |-> Len(teamsArray)] ELSE Narrowed(g[k - 1], name)]
           at == CHOOSE g : g = Makes(g)
<1>3. binarySearchTeamsName(name) =
        IF at[Len(teamsArray)].low > at[Len(teamsArray)].high THEN 0
        ELSE Middle(at[Len(teamsArray)])
  BY Zenon DEF binarySearchTeamsName
<1>4. ASSUME NEW x \in X, x.low <= x.high PROVE Middle(x) \in 1 .. n
  BY <1>4 DEF Middle
<1>5. \A x \in X : Narrowed(x, name) \in X
  <2> SUFFICES ASSUME NEW x \in X PROVE Narrowed(x, name) \in X
    OBVIOUS
  <2>1. CASE x.low > x.high
    BY <2>1 DEF Narrowed
  <2>2. CASE ~(x.low > x.high)
    <3>1. PICK mid \in 1 .. n : mid = Middle(x)
      BY <1>4, <2>2
    <3>2. [x EXCEPT !.low = mid + 1] \in X /\ [x EXCEPT !.high = mid - 1] \in X
      OBVIOUS
    <3> HIDE DEF X
    <3> QED BY <3>1, <3>2 DEF Narrowed
  <2> QED BY <2>1, <2>2
<1>6. PICK c \in X : c = [low |-> 1, high |-> n]
  <2>1. 1 \in 1 .. n + 1 /\ n \in 0 .. n
    OBVIOUS
  <2>2. [low |-> 1, high |-> n] \in X
    BY <2>1
  <2> HIDE DEF X
  <2> QED BY <2>2
<1>7. \A x \in X : ~(x.low > x.high) => x.low <= x.high
  OBVIOUS
<1> HIDE DEF X
<1>8. \E g : g = Makes(g)
  <2> DEFINE G == [k \in 0 + 1 .. n |-> [x \in X |-> Narrowed(x, name)]]
  <2>1. PICK f \in [0 + 1 .. n -> [X -> X]] :
          \A k \in 1 .. n : \A x \in X : f[k][x] = Narrowed(x, name)
    <3>1. G \in [0 + 1 .. n -> [X -> X]]
      BY <1>5
    <3>2. \A k \in 1 .. n : \A x \in X : G[k][x] = Narrowed(x, name)
      OBVIOUS
    <3> HIDE DEF G
    <3> QED BY <3>1, <3>2
  <2>2. PICK g : Passes(g, X, c, 0, n, f)
    <3>1. Turns(f, X, 0, n) /\ 0 \in Nat /\ 0 <= n
      BY DEF Turns
    <3> QED BY ONLY c \in X, n \in Nat, <3>1, Loop
  <2> USE <2>2 DEF Passes
  <2>3. ASSUME NEW k \in 0 .. n PROVE g[k] = IF k = 0 THEN c ELSE Narrowed(g[k - 1], name)
    <3>1. CASE k = 0
      BY <2>2, <3>1
    <3>2. CASE k # 0
      <4>1. k \in 1 .. n /\ k - 1 \in 0 .. n
        BY <3>2
      <4>2. g[k - 1] \in X
        BY <2>2, <4>1
      <4> QED BY <2>1, <2>2, <3>2, <4>1, <4>2
    <3> QED BY <3>1, <3>2
  <2>4. g = [k \in 0 .. n |-> g[k]]
    BY <2>2
  <2>5. g = Makes(g)
    BY <1>2, <1>6, <2>3, <2>4
  <2> HIDE DEF Makes
  <2> QED BY <2>5
<1>9. at = Makes(at)
  <2> HIDE DEF Makes
  <2> QED BY <1>8, Zenon
<1> HIDE DEF at
<1>10. \A k \in 0 .. n : at[k] = IF k = 0 THEN c ELSE Narrowed(at[k - 1], name)
  BY <1>2, <1>6, <1>9
<1> HIDE DEF Makes
<1> DEFINE S == {k \in 0 .. n : at[k] \in X}
<1>11. 0 \in S
  BY <1>10
<1>12. \A k \in 0 + 1 .. n : k - 1 \in S => k \in S
  BY <1>5, <1>10
<1>13. 0 .. n \subseteq S
  <2> HIDE DEF S
  <2>1. 0 \in Nat
    OBVIOUS
  <2> QED BY ONLY <2>1, n \in Nat, <1>11, <1>12, Upwards
<1>14. at[n] \in X
  BY <1>13
<1>15. at[n].low > at[n].high \/ Middle(at[n]) \in 1 .. n
  BY <1>4, <1>7, <1>14
<1> QED BY <1>1, <1>2, <1>3, <1>15

(* The greatest that is left is among those that are. *)
LEMMA GreatestIs ==
  ASSUME NEW q, NEW n \in Nat, Len(q) = n, NEW i \in 1 .. n
  PROVE  Greatest(q, i) \in i .. n
<1> DEFINE X == i .. n
           Better(k, x) == IF Less(q[x].average, q[k].average) THEN k ELSE x
           Makes(g) == [k \in i .. Len(q) |->
             IF k = i THEN i
             ELSE IF Less(q[g[k - 1]].average, q[k].average) THEN k ELSE g[k - 1]]
           at == CHOOSE g : g = Makes(g)
<1>1. Greatest(q, i) = at[Len(q)]
  BY Zenon DEF Greatest
<1>2. \A k \in i + 1 .. n : \A x \in X : Better(k, x) \in X
  OBVIOUS
<1>3. i \in X /\ i \in Nat /\ i <= n
  OBVIOUS
<1>4. \A g : Makes(g) = [k \in i .. n |-> IF k = i THEN i ELSE Better(k, g[k - 1])]
  OBVIOUS
<1> HIDE DEF Better, Makes
<1>5. \E g : g = Makes(g)
  <2> DEFINE G == [k \in i + 1 .. n |-> [x \in X |-> Better(k, x)]]
  <2>1. PICK f \in [i + 1 .. n -> [X -> X]] :
          \A k \in i + 1 .. n : \A x \in X : f[k][x] = Better(k, x)
    <3> HIDE DEF X
    <3>1. G \in [i + 1 .. n -> [X -> X]]
      BY <1>2
    <3>2. \A k \in i + 1 .. n : \A x \in X : G[k][x] = Better(k, x)
      OBVIOUS
    <3> HIDE DEF G
    <3> QED BY <3>1, <3>2
  <2>2. PICK g : Passes(g, X, i, i, n, f)
    <3>1. Turns(f, X, i, n)
      BY DEF Turns
    <3> HIDE DEF X
    <3> QED BY ONLY <1>3, n \in Nat, <3>1, Loop
  <2>3. g \in [i .. n -> X] /\ \A k \in i .. n : g[k] = IF k = i THEN i ELSE f[k][g[k - 1]]
    BY <2>2 DEF Passes
  <2>4. ASSUME NEW k \in i .. n PROVE g[k] = IF k = i THEN i ELSE Better(k, g[k - 1])
    <3>1. CASE k = i
      BY <2>3, <3>1
    <3>2. CASE k # i
      <4>1. k \in i + 1 .. n /\ k - 1 \in i .. n
        BY <3>2
      <4>2. g[k - 1] \in X
        BY <2>3, <4>1
      <4> QED BY <2>1, <2>3, <3>2, <4>1, <4>2
    <3> QED BY <3>1, <3>2
  <2>5. g = [k \in i .. n |-> g[k]]
    BY <2>3
  <2>6. g = Makes(g)
    BY <1>4, <2>4, <2>5
  <2> QED BY <2>6
<1>6. at = Makes(at)
  BY <1>5, Zenon
<1> HIDE DEF at
<1>7. \A k \in i .. n : at[k] = IF k = i THEN i ELSE Better(k, at[k - 1])
  BY <1>4, <1>6
<1> DEFINE S == {k \in i .. n : at[k] \in X}
<1>8. i \in S
  BY <1>3, <1>7
<1>9. ASSUME NEW k \in i + 1 .. n, k - 1 \in S PROVE k \in S
  <2> HIDE DEF X
  <2>1. k \in i .. n /\ k # i /\ at[k - 1] \in X
    BY <1>9
  <2>2. at[k] = Better(k, at[k - 1])
    BY <1>7, <2>1
  <2> QED BY <1>2, <2>1, <2>2
<1>10. i .. n \subseteq S
  <2> HIDE DEF S
  <2> QED BY ONLY <1>3, n \in Nat, <1>8, <1>9, Upwards
<1>11. n \in i .. n
  OBVIOUS
<1> QED BY <1>1, <1>10, <1>11

(* The teams that are sorted are the teams: displayTeamsByStrikeRate. *)
LEMMA SortedTeams ==
  ASSUME NEW V, NEW T \in TeamsBy(V), TeamsOK(T)
  PROVE  SelectionSort(T) \in TeamsBy(V) /\ TeamsOK(SelectionSort(T))
<1>1. PICK n \in Nat : n = teamCount
  BY TeamsAssumption
<1>2. Len(T) = n
  BY <1>1, TeamIs
<1> DEFINE X == {Q \in TeamsBy(V) : TeamsOK(Q)}
           GreatestTo(i, Q) == Swap(Q, i, Greatest(Q, i))
           Makes(g) == [i \in 0 .. Len(T) |->
                         IF i = 0 THEN T ELSE Swap(g[i - 1], i, Greatest(g[i - 1], i))]
           at == CHOOSE g : g = Makes(g)
<1>3. SelectionSort(T) = at[Len(T)]
  BY Zenon DEF SelectionSort
<1>4. ASSUME NEW i \in 1 .. n, NEW Q \in X PROVE GreatestTo(i, Q) \in X
  <2>1. Q \in TeamsBy(V) /\ TeamsOK(Q)
    OBVIOUS
  <2>2. Len(Q) = n
    BY <1>1, <2>1, TeamIs
  <2>3. Greatest(Q, i) \in i .. n
    BY <2>2, GreatestIs
  <2>4. PICK k \in 1 .. teamCount : k = Greatest(Q, i)
    BY <1>1, <2>3
  <2>5. i \in 1 .. teamCount
    BY <1>1
  <2>6. Swap(Q, i, k) \in TeamsBy(V) /\ TeamsOK(Swap(Q, i, k))
    BY <2>1, <2>5, SwapTeams
  <2> QED BY <2>4, <2>6
<1>5. T \in X
  OBVIOUS
<1>6. \A g : Makes(g) = [i \in 0 .. n |-> IF i = 0 THEN T ELSE GreatestTo(i, g[i - 1])]
  BY <1>2
<1> HIDE DEF X, GreatestTo, Makes
<1>7. \E g : g = Makes(g)
  <2> DEFINE G == [i \in 0 + 1 .. n |-> [Q \in X |-> GreatestTo(i, Q)]]
  <2>1. PICK f \in [0 + 1 .. n -> [X -> X]] :
          \A i \in 1 .. n : \A Q \in X : f[i][Q] = GreatestTo(i, Q)
    <3>1. G \in [0 + 1 .. n -> [X -> X]]
      BY <1>4
    <3>2. \A i \in 1 .. n : \A Q \in X : G[i][Q] = GreatestTo(i, Q)
      OBVIOUS
    <3> HIDE DEF G
    <3> QED BY <3>1, <3>2
  <2>2. PICK g : Passes(g, X, T, 0, n, f)
    <3>1. Turns(f, X, 0, n) /\ 0 \in Nat /\ 0 <= n
      BY DEF Turns
    <3> QED BY ONLY <1>5, n \in Nat, <3>1, Loop
  <2>3. g \in [0 .. n -> X] /\ \A i \in 0 .. n : g[i] = IF i = 0 THEN T ELSE f[i][g[i - 1]]
    BY <2>2 DEF Passes
  <2>4. ASSUME NEW i \in 0 .. n PROVE g[i] = IF i = 0 THEN T ELSE GreatestTo(i, g[i - 1])
    <3>1. CASE i = 0
      BY <2>3, <3>1
    <3>2. CASE i # 0
      <4>1. i \in 1 .. n /\ i - 1 \in 0 .. n
        BY <3>2
      <4>2. g[i - 1] \in X
        BY <2>3, <4>1
      <4> QED BY <2>1, <2>3, <3>2, <4>1, <4>2
    <3> QED BY <3>1, <3>2
  <2>5. g = [i \in 0 .. n |-> g[i]]
    BY <2>3
  <2>6. g = Makes(g)
    BY <1>6, <2>4, <2>5
  <2> QED BY <2>6
<1>8. at = Makes(at)
  BY <1>7, Zenon
<1> HIDE DEF at
<1>9. \A i \in 0 .. n : at[i] = IF i = 0 THEN T ELSE GreatestTo(i, at[i - 1])
  BY <1>6, <1>8
<1> DEFINE S == {i \in 0 .. n : at[i] \in X}
<1>10. 0 \in S
  BY <1>5, <1>9
<1>11. \A i \in 0 + 1 .. n : i - 1 \in S => i \in S
  BY <1>4, <1>9
<1>12. 0 .. n \subseteq S
  <2> HIDE DEF S
  <2>1. 0 \in Nat
    OBVIOUS
  <2> QED BY ONLY <2>1, n \in Nat, <1>10, <1>11, Upwards
<1>13. SelectionSort(T) \in X
  BY <1>2, <1>3, <1>12
<1> QED BY <1>13 DEF X

-----------------------------------------------------------------------------
(* What is kept: the teams with their lists, while any of them is sorted   *)
(* to another place and averages change.                                   *)
TeamsInv == TeamsOK(teamsArray)

(* The lists of a team are ranked. *)
LEMMA TeamsRanked ==
  ASSUME NEW V, NEW T \in TeamsBy(V), TeamsOK(T), NEW i \in 1 .. teamCount
  PROVE  \A r \in Roles : Descending(T[i].players[r])
<1>1. Ranks(ListsIn(T)) /\ ListsIn(T)[i] = T[i].players
  BY TeamIs DEF TeamsOK, ListsOK
<1> QED BY <1>1 DEF Ranks

(* At the start no team has a player. *)
LEMMA TeamsInitOK == TeamsInit => TeamsInv
<1> SUFFICES ASSUME TeamsInit PROVE TeamsInv
  OBVIOUS
<1>1. PICK T : T = teamsArray
  OBVIOUS
<1>2. PICK l : l = [r \in Roles |-> <<>>]
  OBVIOUS
<1>3. <<>> \in Seq(PlayerNodes) /\ Len(<<>>) = 0 /\ DOMAIN <<>> = {}
  BY EmptySeq
<1>4. l \in PlayerLists /\ \A r \in Roles : l[r] = <<>>
  <2>1. PICK S : S = Seq(PlayerNodes)
    OBVIOUS
  <2> QED BY <1>2, <1>3, <2>1 DEF PlayerLists
<1>5. T = [i \in 1 .. teamCount |->
             [teamID |-> i, name |-> i, totalPlayers |-> 0, average |-> Zero, players |-> l]]
  BY <1>1, <1>2 DEF TeamsInit
<1>6. T \in TeamsBy({Zero})
  BY <1>4, <1>5 DEF TeamsBy, TeamNodes
<1>7. \A i \in 1 .. teamCount : T[i].teamID = i /\ T[i].players = l
  BY <1>5
<1>8. AllIDs(T)
  BY <1>7 DEF AllIDs
<1>9. PICK P \in [1 .. teamCount -> PlayerLists] : P = ListsIn(T)
  BY <1>6, TeamIs
<1>10. \A i \in 1 .. teamCount : \A r \in Roles : P[i][r] = <<>>
  BY <1>4, <1>7, <1>9 DEF ListsIn
<1>11. Descending(<<>>) /\ 1 .. Len(<<>>) = {}
  BY <1>3 DEF Descending
<1>12. Ranks(P) /\ HaveRoles(P) /\ Apart(P)
  BY <1>10, <1>11 DEF Ranks, HaveRoles, Apart, ApartIn
<1> QED BY <1>1, <1>6, <1>8, <1>9, <1>12 DEF TeamsInv, TeamsOK, ListsOK

(* A player of the data. *)
LEMMA LoadOK ==
  ASSUME TeamsInv, NEW id \in PlayerIDs, NEW s \in Careers, NEW name \in 0 .. teamCount,
         Load(id, name, s)
  PROVE  TeamsInv'
<1>1. PICK V : teamsArray \in TeamsBy(V)
  BY DEF TeamsInv, TeamsOK
<1>2. PICK i \in 1 .. teamCount : i = binarySearchTeamsName(name)
  <2>1. binarySearchTeamsName(name) \in 0 .. teamCount
    BY <1>1, SearchIs
  <2>2. binarySearchTeamsName(name) # 0
    BY DEF Load
  <2>3. teamCount \in Nat
    BY TeamsAssumption
  <2> QED BY <2>1, <2>2, <2>3
<1>3. PICK p \in PlayerNodes : p = Player(id, name, s) /\ p.playerID = id
  BY PlayerIs
<1>4. NewIn(ListsIn(teamsArray), p)
  <2>1. ~findPlayerByID(p.playerID)
    BY <1>3 DEF Load
  <2> QED BY <1>1, <2>1, NotFound
<1>5. teamsArray[i] \in TeamNodes(V) /\ DOMAIN teamsArray = 1 .. teamCount
  BY <1>1, TeamIs
<1>6. PICK t : t = insertPlayerIntoTeam(teamsArray[i], p)
  OBVIOUS
<1>7. teamsArray' = [teamsArray EXCEPT ![i] = t]
  BY <1>2, <1>3, <1>5, <1>6 DEF Load
<1>8. /\ t \in TeamNodes(V) /\ t.teamID = teamsArray[i].teamID
      /\ t.players = [teamsArray[i].players EXCEPT ![p.role] =
                        insertPlayerByPerformanceIndex(teamsArray[i].players[p.role], p)]
  <2>1. \A r \in Roles : Descending(teamsArray[i].players[r])
    BY <1>1, TeamsRanked DEF TeamsInv
  <2> QED BY <1>5, <1>6, <2>1, TeamWithPlayer
<1>9. \A j \in 1 .. teamCount : teamsArray[j] \in TeamNodes(V)
  BY <1>1, TeamIs
<1>10. TeamsOK([teamsArray EXCEPT ![i] = t])
  BY <1>4, <1>8, <1>9, TeamGrows DEF TeamsInv
<1> QED BY <1>7, <1>10 DEF TeamsInv

(* A player of the menu. *)
LEMMA AddOK ==
  ASSUME TeamsInv, NEW id \in PlayerIDs, NEW s \in Careers, NEW teamID \in 1 .. teamCount,
         addPlayer(teamID, id, s)
  PROVE  TeamsInv'
<1>1. PICK V : teamsArray \in TeamsBy(V)
  BY DEF TeamsInv, TeamsOK
<1>2. DOMAIN teamsArray = 1 .. teamCount
  BY <1>1, TeamIs
<1>3. PICK i \in 1 .. teamCount : i = searchTeamByID(teamID)
  <2>1. \E i \in DOMAIN teamsArray : teamsArray[i].teamID = teamID
    BY <1>2 DEF TeamsInv, TeamsOK, AllIDs
  <2>2. searchTeamByID(teamID) \in DOMAIN teamsArray
    BY <2>1 DEF searchTeamByID
  <2> QED BY <1>2, <2>2
<1>4. teamsArray[i] \in TeamNodes(V)
  BY <1>1, TeamIs
<1>5. PICK name \in 0 .. teamCount : name = teamsArray[i].name
  <2>1. teamsArray[i].name \in 1 .. teamCount
    BY <1>4 DEF TeamNodes
  <2>2. teamCount \in Nat
    BY TeamsAssumption
  <2> QED BY <2>1, <2>2
<1>6. PICK p \in PlayerNodes : p = Player(id, name, s) /\ p.playerID = id
  BY PlayerIs
<1>7. NewIn(ListsIn(teamsArray), p)
  <2>1. ~findPlayerByID(p.playerID)
    BY <1>6 DEF addPlayer
  <2> QED BY <1>1, <2>1, NotFound
<1>8. PICK u : u = insertPlayerIntoTeam(teamsArray[i], p)
  OBVIOUS
<1>9. /\ u \in TeamNodes(V) /\ u.teamID = teamsArray[i].teamID
      /\ u.players = [teamsArray[i].players EXCEPT ![p.role] =
                        insertPlayerByPerformanceIndex(teamsArray[i].players[p.role], p)]
  <2>1. \A r \in Roles : Descending(teamsArray[i].players[r])
    BY <1>1, TeamsRanked DEF TeamsInv
  <2> QED BY <1>4, <1>8, <2>1, TeamWithPlayer
<1>10. PICK x : x = IF s.role \in Bats THEN Recalculated(u, s.strikeRate) ELSE u.average
  OBVIOUS
<1>11. PICK t : t = [u EXCEPT !.totalPlayers = u.totalPlayers + 1, !.average = x]
  OBVIOUS
<1>12. teamsArray' = [teamsArray EXCEPT ![i] = t]
  <2>1. u = insertPlayerIntoTeam(teamsArray[i], Player(id, teamsArray[i].name, s))
    BY <1>5, <1>6, <1>8
  <2>2. teamsArray' = [teamsArray EXCEPT ![i] =
          [u EXCEPT !.totalPlayers = @ + 1,
                    !.average = IF s.role \in Bats THEN Recalculated(u, s.strikeRate) ELSE @]]
    BY <1>3, <2>1, Zenon DEF addPlayer
  <2>3. [u EXCEPT !.totalPlayers = @ + 1,
                  !.average = IF s.role \in Bats THEN Recalculated(u, s.strikeRate) ELSE @] = t
    BY <1>9, <1>10, <1>11 DEF TeamNodes
  <2> QED BY <2>2, <2>3
<1>13. /\ t \in TeamNodes(V \union {x}) /\ t.teamID = u.teamID /\ t.players = u.players
  <2>1. PICK n \in Nat : n = u.totalPlayers + 1
    BY <1>9 DEF TeamNodes
  <2>2. t = [teamID |-> u.teamID, name |-> u.name, totalPlayers |-> n, average |-> x,
             players |-> u.players]
    BY <1>9, <1>11, <2>1 DEF TeamNodes
  <2>3. u.teamID \in 1 .. teamCount /\ u.name \in 1 .. teamCount /\ u.players \in PlayerLists
    BY <1>9 DEF TeamNodes
  <2> QED BY <2>2, <2>3 DEF TeamNodes
<1>14. \A j \in 1 .. teamCount : teamsArray[j] \in TeamNodes(V \union {x})
  BY <1>1, TeamIs, MoreAverages
<1>15. TeamsOK([teamsArray EXCEPT ![i] = t])
  <2>1. PICK W : W = V \union {x}
    OBVIOUS
  <2>2. /\ t \in TeamNodes(W) /\ t.teamID = teamsArray[i].teamID
        /\ t.players = [teamsArray[i].players EXCEPT ![p.role] =
                          insertPlayerByPerformanceIndex(teamsArray[i].players[p.role], p)]
        /\ \A j \in 1 .. teamCount : teamsArray[j] \in TeamNodes(W)
    BY <1>9, <1>13, <1>14, <2>1
  <2> QED BY <1>7, <2>2, TeamGrows DEF TeamsInv
<1> QED BY <1>12, <1>15 DEF TeamsInv

(* The averages. *)
LEMMA RatesOK == TeamsInv /\ setTeamsStrikeRate => TeamsInv'
<1> SUFFICES ASSUME TeamsInv, setTeamsStrikeRate PROVE TeamsInv'
  OBVIOUS
<1>1. PICK V : teamsArray \in TeamsBy(V)
  BY DEF TeamsInv, TeamsOK
<1>2. DOMAIN teamsArray = 1 .. teamCount
  BY <1>1, TeamIs
<1> DEFINE W == {BattingAverage(teamsArray[i]) : i \in 1 .. teamCount}
<1>3. PICK U : U = [i \in 1 .. teamCount |->
                      [teamsArray[i] EXCEPT !.average = BattingAverage(teamsArray[i])]]
  OBVIOUS
<1>4. ASSUME NEW i \in 1 .. teamCount
      PROVE  /\ U[i] \in TeamNodes(W)
             /\ U[i].players = teamsArray[i].players /\ U[i].teamID = teamsArray[i].teamID
  <2>1. teamsArray[i] \in TeamNodes(V)
    BY <1>1, TeamIs
  <2>2. PICK x \in W : x = BattingAverage(teamsArray[i])
    OBVIOUS
  <2> HIDE DEF W
  <2>3. U[i] = [teamsArray[i] EXCEPT !.average = x]
    BY <1>3, <2>2
  <2> QED BY <2>1, <2>3 DEF TeamNodes
<1> HIDE DEF W
<1>5. U \in TeamsBy(W)
  BY <1>3, <1>4 DEF TeamsBy
<1>6. TeamsOK(U)
  BY <1>4, <1>5, SamePlayers DEF TeamsInv
<1>7. teamsArray' = U
  BY <1>2, <1>3 DEF setTeamsStrikeRate
<1> QED BY <1>6, <1>7 DEF TeamsInv

(* The teams, sorted. *)
LEMMA SortedOK == TeamsInv /\ displayTeamsByStrikeRate => TeamsInv'
<1> SUFFICES ASSUME TeamsInv, displayTeamsByStrikeRate PROVE TeamsInv'
  OBVIOUS
<1>1. PICK V : teamsArray \in TeamsBy(V)
  BY DEF TeamsInv, TeamsOK
<1>2. TeamsOK(SelectionSort(teamsArray))
  BY <1>1, SortedTeams DEF TeamsInv
<1>3. teamsArray' = SelectionSort(teamsArray)
  BY DEF displayTeamsByStrikeRate
<1> QED BY <1>2, <1>3 DEF TeamsInv

(* No step breaks it. *)
LEMMA TeamsNextOK == TeamsInv /\ [TeamsNext]_teamsVars => TeamsInv'
<1> SUFFICES ASSUME TeamsInv, [TeamsNext]_teamsVars PROVE TeamsInv'
  OBVIOUS
<1>1. ASSUME NEW id \in PlayerIDs, NEW s \in Careers, NEW name \in 0 .. teamCount,
             Load(id, name, s)
      PROVE  TeamsInv'
  BY <1>1, LoadOK
<1>2. ASSUME NEW id \in PlayerIDs, NEW s \in Careers, NEW teamID \in 1 .. teamCount,
             addPlayer(teamID, id, s)
      PROVE  TeamsInv'
  BY <1>2, AddOK
<1>3. CASE setTeamsStrikeRate
  BY <1>3, RatesOK
<1>4. CASE displayTeamsByStrikeRate
  BY <1>4, SortedOK
<1>5. CASE freeMemoryAndExit \/ UsesFreed \/ UNCHANGED teamsVars
  <2>1. teamsArray' = teamsArray
    BY <1>5 DEF freeMemoryAndExit, UsesFreed, teamsVars
  <2> QED BY <2>1 DEF TeamsInv
<1> QED BY <1>1, <1>2, <1>3, <1>4, <1>5 DEF TeamsNext

(* The teams and the lists of their players stay as they have to be: each  *)
(* list ranked and of one role, no ID twice, every team there              *)
(* (ICC_Player_Performance_Analyzer.c).                                    *)
THEOREM TeamsInvariance == TeamsSpec => []TeamsInv
BY TeamsInitOK, TeamsNextOK, PTL DEF TeamsSpec

(* What the display merges are the lists of the teams. *)
LEMMA DisplayIs ==
  ASSUME TeamsInv, NEW r \in Roles
  PROVE  LET q == displayAllPlayersOfRole(r) IN
         Descending(q) /\ Once(q) /\ ToSet(q) = {p \in AllPlayers : p.role = r}
<1>1. PICK V : teamsArray \in TeamsBy(V)
  BY DEF TeamsInv, TeamsOK
<1>2. DOMAIN teamsArray = 1 .. teamCount /\ teamCount \in Nat
  BY <1>1, TeamIs, TeamsAssumption
<1>3. PICK P \in [1 .. teamCount -> PlayerLists] :
        /\ \A i \in 1 .. teamCount : P[i] = teamsArray[i].players
        /\ Ranks(P) /\ HaveRoles(P) /\ Apart(P)
  <2>1. /\ ListsIn(teamsArray) \in [1 .. teamCount -> PlayerLists]
        /\ \A i \in 1 .. teamCount : ListsIn(teamsArray)[i] = teamsArray[i].players
    BY <1>1, TeamIs
  <2>2. /\ Ranks(ListsIn(teamsArray)) /\ HaveRoles(ListsIn(teamsArray))
        /\ Apart(ListsIn(teamsArray))
    BY DEF TeamsInv, TeamsOK, ListsOK
  <2> QED BY <2>1, <2>2
<1>4. PICK lists : lists = [i \in 1 .. teamCount |-> teamsArray[i].players[r]]
  OBVIOUS
<1>5. \A i \in 1 .. teamCount : lists[i] = P[i][r]
  BY <1>3, <1>4
<1>6. lists \in RankedLists(teamCount)
  <2>1. PICK S : S = Seq(PlayerNodes)
    OBVIOUS
  <2>2. \A i \in 1 .. teamCount : lists[i] \in S
    BY <1>3, <1>5, <2>1, ListIs
  <2>3. lists \in [1 .. teamCount -> S]
    BY <1>4, <2>2
  <2>4. \A i \in 1 .. teamCount : Descending(lists[i])
    BY <1>3, <1>5 DEF Ranks
  <2> QED BY <2>1, <2>3, <2>4 DEF RankedLists
<1>7. NoneTwice(lists, teamCount)
  <2> SUFFICES ASSUME NEW a \in 1 .. teamCount, NEW b \in 1 .. teamCount,
                      NEW i \in 1 .. Len(lists[a]), NEW k \in 1 .. Len(lists[b]),
                      lists[a][i].playerID = lists[b][k].playerID
               PROVE  a = b /\ i = k
    BY DEF NoneTwice
  <2>1. PICK x \in 1 .. Len(P[a][r]) : x = i
    BY <1>5
  <2>2. PICK y \in 1 .. Len(P[b][r]) : y = k
    BY <1>5
  <2>3. P[a][r][x].playerID = P[b][r][y].playerID
    BY <1>5, <2>1, <2>2
  <2>4. Apart(P)
    BY <1>3
  <2>5. ApartIn(P, a, b, r, r)
    BY <2>4 DEF Apart
  <2>6. a = b /\ x = y
    BY ONLY <2>3, <2>5, Zenon DEF ApartIn
  <2> QED BY <2>1, <2>2, <2>6
<1>8. PICK q : q = displayAllPlayersOfRole(r)
  OBVIOUS
<1>9. q = printMergedSortedPlayers(lists)
  BY <1>2, <1>4, <1>8, Zenon DEF displayAllPlayersOfRole
<1>10. /\ Descending(q) /\ Once(q)
       /\ \A p : p \in ToSet(q) <=> \E a \in 1 .. teamCount : p \in ToSet(lists[a])
  BY <1>2, <1>6, <1>7, <1>9, MergedIs
<1>11. ASSUME NEW p
       PROVE  (\E a \in 1 .. teamCount : p \in ToSet(lists[a]))
                <=> p \in AllPlayers /\ p.role = r
  <2>1. ASSUME NEW a \in 1 .. teamCount, p \in ToSet(lists[a])
        PROVE  p \in AllPlayers /\ p.role = r
    <3>1. p \in ToSet(teamsArray[a].players[r])
      BY <1>4, <2>1
    <3>2. p \in ListsOf(teamsArray[a])[r]
      BY <3>1 DEF ListsOf
    <3>3. p \in AllPlayers
      <4>1. p \in PlayersOf(teamsArray[a])
        BY <3>2, Zenon DEF PlayersOf
      <4> QED BY <1>2, <4>1, Zenon DEF AllPlayers
    <3>4. PICK k \in DOMAIN P[a][r] : p = P[a][r][k]
      BY <1>5, <2>1 DEF ToSet
    <3>5. k \in 1 .. Len(P[a][r])
      BY <3>4, ListIs
    <3>6. p.role = r
      BY <1>3, <3>4, <3>5 DEF HaveRoles
    <3> QED BY <3>3, <3>6
  <2>2. ASSUME p \in AllPlayers, p.role = r
        PROVE  \E a \in 1 .. teamCount : p \in ToSet(lists[a])
    <3>1. PICK a \in 1 .. teamCount : \E s \in Roles : p \in ListsOf(teamsArray[a])[s]
      <4>1. PICK a \in 1 .. teamCount : p \in PlayersOf(teamsArray[a])
        BY <1>2, <2>2, Zenon DEF AllPlayers
      <4>2. \E s \in Roles : p \in ListsOf(teamsArray[a])[s]
        BY <4>1, Zenon DEF PlayersOf
      <4> QED BY <4>2
    <3>2. PICK s \in Roles : p \in ListsOf(teamsArray[a])[s]
      BY <3>1
    <3>3. p \in ToSet(P[a][s])
      BY <1>3, <3>2 DEF ListsOf
    <3>4. PICK k \in DOMAIN P[a][s] : p = P[a][s][k]
      BY <3>3 DEF ToSet
    <3>5. k \in 1 .. Len(P[a][s])
      BY <3>4, ListIs
    <3>6. s = r
      BY <1>3, <2>2, <3>4, <3>5 DEF HaveRoles
    <3> QED BY <1>5, <3>3, <3>6
  <2> QED BY <2>1, <2>2
<1>12. ASSUME NEW p PROVE p \in ToSet(q) <=> p \in {x \in AllPlayers : x.role = r}
  BY <1>10, <1>11
<1>13. ToSet(q) = {x \in AllPlayers : x.role = r}
  BY <1>12, Zenon
<1> QED BY <1>8, <1>10, <1>13

(* The merged display of a role is ranked and has every player of it once, *)
(* for all the teams, players and careers (max_heap.c:79-127).             *)
THEOREM MergedInOrderAlways == TeamsSpec => []MergedInOrder
<1>1. TeamsInv => MergedInOrder
  BY DisplayIs, Zenon DEF MergedInOrder
<1> QED BY <1>1, TeamsInvariance, PTL

-----------------------------------------------------------------------------
(* Calculator: what is read of the line so far has its value on the stacks.  *)
IsLine(s) == Len(s) \in Nat /\ DOMAIN s = 1 .. Len(s)

(* The last of some places before another (lines 91-155).                  *)
LEMMA OpeningIs ==
  ASSUME NEW s, IsLine(s), NEW S, NEW e \in Upto(s)
  PROVE  /\ Opening(s, S, e) \in 0 .. e - 1
         /\ Opening(s, S, e) # 0 => Opening(s, S, e) \in Where(s, S)
         /\ \A k \in Where(s, S) : k < e => k <= Opening(s, S, e)
<1> DEFINE T == {0} \union {k \in Where(s, S) : k < e}
           R == {e - k : k \in T}
<1>1. e \in Nat /\ 1 <= e /\ T \subseteq 0 .. e - 1 /\ 0 \in T
  BY DEF Where, IsLine, Upto
<1>2. R \subseteq Nat /\ e - 0 \in R
  BY <1>1
<1>3. PICK m \in R : \A y \in R : m <= y
  <2> HIDE DEF R
  <2> QED BY <1>2, Least
<1>4. PICK o \in T : m = e - o
  OBVIOUS
<1>5. \A y \in T : o >= y
  <2>1. TAKE y \in T
  <2>2. e - y \in R
    OBVIOUS
  <2>3. m <= e - y
    BY <1>3, <2>2
  <2> QED BY <1>1, <1>4, <2>3
<1>6. Opening(s, S, e) = CHOOSE x \in T : \A y \in T : x >= y
  BY DEF Opening, Max
<1> HIDE DEF T, R
<1>7. Opening(s, S, e) \in T /\ \A y \in T : Opening(s, S, e) >= y
  BY <1>5, <1>6
<1>8. Opening(s, S, e) \in 0 .. e - 1
  BY <1>1, <1>7
<1>9. Opening(s, S, e) # 0 => Opening(s, S, e) \in Where(s, S)
  BY <1>7 DEF T
<1>10. ASSUME NEW k \in Where(s, S), k < e PROVE k <= Opening(s, S, e)
  <2>1. k \in T
    BY <1>10 DEF T
  <2>2. Opening(s, S, e) >= k
    BY <1>7, <2>1
  <2>3. k \in Int
    BY DEF Where, IsLine
  <2> QED BY <1>8, <2>2, <2>3
<1> QED BY <1>8, <1>9, <1>10

(* There is one such place. *)
LEMMA OpeningOnly ==
  ASSUME NEW s, IsLine(s), NEW S, NEW e \in Upto(s), NEW o \in 0 .. e - 1,
         o # 0 => o \in Where(s, S), \A k \in Where(s, S) : k < e => k <= o
  PROVE  Opening(s, S, e) = o
<1>1. PICK p \in 0 .. e - 1 : p = Opening(s, S, e)
  BY OpeningIs
<1>2. (p # 0 => p \in Where(s, S)) /\ \A k \in Where(s, S) : k < e => k <= p
  BY <1>1, OpeningIs
<1>3. e \in Nat
  BY DEF Upto, IsLine
<1>4. p <= o
  BY <1>2, <1>3
<1>5. o <= p
  BY <1>2, <1>3
<1> QED BY <1>1, <1>3, <1>4, <1>5

(* It stays the same over what is none of them. *)
LEMMA OpeningStays ==
  ASSUME NEW s, IsLine(s), NEW S, NEW h \in Upto(s), NEW g \in Upto(s), h <= g,
         \A k \in Where(s, S) : ~(h <= k /\ k < g)
  PROVE  Opening(s, S, g) = Opening(s, S, h)
<1>1. PICK p \in 0 .. h - 1 : p = Opening(s, S, h)
  BY OpeningIs
<1>2. (p # 0 => p \in Where(s, S)) /\ \A k \in Where(s, S) : k < h => k <= p
  BY <1>1, OpeningIs
<1>3. h \in Nat /\ g \in Nat /\ \A k \in Where(s, S) : k \in Nat
  BY DEF Upto, IsLine, Where
<1>4. p \in 0 .. g - 1 /\ \A k \in Where(s, S) : k < g => k <= p
  BY <1>2, <1>3
<1>5. Opening(s, S, g) = p
  BY <1>2, <1>4, OpeningOnly
<1> QED BY <1>1, <1>5

(* And one of them is the last before its successor. *)
LEMMA OpeningNext ==
  ASSUME NEW s, IsLine(s), NEW S, NEW h \in Where(s, S)
  PROVE  h + 1 \in Upto(s) /\ Opening(s, S, h + 1) = h
<1>1. h \in 1 .. Len(s) /\ Len(s) \in Nat /\ \A k \in Where(s, S) : k \in Nat
  BY DEF Where, IsLine
<1>2. h + 1 \in Upto(s) /\ h \in 0 .. h + 1 - 1 /\ \A k \in Where(s, S) : k < h + 1 => k <= h
  BY <1>1 DEF Upto
<1> QED BY <1>2, OpeningOnly

(* What goes from left to right is defined at every place. *)
LEMMA Chained ==
  ASSUME NEW s, IsLine(s), NEW left, NEW at, \A e \in Upto(s) : left[e] \in 0 .. e - 1
  PROVE  \A e \in Upto(s) :
           LeftToRight(s, left, at)[e] =
             IF left[e] = 0 THEN at[e]
             ELSE Combined(LeftToRight(s, left, at)[left[e]], s[left[e]], at[e])
<1> DEFINE n == Len(s) + 1
           Taken(g, e) == IF left[e] = 0 THEN at[e] ELSE Combined(g[left[e]], s[left[e]], at[e])
           Follows(g, m) == DOMAIN g = 1 .. m /\ \A e \in 1 .. m : g[e] = Taken(g, e)
           Reached == {m \in 0 .. n : \E g : Follows(g, m)}
<1>1. n \in Nat /\ Upto(s) = 1 .. n
  BY DEF IsLine, Upto
<1>2. \A e \in 1 .. n : left[e] \in 0 .. e - 1
  BY <1>1
<1>3. 0 \in Reached
  <2>1. Follows([e \in 1 .. 0 |-> {}], 0)
    OBVIOUS
  <2> HIDE DEF Follows
  <2> QED BY <1>1, <2>1
<1> HIDE DEF n
<1>4. ASSUME NEW k \in 0 + 1 .. n, k - 1 \in Reached PROVE k \in Reached
  <2>1. PICK g : Follows(g, k - 1)
    BY <1>4
  <2> DEFINE f == [e \in 1 .. k |-> IF e = k THEN Taken(g, k) ELSE g[e]]
  <2>2. DOMAIN f = 1 .. k /\ f[k] = Taken(g, k) /\ \A e \in 1 .. k - 1 : f[e] = g[e]
    BY <1>1
  <2> HIDE DEF f
  <2>3. ASSUME NEW e \in 1 .. k PROVE f[e] = Taken(f, e)
    <3>1. left[e] \in 0 .. e - 1
      BY <1>1, <1>2
    <3>2. Taken(f, e) = Taken(g, e)
      <4>1. CASE left[e] = 0
        BY <4>1
      <4>2. CASE left[e] # 0
        <5>1. left[e] \in 1 .. k - 1
          BY <1>1, <3>1, <4>2
        <5> QED BY <2>2, <5>1
      <4> QED BY <4>1, <4>2
    <3>3. CASE e = k
      BY <2>2, <3>2, <3>3
    <3>4. CASE e # k
      <4>1. e \in 1 .. k - 1
        BY <1>1, <3>4
      <4>2. f[e] = g[e] /\ g[e] = Taken(g, e)
        BY <2>1, <2>2, <4>1
      <4> QED BY <3>2, <4>2
    <3> QED BY <3>3, <3>4
  <2>4. Follows(f, k)
    BY <2>2, <2>3
  <2>5. k \in 0 .. n
    BY <1>1
  <2> HIDE DEF Follows
  <2> QED BY <2>4, <2>5
<1>5. n \in Reached
  <2> HIDE DEF Reached
  <2>1. n \in Nat /\ 0 \in Nat
    BY <1>1
  <2>2. 0 .. n \subseteq Reached
    BY ONLY <1>3, <1>4, <2>1, Upwards
  <2> QED BY <2>1, <2>2
<1>6. PICK g : Follows(g, n)
  BY <1>5
<1> DEFINE Body(f) == [e \in Upto(s) |-> IF left[e] = 0 THEN at[e]
                                        ELSE Combined(f[left[e]], s[left[e]], at[e])]
           upto == CHOOSE f : f = Body(f)
<1>7. DOMAIN g = 1 .. n /\ \A e \in 1 .. n : g[e] = Taken(g, e)
  BY <1>6
<1>8. PICK f : f = Body(f)
  <2> DEFINE f == [e \in 1 .. n |-> g[e]]
  <2>1. \A e \in 1 .. n : left[e] # 0 => left[e] \in 1 .. n
    BY <1>1, <1>2
  <2>2. \A e \in 1 .. n : Taken(f, e) = Taken(g, e)
    BY <2>1
  <2>3. f = [e \in 1 .. n |-> Taken(f, e)]
    BY <1>7, <2>2
  <2>4. f = Body(f)
    BY <1>1, <2>3
  <2> HIDE DEF f, Body
  <2> QED BY <2>4
<1>9. upto = Body(upto)
  <2> HIDE DEF Body
  <2> QED BY <1>8, Zenon
<1>10. LeftToRight(s, left, at) = upto
  BY Zenon DEF LeftToRight
<1> HIDE DEF upto
<1> QED BY <1>9, <1>10

(* A product up to a place, by the operator before it. *)
LEMMA ProductTakes ==
  ASSUME NEW s, IsLine(s), NEW e \in Upto(s)
  PROVE  LET o == Opening(s, Operators, e) IN
         ProductTo(s)[e] = IF o = 0 \/ o \in Where(s, Weak) THEN NumberTo(s)[e]
                           ELSE Combined(ProductTo(s)[o], s[o], NumberTo(s)[e])
<1> DEFINE left == InProduct(s)
           o == Opening(s, Operators, e)
<1>1. \A d \in Upto(s) : left[d] = IF Opening(s, Operators, d) \in Where(s, Weak) THEN 0
                                   ELSE Opening(s, Operators, d)
  BY DEF InProduct
<1>2. ASSUME NEW d \in Upto(s) PROVE left[d] \in 0 .. d - 1
  <2>1. PICK p \in 0 .. d - 1 : p = Opening(s, Operators, d)
    BY OpeningIs
  <2>2. left[d] = p \/ left[d] = 0
    BY <1>1, <2>1
  <2>3. d \in Nat
    BY DEF Upto, IsLine
  <2> QED BY <2>1, <2>2, <2>3
<1> HIDE DEF left
<1>3. \A d \in Upto(s) :
        LeftToRight(s, left, NumberTo(s))[d] =
          IF left[d] = 0 THEN NumberTo(s)[d]
          ELSE Combined(LeftToRight(s, left, NumberTo(s))[left[d]], s[left[d]], NumberTo(s)[d])
  BY <1>2, Chained
<1>4. ProductTo(s) = LeftToRight(s, left, NumberTo(s))
  BY DEF ProductTo, left
<1>5. 0 \notin Where(s, Weak)
  BY DEF Where, IsLine
<1>6. left[e] = IF o \in Where(s, Weak) THEN 0 ELSE o
  BY <1>1
<1>7. left[e] = 0 <=> o = 0 \/ o \in Where(s, Weak)
  BY <1>5, <1>6
<1>8. left[e] # 0 => left[e] = o
  BY <1>6
<1> HIDE DEF o
<1>9. ProductTo(s)[e] = IF o = 0 \/ o \in Where(s, Weak) THEN NumberTo(s)[e]
                        ELSE Combined(ProductTo(s)[o], s[o], NumberTo(s)[e])
  BY <1>3, <1>4, <1>7, <1>8
<1> QED BY <1>9 DEF o

(* The same of a sum, by the last weak operator. *)
LEMMA SumTakes ==
  ASSUME NEW s, IsLine(s), NEW e \in Upto(s)
  PROVE  LET w == Opening(s, Weak, e) IN
         SumTo(s)[e] = IF w = 0 THEN ProductTo(s)[e]
                       ELSE Combined(SumTo(s)[w], s[w], ProductTo(s)[e])
<1> DEFINE left == InSum(s)
<1>1. \A d \in Upto(s) : left[d] = Opening(s, Weak, d)
  BY DEF InSum
<1>2. \A d \in Upto(s) : left[d] \in 0 .. d - 1
  BY <1>1, OpeningIs
<1> HIDE DEF left
<1>3. \A d \in Upto(s) :
        LeftToRight(s, left, ProductTo(s))[d] =
          IF left[d] = 0 THEN ProductTo(s)[d]
          ELSE Combined(LeftToRight(s, left, ProductTo(s))[left[d]], s[left[d]],
                        ProductTo(s)[d])
  BY <1>2, Chained
<1>4. SumTo(s) = LeftToRight(s, left, ProductTo(s))
  BY DEF SumTo, left
<1> QED BY <1>1, <1>3, <1>4

(* The weak ones are some of the operators. *)
LEMMA WeakIsOperator == ASSUME NEW s PROVE Where(s, Weak) \subseteq Where(s, Operators)
  BY DEF Where, Weak, Operators

(* There is no operator from h to g. *)
Plain(s, h, g) == h <= g /\ \A k \in Where(s, Operators) : ~(h <= k /\ k < g)

(* Then no stretch ends, and what begins there is added to it. *)
LEMMA StretchGrows ==
  ASSUME NEW s, IsLine(s), NEW h \in Upto(s), NEW g \in Upto(s), Plain(s, h, g)
  PROVE  /\ Opening(s, Operators, g) = Opening(s, Operators, h)
         /\ Opening(s, Weak, g) = Opening(s, Weak, h)
         /\ Stretch(s, g) = Stretch(s, h) \union {k \in Numbers(s) : h <= k /\ k < g}
<1>1. Opening(s, Operators, g) = Opening(s, Operators, h)
  BY OpeningStays DEF Plain
<1>2. Opening(s, Weak, g) = Opening(s, Weak, h)
  BY WeakIsOperator, OpeningStays DEF Plain
<1>3. h \in Nat /\ g \in Nat /\ h <= g /\ \A k \in Numbers(s) : k \in Nat
  BY DEF Upto, IsLine, Numbers, Where, Plain
<1>4. PICK o \in 0 .. h - 1 : o = Opening(s, Operators, h)
  BY OpeningIs
<1>5. Stretch(s, h) = {k \in Numbers(s) : o < k /\ k < h}
      /\ Stretch(s, g) = {k \in Numbers(s) : o < k /\ k < g}
  BY <1>1, <1>4 DEF Stretch
<1>6. \A k \in Numbers(s) : o < k /\ k < g <=> (o < k /\ k < h) \/ (h <= k /\ k < g)
  BY <1>3
<1>7. Stretch(s, g) = Stretch(s, h) \union {k \in Numbers(s) : h <= k /\ k < g}
  BY <1>5, <1>6
<1> QED BY <1>1, <1>2, <1>7

(* All keeps its meaning if no number begins there. *)
LEMMA MeaningStays ==
  ASSUME NEW s, IsLine(s), NEW h \in Upto(s), NEW g \in Upto(s), Plain(s, h, g),
         Stretch(s, g) = Stretch(s, h)
  PROVE  /\ NumberTo(s)[g] = NumberTo(s)[h] /\ ProductTo(s)[g] = ProductTo(s)[h]
         /\ SumTo(s)[g] = SumTo(s)[h]
<1>1. Opening(s, Operators, g) = Opening(s, Operators, h)
      /\ Opening(s, Weak, g) = Opening(s, Weak, h)
  BY StretchGrows
<1>2. NumberTo(s)[g] = NumberTo(s)[h]
  BY DEF NumberTo
<1>3. ProductTo(s)[g] = ProductTo(s)[h]
  BY <1>1, <1>2, ProductTakes
<1>4. SumTo(s)[g] = SumTo(s)[h]
  BY <1>1, <1>3, SumTakes
<1> QED BY <1>2, <1>3, <1>4

(* Every place is before an end, with no operator on the way. *)
LEMMA NextEnd ==
  ASSUME NEW s, IsLine(s), NEW h \in Upto(s)
  PROVE  \E e \in Ends(s) : e \in Upto(s) /\ Plain(s, h, e)
<1> DEFINE T == {e \in Ends(s) : h <= e}
<1>1. Ends(s) \subseteq Upto(s) /\ Upto(s) \subseteq Nat /\ Len(s) \in Nat
      /\ Upto(s) = 1 .. Len(s) + 1
  BY DEF Ends, Upto, Where, IsLine
<1>2. Len(s) + 1 \in T
  BY <1>1 DEF Ends
<1>3. T \subseteq Nat
  BY <1>1
<1>4. PICK e \in T : \A y \in T : e <= y
  <2> HIDE DEF T
  <2> QED BY <1>2, <1>3, Least
<1>5. ASSUME NEW k \in Where(s, Operators), h <= k, k < e PROVE FALSE
  <2>1. k \in T
    BY <1>5 DEF Ends
  <2>2. k \in Nat /\ e \in Nat /\ e <= k
    BY <1>3, <1>4, <2>1
  <2> QED BY <1>5, <2>2
<1> QED BY <1>1, <1>4, <1>5 DEF Plain

(* In an expression a stretch has one number, and one more would be too    *)
(* many.                                                                   *)
LEMMA OneNumber ==
  ASSUME NEW s, IsLine(s), Expression(s), NEW h \in Upto(s)
  PROVE  /\ h \in Numbers(s) => Stretch(s, h) = {}
         /\ h \in Ends(s) => Stretch(s, h) # {}
         /\ \A k \in Stretch(s, h) : Stretch(s, h) = {k}
<1>1. PICK e \in Ends(s) : e \in Upto(s) /\ Plain(s, h, e)
  BY NextEnd
<1>2. Stretch(s, e) = Stretch(s, h) \union {k \in Numbers(s) : h <= k /\ k < e}
  BY <1>1, StretchGrows
<1>3. PICK k \in Numbers(s) : Stretch(s, e) = {k}
  BY DEF Expression
<1>4. \A j \in Stretch(s, h) : Stretch(s, h) = {j}
  BY <1>2, <1>3
<1>5. ASSUME h \in Numbers(s) PROVE Stretch(s, h) = {}
  <2>1. h \notin Ends(s)
    BY LineAssumption, <1>5 DEF Numbers, Ends, Where, IsLine
  <2>2. h # e
    BY <2>1
  <2>3. h \in Nat /\ e \in Nat /\ h <= e
    BY <1>1 DEF Upto, IsLine, Plain
  <2>4. h \in Stretch(s, e)
    BY <1>2, <1>5, <2>2, <2>3
  <2>5. h \notin Stretch(s, h)
    BY <2>3 DEF Stretch
  <2> QED BY <1>2, <1>3, <2>4, <2>5
<1>6. h \in Ends(s) => Stretch(s, h) # {}
  BY DEF Expression
<1> QED BY <1>4, <1>5, <1>6

(* A sum has no result when its last product or the sum before has none.  *)
LEMMA SumSpoils ==
  ASSUME NEW s, IsLine(s), NEW e \in Upto(s)
  PROVE  LET w == Opening(s, Weak, e) IN
         /\ ProductTo(s)[e] = {} => SumTo(s)[e] = {}
         /\ w # 0 /\ SumTo(s)[w] = {} => SumTo(s)[e] = {}
<1> DEFINE w == Opening(s, Weak, e)
<1>1. SumTo(s)[e] = IF w = 0 THEN ProductTo(s)[e]
                    ELSE Combined(SumTo(s)[w], s[w], ProductTo(s)[e])
  BY SumTakes
<1>2. \A x, op : Combined(x, op, {}) = {} /\ Combined({}, op, x) = {}
  BY DEF Combined
<1> HIDE DEF w
<1>3. ProductTo(s)[e] = {} => SumTo(s)[e] = {}
  BY <1>1, <1>2
<1>4. w # 0 /\ SumTo(s)[w] = {} => SumTo(s)[e] = {}
  BY <1>1, <1>2
<1> QED BY <1>3, <1>4 DEF w

(* A product without a result leaves its sum and the line without one.     *)
LEMMA Spoils ==
  ASSUME NEW s, IsLine(s), NEW h \in Ends(s), ProductTo(s)[h] = {}
  PROVE  Meaning(s) = {}
<1> DEFINE n == Len(s) + 1
           Bad(j) == /\ SumTo(s)[j] = {}
                     /\ Opening(s, Weak, j) < h => ProductTo(s)[j] = {}
           Spoilt == {m \in h .. n : \A j \in h .. m : Bad(j)}
<1>1. n \in Nat /\ h \in 1 .. n /\ Upto(s) = 1 .. n
  BY DEF IsLine, Ends, Where, Upto
<1>2. \A x, op : Combined(x, op, {}) = {} /\ Combined({}, op, x) = {}
  BY DEF Combined
<1> HIDE DEF n
<1>3. Bad(h)
  BY <1>1, SumSpoils
<1>4. h \in Spoilt
  <2> HIDE DEF Bad
  <2>1. \A j \in h .. h : j = h
    BY <1>1
  <2> QED BY <1>1, <1>3, <2>1
<1>5. ASSUME NEW k \in h + 1 .. n, k - 1 \in Spoilt PROVE k \in Spoilt
  <2>1. \A j \in h .. k - 1 : Bad(j)
    BY <1>5
  <2>2. k \in Upto(s) /\ k \in Nat /\ h \in Upto(s) /\ h < k
    BY <1>1
  <2>3. h \in Where(s, Operators)
    BY <1>1, <2>2 DEF Ends, n
  <2>4. PICK w \in 0 .. k - 1 : w = Opening(s, Weak, k)
    BY <2>2, OpeningIs
  <2>5. PICK o \in 0 .. k - 1 : o = Opening(s, Operators, k)
    BY <2>2, OpeningIs
  <2>6. h <= o
    BY <2>2, <2>3, <2>5, OpeningIs
  <2>7. ASSUME w < h PROVE ProductTo(s)[k] = {}
    <3>1. o \notin Where(s, Weak)
      <4>1. o \in Where(s, Weak) => o <= w
        BY <2>2, <2>4, <2>5, OpeningIs
      <4> QED BY <1>1, <2>4, <2>5, <2>6, <2>7, <4>1
    <3>2. o \in h .. k - 1 /\ o \in Upto(s) /\ o # 0
      BY <1>1, <2>2, <2>5, <2>6
    <3>3. Opening(s, Weak, o) < h
      <4>1. PICK v \in 0 .. o - 1 : v = Opening(s, Weak, o)
        BY <3>2, OpeningIs
      <4>2. v # 0 => v \in Where(s, Weak)
        BY <3>2, <4>1, OpeningIs
      <4>3. v # 0 => v <= w
        BY <2>2, <2>4, <3>2, <4>1, <4>2, OpeningIs
      <4> QED BY <1>1, <2>4, <2>7, <4>1, <4>3
    <3>4. ProductTo(s)[o] = {}
      BY <2>1, <3>2, <3>3
    <3>5. ProductTo(s)[k] = Combined(ProductTo(s)[o], s[o], NumberTo(s)[k])
      BY <2>2, <2>5, <3>1, <3>2, ProductTakes
    <3> QED BY <1>2, <3>4, <3>5
  <2>8. SumTo(s)[k] = {}
    <3>1. CASE w < h
      BY <2>2, <2>7, <3>1, SumSpoils
    <3>2. CASE ~(w < h)
      <4>1. w \in h .. k - 1 /\ w # 0
        BY <1>1, <2>4, <3>2
      <4>2. SumTo(s)[w] = {}
        BY <2>1, <4>1
      <4> QED BY <2>2, <2>4, <4>1, <4>2, SumSpoils
    <3> QED BY <3>1, <3>2
  <2>9. Bad(k)
    BY <2>4, <2>7, <2>8
  <2> HIDE DEF Bad
  <2>10. \A j \in h .. k : j = k \/ j \in h .. k - 1
    BY <1>1
  <2>11. k \in h .. n
    BY <1>1
  <2> QED BY <2>1, <2>9, <2>10, <2>11
<1>6. n \in Spoilt
  <2> HIDE DEF Spoilt
  <2>1. n \in Nat /\ h \in Nat
    BY <1>1
  <2>2. h .. n \subseteq Spoilt
    BY ONLY <1>4, <1>5, <2>1, Upwards
  <2> QED BY <1>1, <2>2
<1>7. SumTo(s)[n] = {}
  BY <1>1, <1>6
<1> QED BY <1>7 DEF Meaning, n

(* A number is read to its last digit (lines 102-106). *)
LEMMA EndOfNumberIs ==
  ASSUME NEW s, IsLine(s), NEW h \in Where(s, Digits)
  PROVE  LET e == EndOfNumber(s, h) IN
         /\ e \in h .. Len(s) /\ \A j \in h .. e : s[j] \in Digits
         /\ e < Len(s) => s[e + 1] \notin Digits
<1> DEFINE Stops(e) == e < Len(s) => s[e + 1] \notin Digits
           T == {e \in h .. Len(s) : Stops(e)}
           Is(e) == (\A j \in h .. e : s[j] \in Digits) /\ Stops(e)
<1>1. h \in 1 .. Len(s) /\ Len(s) \in Nat /\ s[h] \in Digits
  BY DEF Where, IsLine
<1>2. Len(s) \in T /\ T \subseteq Nat
  BY <1>1
<1>3. PICK e \in T : \A y \in T : e <= y
  <2> HIDE DEF T
  <2> QED BY <1>2, Least
<1>4. ASSUME NEW j \in h .. e, s[j] \notin Digits PROVE FALSE
  <2>1. PICK l \in h .. Len(s) : l + 1 = j /\ l < e
    <3>1. j - 1 \in h .. Len(s) /\ j - 1 + 1 = j /\ j - 1 < e
      BY <1>1, <1>4
    <3> QED BY <3>1
  <2>2. l \in T
    BY <1>4, <2>1
  <2> QED BY <1>1, <1>3, <2>1, <2>2
<1>5. e \in h .. Len(s) /\ Is(e)
  BY <1>3, <1>4
<1>6. EndOfNumber(s, h) = CHOOSE x \in h .. Len(s) : Is(x)
  BY DEF EndOfNumber
<1>7. EndOfNumber(s, h) \in h .. Len(s) /\ Is(EndOfNumber(s, h))
  <2> HIDE DEF Is
  <2> QED BY <1>5, <1>6
<1> QED BY <1>7

(* A stack of whatever operands or operators there are. *)
IsStack(q) == \E V : q \in Seq(V)

(* A stack has a length. *)
LEMMA StackIs == ASSUME NEW q, IsStack(q) PROVE Len(q) \in Nat
  BY LenProperties DEF IsStack

(* push (lines 25-29). *)
LEMMA PushIs ==
  ASSUME NEW q, IsStack(q), Len(q) < STACK_CAPACITY, NEW x
  PROVE  /\ IsStack(push(q, x)) /\ Len(push(q, x)) = Len(q) + 1
         /\ push(q, x)[Len(q) + 1] = x /\ \A j \in 1 .. Len(q) : push(q, x)[j] = q[j]
<1>1. PICK V : q \in Seq(V)
  BY DEF IsStack
<1> DEFINE U == V \union {x}
<1>2. q \in Seq(U) /\ x \in U
  BY <1>1, SeqWider
<1> HIDE DEF U
<1>3. push(q, x) = Append(q, x)
  BY DEF push
<1> QED BY <1>2, <1>3, AppendProperties DEF IsStack

(* pop (lines 31-39). *)
LEMMA PoppedIs ==
  ASSUME NEW q, IsStack(q), NEW m \in 0 .. Len(q)
  PROVE  /\ IsStack(Popped(q, m)) /\ Len(Popped(q, m)) = Len(q) - m
         /\ \A j \in 1 .. Len(q) - m : Popped(q, m)[j] = q[j]
<1>1. PICK V : q \in Seq(V)
  BY DEF IsStack
<1>2. Len(q) \in Nat /\ Len(q) - m \in 0 .. Len(q)
  BY <1>1, LenProperties
<1> DEFINE n == Len(q) - m
<1>3. /\ SubSeq(q, 1, n) \in Seq(V) /\ Len(SubSeq(q, 1, n)) = n
      /\ \A j \in 1 .. n : SubSeq(q, 1, n)[j] = q[j]
  <2>1. \A j \in 1 .. n : q[j] \in V
    BY <1>1, <1>2, ElementOfSeq
  <2> HIDE DEF n
  <2>2. 1 \in Int /\ n \in Int /\ n \in Nat
    BY <1>2 DEF n
  <2>3. /\ SubSeq(q, 1, n) \in Seq(V)
        /\ Len(SubSeq(q, 1, n)) = IF 1 <= n THEN n - 1 + 1 ELSE 0
        /\ \A j \in 1 .. n - 1 + 1 : SubSeq(q, 1, n)[j] = q[1 + j - 1]
    BY <2>1, <2>2, SubSeqProperties
  <2> QED BY <2>2, <2>3
<1> QED BY <1>3 DEF Popped, IsStack

(* The number of places before another grows by those that are passed.     *)
Passed(T, h) == {k \in T : k < h}

(* By one that is passed, or by none. *)
LEMMA PassedIs ==
  ASSUME NEW T, T \subseteq Nat, NEW h \in Nat, NEW g \in Nat
  PROVE  /\ Cardinality(Passed(T, h)) \in Nat
         /\ h <= g /\ (\A k \in T : ~(h <= k /\ k < g))
              => Cardinality(Passed(T, g)) = Cardinality(Passed(T, h))
         /\ h < g /\ h \in T /\ (\A k \in T : ~(h < k /\ k < g))
              => Cardinality(Passed(T, g)) = Cardinality(Passed(T, h)) + 1
<1>0. \A k \in T : k \in Nat
  OBVIOUS
<1>1. IsFiniteSet(Passed(T, h))
  BY FS_BoundedSetOfNaturals DEF Passed
<1>2. Cardinality(Passed(T, h)) \in Nat
  BY <1>1, FS_CardinalityType
<1>3. ASSUME h <= g, \A k \in T : ~(h <= k /\ k < g)
      PROVE  Passed(T, g) = Passed(T, h)
  <2>1. \A k \in T : k < g <=> k < h
    BY <1>0, <1>3
  <2> QED BY <2>1 DEF Passed
<1>4. ASSUME h < g, h \in T, \A k \in T : ~(h < k /\ k < g)
      PROVE  Passed(T, g) = Passed(T, h) \union {h} /\ h \notin Passed(T, h)
  <2>1. \A k \in T : k < g <=> k < h \/ k = h
    BY <1>0, <1>4
  <2> QED BY <1>4, <2>1 DEF Passed
<1> QED BY <1>1, <1>2, <1>3, <1>4, FS_AddElement

(* What the stacks hold when the characters before h are read, xs the      *)
(* operands and ops the operators: below, a sum and its operator if there  *)
(* is one before h, w.  Above, by what has been read since the last        *)
(* operator o: nothing, and the operator ends a sum or a product, or a     *)
(* number, which may have been taken into the product or the sum.          *)
Below(w) == IF w = 0 THEN 0 ELSE 1

SumHeld(s, w, xs, ops) == w # 0 => ops[1] = s[w] /\ SumTo(s)[w] = {xs[1]}
ProductHeld(s, o, j, xs, ops) == ops[j] = s[o] /\ ProductTo(s)[o] = {xs[j]}

AfterSum(s, h, w, o, xs, ops) ==
  /\ SumHeld(s, w, xs, ops) /\ Stretch(s, h) = {} /\ o = w
  /\ Len(ops) = Below(w) /\ Len(xs) = Below(w)

AfterProduct(s, h, w, o, xs, ops) ==
  /\ SumHeld(s, w, xs, ops) /\ Stretch(s, h) = {} /\ o # w
  /\ Len(ops) = Below(w) + 1 /\ Len(xs) = Below(w) + 1
  /\ ProductHeld(s, o, Below(w) + 1, xs, ops)

WithFactor(s, h, w, o, xs, ops) ==
  /\ SumHeld(s, w, xs, ops) /\ Stretch(s, h) # {} /\ o # w
  /\ Len(ops) = Below(w) + 1 /\ Len(xs) = Below(w) + 2
  /\ ProductHeld(s, o, Below(w) + 1, xs, ops) /\ NumberTo(s)[h] = {xs[Below(w) + 2]}

WithProduct(s, h, w, xs, ops) ==
  /\ SumHeld(s, w, xs, ops) /\ Stretch(s, h) # {}
  /\ Len(ops) = Below(w) /\ Len(xs) = Below(w) + 1 /\ ProductTo(s)[h] = {xs[Below(w) + 1]}

WithSum(s, h, xs, ops) ==
  /\ Stretch(s, h) # {} /\ Len(ops) = 0 /\ Len(xs) = 1 /\ SumTo(s)[h] = {xs[1]}
  /\ h \in Where(s, Weak) \/ h = Len(s) + 1

Form(s, h, w, o, xs, ops) ==
  \/ AfterSum(s, h, w, o, xs, ops) \/ AfterProduct(s, h, w, o, xs, ops)
  \/ WithFactor(s, h, w, o, xs, ops) \/ WithProduct(s, h, w, xs, ops)
  \/ WithSum(s, h, xs, ops)

Holds(s, h, xs, ops) ==
  Form(s, h, Opening(s, Weak, h), Opening(s, Operators, h), xs, ops)

(* The last operator and the last weak one, and what a product is by them. *)
LEMMA LastOperators ==
  ASSUME NEW s, IsLine(s), NEW h \in Upto(s),
         NEW w, w = Opening(s, Weak, h), NEW o, o = Opening(s, Operators, h)
  PROVE  /\ w \in 0 .. h - 1 /\ o \in 0 .. h - 1
         /\ w # 0 => s[w] \in Weak /\ w \in Where(s, Operators)
         /\ o # w => o # 0 /\ s[o] \in {"*", "/"} /\ o \in Where(s, Operators)
         /\ o = w => ProductTo(s)[h] = NumberTo(s)[h]
         /\ o # w => ProductTo(s)[h] = Combined(ProductTo(s)[o], s[o], NumberTo(s)[h])
         /\ w = 0 => SumTo(s)[h] = ProductTo(s)[h]
         /\ w # 0 => SumTo(s)[h] = Combined(SumTo(s)[w], s[w], ProductTo(s)[h])
<1>1. /\ w \in 0 .. h - 1 /\ (w # 0 => w \in Where(s, Weak))
      /\ \A k \in Where(s, Weak) : k < h => k <= w
  BY OpeningIs
<1>2. /\ o \in 0 .. h - 1 /\ (o # 0 => o \in Where(s, Operators))
      /\ \A k \in Where(s, Operators) : k < h => k <= o
  BY OpeningIs
<1>3. h \in Nat /\ 0 \notin Where(s, Weak)
  BY DEF Upto, IsLine, Where
<1>4. w <= o
  <2>1. w # 0 => w \in Where(s, Operators) /\ w < h
    BY <1>1, <1>3, WeakIsOperator
  <2> QED BY <1>1, <1>2, <1>3, <2>1
<1>5. o \in Where(s, Weak) => o = w
  <2>1. o \in Where(s, Weak) => o <= w
    BY <1>1, <1>2, <1>3
  <2>2. w \in Nat /\ o \in Nat
    BY <1>1, <1>2, <1>3
  <2> QED BY <1>4, <2>1, <2>2
<1>6. o # w => o # 0
  <2>1. w \in Nat /\ o \in Nat
    BY <1>1, <1>2, <1>3
  <2> QED BY <1>4, <2>1
<1>7. o # w => s[o] \in {"*", "/"} /\ o \in Where(s, Operators)
  BY <1>2, <1>5, <1>6 DEF Where, Operators, Weak
<1>8. o = w => o = 0 \/ o \in Where(s, Weak)
  BY <1>1
<1>9. o # w => ~(o = 0 \/ o \in Where(s, Weak))
  BY <1>5, <1>6
<1>10. ProductTo(s)[h] = IF o = 0 \/ o \in Where(s, Weak) THEN NumberTo(s)[h]
                         ELSE Combined(ProductTo(s)[o], s[o], NumberTo(s)[h])
  BY ProductTakes
<1>11. SumTo(s)[h] = IF w = 0 THEN ProductTo(s)[h]
                     ELSE Combined(SumTo(s)[w], s[w], ProductTo(s)[h])
  BY SumTakes
<1>12. w # 0 => s[w] \in Weak /\ w \in Where(s, Operators)
  BY <1>1, WeakIsOperator DEF Where
<1> QED BY <1>1, <1>2, <1>6, <1>7, <1>8, <1>9, <1>10, <1>11, <1>12

(* The result of two operands, if there is one. *)
LEMMA CombinedOne ==
  ASSUME NEW x, NEW op, NEW y
  PROVE  Combined({x}, op, {y}) =
           IF Undefined(op, y) THEN {} ELSE {applyOperator(x, y, op)}
<1>1. CASE Undefined(op, y)
  <2>1. {z \in {y} : ~Undefined(op, z)} = {}
    BY <1>1
  <2> QED BY <1>1, <2>1 DEF Combined
<1>2. CASE ~Undefined(op, y)
  <2>1. {z \in {y} : ~Undefined(op, z)} = {y}
    BY <1>2
  <2> QED BY <1>2, <2>1 DEF Combined
<1> QED BY <1>1, <1>2

(* Two classes of operators (lines 51-58). *)
LEMMA Precedences ==
  /\ \A op \in {"*", "/"} : getOperatorPrecedence(op) = 2
  /\ \A op \in Weak : getOperatorPrecedence(op) = 1 /\ op # "/"
  BY DEF getOperatorPrecedence, Weak

(* There is a sum below the rest, or none. *)
LEMMA BelowIs ==
  ASSUME NEW w PROVE Below(w) \in {0, 1} /\ (Below(w) = 0 <=> w = 0)
  BY DEF Below

(* Over a space. *)
LEMMA HoldsOver ==
  ASSUME NEW s, IsLine(s), NEW h \in Upto(s), NEW g \in Upto(s), Plain(s, h, g),
         h \notin Ends(s), \A k \in Numbers(s) : ~(h <= k /\ k < g),
         NEW xs, NEW ops, Holds(s, h, xs, ops)
  PROVE  Holds(s, g, xs, ops)
<1>1. Opening(s, Operators, g) = Opening(s, Operators, h)
      /\ Opening(s, Weak, g) = Opening(s, Weak, h) /\ Stretch(s, g) = Stretch(s, h)
  BY StretchGrows
<1>2. NumberTo(s)[g] = NumberTo(s)[h] /\ ProductTo(s)[g] = ProductTo(s)[h]
  BY <1>1, MeaningStays
<1> DEFINE w == Opening(s, Weak, h)
           o == Opening(s, Operators, h)
<1>3. Form(s, h, w, o, xs, ops)
  BY DEF Holds
<1>4. ~WithSum(s, h, xs, ops)
  BY WeakIsOperator DEF WithSum, Ends
<1> HIDE DEF w, o
<1>5. Form(s, g, w, o, xs, ops)
  BY <1>1, <1>2, <1>3, <1>4 DEF Form, AfterSum, AfterProduct, WithFactor, WithProduct
<1> QED BY <1>1, <1>5 DEF Holds, w, o

(* Over a number, which is pushed. *)
LEMMA HoldsRead ==
  ASSUME NEW s, IsLine(s), Expression(s), NEW h \in Upto(s), NEW g \in Upto(s),
         Plain(s, h, g), h < g, h \in Numbers(s),
         \A k \in Numbers(s) : ~(h < k /\ k < g), NEW xs, NEW ops, Holds(s, h, xs, ops),
         NEW ys, Len(ys) = Len(xs) + 1, ys[Len(xs) + 1] = NumberAt(s, h),
         \A j \in 1 .. Len(xs) : ys[j] = xs[j]
  PROVE  Holds(s, g, ys, ops)
<1> DEFINE w == Opening(s, Weak, h)
           o == Opening(s, Operators, h)
           b == Below(w)
<1>1. h \in Nat /\ \A k \in Numbers(s) : k \in Nat
  BY DEF Upto, IsLine, Numbers, Where
<1>2. Stretch(s, h) = {} /\ Opening(s, Operators, g) = o /\ Opening(s, Weak, g) = w
      /\ Stretch(s, g) = Stretch(s, h) \union {k \in Numbers(s) : h <= k /\ k < g}
  BY OneNumber, StretchGrows
<1>3. {k \in Numbers(s) : h <= k /\ k < g} = {h}
  <2>1. \A k \in Numbers(s) : h <= k /\ k < g <=> k = h
    BY <1>1
  <2> QED BY <2>1
<1>4. Stretch(s, g) = {h}
  BY <1>2, <1>3
<1>5. NumberTo(s)[g] = {NumberAt(s, h)}
  BY <1>4 DEF NumberTo
<1>6. Form(s, h, w, o, xs, ops)
  BY DEF Holds
<1>7. o = w => ProductTo(s)[g] = NumberTo(s)[g]
  BY <1>2, LastOperators
<1>8. b \in {0, 1} /\ (b = 0 <=> w = 0)
  BY BelowIs
<1> HIDE DEF w, o
<1>9. CASE AfterSum(s, h, w, o, xs, ops)
  <2>1. Len(xs) = b /\ Len(ops) = b /\ o = w /\ SumHeld(s, w, xs, ops)
    BY <1>9 DEF AfterSum
  <2>2. Len(ys) = b + 1 /\ ys[b + 1] = NumberAt(s, h) /\ (w # 0 => ys[1] = xs[1])
    BY <1>8, <2>1
  <2> HIDE DEF b
  <2>3. WithProduct(s, g, w, ys, ops)
    BY <1>4, <1>5, <1>7, <2>1, <2>2 DEF WithProduct, SumHeld, b
  <2> QED BY <1>2, <2>3 DEF Holds, Form
<1>10. CASE AfterProduct(s, h, w, o, xs, ops)
  <2>1. Len(xs) = b + 1 /\ Len(ops) = b + 1 /\ o # w /\ SumHeld(s, w, xs, ops)
        /\ ProductHeld(s, o, b + 1, xs, ops)
    BY <1>10 DEF AfterProduct
  <2>2. Len(ys) = b + 2 /\ ys[b + 2] = NumberAt(s, h) /\ ys[b + 1] = xs[b + 1] /\ ys[1] = xs[1]
    BY <1>8, <2>1
  <2> HIDE DEF b
  <2>3. WithFactor(s, g, w, o, ys, ops)
    BY <1>4, <1>5, <2>1, <2>2 DEF WithFactor, SumHeld, ProductHeld, b
  <2> QED BY <1>2, <2>3 DEF Holds, Form
<1>11. ~WithFactor(s, h, w, o, xs, ops) /\ ~WithProduct(s, h, w, xs, ops)
       /\ ~WithSum(s, h, xs, ops)
  BY <1>2 DEF WithFactor, WithProduct, WithSum
<1> QED BY <1>6, <1>9, <1>10, <1>11 DEF Form

(* The last two operands and the last operator give one operand. *)
Applied(xs, ops, ys, ops2) ==
  /\ Len(ys) = Len(xs) - 1 /\ \A j \in 1 .. Len(xs) - 2 : ys[j] = xs[j]
  /\ ys[Len(xs) - 1] = applyOperator(xs[Len(xs) - 1], Top(xs), Top(ops))
  /\ Len(ops2) = Len(ops) - 1 /\ \A j \in 1 .. Len(ops) - 1 : ops2[j] = ops[j]

(* At an operator or the end of the line: the operator on top is due, it   *)
(* has its operands, and it is applied, or there is no result.             *)
LEMMA HoldsApply ==
  ASSUME NEW s, IsLine(s), Expression(s), NEW h \in Ends(s), NEW xs, NEW ops,
         Holds(s, h, xs, ops), Len(ops) # 0,
         h # Len(s) + 1 => getOperatorPrecedence(Top(ops)) >= getOperatorPrecedence(s[h])
  PROVE  /\ Len(xs) >= 2
         /\ Undefined(Top(ops), Top(xs)) => Meaning(s) = {}
         /\ ~Undefined(Top(ops), Top(xs)) =>
              \A ys, ops2 : Applied(xs, ops, ys, ops2) => Holds(s, h, ys, ops2)
<1> DEFINE w == Opening(s, Weak, h)
           o == Opening(s, Operators, h)
           b == Below(w)
<1>1. h \in Upto(s) /\ Stretch(s, h) # {}
  <2>1. h \in Upto(s)
    BY DEF Ends, Upto, Where, IsLine
  <2> QED BY <2>1, OneNumber
<1>2. /\ w # 0 => s[w] \in Weak
      /\ o # w => o # 0 /\ s[o] \in {"*", "/"}
      /\ o # w => ProductTo(s)[h] = Combined(ProductTo(s)[o], s[o], NumberTo(s)[h])
      /\ w # 0 => SumTo(s)[h] = Combined(SumTo(s)[w], s[w], ProductTo(s)[h])
  BY <1>1, LastOperators
<1>3. Form(s, h, w, o, xs, ops)
  BY DEF Holds
<1>4. b \in {0, 1} /\ (b = 0 <=> w = 0)
  BY BelowIs
<1>5. \A ys, ops2 : Holds(s, h, ys, ops2) <=> Form(s, h, w, o, ys, ops2)
  BY DEF Holds
<1> HIDE DEF w, o, b
<1>6. CASE WithFactor(s, h, w, o, xs, ops)
  <2>1. Len(xs) = b + 2 /\ Len(ops) = b + 1 /\ o # w /\ SumHeld(s, w, xs, ops)
        /\ ProductHeld(s, o, b + 1, xs, ops) /\ NumberTo(s)[h] = {xs[b + 2]}
    BY <1>6 DEF WithFactor, b
  <2>2. Top(xs) = xs[b + 2] /\ Top(ops) = s[o] /\ ProductTo(s)[o] = {xs[b + 1]}
    BY <2>1 DEF Top, ProductHeld
  <2>3. ProductTo(s)[h] = IF Undefined(s[o], xs[b + 2]) THEN {}
                          ELSE {applyOperator(xs[b + 1], xs[b + 2], s[o])}
    <3>1. ProductTo(s)[h] = Combined({xs[b + 1]}, s[o], {xs[b + 2]})
      BY <1>2, <2>1, <2>2
    <3> QED BY <3>1, CombinedOne
  <2>6. ASSUME ~Undefined(s[o], xs[b + 2]), NEW ys, NEW ops2, Applied(xs, ops, ys, ops2)
        PROVE  WithProduct(s, h, w, ys, ops2)
    <3>1. Len(xs) - 1 = b + 1 /\ Len(ops) - 1 = b
          /\ (w # 0 => 1 \in 1 .. Len(xs) - 2 /\ 1 \in 1 .. Len(ops) - 1)
      BY <1>4, <2>1
    <3>2. /\ Len(ys) = b + 1 /\ Len(ops2) = b
          /\ ys[b + 1] = applyOperator(xs[b + 1], xs[b + 2], s[o])
          /\ w # 0 => ys[1] = xs[1] /\ ops2[1] = ops[1]
      BY <2>2, <2>6, <3>1 DEF Applied
    <3> QED BY <1>1, <2>1, <2>3, <2>6, <3>2 DEF WithProduct, SumHeld, b
  <2>7. Undefined(s[o], xs[b + 2]) => Meaning(s) = {}
    BY <2>3, Spoils
  <2>8. Len(xs) >= 2
    BY <1>4, <2>1
  <2> QED BY <1>5, <2>2, <2>6, <2>7, <2>8 DEF Form
<1>7. CASE WithProduct(s, h, w, xs, ops)
  <2>1. Len(xs) = 2 /\ Len(ops) = 1 /\ w # 0 /\ SumHeld(s, w, xs, ops)
        /\ ProductTo(s)[h] = {xs[2]}
    <3>1. Len(xs) = b + 1 /\ Len(ops) = b /\ SumHeld(s, w, xs, ops)
          /\ ProductTo(s)[h] = {xs[b + 1]}
      BY <1>7 DEF WithProduct, b
    <3>2. b = 1 /\ b + 1 = 2 /\ w # 0
      BY <1>4, <3>1
    <3> QED BY <3>1, <3>2
  <2>2. Top(xs) = xs[2] /\ Top(ops) = s[w] /\ SumTo(s)[w] = {xs[1]}
    BY <2>1 DEF Top, SumHeld
  <2>3. ~Undefined(s[w], xs[2])
    BY <1>2, <2>1, Precedences DEF Undefined
  <2>4. SumTo(s)[h] = {applyOperator(xs[1], xs[2], s[w])}
    <3>1. SumTo(s)[h] = Combined({xs[1]}, s[w], {xs[2]})
      BY <1>2, <2>1, <2>2
    <3> QED BY <2>3, <3>1, CombinedOne
  <2>6. h \in Where(s, Weak) \/ h = Len(s) + 1
    <3>1. ASSUME h # Len(s) + 1 PROVE h \in Where(s, Weak)
      <4>1. h \in Where(s, Operators)
        BY <3>1 DEF Ends
      <4>2. getOperatorPrecedence(s[h]) <= 1
        BY <1>2, <2>1, <2>2, <3>1, Precedences
      <4>3. s[h] \notin {"*", "/"}
        BY <4>2, Precedences
      <4> QED BY <4>1, <4>3 DEF Where, Operators, Weak
    <3> QED BY <3>1
  <2>7. ASSUME NEW ys, NEW ops2, Applied(xs, ops, ys, ops2) PROVE WithSum(s, h, ys, ops2)
    <3>1. Len(xs) - 1 = 1 /\ Len(ops) - 1 = 0
      BY <2>1
    <3>2. Len(ys) = 1 /\ Len(ops2) = 0 /\ ys[1] = applyOperator(xs[1], xs[2], s[w])
      BY <2>2, <2>7, <3>1 DEF Applied
    <3> QED BY <1>1, <2>4, <2>6, <3>2 DEF WithSum
  <2>8. Len(xs) >= 2
    BY <2>1
  <2> QED BY <1>5, <2>2, <2>3, <2>7, <2>8 DEF Form
<1>8. ~AfterSum(s, h, w, o, xs, ops) /\ ~AfterProduct(s, h, w, o, xs, ops)
      /\ ~WithSum(s, h, xs, ops)
  BY <1>1 DEF AfterSum, AfterProduct, WithSum
<1> QED BY <1>3, <1>6, <1>7, <1>8 DEF Form

(* At an operator, with none due: it is pushed. *)
LEMMA HoldsPush ==
  ASSUME NEW s, IsLine(s), Expression(s), NEW h \in Where(s, Operators), NEW xs, NEW ops,
         Holds(s, h, xs, ops),
         Len(ops) # 0 => ~(getOperatorPrecedence(Top(ops)) >= getOperatorPrecedence(s[h])),
         NEW ops2, Len(ops2) = Len(ops) + 1, ops2[Len(ops) + 1] = s[h],
         \A j \in 1 .. Len(ops) : ops2[j] = ops[j]
  PROVE  Holds(s, h + 1, xs, ops2)
<1> DEFINE w == Opening(s, Weak, h)
           o == Opening(s, Operators, h)
           b == Below(w)
<1>1. h \in Upto(s) /\ h \in Ends(s) /\ Stretch(s, h) # {}
  <2>1. h \in Upto(s) /\ h \in Ends(s)
    BY DEF Ends, Upto, Where, IsLine
  <2> QED BY <2>1, OneNumber
<1>2. /\ w # 0 => s[w] \in Weak
      /\ o # w => o # 0 /\ s[o] \in {"*", "/"}
      /\ w = 0 => SumTo(s)[h] = ProductTo(s)[h]
      /\ w \in 0 .. h - 1
  BY <1>1, LastOperators
<1>3. Form(s, h, w, o, xs, ops)
  BY DEF Holds
<1>4. b \in {0, 1} /\ (b = 0 <=> w = 0)
  BY BelowIs
<1>5. h + 1 \in Upto(s) /\ Opening(s, Operators, h + 1) = h
  BY OpeningNext
<1>6. h \in Nat /\ h # 0 /\ s[h] \in Operators
  BY DEF Where, IsLine
<1>7. Stretch(s, h + 1) = {}
  <2>1. \A k \in Numbers(s) : k \in Nat
    BY DEF Numbers, Where, IsLine
  <2> QED BY <1>5, <1>6, <2>1 DEF Stretch
<1>8. h \in Where(s, Weak) => Opening(s, Weak, h + 1) = h
  BY OpeningNext
<1>9. h \notin Where(s, Weak) => Opening(s, Weak, h + 1) = w
  <2>1. ASSUME h \notin Where(s, Weak), NEW k \in Where(s, Weak), h <= k, k < h + 1 PROVE FALSE
    <3>1. k \in Nat /\ k # h
      BY <2>1 DEF Where, IsLine
    <3> QED BY <1>6, <2>1, <3>1
  <2> QED BY <1>1, <1>5, <1>6, <2>1, OpeningStays
<1> HIDE DEF w, o, b
<1>10. ~WithFactor(s, h, w, o, xs, ops)
  <2>1. SUFFICES ASSUME WithFactor(s, h, w, o, xs, ops) PROVE FALSE
    OBVIOUS
  <2>2. Len(ops) = b + 1 /\ ops[b + 1] = s[o] /\ o # w
    BY <2>1 DEF WithFactor, ProductHeld, b
  <2>3. getOperatorPrecedence(Top(ops)) = 2 /\ Len(ops) # 0
    BY <1>2, <1>4, <2>2, Precedences DEF Top
  <2>4. getOperatorPrecedence(s[h]) \in {1, 2}
    BY DEF getOperatorPrecedence
  <2> QED BY <2>3, <2>4
<1>11. ASSUME h \in Where(s, Weak), Len(ops) = 0, Len(xs) = 1, SumTo(s)[h] = {xs[1]}
       PROVE  Holds(s, h + 1, xs, ops2)
  <2>1. Below(h) = 1 /\ Len(ops2) = 1 /\ ops2[1] = s[h]
    BY <1>6, <1>11 DEF Below
  <2>2. AfterSum(s, h + 1, h, h, xs, ops2)
    BY <1>7, <1>11, <2>1 DEF AfterSum, SumHeld
  <2> QED BY <1>5, <1>8, <1>11, <2>2 DEF Holds, Form
<1>12. CASE WithProduct(s, h, w, xs, ops)
  <2>1. Len(xs) = b + 1 /\ Len(ops) = b /\ SumHeld(s, w, xs, ops)
        /\ ProductTo(s)[h] = {xs[b + 1]}
    BY <1>12 DEF WithProduct, b
  <2>2. CASE h \in Where(s, Weak)
    <3>1. getOperatorPrecedence(s[h]) = 1
      BY <2>2, Precedences DEF Where
    <3>2. w = 0
      <4>1. SUFFICES ASSUME w # 0 PROVE FALSE
        OBVIOUS
      <4>2. Len(ops) = 1 /\ ops[1] = s[w]
        BY <1>4, <2>1, <4>1 DEF SumHeld
      <4>3. getOperatorPrecedence(Top(ops)) = 1
        BY <1>2, <4>1, <4>2, Precedences DEF Top
      <4> QED BY <3>1, <4>2, <4>3
    <3> QED BY <1>2, <1>4, <1>11, <2>1, <2>2, <3>2
  <2>3. CASE h \notin Where(s, Weak)
    <3>1. Len(ops2) = b + 1 /\ ops2[b + 1] = s[h] /\ (w # 0 => ops2[1] = ops[1])
      BY <1>4, <2>1
    <3>2. h # w
      BY <1>2, <1>6
    <3>3. AfterProduct(s, h + 1, w, h, xs, ops2)
      BY <1>7, <2>1, <3>1, <3>2 DEF AfterProduct, SumHeld, ProductHeld, b
    <3> QED BY <1>5, <1>9, <2>3, <3>3 DEF Holds, Form
  <2> QED BY <2>2, <2>3
<1>13. CASE WithSum(s, h, xs, ops)
  <2>1. h \in Where(s, Weak)
    BY <1>13 DEF WithSum, Where, IsLine
  <2> QED BY <1>11, <1>13, <2>1 DEF WithSum
<1>14. ~AfterSum(s, h, w, o, xs, ops) /\ ~AfterProduct(s, h, w, o, xs, ops)
  BY <1>1 DEF AfterSum, AfterProduct
<1> QED BY <1>3, <1>10, <1>12, <1>13, <1>14 DEF Form

(* At the end, with no operator left, the only operand is the meaning. *)
LEMMA HoldsEnd ==
  ASSUME NEW s, IsLine(s), Expression(s), NEW xs, NEW ops,
         Holds(s, Len(s) + 1, xs, ops), Len(ops) = 0
  PROVE  Len(xs) = 1 /\ Meaning(s) = {xs[1]}
<1> DEFINE h == Len(s) + 1
           w == Opening(s, Weak, h)
           o == Opening(s, Operators, h)
           b == Below(w)
<1>1. h \in Upto(s) /\ Stretch(s, h) # {}
  <2>1. h \in Upto(s) /\ h \in Ends(s)
    BY DEF Ends, Upto, IsLine
  <2> QED BY <2>1, OneNumber
<1>2. w = 0 => SumTo(s)[h] = ProductTo(s)[h]
  BY <1>1, LastOperators
<1>3. Form(s, h, w, o, xs, ops)
  BY DEF Holds
<1>4. b \in {0, 1} /\ (b = 0 <=> w = 0)
  BY BelowIs
<1>5. Meaning(s) = SumTo(s)[h]
  BY DEF Meaning
<1> HIDE DEF h, w, o, b
<1>6. ~AfterSum(s, h, w, o, xs, ops) /\ ~AfterProduct(s, h, w, o, xs, ops)
  BY <1>1 DEF AfterSum, AfterProduct
<1>7. ~WithFactor(s, h, w, o, xs, ops)
  BY <1>4 DEF WithFactor, b
<1>8. CASE WithProduct(s, h, w, xs, ops)
  BY <1>2, <1>4, <1>5, <1>8 DEF WithProduct, b
<1>9. CASE WithSum(s, h, xs, ops)
  BY <1>5, <1>9 DEF WithSum
<1> QED BY <1>3, <1>6, <1>7, <1>8, <1>9 DEF Form

(* How far a line is read, and that every operand and every operator that  *)
(* has been read is on its stack or in a result: a result takes two        *)
(* operands and an operator for one operand.                               *)
NumbersRead == Cardinality(Passed(Numbers(expression), here))
OperatorsRead == Cardinality(Passed(Where(expression, Operators), here))

Counted ==
  /\ IsLine(expression) /\ Len(expression) < STACK_CAPACITY /\ here \in Upto(expression)
  /\ IsStack(operandStack) /\ Len(operandStack) < here
  /\ IsStack(operatorStack) /\ Len(operatorStack) < here
  /\ here \in Where(expression, Digits) => here \in Numbers(expression)
  /\ \A k \in Where(expression, Others) : ~(k < here)
  /\ Len(operandStack) - Len(operatorStack) = NumbersRead - OperatorsRead
  /\ outcome \in {"none", "error", "result"}
  /\ outcome = "result" => AtEnd /\ Len(operatorStack) = 0 /\ Len(operandStack) # 0

(* The stacks of an expression mean what has been read of it. *)
Meant ==
  Expression(expression) =>
    /\ outcome = "none" => Holds(expression, here, operandStack, operatorStack)
    /\ outcome # "none" => Result = Meaning(expression)

LineInv == Counted /\ Meant

(* A character is of one kind (lines 93-161). *)
LEMMA KindsApart ==
  ASSUME NEW s, NEW k
  PROVE  /\ s[k] = Space => k \notin Where(s, Operators) \union Where(s, Digits) \union
                                     Where(s, Others)
         /\ k \in Where(s, Digits) => k \notin Where(s, Operators) \union Where(s, Others)
         /\ k \in Where(s, Operators) => k \notin Where(s, Digits) \union Where(s, Others)
  BY LineAssumption DEF Where, Operators, Space

(* What is common to all steps that stay where they are. *)
LEMMA CountedStays ==
  ASSUME Counted, UNCHANGED <<expression, here>>,
         IsStack(operandStack'), Len(operandStack') <= Len(operandStack),
         IsStack(operatorStack'), Len(operatorStack') <= Len(operatorStack),
         Len(operandStack') - Len(operatorStack') = Len(operandStack) - Len(operatorStack),
         outcome' \in {"none", "error", "result"},
         outcome' = "result" => AtEnd /\ Len(operatorStack') = 0 /\ Len(operandStack') # 0
  PROVE  Counted'
<1>1. Len(operandStack') < here /\ Len(operatorStack') < here
  <2>1. /\ Len(operandStack) \in Nat /\ Len(operatorStack) \in Nat
        /\ Len(operandStack') \in Nat /\ Len(operatorStack') \in Nat /\ here \in Nat
    BY StackIs DEF Counted, IsLine, Upto
  <2> QED BY <2>1 DEF Counted
<1>2. NumbersRead' = NumbersRead /\ OperatorsRead' = OperatorsRead /\ AtEnd' = AtEnd
  BY DEF NumbersRead, OperatorsRead, AtEnd
<1> QED BY <1>1, <1>2 DEF Counted

(* And to those that go on to the character at g. *)
LEMMA CountedMoves ==
  ASSUME Counted, NEW g \in Upto(expression), here < g, here' = g, expression' = expression,
         g \in Where(expression, Digits) => g \in Numbers(expression),
         \A k \in Where(expression, Others) : ~(here <= k /\ k < g),
         IsStack(operandStack'), Len(operandStack') <= Len(operandStack) + 1,
         IsStack(operatorStack'), Len(operatorStack') <= Len(operatorStack) + 1,
         Len(operandStack') - Len(operatorStack') = NumbersRead' - OperatorsRead',
         outcome' = "none"
  PROVE  Counted'
<1>1. g \in Nat /\ here \in Nat /\ \A k \in Where(expression, Others) : k \in Nat
  BY DEF Counted, Upto, IsLine, Where
<1>2. Len(operandStack') < g /\ Len(operatorStack') < g
  <2>1. /\ Len(operandStack) \in Nat /\ Len(operatorStack) \in Nat
        /\ Len(operandStack') \in Nat /\ Len(operatorStack') \in Nat
    BY StackIs DEF Counted
  <2> QED BY <1>1, <2>1 DEF Counted
<1>3. \A k \in Where(expression, Others) : ~(k < g)
  BY <1>1 DEF Counted
<1> QED BY <1>2, <1>3 DEF Counted

(* The numbers and the operators that are passed on the way to g. *)
LEMMA CountsAre ==
  ASSUME Counted, NEW g \in Upto(expression), here < g, here' = g, expression' = expression
  PROVE  /\ NumbersRead \in Nat /\ OperatorsRead \in Nat
         /\ (\A k \in Numbers(expression) : ~(here <= k /\ k < g))
              => NumbersRead' = NumbersRead
         /\ here \in Numbers(expression)
            /\ (\A k \in Numbers(expression) : ~(here < k /\ k < g))
              => NumbersRead' = NumbersRead + 1
         /\ (\A k \in Where(expression, Operators) : ~(here <= k /\ k < g))
              => OperatorsRead' = OperatorsRead
         /\ here \in Where(expression, Operators) /\ g = here + 1
              => OperatorsRead' = OperatorsRead + 1
<1> DEFINE s == expression
<1>1. g \in Nat /\ here \in Nat /\ here <= g /\ Numbers(s) \subseteq Nat
      /\ Where(s, Operators) \subseteq Nat
  BY DEF Counted, Upto, IsLine, Where, Numbers
<1>2. NumbersRead' = Cardinality(Passed(Numbers(s), g))
      /\ OperatorsRead' = Cardinality(Passed(Where(s, Operators), g))
  BY DEF NumbersRead, OperatorsRead
<1>3. NumbersRead = Cardinality(Passed(Numbers(s), here))
      /\ OperatorsRead = Cardinality(Passed(Where(s, Operators), here))
  BY DEF NumbersRead, OperatorsRead
<1>4. g = here + 1 => \A k \in Where(s, Operators) : ~(here < k /\ k < g)
  BY <1>1
<1> HIDE DEF s
<1>5. /\ Cardinality(Passed(Numbers(s), here)) \in Nat
      /\ (\A k \in Numbers(s) : ~(here <= k /\ k < g))
           => Cardinality(Passed(Numbers(s), g)) = Cardinality(Passed(Numbers(s), here))
      /\ here \in Numbers(s) /\ (\A k \in Numbers(s) : ~(here < k /\ k < g))
           => Cardinality(Passed(Numbers(s), g)) = Cardinality(Passed(Numbers(s), here)) + 1
  BY <1>1, PassedIs
<1> DEFINE T == Where(s, Operators)
<1>6. /\ Cardinality(Passed(T, here)) \in Nat
      /\ (\A k \in T : ~(here <= k /\ k < g))
           => Cardinality(Passed(T, g)) = Cardinality(Passed(T, here))
      /\ here \in T /\ (\A k \in T : ~(here < k /\ k < g))
           => Cardinality(Passed(T, g)) = Cardinality(Passed(T, here)) + 1
  <2> HIDE DEF T
  <2> QED BY <1>1, PassedIs DEF T
<1> QED BY <1>2, <1>3, <1>4, <1>5, <1>6 DEF s

(* A space is passed (lines 93-97). *)
LEMMA SkipSpaceInv == ASSUME LineInv, SkipSpace PROVE LineInv'
<1> DEFINE s == expression
           g == here + 1
<1>1. /\ outcome = "none" /\ ~AtEnd /\ s[here] = Space /\ here' = g /\ outcome' = outcome
      /\ s' = s /\ operandStack' = operandStack /\ operatorStack' = operatorStack
  BY DEF SkipSpace, This
<1>2. IsLine(s) /\ here \in Upto(s) /\ Len(s) \in Nat /\ here \in 1 .. Len(s)
  BY <1>1 DEF LineInv, Counted, IsLine, Upto, AtEnd
<1>3. g \in Upto(s) /\ here < g /\ here <= g /\ here \in Nat
  BY <1>2 DEF Upto
<1>4. here \notin Where(s, Operators) /\ here \notin Where(s, Others) /\ here \notin Numbers(s)
  BY <1>1, KindsApart DEF Numbers
<1>5. \A k \in Upto(s) : ~(here <= k /\ k < g) \/ k = here
  BY <1>3 DEF Upto
<1>6. Where(s, Operators) \subseteq Upto(s) /\ Where(s, Others) \subseteq Upto(s)
      /\ Numbers(s) \subseteq Upto(s)
  BY <1>2 DEF Where, Numbers, Upto, IsLine
<1>7. g \in Where(s, Digits) => g \in Numbers(s)
  <2>1. g - 1 = here
    BY <1>3
  <2>2. s[g - 1] \notin Digits
    BY <1>1, <2>1, LineAssumption
  <2> QED BY <2>2 DEF Numbers
<1>8. Counted'
  <2> HIDE DEF g
  <2>1. NumbersRead' = NumbersRead /\ OperatorsRead' = OperatorsRead
    BY <1>1, <1>3, <1>4, <1>5, <1>6, CountsAre DEF LineInv
  <2>2. /\ IsStack(operandStack) /\ IsStack(operatorStack)
        /\ Len(operandStack) - Len(operatorStack) = NumbersRead - OperatorsRead
        /\ Len(operandStack) \in Nat /\ Len(operatorStack) \in Nat
    BY StackIs DEF LineInv, Counted
  <2> QED BY <1>1, <1>3, <1>4, <1>5, <1>6, <1>7, <2>1, <2>2, CountedMoves DEF LineInv
<1>9. Meant'
  <2> HIDE DEF g
  <2>1. SUFFICES ASSUME Expression(s) PROVE Holds(s, g, operandStack, operatorStack)
    BY <1>1 DEF Meant
  <2>2. Holds(s, here, operandStack, operatorStack)
    BY <1>1, <2>1 DEF LineInv, Meant
  <2>3. here \notin Ends(s)
    BY <1>2, <1>4 DEF Ends
  <2>4. Plain(s, here, g)
    BY <1>3, <1>4, <1>5, <1>6 DEF Plain
  <2> QED BY <1>2, <1>3, <1>4, <1>5, <1>6, <2>2, <2>3, <2>4, HoldsOver
<1> QED BY <1>8, <1>9 DEF LineInv

(* A number is read to its end and pushed (lines 99-108). *)
LEMMA ReadNumberInv == ASSUME LineInv, ReadNumber PROVE LineInv'
<1> DEFINE s == expression
           e == EndOfNumber(s, here)
           g == e + 1
           v == NumberAt(s, here)
<1>1. /\ outcome = "none" /\ ~AtEnd /\ s[here] \in Digits /\ here' = g /\ outcome' = outcome
      /\ s' = s /\ operandStack' = push(operandStack, v) /\ operatorStack' = operatorStack
  BY DEF ReadNumber, This
<1>2. /\ IsLine(s) /\ here \in Upto(s) /\ Len(s) \in Nat /\ here \in 1 .. Len(s)
      /\ DOMAIN s = 1 .. Len(s)
  BY <1>1 DEF LineInv, Counted, IsLine, Upto, AtEnd
<1>3. here \in Where(s, Digits) /\ here \in Numbers(s)
  BY <1>1, <1>2 DEF LineInv, Counted, Where
<1>4. /\ e \in here .. Len(s) /\ \A j \in here .. e : s[j] \in Digits
      /\ e < Len(s) => s[e + 1] \notin Digits
  BY <1>2, <1>3, EndOfNumberIs
<1> HIDE DEF e, v
<1>5. g \in Upto(s) /\ here < g /\ here \in Nat /\ e \in Nat /\ here <= g
  BY <1>2, <1>4 DEF Upto
<1>6. \A k \in Upto(s) : here <= k /\ k < g => k \in here .. e
  BY <1>5 DEF Upto
<1>7. Where(s, Operators) \subseteq Upto(s) /\ Where(s, Others) \subseteq Upto(s)
      /\ Numbers(s) \subseteq Upto(s)
  BY <1>2 DEF Where, Numbers, Upto, IsLine
<1>8. \A k \in Where(s, Operators) \union Where(s, Others) : ~(here <= k /\ k < g)
  <2>1. SUFFICES ASSUME NEW k \in Where(s, Operators) \union Where(s, Others), here <= k, k < g
                 PROVE  FALSE
    OBVIOUS
  <2>2. k \in here .. e
    BY <1>6, <1>7, <2>1
  <2>3. k \in Where(s, Digits)
    BY <1>2, <1>4, <2>2 DEF Where
  <2> QED BY <2>1, <2>3, KindsApart
<1>9. \A k \in Numbers(s) : ~(here < k /\ k < g)
  <2>1. SUFFICES ASSUME NEW k \in Numbers(s), here < k, k < g PROVE FALSE
    OBVIOUS
  <2>2. k \in here .. e /\ k > 1 /\ k \in Nat
    BY <1>2, <1>5, <1>6, <1>7, <2>1 DEF Upto
  <2>3. k - 1 \in here .. e
    BY <1>5, <2>1, <2>2
  <2>4. s[k - 1] \notin Digits
    BY <2>2 DEF Numbers
  <2> QED BY <1>4, <2>3, <2>4
<1>10. g \notin Where(s, Digits)
  <2>1. SUFFICES ASSUME g \in Where(s, Digits) PROVE FALSE
    OBVIOUS
  <2>2. g \in 1 .. Len(s) /\ s[g] \in Digits
    BY <1>2, <2>1 DEF Where
  <2> QED BY <1>4, <1>5, <2>2
<1>11. /\ IsStack(operandStack') /\ Len(operandStack') = Len(operandStack) + 1
       /\ operandStack'[Len(operandStack) + 1] = v
       /\ \A j \in 1 .. Len(operandStack) : operandStack'[j] = operandStack[j]
  <2>1. Len(operandStack) < STACK_CAPACITY
    <3>1. Len(operandStack) \in Nat /\ Len(operandStack) < here /\ Len(s) < STACK_CAPACITY
      BY StackIs DEF LineInv, Counted
    <3> QED BY <1>2, <3>1, LineAssumption
  <2> QED BY <1>1, <2>1, PushIs DEF LineInv, Counted
<1> HIDE DEF g
<1>12. Counted'
  <2>1. /\ NumbersRead' = NumbersRead + 1 /\ OperatorsRead' = OperatorsRead
        /\ NumbersRead \in Nat /\ OperatorsRead \in Nat
    BY <1>1, <1>3, <1>5, <1>8, <1>9, CountsAre DEF LineInv
  <2>2. /\ IsStack(operatorStack)
        /\ Len(operandStack) - Len(operatorStack) = NumbersRead - OperatorsRead
        /\ Len(operandStack) \in Nat /\ Len(operatorStack) \in Nat
    BY StackIs DEF LineInv, Counted
  <2>3. Len(operandStack') - Len(operatorStack') = NumbersRead' - OperatorsRead'
    BY <1>1, <1>11, <2>1, <2>2
  <2>4. Len(operandStack') <= Len(operandStack) + 1
        /\ Len(operatorStack') <= Len(operatorStack) + 1
    BY <1>1, <1>11, <2>2
  <2> QED BY <1>1, <1>5, <1>8, <1>10, <1>11, <2>2, <2>3, <2>4, CountedMoves DEF LineInv
<1>13. Meant'
  <2>1. SUFFICES ASSUME Expression(s) PROVE Holds(s, g, operandStack', operatorStack)
    BY <1>1 DEF Meant
  <2>2. Holds(s, here, operandStack, operatorStack)
    BY <1>1, <2>1 DEF LineInv, Meant
  <2>3. Plain(s, here, g)
    BY <1>5, <1>8 DEF Plain
  <2> DEFINE xs == operandStack'
  <2> HIDE DEF xs
  <2>4. /\ Len(xs) = Len(operandStack) + 1 /\ xs[Len(operandStack) + 1] = NumberAt(s, here)
        /\ \A j \in 1 .. Len(operandStack) : xs[j] = operandStack[j]
    BY <1>11 DEF xs, v
  <2>5. Holds(s, g, xs, operatorStack)
    BY <1>2, <1>3, <1>5, <1>9, <2>1, <2>2, <2>3, <2>4, HoldsRead
  <2> QED BY <2>5 DEF xs
<1> QED BY <1>12, <1>13 DEF LineInv

(* What is due is at an operator or at the end (lines 112-121, 164). *)
LEMMA DueIs ==
  ASSUME Counted, Due
  PROVE  /\ outcome = "none" /\ Len(operatorStack) # 0 /\ here \in Ends(expression)
         /\ here # Len(expression) + 1 =>
              getOperatorPrecedence(Top(operatorStack)) >=
                getOperatorPrecedence(expression[here])
<1> DEFINE p == getOperatorPrecedence(Top(operatorStack))
<1>1. outcome = "none" /\ operatorStack # <<>> /\ p >= Weight
  BY DEF Due
<1>2. Len(operatorStack) # 0
  <2>1. PICK V : operatorStack \in Seq(V)
    BY DEF Counted, IsStack
  <2> QED BY <1>1, <2>1, EmptySeq
<1>3. p \in {1, 2}
  BY DEF getOperatorPrecedence
<1>4. Len(expression) \in Nat /\ here \in 1 .. Len(expression) + 1
      /\ DOMAIN expression = 1 .. Len(expression)
  BY DEF Counted, IsLine, Upto
<1> HIDE DEF p
<1>5. CASE AtEnd
  <2>1. here = Len(expression) + 1
    BY <1>4, <1>5 DEF AtEnd
  <2> QED BY <1>1, <1>2, <2>1 DEF Ends, p
<1>6. CASE ~AtEnd
  <2>1. here \in DOMAIN expression /\ here # Len(expression) + 1
    BY <1>4, <1>6 DEF AtEnd
  <2>2. This \in Operators /\ Weight = getOperatorPrecedence(This)
    BY <1>1, <1>3, <1>6 DEF Weight
  <2> QED BY <1>1, <1>2, <2>1, <2>2 DEF Ends, Where, This, p
<1> QED BY <1>5, <1>6

(* applyOperator, whether it gives a result or not (lines 123-150, 165-192). *)
LEMMA ApplyInv == ASSUME LineInv, Apply PROVE LineInv'
<1> DEFINE s == expression
           xs == operandStack
           ops == operatorStack
           r == applyOperator(xs[Len(xs) - 1], Top(xs), Top(ops))
<1>1. /\ Due /\ Len(xs) >= 2 /\ ~Undefined(Top(ops), Top(xs))
      /\ operandStack' = push(Popped(xs, 2), r) /\ operatorStack' = Popped(ops, 1)
      /\ expression' = s /\ here' = here /\ outcome' = outcome
  BY DEF Apply, Applicable
<1>2. /\ outcome = "none" /\ Len(ops) # 0 /\ here \in Ends(s)
      /\ here # Len(s) + 1 => getOperatorPrecedence(Top(ops)) >= getOperatorPrecedence(s[here])
  BY <1>1, DueIs DEF LineInv
<1>3. /\ IsStack(xs) /\ IsStack(ops) /\ Len(xs) \in Nat /\ Len(ops) \in Nat /\ IsLine(s)
      /\ Len(xs) < here /\ here \in 1 .. Len(s) + 1 /\ Len(s) < STACK_CAPACITY /\ Len(s) \in Nat
  BY StackIs DEF LineInv, Counted, IsLine, Upto
<1> HIDE DEF r
<1>4. /\ IsStack(operatorStack') /\ Len(operatorStack') = Len(ops) - 1
      /\ \A j \in 1 .. Len(ops) - 1 : operatorStack'[j] = ops[j]
  <2>1. 1 \in 0 .. Len(ops)
    BY <1>2, <1>3
  <2> QED BY <1>1, <1>3, <2>1, PoppedIs
<1>5. /\ IsStack(operandStack') /\ Len(operandStack') = Len(xs) - 1
      /\ operandStack'[Len(xs) - 1] = r
      /\ \A j \in 1 .. Len(xs) - 2 : operandStack'[j] = xs[j]
  <2> DEFINE q == Popped(xs, 2)
  <2>1. 2 \in 0 .. Len(xs)
    BY <1>1, <1>3
  <2>2. /\ IsStack(q) /\ Len(q) = Len(xs) - 2 /\ \A j \in 1 .. Len(xs) - 2 : q[j] = xs[j]
    BY <1>3, <2>1, PoppedIs
  <2> HIDE DEF q
  <2>3. Len(q) < STACK_CAPACITY /\ Len(q) + 1 = Len(xs) - 1
    BY <1>3, <2>1, <2>2, LineAssumption
  <2>4. /\ IsStack(push(q, r)) /\ Len(push(q, r)) = Len(q) + 1
        /\ push(q, r)[Len(q) + 1] = r /\ \A j \in 1 .. Len(q) : push(q, r)[j] = q[j]
    BY <2>2, <2>3, PushIs
  <2> QED BY <1>1, <2>2, <2>3, <2>4 DEF q
<1>6. Counted'
  <2>1. Len(operandStack') <= Len(operandStack) /\ Len(operatorStack') <= Len(operatorStack)
        /\ Len(operandStack') - Len(operatorStack') = Len(operandStack) - Len(operatorStack)
    BY <1>3, <1>4, <1>5
  <2> QED BY <1>1, <1>2, <1>4, <1>5, <2>1, CountedStays DEF LineInv
<1>7. Meant'
  <2>1. SUFFICES ASSUME Expression(s) PROVE Holds(s, here, operandStack', operatorStack')
    BY <1>1, <1>2 DEF Meant
  <2>2. Holds(s, here, xs, ops)
    BY <1>2, <2>1 DEF LineInv, Meant
  <2> DEFINE ys == operandStack'
             ops2 == operatorStack'
  <2> HIDE DEF ys, ops2
  <2>3. Applied(xs, ops, ys, ops2)
    BY <1>4, <1>5 DEF ys, ops2, r, Applied
  <2> HIDE DEF xs, ops
  <2>4. Holds(s, here, ys, ops2)
    BY <1>1, <1>2, <1>3, <2>1, <2>2, <2>3, HoldsApply
  <2> QED BY <2>4 DEF ys, ops2
<1> QED BY <1>6, <1>7 DEF LineInv

(* An error: an operand is missing, a divisor is zero, a character is      *)
(* unknown or there is nothing at all (lines 123-161, 194-198).            *)
LEMMA RefuseInv == ASSUME LineInv, Refuse PROVE LineInv'
<1> DEFINE s == expression
           xs == operandStack
           ops == operatorStack
<1>1. /\ outcome = "none" /\ outcome' = "error"
      /\ expression' = s /\ here' = here /\ operandStack' = xs /\ operatorStack' = ops
  BY DEF Refuse, Due
<1>2. /\ IsStack(xs) /\ IsStack(ops) /\ IsLine(s) /\ here \in 1 .. Len(s) + 1 /\ Len(s) \in Nat
      /\ Len(xs) \in Nat /\ Len(ops) \in Nat /\ DOMAIN s = 1 .. Len(s)
  BY StackIs DEF LineInv, Counted, IsLine, Upto
<1>3. Counted'
  BY <1>1, <1>2, CountedStays DEF LineInv
<1>4. ASSUME Expression(s) PROVE Meaning(s) = {}
  <2>1. Holds(s, here, xs, ops)
    BY <1>1, <1>4 DEF LineInv, Meant
  <2>2. CASE Due /\ ~Applicable
    <3>1. /\ Len(ops) # 0 /\ here \in Ends(s)
          /\ here # Len(s) + 1 =>
               getOperatorPrecedence(Top(ops)) >= getOperatorPrecedence(s[here])
      BY <2>2, DueIs DEF LineInv
    <3>2. Len(xs) < 2 \/ Undefined(Top(ops), Top(xs))
      BY <1>2, <2>2 DEF Applicable
    <3> HIDE DEF xs, ops
    <3>3. Len(xs) >= 2 /\ (Undefined(Top(ops), Top(xs)) => Meaning(s) = {})
      BY <1>2, <1>4, <2>1, <3>1, HoldsApply
    <3> QED BY <1>2, <3>2, <3>3
  <2>3. CASE ~AtEnd /\ This \in Others
    <3>1. here \in Where(s, Others)
      BY <1>2, <2>3 DEF AtEnd, This, Where
    <3> QED BY <1>4, <3>1 DEF Expression
  <2>4. CASE AtEnd /\ operatorStack = <<>> /\ operandStack = <<>>
    <3>1. here = Len(s) + 1 /\ Len(ops) = 0 /\ Len(xs) = 0
      BY <1>2, <2>4, EmptySeq DEF AtEnd
    <3> HIDE DEF xs, ops
    <3>2. Len(xs) = 1
      BY <1>2, <1>4, <2>1, <3>1, HoldsEnd
    <3> QED BY <3>1, <3>2
  <2> QED BY <2>2, <2>3, <2>4 DEF Refuse
<1>5. Meant'
  BY <1>1, <1>4 DEF Meant, Result
<1> QED BY <1>3, <1>5 DEF LineInv

(* An operator is pushed when none on the stack is due (lines 151-156). *)
LEMMA PushOperatorInv == ASSUME LineInv, PushOperator PROVE LineInv'
<1> DEFINE s == expression
           ops == operatorStack
           g == here + 1
<1>1. /\ outcome = "none" /\ ~AtEnd /\ s[here] \in Operators /\ ~Due /\ here' = g
      /\ operatorStack' = push(ops, s[here]) /\ expression' = s
      /\ operandStack' = operandStack /\ outcome' = outcome
  BY DEF PushOperator, This
<1>2. /\ IsLine(s) /\ here \in Upto(s) /\ Len(s) \in Nat /\ here \in 1 .. Len(s)
      /\ DOMAIN s = 1 .. Len(s)
  BY <1>1 DEF LineInv, Counted, IsLine, Upto, AtEnd
<1>3. here \in Where(s, Operators) /\ here \notin Where(s, Others) /\ here \notin Numbers(s)
  <2>1. here \in Where(s, Operators)
    BY <1>1, <1>2 DEF Where
  <2> QED BY <2>1, KindsApart DEF Numbers
<1>4. g \in Upto(s) /\ here < g /\ here \in Nat
  BY <1>2 DEF Upto
<1>5. \A k \in Upto(s) : ~(here <= k /\ k < g) \/ k = here
  BY <1>4 DEF Upto
<1>6. Where(s, Others) \subseteq Upto(s) /\ Numbers(s) \subseteq Upto(s)
  BY <1>2 DEF Where, Numbers, Upto, IsLine
<1>7. g \in Where(s, Digits) => g \in Numbers(s)
  <2>1. g - 1 = here
    BY <1>4
  <2>2. s[g - 1] \notin Digits
    BY <1>1, <2>1, LineAssumption
  <2> QED BY <2>2 DEF Numbers
<1>8. /\ IsStack(operatorStack') /\ Len(operatorStack') = Len(ops) + 1
      /\ operatorStack'[Len(ops) + 1] = s[here]
      /\ \A j \in 1 .. Len(ops) : operatorStack'[j] = ops[j]
  <2>1. Len(ops) < STACK_CAPACITY
    <3>1. Len(ops) \in Nat /\ Len(ops) < here /\ Len(s) < STACK_CAPACITY
      BY StackIs DEF LineInv, Counted
    <3> QED BY <1>2, <3>1, LineAssumption
  <2> QED BY <1>1, <2>1, PushIs DEF LineInv, Counted
<1>9. Counted'
  <2>1. OperatorsRead' = OperatorsRead + 1
    BY <1>1, <1>3, <1>4, CountsAre DEF LineInv
  <2> HIDE DEF g
  <2>2. NumbersRead' = NumbersRead /\ NumbersRead \in Nat /\ OperatorsRead \in Nat
    BY <1>1, <1>3, <1>4, <1>5, <1>6, CountsAre DEF LineInv
  <2>3. /\ IsStack(operandStack)
        /\ Len(operandStack) - Len(operatorStack) = NumbersRead - OperatorsRead
        /\ Len(operandStack) \in Nat /\ Len(operatorStack) \in Nat
    BY StackIs DEF LineInv, Counted
  <2>4. Len(operandStack') - Len(operatorStack') = NumbersRead' - OperatorsRead'
    BY <1>1, <1>8, <2>1, <2>2, <2>3
  <2>5. Len(operandStack') <= Len(operandStack) + 1
        /\ Len(operatorStack') <= Len(operatorStack) + 1
    BY <1>1, <1>8, <2>3
  <2> QED BY <1>1, <1>3, <1>4, <1>5, <1>6, <1>7, <1>8, <2>3, <2>4, <2>5,
            CountedMoves DEF LineInv
<1>10. Meant'
  <2>1. SUFFICES ASSUME Expression(s) PROVE Holds(s, here + 1, operandStack, operatorStack')
    BY <1>1 DEF Meant
  <2>2. Holds(s, here, operandStack, ops)
    BY <1>1, <2>1 DEF LineInv, Meant
  <2>3. Len(ops) # 0 => ~(getOperatorPrecedence(Top(ops)) >= getOperatorPrecedence(s[here]))
    <3>1. Weight = getOperatorPrecedence(s[here])
      BY <1>1 DEF Weight, This
    <3>2. Len(ops) # 0 => ops # <<>>
      BY EmptySeq
    <3> QED BY <1>1, <3>1, <3>2 DEF Due
  <2> DEFINE ops2 == operatorStack'
  <2> HIDE DEF ops2, ops
  <2>4. Len(ops2) = Len(ops) + 1 /\ ops2[Len(ops) + 1] = s[here]
        /\ \A j \in 1 .. Len(ops) : ops2[j] = ops[j]
    BY <1>8 DEF ops2
  <2>5. Holds(s, here + 1, operandStack, ops2)
    BY <1>2, <1>3, <2>1, <2>2, <2>3, <2>4, HoldsPush
  <2> QED BY <2>5 DEF ops2
<1> QED BY <1>9, <1>10 DEF LineInv

(* The last operand is the result (lines 194-201). *)
LEMMA ShowInv == ASSUME LineInv, Show PROVE LineInv'
<1> DEFINE s == expression
           xs == operandStack
           ops == operatorStack
<1>1. /\ outcome = "none" /\ outcome' = "result" /\ AtEnd /\ ops = <<>> /\ xs # <<>>
      /\ expression' = s /\ here' = here /\ operandStack' = xs /\ operatorStack' = ops
  BY DEF Show
<1>2. /\ IsStack(xs) /\ IsStack(ops) /\ IsLine(s) /\ here \in 1 .. Len(s) + 1 /\ Len(s) \in Nat
      /\ Len(xs) \in Nat /\ Len(ops) \in Nat
  BY StackIs DEF LineInv, Counted, IsLine, Upto
<1>3. Len(ops) = 0 /\ Len(xs) # 0 /\ here = Len(s) + 1
  <2>1. PICK V : xs \in Seq(V)
    BY <1>2 DEF IsStack
  <2>2. Len(xs) # 0
    BY <1>1, <2>1, EmptySeq
  <2> QED BY <1>1, <1>2, <2>2, EmptySeq DEF AtEnd
<1>4. Counted'
  BY <1>1, <1>2, <1>3, CountedStays DEF LineInv
<1>5. ASSUME Expression(s) PROVE Meaning(s) = {Top(xs)}
  <2>1. Holds(s, Len(s) + 1, xs, ops)
    BY <1>1, <1>3, <1>5 DEF LineInv, Meant
  <2> HIDE DEF xs, ops
  <2>2. Len(xs) = 1 /\ Meaning(s) = {xs[1]}
    BY <1>2, <1>3, <1>5, <2>1, HoldsEnd
  <2> QED BY <2>2 DEF Top
<1>6. Meant'
  BY <1>1, <1>5 DEF Meant, Result
<1> QED BY <1>4, <1>6 DEF LineInv

(* Nothing is read of a line, and nothing is on the stacks (lines 83-90). *)
LEMMA LineInitInv == ASSUME LineInit PROVE LineInv
<1> DEFINE s == expression
<1>1. here = 1 /\ operandStack = <<>> /\ operatorStack = <<>> /\ outcome = "none"
  BY DEF LineInit, Ready
<1>2. PICK n \in 0 .. STACK_CAPACITY - 1 : s \in [1 .. n -> Characters]
  BY DEF LineInit, SeqOf
<1>3. IsLine(s) /\ Len(s) < STACK_CAPACITY /\ Len(s) \in Nat
  <2>1. s \in Seq(Characters) /\ DOMAIN s = 1 .. n /\ n \in Nat
    BY <1>2, IsASeq, LineAssumption
  <2>2. Len(s) = n
    BY <2>1, LenProperties
  <2> QED BY <1>2, <2>1, <2>2, LineAssumption DEF IsLine
<1>4. \A S : \A k \in Where(s, S) : k \in Nat /\ ~(k < 1)
  BY <1>3 DEF Where, IsLine
<1>5. here \in Upto(s)
  BY <1>1, <1>3 DEF Upto
<1>6. IsStack(<<>>) /\ Len(<<>>) = 0
  BY EmptySeq DEF IsStack
<1>7. NumbersRead = 0 /\ OperatorsRead = 0
  <2>1. Passed(Numbers(s), here) = {} /\ Passed(Where(s, Operators), here) = {}
    BY <1>1, <1>4 DEF Passed, Numbers
  <2> QED BY <2>1, FS_EmptySet DEF NumbersRead, OperatorsRead
<1>8. here \in Where(s, Digits) => here \in Numbers(s)
  BY <1>1 DEF Numbers
<1>9. Counted
  BY <1>1, <1>3, <1>4, <1>5, <1>6, <1>7, <1>8 DEF Counted
<1>10. Holds(s, here, <<>>, <<>>)
  <2> DEFINE w == Opening(s, Weak, here)
             o == Opening(s, Operators, here)
  <2>1. w = 0 /\ o = 0
    <3>1. w \in 0 .. here - 1 /\ o \in 0 .. here - 1
      BY <1>3, <1>5, OpeningIs
    <3> QED BY <1>1, <3>1
  <2>2. Stretch(s, here) = {}
    BY <1>1, <1>4 DEF Stretch, Numbers
  <2> HIDE DEF w, o
  <2>3. AfterSum(s, here, w, o, <<>>, <<>>)
    BY <1>6, <2>1, <2>2 DEF AfterSum, SumHeld, Below
  <2> QED BY <2>3 DEF Holds, Form, w, o
<1>11. Meant
  BY <1>1, <1>10 DEF Meant
<1> QED BY <1>9, <1>11 DEF LineInv

(* evaluateExpression (lines 83-201). *)
LEMMA LineNextInv == ASSUME LineInv, [LineNext]_lineVars PROVE LineInv'
<1>1. CASE SkipSpace
  BY <1>1, SkipSpaceInv
<1>2. CASE ReadNumber
  BY <1>2, ReadNumberInv
<1>3. CASE Apply
  BY <1>3, ApplyInv
<1>4. CASE Refuse
  BY <1>4, RefuseInv
<1>5. CASE PushOperator
  BY <1>5, PushOperatorInv
<1>6. CASE Show
  BY <1>6, ShowInv
<1>7. CASE UNCHANGED lineVars
  BY <1>7 DEF lineVars, LineInv, Counted, Meant, NumbersRead, OperatorsRead, AtEnd, Result
<1> QED BY <1>1, <1>2, <1>3, <1>4, <1>5, <1>6, <1>7 DEF LineNext

(* What the invariant says at the end. *)
LEMMA LineInvEvaluates == ASSUME LineInv PROVE Evaluates
<1> DEFINE s == expression
<1>1. GetsMeaning
  BY DEF LineInv, Meant, GetsMeaning
<1>2. ASSUME outcome = "result"
      PROVE  /\ Where(s, Others) = {}
             /\ Cardinality(Numbers(s)) > Cardinality(Where(s, Operators))
  <2>1. /\ IsLine(s) /\ here \in Upto(s) /\ AtEnd /\ Len(operatorStack) = 0
        /\ Len(operandStack) # 0 /\ Len(operandStack) \in Nat
        /\ Len(operandStack) - Len(operatorStack) = NumbersRead - OperatorsRead
        /\ \A k \in Where(s, Others) : ~(k < here)
    BY <1>2, StackIs DEF LineInv, Counted
  <2>2. here = Len(s) + 1 /\ Len(s) \in Nat
        /\ \A S : \A k \in Where(s, S) : k < here /\ k \in Nat
    BY <2>1 DEF AtEnd, Upto, IsLine, Where
  <2>3. Where(s, Others) = {}
    BY <2>1, <2>2
  <2>4. Passed(Numbers(s), here) = Numbers(s)
        /\ Passed(Where(s, Operators), here) = Where(s, Operators)
    BY <2>2 DEF Passed, Numbers
  <2>5. Cardinality(Numbers(s)) = NumbersRead
        /\ Cardinality(Where(s, Operators)) = OperatorsRead
    BY <2>4 DEF NumbersRead, OperatorsRead
  <2>6. NumbersRead \in Nat /\ OperatorsRead \in Nat
    <3>1. Numbers(s) \subseteq Nat /\ Where(s, Operators) \subseteq Nat /\ here \in Nat
      BY <2>2 DEF Numbers
    <3> QED BY <3>1, PassedIs DEF NumbersRead, OperatorsRead
  <2> QED BY <2>1, <2>3, <2>5, <2>6
<1> QED BY <1>1, <1>2 DEF Evaluates, RefusesMissing

(* A line that is an expression gets its meaning, or an error if it        *)
(* divides by zero, and no line gets a result that has an unknown          *)
(* character or too few numbers (calculator.c:109-198).                    *)
THEOREM EvaluatesAlways == LineSpec => []Evaluates
<1>1. LineInit => LineInv
  BY LineInitInv
<1>2. LineInv /\ [LineNext]_lineVars => LineInv'
  BY LineNextInv
<1>3. LineInv => Evaluates
  BY LineInvEvaluates
<1> QED BY <1>1, <1>2, <1>3, PTL DEF LineSpec
=============================================================================
