------------------------------ MODULE UserFile ------------------------------
(***************************************************************************)
(* The user records of CRUD_operations.c.  Each command loads users.dat    *)
(* into an array and adds to the file or writes it anew; the program may   *)
(* be killed at any moment and started again.                              *)
(***************************************************************************)
EXTENDS Naturals, Sequences, FiniteSets, SequencesExt

CONSTANTS
  Ids,         \* integers a user may type as an id
  Data,        \* names and ages a user may type
  Mixed,       \* the rest of a record that is read from two
  SIZE_LIMIT,
  BLOCK,       \* records that fit in the buffer of a FILE
  MaxRecords   \* bound on the records of the file

ASSUME UserAssumption ==
  /\ SIZE_LIMIT \in Nat \ {0} /\ BLOCK \in Nat \ {0} /\ MaxRecords \in Nat
  /\ Mixed \notin Data

User(i, d) == [id |-> i, data |-> d]
Users   == [id : Ids, data : Data]
Records == [id : Ids, data : Data \union {Mixed}]

VARIABLES
  pc,          \* "menu", "truncated" or "flushed"
  records,     \* users.dat, read in records from its start; none: no file
  rest,        \* what follows them and is shorter than a record
  userList     \* the array that a rewrite has to write

vars == <<pc, records, rest, userList>>

None    == [piece |-> "none"]
Cut(r)  == [piece |-> "head", id |-> r.id]   \* the beginning of r, with its id
Overrun == [piece |-> "tail"]                \* the end of a record

Init == pc = "menu" /\ records = <<>> /\ rest = None /\ userList = <<>>

-----------------------------------------------------------------------------
(* Slip: the last user that fits in the array is not loaded. *)
LoadSlip(q) == SubSeq(q, 1, IF Len(q) < SIZE_LIMIT THEN Len(q) ELSE SIZE_LIMIT - 1)
loadUsersFromFile(q) == SubSeq(q, 1, IF Len(q) < SIZE_LIMIT THEN Len(q) ELSE SIZE_LIMIT)

Seen == loadUsersFromFile(records)

IsAt(n, i) == /\ n \in DOMAIN Seen /\ Seen[n].id = i
              /\ \A h \in 1 .. n - 1 : Seen[h].id # i
Absent(i) == \A n \in DOMAIN Seen : Seen[n].id # i

(* What the next record may be read as once the record of u follows rest:  *)
(* after the end of another, its id is whatever bytes of that are in place. *)
ReadAs(u) == CASE rest.piece = "none" -> {u}
               [] rest.piece = "head" -> {User(rest.id, Mixed)}
               [] OTHER               -> {User(h, Mixed) : h \in Ids}

(* One record goes to the file in one write, when it is closed. *)
AppendUser(i, d) ==
  /\ pc = "menu" /\ Len(records) < MaxRecords
  /\ \E r \in ReadAs(User(i, d)) : records' = Append(records, r)
  /\ rest' = IF rest = None THEN None ELSE Overrun
  /\ UNCHANGED <<pc, userList>>
addUser(i, d) == Absent(i) /\ AppendUser(i, d)

(* fopen empties the file before anything is written. *)
Rewrite(q) ==
  /\ pc = "menu" /\ pc' = "truncated" /\ userList' = q
  /\ records' = <<>> /\ rest' = None

updateUser(i, d) ==
  \E n \in DOMAIN Seen : IsAt(n, i) /\ Rewrite([Seen EXCEPT ![n] = User(i, d)])

(* Slip: userCount is not decreased, the last user is written twice. *)
SlipDeleteUser(i) ==
  \E n \in DOMAIN Seen : IsAt(n, i) /\ Rewrite(Append(RemoveAt(Seen, n), Last(Seen)))
deleteUser(i) == \E n \in DOMAIN Seen : IsAt(n, i) /\ Rewrite(RemoveAt(Seen, n))

(* More than a buffer holds: whole blocks go to the file at once, and end  *)
(* within a record or with one.                                            *)
WriteBlocks ==
  /\ pc = "truncated" /\ Len(userList) > BLOCK
  /\ \E n \in BLOCK .. Len(userList) :
       /\ records' = SubSeq(userList, 1, n)
       /\ rest' = None \/ (n < Len(userList) /\ rest' = Cut(userList[n + 1]))
  /\ pc' = "flushed" /\ UNCHANGED userList

(* fclose writes what is in the buffer. *)
Close ==
  /\ pc = "flushed" \/ (pc = "truncated" /\ Len(userList) <= BLOCK)
  /\ records' = userList /\ rest' = None
  /\ pc' = "menu" /\ userList' = <<>>

(* Killed, and started again. *)
Kill ==
  /\ pc # "menu"
  /\ pc' = "menu" /\ userList' = <<>> /\ UNCHANGED <<records, rest>>

Next == \/ \E i \in Ids, d \in Data : addUser(i, d) \/ updateUser(i, d)
        \/ \E i \in Ids : deleteUser(i)
        \/ WriteBlocks \/ Close \/ Kill

Spec == Init /\ [][Next]_vars

-----------------------------------------------------------------------------
(* Every variable has its type, and a file that is written anew starts     *)
(* empty (line 43).                                                        *)
TypeOK ==
  /\ pc \in {"menu", "truncated", "flushed"}
  /\ pc = "truncated" => records = <<>> /\ rest = None
  /\ records \in Seq(Records) /\ userList \in Seq(Records)
  /\ rest \in {None, Overrun} \union {Cut(User(i, Mixed)) : i \in Ids}

(* Among the records that are loaded, one id has one user: a later record  *)
(* of that id is no user but what was read across two records after a kill *)
(* cut the file.  So update and delete, which take the first, take the     *)
(* user (lines 89-96, 119-129, 153-167), even when the file has more       *)
(* records than are loaded.                                                *)
FirstIsUser(q) == \A n, m \in DOMAIN q : n < m /\ q[n].id = q[m].id => q[m].data = Mixed

OneUserPerId == FirstIsUser(Seen) /\ FirstIsUser(userList)

(* As long as the file has no more users than are loaded, the program keeps *)
(* the promise of UserTable to every user of the file: only a kill during a *)
(* rewrite loses users, and then all from some place on, and only after one *)
(* is a user read wrong.  A longer file is not promised this: the next      *)
(* update or delete loses what was not loaded, without a kill.              *)
Table == INSTANCE UserTable WITH
           table <- IF pc = "menu" THEN records ELSE userList,
           saving <- pc # "menu",
           whole <- pc # "menu" \/ rest = None

KeepsTable == Table!Init /\ [][Len(records) <= SIZE_LIMIT => Table!Next]_(Table!vars)

(* However long the file is, the program keeps the promise to the users it  *)
(* loads (lines 87, 116, 150): a user added beyond them changes none of     *)
(* them, and an update or delete of one leaves the others.                  *)
LoadedTable == INSTANCE UserTable WITH
                 table <- IF pc = "menu" THEN Seen ELSE userList,
                 saving <- pc # "menu",
                 whole <- pc # "menu" \/ rest = None

KeepsLoaded == LoadedTable!Spec

(* Line 175, "Rewrite binary file with remaining users": a delete leaves    *)
(* every other user in what is to be the file.                              *)
RemainingKept ==
  [][\A i \in Ids : deleteUser(i) =>
       \A n \in DOMAIN records : records[n].id # i => records[n] \in ToSet(userList')]_vars
=============================================================================
