------------------------------ MODULE UserTable ------------------------------
(***************************************************************************)
(* What the program of CRUD_operations.c promises of its table of users: a *)
(* command does to the table what it says, in one step, and nothing else   *)
(* takes a user away but a kill while the table is saved.                  *)
(***************************************************************************)
EXTENDS Naturals, Sequences, FiniteSets, SequencesExt

CONSTANTS
  Ids,         \* integers a user may type as an id
  Data,        \* names and ages a user may type
  Mixed        \* what is read where two records run into each other

VARIABLES
  table,       \* the users kept
  saving,      \* a change is being saved
  whole        \* no piece of a user is left over from a kill

vars == <<table, saving, whole>>

User(i, d) == [id |-> i, data |-> d]

(* The first user of id i. *)
IsAt(n, i) == /\ n \in DOMAIN table /\ table[n].id = i
              /\ \A h \in 1 .. n - 1 : table[h].id # i
Absent(i) == \A n \in DOMAIN table : table[n].id # i

Init == table = <<>> /\ saving = FALSE /\ whole = TRUE

(* A user added next to a piece of another runs into it. *)
Add(i, d) ==
  /\ ~saving /\ Absent(i)
  /\ \/ whole /\ table' = Append(table, User(i, d))
     \/ ~whole /\ \E h \in Ids : table' = Append(table, User(h, Mixed))
  /\ UNCHANGED <<saving, whole>>

Update(i, d) ==
  /\ ~saving
  /\ \E n \in DOMAIN table : IsAt(n, i) /\ table' = [table EXCEPT ![n] = User(i, d)]
  /\ saving' = TRUE /\ whole' = TRUE

Delete(i) ==
  /\ ~saving
  /\ \E n \in DOMAIN table : IsAt(n, i) /\ table' = RemoveAt(table, n)
  /\ saving' = TRUE /\ whole' = TRUE

Saved == saving /\ saving' = FALSE /\ UNCHANGED <<table, whole>>

(* Killed while saving: the first users are kept, maybe cut in the middle. *)
Killed ==
  /\ saving /\ saving' = FALSE /\ whole' \in BOOLEAN
  /\ \E n \in 0 .. Len(table) : table' = SubSeq(table, 1, n)

Next == \/ \E i \in Ids, d \in Data : Add(i, d) \/ Update(i, d)
        \/ \E i \in Ids : Delete(i)
        \/ Saved \/ Killed

Spec == Init /\ [][Next]_vars
=============================================================================
