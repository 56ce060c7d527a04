----------------------------- MODULE FileStore ------------------------------
(***************************************************************************)
(* What the virtual file system promises of the data in its files: a file  *)
(* holds what was written to it, in that order, until it is deleted, and   *)
(* writes fit as long as there is room for their blocks.                   *)
(***************************************************************************)
EXTENDS Naturals, Sequences, FiniteSets, SequencesExt

CONSTANTS
  Files,       \* what a file may be
  Writes,      \* what may be written at once: sequences of blocks of data
  TOTAL_BLOCKS

VARIABLES
  content,     \* of each file, the blocks of data written to it
  room         \* free blocks

Init == content = <<>> /\ room = TOTAL_BLOCKS

Create(f) ==
  /\ f \notin DOMAIN content
  /\ content' = [g \in DOMAIN content \union {f} |-> IF g = f THEN <<>> ELSE content[g]]
  /\ UNCHANGED room

Write(f, w) ==
  /\ f \in DOMAIN content /\ Len(w) <= room
  /\ content' = [content EXCEPT ![f] = @ \o w]
  /\ room' = room - Len(w)

Delete(f) ==
  /\ f \in DOMAIN content
  /\ content' = [g \in DOMAIN content \ {f} |-> content[g]]
  /\ room' = room + Len(content[f])

Next == \/ \E f \in Files : Create(f) \/ Delete(f)
        \/ \E f \in Files, w \in Writes : Write(f, w)

Spec == Init /\ [][Next]_<<content, room>>
=============================================================================
