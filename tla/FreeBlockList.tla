---------------------------- MODULE FreeBlockList ---------------------------
(***************************************************************************)
(* free_block.c: a doubly linked list of free blocks, with its head, its   *)
(* tail and what is at each of its nodes that is allocated.                *)
(***************************************************************************)
EXTENDS Integers, Sequences, FiniteSets, SequencesExt

CONSTANTS NULL, TOTAL_BLOCKS

Blocks == 0 .. TOTAL_BLOCKS - 1
Allocated(l) == DOMAIN l.node

(* With malloc's nodes "at".  When one fails, main ends. *)
initializeFreeBlocks(at) ==
  [head |-> at[0], tail |-> at[TOTAL_BLOCKS - 1],
   node |-> [n \in Range(at) |->
               LET b == CHOOSE b \in Blocks : at[b] = n IN
                 [address  |-> b,
                  next     |-> IF b = TOTAL_BLOCKS - 1 THEN NULL ELSE at[b + 1],
                  previous |-> IF b = 0 THEN NULL ELSE at[b - 1]]]]

(* Slip: the tail stays when the list becomes empty. *)
DeleteSlip(l) ==
  [l EXCEPT !.head = l.node[l.head].next,
            !.node = [n \in Allocated(l) \ {l.head} |->
                        IF n = l.node[l.head].next THEN [l.node[n] EXCEPT !.previous = NULL]
                        ELSE l.node[n]]]

deleteFreeBlockFromHead(l) ==
  LET nextNode == l.node[l.head].next
      rest == [n \in Allocated(l) \ {l.head} |-> l.node[n]]
  IN  IF nextNode = NULL THEN [head |-> NULL, tail |-> NULL, node |-> rest]
      ELSE [head |-> nextNode, tail |-> l.tail,
            node |-> [rest EXCEPT ![nextNode].previous = NULL]]

(* At n, where malloc put the node; NULL if there was no memory, which     *)
(* like a list with only a head or only a tail leaves things as they are.  *)
insertFreeBlockAtTail(l, b, n) ==
  IF n = NULL \/ (l.head = NULL) # (l.tail = NULL) THEN l
  ELSE [head |-> IF l.head = NULL THEN n ELSE l.head,
        tail |-> n,
        node |-> [m \in Allocated(l) \union {n} |->
                    IF m = n THEN [address |-> b, next |-> NULL, previous |-> l.tail]
                    ELSE IF m = l.tail THEN [l.node[m] EXCEPT !.next = n] ELSE l.node[m]]]

(* The nodes that next leads to, and the blocks they stand for. *)
Walk(l) ==
  LET size == Cardinality(Allocated(l))
      step[i \in 0 .. size] ==
        IF i = 0 THEN l.head
        ELSE IF step[i - 1] \in Allocated(l) THEN l.node[step[i - 1]].next ELSE NULL
      ends == {i \in 0 .. size : step[i] \notin Allocated(l)}
  IN  [i \in 1 .. Min(ends \union {size}) |-> step[i - 1]]
Listed(l) == [i \in DOMAIN Walk(l) |-> l.node[Walk(l)[i]].address]

WellLinked(l) ==
  /\ IF Allocated(l) = {} THEN l.head = NULL /\ l.tail = NULL
     ELSE /\ l.head \in Allocated(l) /\ l.node[l.head].previous = NULL
          /\ l.tail \in Allocated(l) /\ l.node[l.tail].next = NULL
  /\ ToSet(Walk(l)) = Allocated(l)
  /\ \A n \in Allocated(l) \ {l.tail} :
       l.node[n].next \in Allocated(l) /\ l.node[l.node[n].next].previous = n
=============================================================================
