----------------------------- MODULE SiblingList ----------------------------
(***************************************************************************)
(* file_node.c: the tree of FileNodes.  The children of a directory are a  *)
(* circular doubly linked list, of which it knows the first.  f is what is *)
(* at each FileNode that is allocated.                                     *)
(***************************************************************************)
EXTENDS Integers, Sequences, FiniteSets, SequencesExt

CONSTANTS NULL, Cut(_)   \* Cut: a name as strncpy stores it

NewNode(s, isDir, d, p, q) ==
  [name |-> Cut(s), isDirectory |-> isDir, blocks |-> <<>>, parent |-> d, child |-> NULL,
   previous |-> p, next |-> q]

Only(s, isDir, d, n) == NewNode(s, isDir, d, n, n)   \* the only node of its list

(* Slip: the head keeps the old tail as the node before it. *)
InsertSlip(f, head, n, s, isDir, d) ==
  LET tail == f[head].previous IN
  [m \in DOMAIN f \union {n} |->
     IF m = n THEN NewNode(s, isDir, d, tail, head)
     ELSE IF m = tail THEN [f[m] EXCEPT !.next = n] ELSE f[m]]

(* n goes between the tail and the head. *)
insertFileNodeAtTail(f, head, n, s, isDir, d) ==
  LET tail == f[head].previous
      with == [m \in DOMAIN f \union {n} |->
        IF m = n THEN NewNode(s, isDir, d, tail, head) ELSE f[m]]
  IN  [with EXCEPT ![tail].next = n, ![head].previous = n]

insertFileNodeAsChild(f, d, n, s, isDir) ==
  IF f[d].child # NULL THEN insertFileNodeAtTail(f, f[d].child, n, s, isDir, d)
  ELSE [m \in DOMAIN f \union {n} |->
          IF m = n THEN Only(s, isDir, d, n)
          ELSE IF m = d THEN [f[m] EXCEPT !.child = n] ELSE f[m]]

(* The neighbours of n made each other's. *)
Bypassed(f, n) ==
  [f EXCEPT ![f[n].previous].next = f[n].next, ![f[n].next].previous = f[n].previous]

(* Slip: the directory does not learn who is first now. *)
UnlinkSlip(f, n) ==
  LET out == Bypassed(f, n) IN
  [m \in DOMAIN f \ {n} |->
     IF f[n].next = n /\ m = f[n].parent THEN [out[m] EXCEPT !.child = NULL] ELSE out[m]]

(* deleteFileNodeAtHead, of a node without children. *)
Unlinked(f, n) ==
  LET out   == Bypassed(f, n)
      first == IF f[n].next = n THEN NULL ELSE f[n].next
  IN  [m \in DOMAIN f \ {n} |->
         IF m = f[n].parent /\ f[m].child = n THEN [out[m] EXCEPT !.child = first] ELSE out[m]]

(* The nodes that next leads to from h on, before it comes back to h. *)
From(f, h) ==
  LET size == Cardinality(DOMAIN f)
      step[i \in 0 .. size] ==
        IF i = 0 THEN h ELSE IF step[i - 1] \in DOMAIN f THEN f[step[i - 1]].next ELSE NULL
      ends == {i \in 1 .. size : step[i] \notin DOMAIN f \ {h}}
  IN  [i \in 1 .. Min(ends \union {size}) |-> step[i - 1]]

Children(f, d) == IF f[d].child = NULL THEN <<>> ELSE From(f, f[d].child)

(* The nodes of q, each after those below it, as they are freed.           *)
FreedSlip(q, below) ==                       \* slip: not what is below the first
  FlattenSeq([i \in DOMAIN q |-> Append(IF i = 1 THEN <<>> ELSE below[q[i]], q[i])])
Freed(q, below) == FlattenSeq([i \in DOMAIN q |-> Append(below[q[i]], q[i])])

(* The list of h and all below it.  below[k] is what is below each node,   *)
(* down to k lists: there are no more than nodes.                          *)
freeFileNode(f, h) ==
  LET size == Cardinality(DOMAIN f)
      below[k \in 0 .. size] ==
        [d \in DOMAIN f |-> IF k = 0 THEN <<>> ELSE Freed(Children(f, d), below[k - 1])]
  IN  Freed(From(f, h), below[size])

searchFileInDirectory(f, d, s) ==
  LET q    == Children(f, d)
      hits == {i \in DOMAIN q : f[q[i]].name = s}
  IN  IF hits = {} THEN NULL ELSE q[Min(hits)]

WellLinked(f) ==
  \A n \in DOMAIN f :
    /\ f[n].next \in DOMAIN f /\ f[f[n].next].previous = n
    /\ f[f[n].next].parent = f[n].parent
    /\ f[n].child # NULL => f[n].child \in DOMAIN f /\ f[f[n].child].parent = n
    /\ f[n].parent # NULL => f[n].parent \in DOMAIN f /\ n \in ToSet(Children(f, f[n].parent))
=============================================================================
