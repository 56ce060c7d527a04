------------------------------ MODULE VfsHeap -------------------------------
(***************************************************************************)
(* The directory "virtual file system", down to its pointers: the commands *)
(* on the tree of SiblingList and the free list of FreeBlockList.  It      *)
(* implements VirtualFileSystem, in which these are sequences.             *)
(***************************************************************************)
EXTENDS Integers, Sequences, FiniteSets, SequencesExt

CONSTANTS
  FileNodes, root,    \* where malloc may put a FileNode
  FreeBlocks,         \* ... and a FreeBlock
  NULL, Names, SLASH, DOTS, Cut(_), TOTAL_BLOCKS, Texts, MaxBlocks, NoMemory

ASSUME HeapAssumption ==
  /\ root \in FileNodes /\ NULL \notin FileNodes \union FreeBlocks
  /\ TOTAL_BLOCKS \in Nat \ {0} /\ MaxBlocks \in Nat /\ NoMemory \subseteq {"block"}
  /\ Cut(SLASH) = SLASH /\ \A s \in Names \union {SLASH} : Cut(s) \in Names \union {SLASH}
  /\ IsFiniteSet(FreeBlocks) /\ Cardinality(FreeBlocks) >= TOTAL_BLOCKS

VARIABLES
  mode, current, disk,
  list,       \* freeBlockHead and freeBlockTail, and the FreeBlocks
  node        \* the FileNodes

vars == <<mode, current, disk, list, node>>

L == INSTANCE FreeBlockList
T == INSTANCE SiblingList

Blocks == L!Blocks
Live == DOMAIN node
Piece(t, i) == <<t, i>>
EMPTY == Piece("", 0)

Init ==
  /\ mode = "running" /\ current = root
  /\ node = [n \in {root} |-> T!Only(SLASH, TRUE, NULL, root)]
  /\ \E at \in [Blocks -> FreeBlocks] : IsInjective(at) /\ list = L!initializeFreeBlocks(at)
  /\ disk = [b \in Blocks |-> EMPTY]

Search(s) == T!searchFileInDirectory(node, current, s)

-----------------------------------------------------------------------------
(* makeDirectory and createFile. *)
Create(s, isDir) ==
  /\ mode = "running" /\ Search(s) = NULL
  /\ \E n \in FileNodes \ Live : node' = T!insertFileNodeAsChild(node, current, n, s, isDir)
  /\ UNCHANGED <<mode, current, disk, list>>

removeDirectory(s) ==
  /\ mode = "running"
  /\ \/ /\ node[current].name = s /\ s # SLASH /\ node[current].child = NULL
        /\ node' = T!Unlinked(node, current) /\ current' = node[current].parent
     \/ /\ node[current].name # s /\ Search(s) # NULL
        /\ node[Search(s)].isDirectory /\ node[Search(s)].child = NULL
        /\ node' = T!Unlinked(node, Search(s)) /\ UNCHANGED current
  /\ UNCHANGED <<mode, disk, list>>

(* What malloc may return for k FreeBlocks in turn. *)
Mallocs(k) ==
  {at \in [1 .. k -> (FreeBlocks \ DOMAIN list.node) \union {NULL}] :
     /\ \A i, j \in 1 .. k : at[i] = at[j] => i = j \/ at[i] = NULL
     /\ "block" \notin NoMemory => NULL \notin Range(at)}

(* The list l after the blocks q have come back, one after the other.      *)
Refilled(l, q, at) ==
  LET upTo[i \in 0 .. Len(q)] ==
        IF i = 0 THEN l ELSE L!insertFreeBlockAtTail(upTo[i - 1], q[i], at[i])
  IN  upTo[Len(q)]

deleteFile(s) ==
  /\ mode = "running"
  /\ LET n == Search(s)
         q == node[n].blocks IN
       /\ n # NULL /\ ~node[n].isDirectory
       /\ node' = T!Unlinked(node, n)
       /\ \E at \in Mallocs(Len(q)) : list' = Refilled(list, q, at)
       /\ disk' = [b \in Blocks |-> IF b \in ToSet(q) THEN EMPTY ELSE disk[b]]
  /\ UNCHANGED <<mode, current>>

changeDirectory(s) ==
  /\ mode = "running"
  /\ \/ s = DOTS /\ node[current].parent # NULL /\ current' = node[current].parent
     \/ /\ s # DOTS /\ Search(s) # NULL /\ node[Search(s)].isDirectory
        /\ current' = Search(s)
  /\ UNCHANGED <<mode, disk, list, node>>

(* One block: the state of the loop is the list, the disk and the blocks.  *)
WriteBlock(w, piece) ==
  LET b == w.list.node[w.list.head].address IN
  [list   |-> L!deleteFreeBlockFromHead(w.list),
   disk   |-> [w.disk EXCEPT ![b] = piece],
   blocks |-> Append(w.blocks, b)]

Written(w, t, k) ==
  LET upTo[i \in 0 .. k] == IF i = 0 THEN w ELSE WriteBlock(upTo[i - 1], Piece(t, i))
  IN  upTo[k]

writeFile(s, t, k) ==
  /\ mode = "running" /\ k <= Len(L!Walk(list))
  /\ LET n == Search(s)
         w == Written([list |-> list, disk |-> disk, blocks |-> node[n].blocks], t, k) IN
       /\ n # NULL /\ ~node[n].isDirectory
       /\ list' = w.list /\ disk' = w.disk /\ node' = [node EXCEPT ![n].blocks = w.blocks]
  /\ UNCHANGED <<mode, current>>

exitProgram ==
  /\ mode = "running" /\ mode' = "exited"
  /\ UNCHANGED <<current, disk, list, node>>

Next == \/ \E s \in Names, isDir \in BOOLEAN : Create(s, isDir)
        \/ \E s \in Names : removeDirectory(s) \/ deleteFile(s) \/ changeDirectory(s)
        \/ \E s \in Names, t \in Texts, k \in 1 .. MaxBlocks : writeFile(s, t, k)
        \/ exitProgram

Spec == Init /\ [][Next]_vars

-----------------------------------------------------------------------------
(* The free list ends both ways where it should: head and tail are both    *)
(* NULL or neither, so the refusal of free_block.c:116 never comes; every  *)
(* allocated FreeBlock is in it, previous is the inverse of next, and no   *)
(* pointer leads to freed memory, through emptying and refilling and       *)
(* whatever mallocs fail (free_block.c:24-127).                            *)
ListLinked == L!WellLinked(list)

(* Each FileNode is in one circular list, that of its parent's children,   *)
(* where previous is the inverse of next; the current directory is one of  *)
(* them (file_node.c:25-169).                                              *)
TreeLinked == current \in Live /\ T!WellLinked(node)

(* Both lists of pointers, after every command of either.                  *)
WellLinked == ListLinked /\ TreeLinked

(* exit would free every FileNode, and none twice, whatever was created    *)
(* and removed before (file_operations.c:312-338).                         *)
FreesAll ==
  LET q == T!freeFileNode(node, root) IN ToSet(q) = Live /\ Len(q) = Cardinality(Live)

(* On pointers, the commands do what VirtualFileSystem says of sequences:  *)
(* children keep their order, and the free list is a queue.                *)
Tree == [n \in Live |-> [name |-> node[n].name, parent |-> node[n].parent,
                         isDirectory |-> node[n].isDirectory, blocks |-> node[n].blocks,
                         children |-> T!Children(node, n)]]

Vfs == INSTANCE VirtualFileSystem WITH file <- Tree, free <- L!Listed(list), CdReturns <- TRUE

ImplementsVfs == Vfs!Spec
=============================================================================
