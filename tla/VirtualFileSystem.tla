-------------------------- MODULE VirtualFileSystem -------------------------
(***************************************************************************)
(* The in-memory file system of virtual_file_system.c and of the directory *)
(* "virtual file system": a tree of directories and files, a virtual disk  *)
(* of blocks and the list of free ones.  The two versions differ in cd.    *)
(* Lists are sequences here; VfsHeap models how the code links them.       *)
(***************************************************************************)
EXTENDS Naturals, Sequences, FiniteSets, SequencesExt

CONSTANTS
  FileNodes,     \* where malloc may put a FileNode
  root,          \* the one of the root directory
  NULL,
  Names,         \* what a user may type as a name
  SLASH, DOTS,   \* the names "/" and ".."
  Cut(_),        \* a name as it is stored: its first 49 characters
  TOTAL_BLOCKS,
  Texts,         \* what may be written, up to its length
  MaxBlocks,     \* bound on the blocks of one write
  NoMemory,      \* which mallocs may fail: "block" (a node of the free list)
  CdReturns      \* whether cd returns when it finds nothing

ASSUME VfsAssumption ==
  /\ root \in FileNodes /\ NULL \notin FileNodes
  /\ \A s \in Names \union {SLASH} : Cut(s) \in Names \union {SLASH}
  /\ Cut(SLASH) = SLASH
  /\ TOTAL_BLOCKS \in Nat \ {0} /\ MaxBlocks \in Nat
  /\ NoMemory \subseteq {"block"} /\ CdReturns \in BOOLEAN

VARIABLES
  mode,       \* "running", "crashed" or "exited"
  file,       \* the FileNodes that are allocated
  current,    \* the current directory
  free,       \* the list of free blocks
  disk        \* what each block holds

vars == <<mode, file, current, free, disk>>

Blocks == 0 .. TOTAL_BLOCKS - 1
Live   == DOMAIN file
Piece(t, i) == <<t, i>>   \* the i-th block of text t
EMPTY  == Piece("", 0)

NewNode(s, d, isDir) ==
  [name |-> Cut(s), parent |-> d, isDirectory |-> isDir, children |-> <<>>, blocks |-> <<>>]

Init ==
  /\ mode = "running" /\ current = root
  /\ file = [n \in {root} |-> NewNode(SLASH, NULL, TRUE)]
  /\ free = [i \in 1 .. TOTAL_BLOCKS |-> i - 1] /\ disk = [b \in Blocks |-> EMPTY]

-----------------------------------------------------------------------------
(* searchFileInDirectory: n is the first child of the current directory    *)
(* whose name is s, or there is none.                                      *)
Finds(s, n) ==
  LET q == file[current].children IN
  \E i \in DOMAIN q : /\ q[i] = n /\ file[n].name = s
                      /\ \A k \in 1 .. i - 1 : file[q[k]].name # s
FindsNone(s) == \A n \in ToSet(file[current].children) : file[n].name # s

(* Out of memory, the tree stays as it was. *)
insertFileNodeAsChild(s, isDir) ==
  /\ mode = "running"
  /\ \E n \in FileNodes \ Live :
       file' = [m \in Live \union {n} |->
                  IF m = n THEN NewNode(s, current, isDir)
                  ELSE IF m = current THEN [file[m] EXCEPT !.children = Append(@, n)]
                  ELSE file[m]]
  /\ UNCHANGED <<mode, current, free, disk>>

(* mkdir and create. *)
Insert(s, isDir) == FindsNone(s) /\ insertFileNodeAsChild(s, isDir)

(* The tree without n, which its parent forgets. *)
Without(q, n) == RemoveAt(q, CHOOSE i \in DOMAIN q : q[i] = n)
Unlinked(n) ==
  [m \in Live \ {n} |-> IF m = file[n].parent
                        THEN [file[m] EXCEPT !.children = Without(@, n)] ELSE file[m]]

(* rmdir of the current directory, by its own name, whatever it contains   *)
(* of that name; a directory that is not empty stays.                      *)
CurrentGoes(s) ==
  /\ mode = "running" /\ file[current].name = s /\ s # SLASH
  /\ file[current].children = <<>>
  /\ file' = Unlinked(current) /\ UNCHANGED <<mode, free, disk>>
RemoveSlip(s) == CurrentGoes(s) /\ UNCHANGED current   \* slip: it stays the current one
RemoveCurrent(s) == CurrentGoes(s) /\ current' = file[current].parent

ChildGoes(s, n) ==
  /\ mode = "running" /\ file[current].name # s
  /\ Finds(s, n) /\ file[n].isDirectory
  /\ file' = Unlinked(n) /\ UNCHANGED <<mode, current, free, disk>>
RemoveChildSlip(s) == \E n \in Live : ChildGoes(s, n)  \* slip: whatever it contains
RemoveChild(s) == \E n \in Live : ChildGoes(s, n) /\ file[n].children = <<>>

(* What is put in the free list of the blocks q: all, when there is memory *)
(* for a node for each of them.                                            *)
Picks(q) == UNION {{f \in [1 .. k -> DOMAIN q] : \A i, j \in 1 .. k : i < j => f[i] < f[j]}
                   : k \in 0 .. Len(q)}
Kept(q) == IF "block" \in NoMemory THEN {[i \in DOMAIN f |-> q[f[i]]] : f \in Picks(q)} ELSE {q}

FileGoes(s, n) ==
  /\ mode = "running" /\ Finds(s, n) /\ ~file[n].isDirectory
  /\ file' = Unlinked(n)
  /\ disk' = [b \in Blocks |-> IF b \in ToSet(file[n].blocks) THEN EMPTY ELSE disk[b]]
  /\ UNCHANGED <<mode, current>>
DeleteSlip(s) ==                                       \* slip: the last block is forgotten
  \E n \in Live :
    /\ FileGoes(s, n)
    /\ LET q == file[n].blocks IN free' = free \o SubSeq(q, 1, Len(q) - 1)

(* Its blocks go to the end of the free list; one for which there is no    *)
(* memory there is in no list any more.                                    *)
deleteFile(s) ==
  \E n \in Live : FileGoes(s, n) /\ \E q \in Kept(file[n].blocks) : free' = free \o q

changeDirectory(s) ==
  /\ mode = "running"
  /\ \/ /\ s = DOTS /\ file[current].parent # NULL
        /\ current' = file[current].parent /\ UNCHANGED mode
     \/ /\ s # DOTS
        /\ \E n \in Live : Finds(s, n) /\ file[n].isDirectory /\ current' = n
        /\ UNCHANGED mode
     \/ /\ s # DOTS /\ FindsNone(s) /\ ~CdReturns
        /\ mode' = "crashed" /\ UNCHANGED current
  /\ UNCHANGED <<file, free, disk>>

LastOf(q, b) == CHOOSE i \in DOMAIN q : q[i] = b /\ \A h \in i + 1 .. Len(q) : q[h] # b

(* The first k free blocks get the text and become the file's, after the   *)
(* blocks it has; a text too long for the free blocks changes nothing.     *)
Filled(s, t, k) ==
  /\ mode = "running" /\ k <= Len(free)
  /\ LET q == SubSeq(free, 1, k) IN
       /\ \E n \in Live : /\ Finds(s, n) /\ ~file[n].isDirectory
                          /\ file' = [file EXCEPT ![n].blocks = @ \o q]
       /\ disk' = [b \in Blocks |->
                     IF b \in ToSet(q) THEN Piece(t, LastOf(q, b)) ELSE disk[b]]
  /\ UNCHANGED <<mode, current>>
WriteSlip(s, t, k) == Filled(s, t, k) /\ UNCHANGED free   \* slip: the blocks stay free
writeFile(s, t, k) == Filled(s, t, k) /\ free' = SubSeq(free, k + 1, Len(free))

(* pwd, ls, df and read change nothing, as do refused commands. *)
Exit ==
  /\ mode = "running" /\ mode' = "exited"
  /\ UNCHANGED <<file, current, free, disk>>

Next == \/ \E s \in Names, isDir \in BOOLEAN : Insert(s, isDir)
        \/ \E s \in Names : RemoveCurrent(s) \/ RemoveChild(s) \/ deleteFile(s)
                            \/ changeDirectory(s)
        \/ \E s \in Names, t \in Texts, k \in 1 .. MaxBlocks : writeFile(s, t, k)
        \/ Exit

Spec == Init /\ [][Next]_vars

-----------------------------------------------------------------------------
Files == {n \in Live : ~file[n].isDirectory}
Texted == {EMPTY} \union {Piece(t, i) : t \in Texts, i \in 1 .. MaxBlocks}

(* Every variable has its type. *)
Nodes == [name : Names \union {SLASH}, parent : Live \union {NULL}, isDirectory : BOOLEAN,
          children : Seq(Live), blocks : Seq(Blocks)]

TypeOK ==
  /\ mode \in {"running", "crashed", "exited"}
  /\ Live \subseteq FileNodes /\ current \in Live
  /\ file \in [Live -> Nodes]
  /\ free \in Seq(Blocks) /\ disk \in [Blocks -> Texted]

Rooted ==
  /\ root \in Live /\ file[root].parent = NULL
  /\ \A n \in Live \ {root} : file[n].parent \in Live

OnlyDirectoriesHaveChildren == \A d \in Live : file[d].isDirectory \/ file[d].children = <<>>

ChildrenOfParents ==
  /\ \A d \in Live : IsInjective(file[d].children)
  /\ \A d, n \in Live : n \in ToSet(file[d].children) <=> file[n].parent = d

NoneCutOff ==
  \A s \in SUBSET (Live \ {root}) : s # {} => \E n \in s : file[n].parent \notin s

(* The directories make one tree: each node but the root is a child, once, *)
(* of the directory it has as its parent and of no other, only directories *)
(* have children, and no nodes are cut off from the root. The current      *)
(* directory is one of them, whichever was removed (lines 180-324,         *)
(* 413-462, 513-554).                                                      *)
TreeShaped ==
  /\ Rooted /\ OnlyDirectoriesHaveChildren /\ ChildrenOfParents /\ NoneCutOff
  /\ file[current].isDirectory

(* No block is in two files, in a file and free, or twice in one list, so  *)
(* no write goes over another file and blockPointers never overflows (line *)
(* 597): even when there was no memory to free some blocks.                *)
NoSharing ==
  /\ IsInjective(free)
  /\ \A n \in Live : IsInjective(file[n].blocks) /\ ToSet(file[n].blocks) \intersect ToSet(free) = {}
  /\ \A n, m \in Live : n # m => ToSet(file[n].blocks) \intersect ToSet(file[m].blocks) = {}
  /\ \A n \in Live : file[n].isDirectory => file[n].blocks = <<>>

(* No block is lost: what is not in a file is free (lines 266-273, 588).   *)
NoLeak == ToSet(free) \union UNION {ToSet(file[n].blocks) : n \in Live} = Blocks

(* Lines 403-407, 503-507: no directory has two children of one name.      *)
SiblingsDistinct ==
  \A d \in Live : \A n, m \in ToSet(file[d].children) : file[n].name = file[m].name => n = m

(* The data in the files is what FileStore promises.                       *)
Content == [n \in Files |-> [i \in DOMAIN file[n].blocks |-> disk[file[n].blocks[i]]]]

Store == INSTANCE FileStore WITH
           content <- Content, room <- Len(free), Files <- FileNodes \ {root},
           Writes <- {[i \in 1 .. k |-> Piece(t, i)] : t \in Texts, k \in 1 .. MaxBlocks}

KeepsContents == Store!Spec
=============================================================================
