----------------------------- MODULE VfsProofs ------------------------------
(***************************************************************************)
(* What holds of VirtualFileSystem for any names, nodes, blocks and texts. *)
(***************************************************************************)
EXTENDS VirtualFileSystem, QueueLemmas

-----------------------------------------------------------------------------
(* The root stays the directory "/". *)
RootIsSlash == file[root].isDirectory /\ file[root].name = SLASH

IInv == TypeOK /\ TreeShaped /\ RootIsSlash /\ NoSharing

LEMMA NodeTypes ==
  ASSUME TypeOK, NEW n \in Live
  PROVE  /\ n \in FileNodes /\ file[n] \in Nodes
         /\ file[n].name \in Names \union {SLASH} /\ file[n].parent \in Live \union {NULL}
         /\ file[n].isDirectory \in BOOLEAN
         /\ file[n].children \in Seq(Live) /\ file[n].blocks \in Seq(Blocks)
  BY DEF TypeOK, Nodes

(* A child is found among those of the current directory, which is its     *)
(* parent and another node.                                                *)
LEMMA FoundIs ==
  ASSUME IInv, NEW s, NEW n, Finds(s, n)
  PROVE  /\ n \in Live /\ n # root /\ n # current
         /\ file[n].parent = current /\ n \in ToSet(file[current].children)
<1>1. current \in Live /\ file[current].children \in Seq(Live)
  BY NodeTypes DEF IInv, TypeOK
<1>2. n \in ToSet(file[current].children)
  BY DEF Finds, ToSet
<1>3. n \in Live
  BY <1>1, <1>2, SetOfQueue
<1>4. file[n].parent = current
  BY <1>1, <1>2, <1>3 DEF IInv, TreeShaped, ChildrenOfParents
<1>5. n # root
  BY <1>1, <1>4, VfsAssumption DEF IInv, TreeShaped, Rooted, TypeOK
<1>6. n # current
  <2>1. {n} \in SUBSET (Live \ {root}) /\ {n} # {}
    BY <1>3, <1>5
  <2>2. file[n].parent \notin {n}
    BY <2>1 DEF IInv, TreeShaped, NoneCutOff
  <2> QED BY <1>4, <2>2
<1> QED BY <1>2, <1>3, <1>4, <1>5, <1>6

(* A node has another one as its parent, unless it is the root. *)
LEMMA OtherParent ==
  ASSUME IInv, NEW n \in Live, n # root
  PROVE  /\ file[n].parent \in Live /\ file[n].parent # n
         /\ n \in ToSet(file[file[n].parent].children)
<1>1. file[n].parent \in Live
  BY DEF IInv, TreeShaped, Rooted
<1>2. {n} \in SUBSET (Live \ {root}) /\ {n} # {}
  OBVIOUS
<1>3. file[n].parent \notin {n}
  BY <1>2 DEF IInv, TreeShaped, NoneCutOff
<1> QED BY <1>1, <1>3 DEF IInv, TreeShaped, ChildrenOfParents

-----------------------------------------------------------------------------
(* What the commands that change the tree do to each node. *)

SameButChildren(m) ==
  /\ file'[m].name = file[m].name /\ file'[m].parent = file[m].parent
  /\ file'[m].isDirectory = file[m].isDirectory /\ file'[m].blocks = file[m].blocks

(* insertFileNodeAsChild (lines 180-234): a node n that is the last child  *)
(* of the current directory.                                               *)
Inserted(n, s, isDir) ==
  /\ n \in FileNodes \ Live /\ Live' = Live \union {n}
  /\ file'[n] = NewNode(s, current, isDir)
  /\ \A m \in Live : SameButChildren(m)
  /\ \A m \in Live \ {current} : file'[m] = file[m]
  /\ file'[current].children = Append(file[current].children, n)

LEMMA InsertIs ==
  ASSUME IInv, NEW s \in Names, NEW isDir \in BOOLEAN, insertFileNodeAsChild(s, isDir)
  PROVE  /\ \E n \in FileNodes : Inserted(n, s, isDir)
         /\ file' \in [Live' -> Nodes'] /\ current' = current /\ free' = free /\ disk' = disk
         /\ mode' = mode
<1>1. PICK n \in FileNodes \ Live :
        file' = [m \in Live \union {n} |->
                  IF m = n THEN NewNode(s, current, isDir)
                  ELSE IF m = current THEN [file[m] EXCEPT !.children = Append(@, n)]
                  ELSE file[m]]
  BY DEF insertFileNodeAsChild
<1>2. current \in Live /\ current # n
  BY DEF IInv, TypeOK
<1>3. Live' = Live \union {n} /\ file'[n] = NewNode(s, current, isDir)
  BY <1>1 DEF Live
<1>4. \A m \in Live \ {current} : file'[m] = file[m]
  BY <1>1
<1>5. file'[current] = [file[current] EXCEPT !.children = Append(file[current].children, n)]
  BY <1>1, <1>2
<1>6. file[current] \in Nodes
  BY <1>2, NodeTypes DEF IInv
<1>7. file'[current].children = Append(file[current].children, n) /\ SameButChildren(current)
  BY <1>5, <1>6 DEF Nodes, SameButChildren
<1>8. \A m \in Live : SameButChildren(m)
  BY <1>4, <1>7 DEF SameButChildren
<1>9. Inserted(n, s, isDir)
  BY <1>3, <1>4, <1>7, <1>8 DEF Inserted
<1>10. file' \in [Live' -> Nodes']
  <2>1. ASSUME NEW m \in Live PROVE file[m] \in Nodes'
    <3>1. file[m] \in Nodes /\ file[m].children \in Seq(Live')
      BY <1>3, NodeTypes, SeqWider DEF IInv
    <3> QED BY <1>3, <3>1 DEF Nodes
  <2>2. NewNode(s, current, isDir) \in Nodes'
    <3>1. <<>> \in Seq(Live') /\ <<>> \in Seq(Blocks) /\ Cut(s) \in Names \union {SLASH}
      BY EmptySeq, VfsAssumption
    <3> QED BY <1>2, <1>3, <3>1 DEF NewNode, Nodes
  <2>3. file'[current] \in Nodes'
    <3>1. Append(file[current].children, n) \in Seq(Live')
      <4>1. file[current].children \in Seq(Live') /\ n \in Live'
        BY <1>2, <1>3, NodeTypes, SeqWider DEF IInv
      <4> QED BY <4>1, AppendProperties
    <3>2. file[current] \in Nodes'
      BY <1>2, <2>1
    <3> QED BY <1>5, <3>1, <3>2 DEF Nodes
  <2> QED BY <1>1, <1>3, <2>1, <2>2, <2>3
<1> QED BY <1>9, <1>10 DEF insertFileNodeAsChild

(* Unlinking a node n without children (lines 236-324): its parent has one *)
(* child less, and that is all.                                            *)
Removed(n) ==
  LET d == file[n].parent IN
  /\ Live' = Live \ {n}
  /\ \A m \in Live \ {n} : SameButChildren(m)
  /\ \A m \in Live \ {n, d} : file'[m] = file[m]
  /\ IsInjective(file'[d].children) /\ ToSet(file'[d].children) = ToSet(file[d].children) \ {n}

LEMMA UnlinkIs ==
  ASSUME IInv, NEW n \in Live, n # root, file[n].children = <<>>, file' = Unlinked(n)
  PROVE  Removed(n) /\ file' \in [Live' -> Nodes']
<1> DEFINE d == file[n].parent
           q == file[d].children
           i == CHOOSE h \in DOMAIN q : q[h] = n
           r == RemoveAt(q, i)
<1>1. d \in Live /\ d # n /\ n \in ToSet(q)
  BY OtherParent
<1>2. q \in Seq(Live) /\ IsInjective(q)
  BY <1>1, NodeTypes DEF IInv, TreeShaped, ChildrenOfParents
<1>3. i \in DOMAIN q /\ q[i] = n
  <2>1. \E h \in DOMAIN q : q[h] = n
    BY <1>1 DEF ToSet
  <2> QED BY <2>1
<1> HIDE DEF i
<1>4. r \in Seq(Live) /\ IsInjective(r) /\ ToSet(r) = ToSet(q) \ {n}
  BY <1>2, <1>3, RemoveNode
<1>5. /\ Live' = Live \ {n}
      /\ file'[d] = [file[d] EXCEPT !.children = r]
      /\ \A m \in Live \ {n, d} : file'[m] = file[m]
      /\ file' = [m \in Live \ {n} |-> file'[m]]
  BY <1>1 DEF Unlinked, Without, Live, i
<1> HIDE DEF r
<1>6. file[d] \in Nodes
  BY <1>1, NodeTypes DEF IInv
<1>7. file'[d].children = r /\ SameButChildren(d)
  BY <1>5, <1>6 DEF Nodes, SameButChildren
<1>8. \A m \in Live \ {n} : SameButChildren(m)
  BY <1>5, <1>7 DEF SameButChildren
<1>9. file' \in [Live' -> Nodes']
  <2>1. ASSUME NEW m \in Live \ {n} PROVE file'[m] \in Nodes'
    <3>1. file[m].parent \in Live' \union {NULL}
      <4>1. file[m].parent # n
        <5>1. m \notin ToSet(file[n].children)
          BY EmptySeq DEF ToSet
        <5> QED BY <2>1, <5>1 DEF IInv, TreeShaped, ChildrenOfParents
      <4> QED BY <1>5, <2>1, <4>1, NodeTypes DEF IInv
    <3>2. CASE m = d
      <4>1. r \in Seq(Live')
        <5>1. n \notin ToSet(r)
          BY <1>4
        <5> QED BY <1>4, <1>5, <5>1, SeqOfOthers
      <4> QED BY <1>5, <1>6, <3>1, <3>2, <4>1 DEF Nodes
    <3>3. CASE m # d
      <4>1. file[m] \in Nodes /\ file[m].children \in Seq(Live)
        BY <2>1, NodeTypes DEF IInv
      <4>2. n \notin ToSet(file[m].children)
        BY <2>1, <3>3 DEF IInv, TreeShaped, ChildrenOfParents
      <4>3. file[m].children \in Seq(Live')
        BY <1>5, <4>1, <4>2, SeqOfOthers
      <4> QED BY <1>5, <2>1, <3>1, <3>3, <4>1, <4>3 DEF Nodes
    <3> QED BY <3>2, <3>3
  <2> QED BY <1>5, <2>1
<1> QED BY <1>4, <1>5, <1>7, <1>8, <1>9 DEF Removed

-----------------------------------------------------------------------------
(* The tree stays one. *)

Tree == Rooted /\ OnlyDirectoriesHaveChildren /\ ChildrenOfParents /\ NoneCutOff /\ RootIsSlash

LEMMA InsertedTree ==
  ASSUME IInv, NEW s \in Names, NEW isDir \in BOOLEAN, NEW n, Inserted(n, s, isDir)
  PROVE  Tree'
<1>1. /\ n \notin Live /\ Live' = Live \union {n} /\ n # NULL
      /\ current \in Live /\ file[current].isDirectory
  BY VfsAssumption DEF Inserted, IInv, TypeOK, TreeShaped
<1>2. /\ file'[n].parent = current /\ file'[n].children = <<>> /\ file'[n].isDirectory = isDir
  BY DEF Inserted, NewNode
<1>3. \A m \in Live : SameButChildren(m)
  BY DEF Inserted
<1>4. /\ \A m \in Live \ {current} : file'[m].children = file[m].children
      /\ file'[current].children = Append(file[current].children, n)
  BY DEF Inserted
<1>5. /\ ToSet(file'[current].children) = ToSet(file[current].children) \union {n}
      /\ IsInjective(file'[current].children)
  <2>1. file[current].children \in Seq(Live') /\ n \in Live'
    BY <1>1, NodeTypes, SeqWider DEF IInv
  <2>2. n \notin ToSet(file[current].children) /\ IsInjective(file[current].children)
    BY <1>1, NodeTypes, SetOfQueue DEF IInv, TreeShaped, ChildrenOfParents
  <2> QED BY <1>4, <2>1, <2>2, EnQueue
<1>6. ToSet(file'[n].children) = {} /\ IsInjective(file'[n].children)
  BY <1>2, EmptySeq DEF ToSet, IsInjective
<1>7. Rooted' /\ RootIsSlash'
  BY <1>1, <1>2, <1>3 DEF Rooted, RootIsSlash, IInv, TreeShaped, SameButChildren
<1>8. OnlyDirectoriesHaveChildren'
  BY <1>1, <1>2, <1>3, <1>4 DEF OnlyDirectoriesHaveChildren, IInv, TreeShaped, SameButChildren
<1>9. ChildrenOfParents'
  <2>1. \A m \in Live' : IsInjective(file'[m].children)
    BY <1>1, <1>4, <1>5, <1>6 DEF IInv, TreeShaped, ChildrenOfParents
  <2>2. ASSUME NEW m \in Live', NEW d \in Live'
        PROVE  m \in ToSet(file'[d].children) <=> file'[m].parent = d
    <3>1. CASE m = n
      <4>1. d # current /\ d # n => n \notin ToSet(file'[d].children)
        BY <1>1, <1>4, NodeTypes, SetOfQueue DEF IInv
      <4> QED BY <1>1, <1>2, <1>5, <1>6, <3>1, <4>1
    <3>2. CASE m # n
      <4>1. m \in Live /\ file'[m].parent = file[m].parent /\ file[m].parent # n
        BY <1>1, <1>3, <2>2, <3>2, NodeTypes DEF IInv, SameButChildren
      <4>2. d # n => (m \in ToSet(file[d].children) <=> file[m].parent = d)
        BY <1>1, <2>2, <4>1 DEF IInv, TreeShaped, ChildrenOfParents
      <4>3. d # n => (m \in ToSet(file'[d].children) <=> m \in ToSet(file[d].children))
        BY <1>1, <1>4, <1>5, <2>2, <3>2
      <4> QED BY <1>6, <4>1, <4>2, <4>3
    <3> QED BY <3>1, <3>2
  <2> QED BY <2>1, <2>2 DEF ChildrenOfParents
<1>10. NoneCutOff'
  <2>1. SUFFICES ASSUME NEW s1 \in SUBSET (Live' \ {root}), s1 # {}
                 PROVE  \E m \in s1 : file'[m].parent \notin s1
    BY DEF NoneCutOff
  <2>2. CASE s1 = {n}
    BY <1>1, <1>2, <2>2
  <2>3. CASE s1 # {n}
    <3>1. s1 \ {n} \in SUBSET (Live \ {root}) /\ s1 \ {n} # {}
      BY <1>1, <2>1, <2>3
    <3>2. PICK m \in s1 \ {n} : file[m].parent \notin s1 \ {n}
      BY <3>1 DEF IInv, TreeShaped, NoneCutOff
    <3>3. m \in Live /\ file'[m].parent = file[m].parent /\ file[m].parent # n
      BY <1>1, <1>3, <3>1, NodeTypes DEF IInv, SameButChildren
    <3> QED BY <3>2, <3>3
  <2> QED BY <2>2, <2>3
<1> QED BY <1>7, <1>8, <1>9, <1>10 DEF Tree

LEMMA RemovedTree ==
  ASSUME IInv, NEW n \in Live, n # root, file[n].children = <<>>, Removed(n)
  PROVE  Tree'
<1> DEFINE d == file[n].parent
<1>1. d \in Live /\ d # n
  BY OtherParent
<1>2. Live' = Live \ {n} /\ \A m \in Live' : SameButChildren(m)
  BY DEF Removed
<1>3. /\ \A m \in Live' \ {d} : file'[m] = file[m]
      /\ ToSet(file'[d].children) = ToSet(file[d].children) \ {n}
      /\ IsInjective(file'[d].children)
  BY DEF Removed
<1>4. \A m \in Live : file[m].parent # n
  <2>1. ToSet(file[n].children) = {}
    BY EmptySeq DEF ToSet
  <2> QED BY <2>1 DEF IInv, TreeShaped, ChildrenOfParents
<1>5. Rooted' /\ RootIsSlash'
  BY <1>2, <1>4 DEF Rooted, RootIsSlash, IInv, TreeShaped, SameButChildren
<1>6. OnlyDirectoriesHaveChildren'
  <2>1. file[d].isDirectory
    <3>1. file[d].children # <<>>
      BY OtherParent, EmptySeq DEF ToSet
    <3> QED BY <1>1, <3>1 DEF IInv, TreeShaped, OnlyDirectoriesHaveChildren
  <2> QED BY <1>1, <1>2, <1>3, <2>1
          DEF OnlyDirectoriesHaveChildren, IInv, TreeShaped, SameButChildren
<1>7. ChildrenOfParents'
  BY <1>1, <1>2, <1>3 DEF ChildrenOfParents, IInv, TreeShaped, SameButChildren
<1>8. NoneCutOff'
  <2>1. SUFFICES ASSUME NEW s1 \in SUBSET (Live' \ {root}), s1 # {}
                 PROVE  \E m \in s1 : file'[m].parent \notin s1
    BY DEF NoneCutOff
  <2>2. s1 \in SUBSET (Live \ {root})
    BY <1>2
  <2>3. PICK m \in s1 : file[m].parent \notin s1
    BY <2>1, <2>2 DEF IInv, TreeShaped, NoneCutOff
  <2> QED BY <1>2, <2>1, <2>3 DEF SameButChildren
<1> QED BY <1>5, <1>6, <1>7, <1>8 DEF Tree

(* No block gets shared where no file gets one and no block more is free.  *)
LEMMA RemovedBlocks ==
  ASSUME IInv, NEW n \in Live, Removed(n),
         IsInjective(free)', \A m \in Live' : (ToSet(file[m].blocks) \intersect ToSet(free')) = {}
  PROVE  NoSharing'
<1>1. \A m \in Live' : m \in Live /\ SameButChildren(m)
  BY DEF Removed
<1> QED BY <1>1 DEF NoSharing, IInv, SameButChildren

-----------------------------------------------------------------------------
(* Each command keeps the invariant. *)

LEMMA InitInv == Init => IInv
<1> SUFFICES ASSUME Init PROVE IInv
  OBVIOUS
<1>1. /\ Live = {root} /\ file[root] = NewNode(SLASH, NULL, TRUE)
      /\ file = [n \in {root} |-> file[root]]
  BY DEF Init, Live
<1>2. /\ file[root].name = SLASH /\ file[root].parent = NULL /\ file[root].isDirectory
      /\ file[root].children = <<>> /\ file[root].blocks = <<>> /\ file[root] \in Nodes
  <2>1. <<>> \in Seq(Live) /\ <<>> \in Seq(Blocks)
    BY EmptySeq
  <2> QED BY <1>1, <2>1, VfsAssumption DEF NewNode, Nodes
<1>3. IsInjective(<<>>) /\ ToSet(<<>>) = {}
  BY EmptySeq DEF IsInjective, ToSet
<1>4. free \in Seq(Blocks) /\ IsInjective(free)
  <2>1. TOTAL_BLOCKS \in Nat
    BY VfsAssumption
  <2>2. free = [i \in 1 .. TOTAL_BLOCKS |-> i - 1] /\ \A i \in 1 .. TOTAL_BLOCKS : i - 1 \in Blocks
    BY <2>1 DEF Init, Blocks
  <2>3. IsInjective(free)
    BY <2>1, <2>2 DEF IsInjective
  <2> QED BY <2>1, <2>2, <2>3
<1>5. TypeOK
  <2>1. disk \in [Blocks -> Texted]
    BY DEF Init, Texted
  <2> QED BY <1>1, <1>2, <1>4, <2>1, VfsAssumption DEF TypeOK, Init
<1>6. TreeShaped
  <2>1. Rooted /\ OnlyDirectoriesHaveChildren
    BY <1>1, <1>2 DEF Rooted, OnlyDirectoriesHaveChildren
  <2>2. ChildrenOfParents
    BY <1>1, <1>2, <1>3, VfsAssumption DEF ChildrenOfParents
  <2>3. NoneCutOff
    BY <1>1 DEF NoneCutOff
  <2> QED BY <1>2, <2>1, <2>2, <2>3 DEF TreeShaped, Init
<1>7. NoSharing
  BY <1>1, <1>2, <1>3, <1>4 DEF NoSharing
<1> QED BY <1>2, <1>5, <1>6, <1>7 DEF IInv, RootIsSlash

LEMMA InsertInv ==
  ASSUME IInv, NEW s \in Names, NEW isDir \in BOOLEAN, Insert(s, isDir) PROVE IInv'
<1>1. insertFileNodeAsChild(s, isDir)
  BY DEF Insert
<1>2. PICK n \in FileNodes : Inserted(n, s, isDir)
  BY <1>1, InsertIs
<1>3. /\ file' \in [Live' -> Nodes'] /\ mode' = mode /\ current' = current
      /\ free' = free /\ disk' = disk
  BY <1>1, InsertIs
<1>4. /\ Live' = Live \union {n} /\ n \notin Live /\ \A m \in Live : SameButChildren(m)
      /\ file'[n].blocks = <<>>
  BY <1>2 DEF Inserted, NewNode
<1>5. Tree'
  BY <1>2, InsertedTree
<1>6. TypeOK'
  BY <1>2, <1>3, <1>4 DEF IInv, TypeOK, Blocks, Texted
<1>7. TreeShaped'
  BY <1>3, <1>4, <1>5 DEF Tree, TreeShaped, IInv, TypeOK, SameButChildren
<1>8. NoSharing'
  <2>1. IsInjective(<<>>) /\ ToSet(<<>>) = {}
    BY EmptySeq DEF IsInjective, ToSet
  <2>2. ASSUME NEW m \in Live'
        PROVE  /\ IsInjective(file'[m].blocks) /\ ToSet(file'[m].blocks) \intersect ToSet(free) = {}
               /\ file'[m].isDirectory => file'[m].blocks = <<>>
    BY <1>4, <2>1 DEF IInv, NoSharing, SameButChildren
  <2>3. ASSUME NEW m \in Live', NEW k \in Live', m # k
        PROVE  ToSet(file'[m].blocks) \intersect ToSet(file'[k].blocks) = {}
    BY <1>4, <2>1, <2>3 DEF IInv, NoSharing, SameButChildren
  <2> QED BY <1>3, <2>2, <2>3 DEF IInv, NoSharing
<1> QED BY <1>5, <1>6, <1>7, <1>8 DEF IInv, Tree

(* What is left to show of a command that unlinks n. *)
LEMMA UnlinkInv ==
  ASSUME IInv, NEW n \in Live, n # root, file[n].children = <<>>, file' = Unlinked(n),
         mode' = mode, current' \in Live', file'[current'].isDirectory,
         free' \in Seq(Blocks), IsInjective(free)',
         \A m \in Live' : ToSet(file[m].blocks) \intersect ToSet(free') = {},
         disk' \in [Blocks -> Texted]
  PROVE  IInv'
<1>1. Removed(n) /\ file' \in [Live' -> Nodes']
  BY UnlinkIs
<1>2. Tree'
  BY <1>1, RemovedTree
<1>3. NoSharing'
  BY <1>1, RemovedBlocks
<1>4. TypeOK'
  BY <1>1 DEF TypeOK, IInv, Removed, Blocks, Texted
<1> QED BY <1>2, <1>3, <1>4 DEF Tree, TreeShaped, IInv

LEMMA RemoveCurrentInv ==
  ASSUME IInv, NEW s \in Names, RemoveCurrent(s) PROVE IInv'
<1>1. /\ file[current].name = s /\ s # SLASH /\ file[current].children = <<>>
      /\ file' = Unlinked(current) /\ mode' = mode /\ free' = free /\ disk' = disk
      /\ current' = file[current].parent
  BY DEF RemoveCurrent, CurrentGoes
<1>2. current \in Live /\ current # root
  BY <1>1 DEF IInv, TypeOK, RootIsSlash
<1>3. current' \in Live /\ current' # current /\ current \in ToSet(file[current'].children)
  BY <1>1, <1>2, OtherParent
<1>4. Removed(current)
  BY <1>1, <1>2, UnlinkIs
<1>5. current' \in Live' /\ Live' \subseteq Live
  BY <1>3, <1>4 DEF Removed
<1>6. file'[current'].isDirectory
  <2>1. file[current'].isDirectory
    <3>1. file[current'].children # <<>>
      BY <1>3, EmptySeq DEF ToSet
    <3> QED BY <1>3, <3>1 DEF IInv, TreeShaped, OnlyDirectoriesHaveChildren
  <2> QED BY <1>3, <1>4, <2>1 DEF Removed, SameButChildren
<1> QED BY <1>1, <1>2, <1>5, <1>6, UnlinkInv DEF IInv, TypeOK, NoSharing

LEMMA RemoveChildInv ==
  ASSUME IInv, NEW s \in Names, RemoveChild(s) PROVE IInv'
<1>1. PICK n \in Live : ChildGoes(s, n) /\ file[n].children = <<>>
  BY DEF RemoveChild
<1>2. /\ Finds(s, n) /\ file' = Unlinked(n) /\ mode' = mode /\ current' = current
      /\ free' = free /\ disk' = disk
  BY <1>1 DEF ChildGoes
<1>3. n # root /\ n # current /\ current \in Live
  BY <1>2, FoundIs DEF IInv, TypeOK
<1>4. Removed(n)
  BY <1>1, <1>2, <1>3, UnlinkIs
<1>5. current' \in Live' /\ Live' \subseteq Live /\ file'[current'].isDirectory
  BY <1>2, <1>3, <1>4 DEF Removed, SameButChildren, IInv, TreeShaped
<1> QED BY <1>1, <1>2, <1>3, <1>5, UnlinkInv DEF IInv, TypeOK, NoSharing

(* Whichever blocks get a node of the free list, they are blocks of the    *)
(* file and none is freed twice (lines 256-277).                           *)
LEMMA KeptIs ==
  ASSUME NEW p \in Seq(Blocks), IsInjective(p), NEW q \in Kept(p)
  PROVE  q \in Seq(Blocks) /\ IsInjective(q) /\ ToSet(q) \subseteq ToSet(p)
<1>1. CASE q = p
  BY <1>1
<1>2. CASE q # p
  <2>1. PICK f \in Picks(p) : q = [i \in DOMAIN f |-> p[f[i]]]
    BY <1>2 DEF Kept
  <2>2. PICK k \in 0 .. Len(p) : /\ f \in [1 .. k -> DOMAIN p]
                                 /\ \A i, j \in 1 .. k : i < j => f[i] < f[j]
    BY DEF Picks
  <2>3. k \in Nat /\ DOMAIN p = 1 .. Len(p) /\ Len(p) \in Nat
    BY LenProperties
  <2>4. /\ q = [i \in 1 .. k |-> p[f[i]]]
        /\ \A i \in 1 .. k : f[i] \in DOMAIN p /\ p[f[i]] \in Blocks
    BY <2>1, <2>2, <2>3, ElementOfSeq
  <2>5. q \in Seq(Blocks) /\ DOMAIN q = 1 .. k
    BY <2>3, <2>4
  <2>6. IsInjective(q)
    <3>1. SUFFICES ASSUME NEW i \in 1 .. k, NEW j \in 1 .. k, q[i] = q[j] PROVE i = j
      BY <2>5 DEF IsInjective
    <3>2. f[i] = f[j] /\ f[i] \in Nat /\ f[j] \in Nat
      <4>1. p[f[i]] = p[f[j]]
        BY <2>4, <3>1
      <4> QED BY <2>3, <2>4, <4>1 DEF IsInjective
    <3>3. ~(i < j) /\ ~(j < i)
      BY <2>2, <3>2
    <3> QED BY <2>3, <3>3
  <2>7. ToSet(q) \subseteq ToSet(p)
    BY <2>4, <2>5 DEF ToSet
  <2> QED BY <2>5, <2>6, <2>7
<1> QED BY <1>1, <1>2

LEMMA FileGoesIs ==
  ASSUME IInv, NEW s \in Names, NEW n \in Live, FileGoes(s, n)
  PROVE  /\ n # root /\ n # current /\ file[n].children = <<>> /\ file' = Unlinked(n)
         /\ Removed(n) /\ mode' = mode /\ current' = current
         /\ disk' \in [Blocks -> Texted]
         /\ \A b \in Blocks \ ToSet(file[n].blocks) : disk'[b] = disk[b]
<1>1. /\ Finds(s, n) /\ ~file[n].isDirectory /\ file' = Unlinked(n)
      /\ disk' = [b \in Blocks |-> IF b \in ToSet(file[n].blocks) THEN EMPTY ELSE disk[b]]
      /\ mode' = mode /\ current' = current
  BY DEF FileGoes
<1>2. n # root /\ n # current
  BY <1>1, FoundIs
<1>3. file[n].children = <<>>
  BY <1>1 DEF IInv, TreeShaped, OnlyDirectoriesHaveChildren
<1>4. disk' \in [Blocks -> Texted]
  BY <1>1 DEF IInv, TypeOK, Texted
<1>5. Removed(n)
  BY <1>1, <1>2, <1>3, UnlinkIs
<1> QED BY <1>1, <1>2, <1>3, <1>4, <1>5

LEMMA DeleteInv ==
  ASSUME IInv, NEW s \in Names, deleteFile(s) PROVE IInv'
<1>1. PICK n \in Live : FileGoes(s, n) /\ \E q \in Kept(file[n].blocks) : free' = free \o q
  BY DEF deleteFile
<1>2. PICK q \in Kept(file[n].blocks) : free' = free \o q
  BY <1>1
<1>3. /\ n # root /\ n # current /\ file[n].children = <<>> /\ file' = Unlinked(n) /\ Removed(n)
      /\ mode' = mode /\ current' = current /\ disk' \in [Blocks -> Texted]
  BY <1>1, FileGoesIs
<1>4. /\ file[n].blocks \in Seq(Blocks) /\ IsInjective(file[n].blocks)
      /\ ToSet(file[n].blocks) \intersect ToSet(free) = {}
  BY NodeTypes DEF IInv, NoSharing
<1>5. q \in Seq(Blocks) /\ IsInjective(q) /\ ToSet(q) \subseteq ToSet(file[n].blocks)
  BY <1>4, KeptIs
<1>6. /\ free' \in Seq(Blocks) /\ IsInjective(free')
      /\ ToSet(free') = ToSet(free) \union ToSet(q)
  <2>1. free \in Seq(Blocks) /\ IsInjective(free)
    BY DEF IInv, TypeOK, NoSharing
  <2> QED BY <1>2, <1>4, <1>5, <2>1, Joined
<1>7. /\ current' \in Live' /\ Live' \subseteq Live /\ Live' = Live \ {n}
      /\ file'[current'].isDirectory
  BY <1>3 DEF Removed, SameButChildren, IInv, TypeOK, TreeShaped
<1>8. \A m \in Live' : ToSet(file[m].blocks) \intersect ToSet(free') = {}
  BY <1>5, <1>6, <1>7 DEF IInv, NoSharing
<1> QED BY <1>3, <1>6, <1>7, <1>8, UnlinkInv

LEMMA ChangeInv ==
  ASSUME IInv, NEW s \in Names, changeDirectory(s) PROVE IInv'
<1>1. file' = file /\ free' = free /\ disk' = disk
  BY DEF changeDirectory
<1>2. /\ mode' \in {"running", "crashed", "exited"}
      /\ current' \in Live /\ file[current'].isDirectory
  <2>1. CASE s = DOTS
    <3>1. file[current].parent # NULL /\ current' = file[current].parent /\ mode' = mode
      BY <2>1 DEF changeDirectory
    <3>2. current # root /\ current \in Live
      BY <3>1 DEF IInv, TypeOK, TreeShaped, Rooted
    <3>3. current' \in Live /\ current \in ToSet(file[current'].children)
      BY <3>1, <3>2, OtherParent
    <3>4. file[current'].children # <<>>
      BY <3>3, EmptySeq DEF ToSet
    <3> QED BY <3>1, <3>3, <3>4 DEF IInv, TypeOK, TreeShaped, OnlyDirectoriesHaveChildren
  <2>2. CASE s # DOTS
    BY <2>2 DEF changeDirectory, IInv, TypeOK, TreeShaped
  <2> QED BY <2>1, <2>2
<1>3. Live' = Live
  BY <1>1 DEF Live
<1>4. TypeOK'
  BY <1>1, <1>2, <1>3 DEF IInv, TypeOK, Nodes, Blocks, Texted, Live
<1>5. Tree'
  BY <1>1, <1>3 DEF IInv, Tree, TreeShaped, Rooted, OnlyDirectoriesHaveChildren, ChildrenOfParents,
                    NoneCutOff, RootIsSlash
<1>6. NoSharing'
  BY <1>1, <1>3 DEF IInv, NoSharing
<1> QED BY <1>1, <1>2, <1>4, <1>5, <1>6 DEF IInv, Tree, TreeShaped

(* What filling the first k free blocks does: the file n they go to has    *)
(* them after those it had, and no block of another file changes.          *)
FilledUp(n, q, t, k) ==
  /\ n \in Live /\ ~file[n].isDirectory /\ Live' = Live
  /\ file' = [file EXCEPT ![n].blocks = file[n].blocks \o q]
  /\ disk' \in [Blocks -> Texted]
  /\ \A i \in 1 .. k : disk'[q[i]] = Piece(t, i)
  /\ \A b \in Blocks \ ToSet(q) : disk'[b] = disk[b]
  /\ q \in Seq(Blocks) /\ Len(q) = k /\ IsInjective(q) /\ ToSet(q) \subseteq ToSet(free)
  /\ free' \in Seq(Blocks) /\ IsInjective(free') /\ Len(free') = Len(free) - k
  /\ ToSet(free) = ToSet(q) \union ToSet(free') /\ ToSet(q) \intersect ToSet(free') = {}
  /\ mode' = mode /\ current' = current

LEMMA WriteIs ==
  ASSUME IInv, NEW s \in Names, NEW t \in Texts, NEW k \in 1 .. MaxBlocks, writeFile(s, t, k)
  PROVE  k <= Len(free) /\ \E n \in Live : FilledUp(n, SubSeq(free, 1, k), t, k)
<1> DEFINE q == SubSeq(free, 1, k)
<1>1. /\ k <= Len(free)
      /\ disk' = [b \in Blocks |->
                    IF b \in ToSet(q) THEN Piece(t, LastOf(q, b)) ELSE disk[b]]
      /\ mode' = mode /\ current' = current /\ free' = SubSeq(free, k + 1, Len(free))
  BY DEF writeFile, Filled
<1>2. PICK n \in Live : /\ ~file[n].isDirectory
                        /\ file' = [file EXCEPT ![n].blocks = file[n].blocks \o q]
  BY DEF writeFile, Filled
<1>3. free \in Seq(Blocks) /\ IsInjective(free) /\ k \in 0 .. Len(free) /\ k \in Nat
  <2>1. MaxBlocks \in Nat /\ Len(free) \in Nat
    BY VfsAssumption, LenProperties DEF IInv, TypeOK
  <2> QED BY <1>1, <2>1 DEF IInv, TypeOK, NoSharing
<1>4. /\ q \in Seq(Blocks) /\ Len(q) = k /\ IsInjective(q)
      /\ free' \in Seq(Blocks) /\ IsInjective(free') /\ Len(free') = Len(free) - k
      /\ ToSet(free) = ToSet(q) \union ToSet(free') /\ ToSet(q) \intersect ToSet(free') = {}
  <2>1. free' = SubSeq(free, k + 1, Len(free))
    BY <1>1
  <2> QED BY <1>3, <2>1, Parted
<1> HIDE DEF q
<1>5. DOMAIN q = 1 .. k /\ \A i \in 1 .. k : q[i] \in Blocks
  BY <1>4, LenProperties, ElementOfSeq
<1>6. \A i \in 1 .. k : LastOf(q, q[i]) = i
  <2>1. SUFFICES ASSUME NEW i \in 1 .. k PROVE LastOf(q, q[i]) = i
    OBVIOUS
  <2>2. \A h \in 1 .. k : q[h] = q[i] => h = i
    BY <1>4, <1>5 DEF IsInjective
  <2>3. \A h \in i + 1 .. Len(q) : q[h] # q[i]
    <3>1. \A h \in i + 1 .. Len(q) : h \in 1 .. k /\ h # i
      BY <1>3, <1>4
    <3> QED BY <2>2, <3>1
  <2> QED BY <1>5, <2>2, <2>3 DEF LastOf
<1>7. \A i \in 1 .. k : disk'[q[i]] = Piece(t, i)
  <2>1. SUFFICES ASSUME NEW i \in 1 .. k PROVE disk'[q[i]] = Piece(t, i)
    OBVIOUS
  <2>2. q[i] \in Blocks /\ q[i] \in ToSet(q)
    BY <1>5 DEF ToSet
  <2> QED BY <1>1, <1>6, <2>2
<1>8. disk' \in [Blocks -> Texted]
  <2>1. SUFFICES ASSUME NEW b \in Blocks PROVE disk'[b] \in Texted
    BY <1>1
  <2>2. CASE b \in ToSet(q)
    <3>1. PICK i \in 1 .. k : q[i] = b
      BY <1>5, <2>2 DEF ToSet
    <3>2. disk'[b] = Piece(t, i) /\ i \in 1 .. MaxBlocks
      BY <1>3, <1>7, <3>1, VfsAssumption
    <3> QED BY <3>2 DEF Texted
  <2>3. CASE b \notin ToSet(q)
    BY <1>1, <2>3 DEF IInv, TypeOK, Texted
  <2> QED BY <2>2, <2>3
<1>9. Live' = Live
  BY <1>2 DEF Live
<1>10. FilledUp(n, q, t, k)
  BY <1>1, <1>2, <1>4, <1>7, <1>8, <1>9 DEF FilledUp
<1> QED BY <1>1, <1>10 DEF q

LEMMA FilledIs ==
  ASSUME IInv, NEW n, NEW q, NEW t, NEW k, FilledUp(n, q, t, k)
  PROVE  /\ file' \in [Live' -> Nodes'] /\ file'[n].blocks = file[n].blocks \o q
         /\ \A m \in Live : /\ file'[m].name = file[m].name /\ file'[m].parent = file[m].parent
                           /\ file'[m].isDirectory = file[m].isDirectory
                           /\ file'[m].children = file[m].children
         /\ \A m \in Live \ {n} : file'[m] = file[m]
<1>1. /\ n \in Live /\ file' = [file EXCEPT ![n].blocks = file[n].blocks \o q] /\ Live' = Live
      /\ q \in Seq(Blocks)
  BY DEF FilledUp
<1>2. file[n] \in Nodes /\ file[n].blocks \in Seq(Blocks)
  BY <1>1, NodeTypes DEF IInv
<1>3. file[n].blocks \o q \in Seq(Blocks)
  BY <1>1, <1>2, Joined
<1>4. /\ file'[n] = [file[n] EXCEPT !.blocks = file[n].blocks \o q]
      /\ \A m \in Live \ {n} : file'[m] = file[m]
  BY <1>1 DEF IInv, TypeOK
<1>5. /\ file'[n].name = file[n].name /\ file'[n].parent = file[n].parent
      /\ file'[n].isDirectory = file[n].isDirectory /\ file'[n].children = file[n].children
      /\ file'[n].blocks = file[n].blocks \o q
  BY <1>2, <1>4 DEF Nodes
<1>6. Nodes' = Nodes
  BY <1>1 DEF Nodes, Blocks
<1>7. file'[n] \in Nodes
  BY <1>2, <1>3, <1>4 DEF Nodes
<1>8. file' \in [Live' -> Nodes']
  BY <1>1, <1>4, <1>6, <1>7 DEF IInv, TypeOK
<1> QED BY <1>4, <1>5, <1>8

LEMMA WriteInv ==
  ASSUME IInv, NEW s \in Names, NEW t \in Texts, NEW k \in 1 .. MaxBlocks, writeFile(s, t, k)
  PROVE  IInv'
<1>1. PICK n \in Live : FilledUp(n, SubSeq(free, 1, k), t, k)
  BY WriteIs
<1>2. PICK q : q = SubSeq(free, 1, k)
  OBVIOUS
<1>3. /\ FilledUp(n, q, t, k) /\ Live' = Live /\ ~file[n].isDirectory
      /\ disk' \in [Blocks -> Texted] /\ free' \in Seq(Blocks) /\ IsInjective(free')
      /\ q \in Seq(Blocks) /\ IsInjective(q) /\ ToSet(free) = ToSet(q) \union ToSet(free')
      /\ ToSet(q) \intersect ToSet(free') = {} /\ mode' = mode /\ current' = current
  BY <1>1, <1>2 DEF FilledUp
<1>4. /\ file' \in [Live' -> Nodes'] /\ file'[n].blocks = file[n].blocks \o q
      /\ \A m \in Live : /\ file'[m].name = file[m].name /\ file'[m].parent = file[m].parent
                        /\ file'[m].isDirectory = file[m].isDirectory
                        /\ file'[m].children = file[m].children
      /\ \A m \in Live \ {n} : file'[m] = file[m]
  BY <1>3, FilledIs
<1>5. TypeOK'
  BY <1>3, <1>4 DEF IInv, TypeOK, Blocks, Texted
<1>6. TreeShaped' /\ RootIsSlash'
  <2>1. Rooted' /\ OnlyDirectoriesHaveChildren' /\ ChildrenOfParents' /\ RootIsSlash'
    BY <1>3, <1>4 DEF IInv, TreeShaped, Rooted, OnlyDirectoriesHaveChildren, ChildrenOfParents,
                      RootIsSlash
  <2>2. NoneCutOff'
    BY <1>3, <1>4 DEF IInv, TreeShaped, NoneCutOff
  <2> QED BY <1>3, <1>4, <2>1, <2>2 DEF IInv, TypeOK, TreeShaped
<1>7. NoSharing'
  <2>1. /\ file[n].blocks \in Seq(Blocks) /\ IsInjective(file[n].blocks)
        /\ ToSet(file[n].blocks) \intersect ToSet(free) = {}
    BY NodeTypes DEF IInv, NoSharing
  <2>2. /\ IsInjective(file'[n].blocks)
        /\ ToSet(file'[n].blocks) = ToSet(file[n].blocks) \union ToSet(q)
    BY <1>3, <1>4, <2>1, Joined
  <2>3. ASSUME NEW m \in Live', m # n
        PROVE  /\ file'[m].blocks = file[m].blocks /\ IsInjective(file[m].blocks)
               /\ ToSet(file[m].blocks) \intersect ToSet(free) = {}
               /\ ToSet(file[m].blocks) \intersect ToSet(file[n].blocks) = {}
    BY <1>3, <1>4, <2>3 DEF IInv, NoSharing
  <2>4. \A m \in Live' : /\ IsInjective(file'[m].blocks)
                         /\ ToSet(file'[m].blocks) \intersect ToSet(free') = {}
    BY <1>3, <2>1, <2>2, <2>3
  <2>5. ASSUME NEW m \in Live', NEW h \in Live', m # h
        PROVE  ToSet(file'[m].blocks) \intersect ToSet(file'[h].blocks) = {}
    <3>1. CASE m = n
      BY <1>3, <2>2, <2>3, <2>5, <3>1
    <3>2. CASE h = n
      BY <1>3, <2>2, <2>3, <2>5, <3>2
    <3>3. CASE m # n /\ h # n
      BY <1>3, <2>3, <2>5, <3>3 DEF IInv, NoSharing
    <3> QED BY <3>1, <3>2, <3>3
  <2>6. \A m \in Live' : file'[m].isDirectory => file'[m].blocks = <<>>
    BY <1>3, <1>4, <2>3 DEF IInv, NoSharing
  <2> QED BY <1>3, <2>4, <2>5, <2>6 DEF NoSharing
<1> QED BY <1>5, <1>6, <1>7 DEF IInv

(* What changes only the mode, or nothing, keeps it too. *)
LEMMA StillInv ==
  ASSUME IInv, UNCHANGED <<file, current, free, disk>>, mode' \in {"running", "crashed", "exited"}
  PROVE  IInv'
<1>1. Live' = Live
  BY DEF Live
<1>2. TypeOK'
  BY <1>1 DEF IInv, TypeOK, Nodes, Blocks, Texted
<1>3. Tree' /\ TreeShaped'
  BY <1>1 DEF IInv, Tree, TreeShaped, Rooted, OnlyDirectoriesHaveChildren, ChildrenOfParents,
              NoneCutOff, RootIsSlash
<1>4. NoSharing'
  BY <1>1 DEF IInv, NoSharing
<1> QED BY <1>2, <1>3, <1>4 DEF IInv, Tree

LEMMA NextInv == IInv /\ [Next]_vars => IInv'
<1> SUFFICES ASSUME IInv, [Next]_vars PROVE IInv'
  OBVIOUS
<1>1. CASE \E s \in Names, isDir \in BOOLEAN : Insert(s, isDir)
  BY <1>1, InsertInv
<1>2. CASE \E s \in Names : RemoveCurrent(s)
  BY <1>2, RemoveCurrentInv
<1>3. CASE \E s \in Names : RemoveChild(s)
  BY <1>3, RemoveChildInv
<1>4. CASE \E s \in Names : deleteFile(s)
  BY <1>4, DeleteInv
<1>5. CASE \E s \in Names : changeDirectory(s)
  BY <1>5, ChangeInv
<1>6. CASE \E s \in Names, t \in Texts, k \in 1 .. MaxBlocks : writeFile(s, t, k)
  BY <1>6, WriteInv
<1>7. CASE Exit
  BY <1>7, StillInv DEF Exit
<1>8. CASE UNCHANGED vars
  BY <1>8, StillInv DEF vars, IInv, TypeOK
<1> QED BY <1>1, <1>2, <1>3, <1>4, <1>5, <1>6, <1>7, <1>8 DEF Next

(* Every state there is has the types, one tree and no shared block.       *)
THEOREM Invariance == Spec => []IInv
<1>1. Init => IInv
  BY InitInv
<1>2. IInv /\ [Next]_vars => IInv'
  BY NextInv
<1> QED BY <1>1, <1>2, PTL DEF Spec

(* Every variable always has its type. *)
THEOREM Typing == Spec => []TypeOK
<1>1. IInv => TypeOK
  BY DEF IInv
<1> QED BY <1>1, Invariance, PTL

(* mkdir, rmdir, create, delete and cd keep one tree, in which the user    *)
(* stands on a directory (lines 180-324, 413-462, 513-554): for any number *)
(* of nodes, names of any length and blocks.                               *)
THEOREM TreeAlways == Spec => []TreeShaped
<1>1. IInv => TreeShaped
  BY DEF IInv
<1> QED BY <1>1, Invariance, PTL

(* No two owners of a block, whatever is written and deleted and whichever *)
(* mallocs of the free list fail (lines 256-277, 556-601).                 *)
THEOREM NoSharingAlways == Spec => []NoSharing
<1>1. IInv => NoSharing
  BY DEF IInv
<1> QED BY <1>1, Invariance, PTL

-----------------------------------------------------------------------------
(* What each step does to the tree, as the lemmas above have shown it.     *)
LEMMA Steps ==
  ASSUME IInv, [Next]_vars
  PROVE  \/ \E s \in Names, isDir \in BOOLEAN, n \in FileNodes :
              FindsNone(s) /\ Inserted(n, s, isDir) /\ free' = free /\ disk' = disk
         \/ \E n \in Live : /\ Removed(n) /\ n # root /\ file[n].isDirectory
                            /\ free' = free /\ disk' = disk
         \/ \E s \in Names, n \in Live : /\ FileGoes(s, n) /\ Removed(n) /\ n # root
                                        /\ \E q \in Kept(file[n].blocks) : free' = free \o q
         \/ \E t \in Texts, k \in 1 .. MaxBlocks, n \in Live :
              k <= Len(free) /\ FilledUp(n, SubSeq(free, 1, k), t, k)
         \/ UNCHANGED <<file, free, disk>>
<1>1. CASE \E s \in Names, isDir \in BOOLEAN : Insert(s, isDir)
  <2>1. PICK s \in Names, isDir \in BOOLEAN : Insert(s, isDir)
    BY <1>1
  <2>2. FindsNone(s) /\ insertFileNodeAsChild(s, isDir)
    BY <2>1 DEF Insert
  <2>3. \E n \in FileNodes : Inserted(n, s, isDir) /\ free' = free /\ disk' = disk
    BY <2>2, InsertIs
  <2> QED BY <2>2, <2>3
<1>2. CASE \E s \in Names : RemoveCurrent(s)
  <2>1. PICK s \in Names : RemoveCurrent(s)
    BY <1>2
  <2>2. /\ file[current].name = s /\ s # SLASH /\ file[current].children = <<>>
        /\ file' = Unlinked(current) /\ free' = free /\ disk' = disk
    BY <2>1 DEF RemoveCurrent, CurrentGoes
  <2>3. current \in Live /\ current # root /\ file[current].isDirectory
    BY <2>2 DEF IInv, TypeOK, RootIsSlash, TreeShaped
  <2>4. Removed(current)
    BY <2>2, <2>3, UnlinkIs
  <2> QED BY <2>2, <2>3, <2>4
<1>3. CASE \E s \in Names : RemoveChild(s)
  <2>1. PICK s \in Names, n \in Live : ChildGoes(s, n) /\ file[n].children = <<>>
    BY <1>3 DEF RemoveChild
  <2>2. /\ Finds(s, n) /\ file[n].isDirectory /\ file' = Unlinked(n)
        /\ free' = free /\ disk' = disk
    BY <2>1 DEF ChildGoes
  <2>3. n # root
    BY <2>2, FoundIs
  <2>4. Removed(n)
    BY <2>1, <2>2, <2>3, UnlinkIs
  <2> QED BY <2>2, <2>3, <2>4
<1>4. CASE \E s \in Names : deleteFile(s)
  <2>1. PICK s \in Names, n \in Live :
          FileGoes(s, n) /\ \E q \in Kept(file[n].blocks) : free' = free \o q
    BY <1>4 DEF deleteFile
  <2>2. Removed(n) /\ n # root
    BY <2>1, FileGoesIs
  <2> QED BY <2>1, <2>2
<1>5. CASE \E s \in Names : changeDirectory(s)
  BY <1>5 DEF changeDirectory
<1>6. CASE \E s \in Names, t \in Texts, k \in 1 .. MaxBlocks : writeFile(s, t, k)
  BY <1>6, WriteIs
<1>7. CASE Exit
  BY <1>7 DEF Exit
<1>8. CASE UNCHANGED vars
  BY <1>8 DEF vars
<1> QED BY <1>1, <1>2, <1>3, <1>4, <1>5, <1>6, <1>7, <1>8 DEF Next

-----------------------------------------------------------------------------
(* Names that are stored whole tell the children of a directory apart.     *)
NamesAreWhole == \A s \in Names : Cut(s) = s

LEMMA SiblingsStay ==
  ASSUME NamesAreWhole, IInv, SiblingsDistinct, [Next]_vars PROVE SiblingsDistinct'
<1>1. ASSUME NEW s \in Names, NEW isDir \in BOOLEAN, NEW n \in FileNodes,
             FindsNone(s), Inserted(n, s, isDir)
      PROVE  SiblingsDistinct'
  <2>1. /\ Live' = Live \union {n} /\ n \notin Live /\ current \in Live
        /\ file'[n].name = s /\ file'[n].children = <<>>
        /\ file'[current].children = Append(file[current].children, n)
        /\ \A m \in Live \ {current} : file'[m].children = file[m].children
        /\ \A m \in Live : file'[m].name = file[m].name
    BY <1>1 DEF NamesAreWhole, Inserted, NewNode, SameButChildren, IInv, TypeOK
  <2>2. ToSet(file'[n].children) = {}
    BY <2>1, EmptySeq DEF ToSet
  <2>3. ToSet(file'[current].children) = ToSet(file[current].children) \union {n}
    <3>1. file[current].children \in Seq(Live') /\ n \in Live'
      BY <2>1, NodeTypes, SeqWider DEF IInv
    <3> QED BY <2>1, <3>1, EnQueue
  <2>4. \A d \in Live : ToSet(file[d].children) \subseteq Live
    BY NodeTypes, SetOfQueue DEF IInv
  <2>5. \A m \in ToSet(file[current].children) : file[m].name # s
    BY <1>1 DEF FindsNone
  <2>6. SUFFICES ASSUME NEW d \in Live', NEW m \in ToSet(file'[d].children),
                        NEW k \in ToSet(file'[d].children), file'[m].name = file'[k].name
                 PROVE  m = k
    BY DEF SiblingsDistinct
  <2>7. CASE d = current
    BY <2>1, <2>3, <2>4, <2>5, <2>6, <2>7 DEF SiblingsDistinct
  <2>8. CASE d # current
    <3>1. d \in Live /\ m \in ToSet(file[d].children) /\ k \in ToSet(file[d].children)
      BY <2>1, <2>2, <2>6, <2>8
    <3> QED BY <2>1, <2>4, <2>6, <3>1 DEF SiblingsDistinct
  <2> QED BY <2>7, <2>8
<1>2. ASSUME NEW n \in Live, Removed(n), n # root PROVE SiblingsDistinct'
  <2>1. /\ Live' \subseteq Live
        /\ \A d \in Live' : ToSet(file'[d].children) \subseteq ToSet(file[d].children)
    BY <1>2 DEF Removed
  <2>2. \A d \in Live : \A m \in ToSet(file'[d].children) :
          d \in Live' => m \in Live' /\ file'[m].name = file[m].name
    <3>1. ASSUME NEW d \in Live', NEW m \in ToSet(file'[d].children) PROVE m \in Live'
      <4>1. m \in Live /\ file[m].parent = d
        BY <2>1, <3>1, NodeTypes, SetOfQueue DEF IInv, TreeShaped, ChildrenOfParents
      <4>2. m # n
        BY <1>2, <3>1, <4>1 DEF Removed
      <4> QED BY <1>2, <4>1, <4>2 DEF Removed
    <3> QED BY <1>2, <3>1 DEF Removed, SameButChildren
  <2> QED BY <2>1, <2>2 DEF SiblingsDistinct
<1>3. ASSUME NEW n, NEW q, NEW t, NEW k, FilledUp(n, q, t, k) PROVE SiblingsDistinct'
  <2>1. Live' = Live /\ \A m \in Live : /\ file'[m].name = file[m].name
                                       /\ file'[m].children = file[m].children
    BY <1>3, FilledIs DEF FilledUp
  <2>2. \A d \in Live : ToSet(file[d].children) \subseteq Live
    BY NodeTypes, SetOfQueue DEF IInv
  <2> QED BY <2>1, <2>2 DEF SiblingsDistinct
<1>4. CASE UNCHANGED <<file, free, disk>>
  BY <1>4 DEF SiblingsDistinct, Live
<1> QED BY <1>1, <1>2, <1>3, <1>4, Steps

(* mkdir and create refuse a name that is taken (lines 403-407, 503-507),  *)
(* which keeps siblings apart as long as strncpy cuts no name.             *)
THEOREM SiblingsDistinctAlways == ASSUME NamesAreWhole PROVE Spec => []SiblingsDistinct
<1>1. Init => SiblingsDistinct
  <2>1. ToSet(<<>>) = {}
    BY EmptySeq DEF ToSet
  <2> QED BY <2>1 DEF Init, SiblingsDistinct, NewNode, Live
<1>2. IInv /\ SiblingsDistinct /\ [Next]_vars => SiblingsDistinct'
  BY SiblingsStay
<1> QED BY <1>1, <1>2, Invariance, PTL DEF Spec

-----------------------------------------------------------------------------
(* With memory for the nodes of the free list, no block is lost.           *)
Owned == \A b \in Blocks : b \in ToSet(free) \/ \E n \in Live : b \in ToSet(file[n].blocks)

LEMMA OwnedIsNoLeak == ASSUME IInv PROVE Owned <=> NoLeak
<1>1. ToSet(free) \subseteq Blocks /\ \A n \in Live : ToSet(file[n].blocks) \subseteq Blocks
  BY NodeTypes, SetOfQueue DEF IInv, TypeOK
<1> QED BY <1>1 DEF Owned, NoLeak

LEMMA OwnedStays ==
  ASSUME NoMemory = {}, IInv, Owned, [Next]_vars PROVE Owned'
<1>1. ASSUME NEW s \in Names, NEW isDir \in BOOLEAN, NEW n \in FileNodes,
             Inserted(n, s, isDir), free' = free
      PROVE  Owned'
  BY <1>1 DEF Owned, Inserted, SameButChildren, Blocks
<1>2. ASSUME NEW n \in Live, Removed(n), file[n].isDirectory, free' = free PROVE Owned'
  <2>1. ToSet(file[n].blocks) = {}
    BY <1>2, EmptySeq DEF IInv, NoSharing, ToSet
  <2> QED BY <1>2, <2>1 DEF Owned, Removed, SameButChildren, Blocks
<1>3. ASSUME NEW s \in Names, NEW n \in Live, Removed(n),
             NEW q \in Kept(file[n].blocks), free' = free \o q
      PROVE  Owned'
  <2>1. q = file[n].blocks
    BY <1>3 DEF Kept
  <2>2. ToSet(free') = ToSet(free) \union ToSet(file[n].blocks)
    BY <1>3, <2>1, NodeTypes, Joined DEF IInv, TypeOK
  <2> QED BY <1>3, <2>2 DEF Owned, Removed, SameButChildren, Blocks
<1>4. ASSUME NEW n, NEW q, NEW t, NEW k, FilledUp(n, q, t, k) PROVE Owned'
  <2>1. /\ Live' = Live /\ n \in Live /\ ToSet(free) = ToSet(q) \union ToSet(free')
        /\ q \in Seq(Blocks)
    BY <1>4 DEF FilledUp
  <2>2. file'[n].blocks = file[n].blocks \o q /\ \A m \in Live \ {n} : file'[m] = file[m]
    BY <1>4, FilledIs
  <2>3. ToSet(file'[n].blocks) = ToSet(file[n].blocks) \union ToSet(q)
    BY <2>1, <2>2, NodeTypes, Joined DEF IInv
  <2> QED BY <2>1, <2>2, <2>3 DEF Owned, Blocks
<1>5. CASE UNCHANGED <<file, free, disk>>
  BY <1>5 DEF Owned, Live, Blocks
<1> QED BY <1>1, <1>2, <1>3, <1>4, <1>5, Steps

(* Each block is in a file or free again (lines 266-273, 588), as long as  *)
(* malloc has memory for a node of the free list.                          *)
THEOREM NoLeakAlways == ASSUME NoMemory = {} PROVE Spec => []NoLeak
<1>1. Init => Owned
  <2>1. SUFFICES ASSUME Init, NEW b \in Blocks PROVE b \in ToSet(free)
    BY DEF Owned
  <2>2. b + 1 \in 1 .. TOTAL_BLOCKS /\ (b + 1) - 1 = b
    BY VfsAssumption DEF Blocks
  <2>3. free = [i \in 1 .. TOTAL_BLOCKS |-> i - 1]
    BY <2>1 DEF Init
  <2>4. free[b + 1] = b /\ b + 1 \in DOMAIN free
    BY <2>2, <2>3
  <2> QED BY <2>4 DEF ToSet
<1>2. IInv /\ Owned /\ [Next]_vars => Owned'
  BY OwnedStays
<1>3. IInv /\ Owned => NoLeak
  BY OwnedIsNoLeak
<1> QED BY <1>1, <1>2, <1>3, Invariance, PTL DEF Spec

-----------------------------------------------------------------------------
(* The blocks of the files are a FileStore.                                *)

(* What is in file n, block by block. *)
In(n) == ReadFrom(disk, file[n].blocks)

LEMMA ContentIs == Content = [n \in Files |-> In(n)]
  BY DEF Content, In, ReadFrom

(* A step that changes neither the blocks of file n nor what is on them. *)
LEMMA InStays ==
  ASSUME NEW n \in Live, IInv, file'[n].blocks = file[n].blocks,
         \A b \in ToSet(file[n].blocks) : disk'[b] = disk[b]
  PROVE  In(n)' = In(n)
  BY DEF In, ReadFrom, ToSet

LEMMA StoreInit == Init => Store!Init
<1> SUFFICES ASSUME Init PROVE Store!Init
  OBVIOUS
<1>1. Files = {}
  BY DEF Init, Files, Live, NewNode
<1>2. Content = <<>>
  <2>1. Content = [n \in {} |-> In(n)]
    BY <1>1, ContentIs
  <2> QED BY <2>1
<1>3. Len(free) = TOTAL_BLOCKS
  BY VfsAssumption DEF Init
<1> QED BY <1>2, <1>3 DEF Store!Init

LEMMA StoreCreate ==
  ASSUME IInv, NEW s \in Names, NEW n \in FileNodes, Inserted(n, s, FALSE),
         free' = free, disk' = disk
  PROVE  Store!Create(n) /\ n \in FileNodes \ {root}
<1>1. /\ Live' = Live \union {n} /\ n \notin Live /\ file'[n].blocks = <<>>
      /\ ~file'[n].isDirectory /\ \A m \in Live : SameButChildren(m)
  BY DEF Inserted, NewNode
<1>2. Files' = Files \union {n} /\ n \notin Files /\ n # root
  BY <1>1 DEF Files, SameButChildren, IInv, TreeShaped, Rooted
<1>3. \A m \in Files : In(m)' = In(m)
  <2>1. SUFFICES ASSUME NEW m \in Files PROVE In(m)' = In(m)
    OBVIOUS
  <2> QED BY <1>1, InStays DEF Files, SameButChildren
<1>4. In(n)' = <<>>
  BY <1>1 DEF In, ReadFrom
<1>5. Content' = [m \in Files \union {n} |-> IF m = n THEN <<>> ELSE Content[m]]
  <2>1. Content' = [m \in Files' |-> In(m)']
    BY DEF Content, In, ReadFrom
  <2>2. \A m \in Files : Content[m] = In(m)
    BY ContentIs
  <2> QED BY <1>2, <1>3, <1>4, <2>1, <2>2
<1>6. DOMAIN Content = Files
  BY DEF Content
<1> QED BY <1>2, <1>5, <1>6 DEF Store!Create

LEMMA StoreDelete ==
  ASSUME NoMemory = {}, IInv, NEW s \in Names, NEW n \in Live, FileGoes(s, n),
         NEW q \in Kept(file[n].blocks), free' = free \o q
  PROVE  Store!Delete(n) /\ n \in FileNodes \ {root}
<1>1. /\ q = file[n].blocks /\ ~file[n].isDirectory
      /\ \A b \in Blocks \ ToSet(file[n].blocks) : disk'[b] = disk[b]
  BY FileGoesIs DEF Kept, FileGoes
<1>2. n # root /\ Live' = Live \ {n} /\ \A m \in Live \ {n} : SameButChildren(m)
  BY FileGoesIs DEF Removed
<1>3. Files' = Files \ {n} /\ n \in Files
  BY <1>1, <1>2 DEF Files, SameButChildren
<1>4. ASSUME NEW m \in Files \ {n} PROVE In(m)' = In(m)
  <2>1. /\ m \in Live \ {n} /\ ToSet(file[m].blocks) \subseteq Blocks
        /\ ToSet(file[m].blocks) \intersect ToSet(file[n].blocks) = {}
    BY <1>4, NodeTypes, SetOfQueue DEF Files, IInv, NoSharing
  <2> QED BY <1>1, <1>2, <2>1, InStays DEF SameButChildren
<1>5. Content' = [m \in Files \ {n} |-> Content[m]]
  <2>1. Content' = [m \in Files' |-> In(m)']
    BY DEF Content, In, ReadFrom
  <2>2. \A m \in Files : Content[m] = In(m)
    BY ContentIs
  <2> QED BY <1>3, <1>4, <2>1, <2>2
<1>6. Len(free') = Len(free) + Len(Content[n])
  <2>1. file[n].blocks \in Seq(Blocks) /\ free \in Seq(Blocks)
    BY NodeTypes DEF IInv, TypeOK
  <2>2. Len(free') = Len(free) + Len(file[n].blocks)
    BY <1>1, <2>1, Joined
  <2>3. Content[n] = [i \in 1 .. Len(file[n].blocks) |-> disk[file[n].blocks[i]]]
    BY <1>3, <2>1 DEF Content
  <2>4. Len(file[n].blocks) \in Nat
    BY <2>1, LenProperties
  <2>5. Len(Content[n]) = Len(file[n].blocks)
    BY <2>3, <2>4
  <2> QED BY <2>2, <2>5
<1>7. DOMAIN Content = Files /\ n \in FileNodes
  BY NodeTypes DEF Content, IInv
<1> QED BY <1>2, <1>3, <1>5, <1>6, <1>7 DEF Store!Delete

LEMMA StoreWrite ==
  ASSUME IInv, NEW t \in Texts, NEW k \in 1 .. MaxBlocks, NEW n \in Live, NEW q,
         FilledUp(n, q, t, k), k <= Len(free)
  PROVE  Store!Write(n, [i \in 1 .. k |-> Piece(t, i)]) /\ n \in FileNodes \ {root}
<1> DEFINE w == [i \in 1 .. k |-> Piece(t, i)]
           p == file[n].blocks
<1>1. /\ ~file[n].isDirectory /\ Live' = Live /\ q \in Seq(Blocks) /\ Len(q) = k
      /\ \A i \in 1 .. k : disk'[q[i]] = Piece(t, i)
      /\ \A b \in Blocks \ ToSet(q) : disk'[b] = disk[b]
      /\ ToSet(q) \subseteq ToSet(free) /\ Len(free') = Len(free) - k
  BY DEF FilledUp
<1>2. /\ file'[n].blocks = p \o q
      /\ \A m \in Live : file'[m].isDirectory = file[m].isDirectory
      /\ \A m \in Live \ {n} : file'[m] = file[m]
  BY FilledIs
<1>3. k \in Nat /\ Len(w) = k
  <2>1. k \in Nat
    BY VfsAssumption
  <2> QED BY <2>1
<1>4. Files' = Files /\ n \in Files
  BY <1>1, <1>2 DEF Files
<1>5. \A m \in Live : /\ ToSet(file[m].blocks) \subseteq Blocks
                     /\ ToSet(file[m].blocks) \intersect ToSet(q) = {}
  BY <1>1, NodeTypes, SetOfQueue DEF IInv, NoSharing
<1>6. ASSUME NEW m \in Files \ {n} PROVE In(m)' = In(m)
  <2>1. m \in Live \ {n} /\ \A b \in ToSet(file[m].blocks) : disk'[b] = disk[b]
    BY <1>1, <1>5, <1>6 DEF Files
  <2> QED BY <1>2, <2>1, InStays
<1>7. In(n)' = In(n) \o w
  <2>1. p \in Seq(Blocks) /\ \A b \in ToSet(p) : disk'[b] = disk[b]
    BY <1>1, <1>5, NodeTypes DEF IInv
  <2>2. ReadFrom(disk', p \o q) = ReadFrom(disk, p) \o ReadFrom(disk', q)
    <3>1. ASSUME NEW g, NEW f, NEW h \in Seq(Blocks), \A b \in ToSet(h) : g[b] = f[b]
          PROVE  ReadFrom(g, h \o q) = ReadFrom(f, h) \o ReadFrom(g, q)
      <4>1. q \in Seq(Blocks)
        BY <1>1
      <4> QED BY ONLY <3>1, <4>1, MappedJoin
    <3> HIDE DEF p
    <3> QED BY <2>1, <3>1
  <2>3. ReadFrom(disk', q) = w
    <3>1. DOMAIN q = 1 .. k
      BY <1>1, LenProperties
    <3> QED BY <1>1, <3>1 DEF ReadFrom
  <2> QED BY <1>2, <2>2, <2>3 DEF In
<1>8. Content' = [Content EXCEPT ![n] = Content[n] \o w]
  <2>1. Content' = [m \in Files' |-> In(m)']
    BY DEF Content, In, ReadFrom
  <2>2. DOMAIN Content = Files /\ \A m \in Files : Content[m] = In(m)
    BY ContentIs
  <2> QED BY <1>4, <1>6, <1>7, <2>1, <2>2, ContentIs
<1>9. n # root /\ n \in FileNodes
  BY <1>1, NodeTypes DEF IInv, RootIsSlash
<1> QED BY <1>1, <1>3, <1>4, <1>8, <1>9 DEF Store!Write, Content

LEMMA StoreStep ==
  ASSUME NoMemory = {}, IInv, [Next]_vars
  PROVE  Store!Next \/ (Content' = Content /\ Len(free)' = Len(free))
<1>1. ASSUME NEW s \in Names, NEW isDir \in BOOLEAN, NEW n \in FileNodes,
             Inserted(n, s, isDir), free' = free, disk' = disk
      PROVE  Store!Next \/ (Content' = Content /\ Len(free)' = Len(free))
  <2>1. CASE ~isDir
    <3>1. Inserted(n, s, FALSE)
      BY <1>1, <2>1
    <3>2. Store!Create(n) /\ n \in FileNodes \ {root}
      BY <1>1, <3>1, StoreCreate
    <3> QED BY <3>2 DEF Store!Next
  <2>2. CASE isDir
    <3>1. /\ Live' = Live \union {n} /\ n \notin Live /\ file'[n].isDirectory
          /\ \A m \in Live : SameButChildren(m)
      BY <1>1, <2>2 DEF Inserted, NewNode
    <3>2. Files' = Files
      BY <3>1 DEF Files, SameButChildren
    <3>3. \A m \in Files : In(m)' = In(m)
      BY <1>1, <3>1, InStays DEF Files, SameButChildren
    <3> QED BY <1>1, <3>2, <3>3 DEF Content, In, ReadFrom
  <2> QED BY <2>1, <2>2
<1>2. ASSUME NEW n \in Live, Removed(n), file[n].isDirectory, free' = free, disk' = disk
      PROVE  Content' = Content /\ Len(free)' = Len(free)
  <2>1. Live' = Live \ {n} /\ \A m \in Live \ {n} : SameButChildren(m)
    BY <1>2 DEF Removed
  <2>2. Files' = Files /\ n \notin Files
    BY <1>2, <2>1 DEF Files, SameButChildren
  <2>3. \A m \in Files : In(m)' = In(m)
    BY <1>2, <2>1, <2>2, InStays DEF Files, SameButChildren
  <2> QED BY <1>2, <2>2, <2>3 DEF Content, In, ReadFrom
<1>3. ASSUME NEW s \in Names, NEW n \in Live, FileGoes(s, n),
             NEW q \in Kept(file[n].blocks), free' = free \o q
      PROVE  Store!Next
  BY <1>3, StoreDelete DEF Store!Next
<1>4. ASSUME NEW t \in Texts, NEW k \in 1 .. MaxBlocks, NEW n \in Live, NEW q,
             FilledUp(n, q, t, k), k <= Len(free)
      PROVE  Store!Next
  <2>1. PICK w : w = [i \in 1 .. k |-> Piece(t, i)]
    OBVIOUS
  <2>2. Store!Write(n, w) /\ n \in FileNodes \ {root}
    BY <1>4, <2>1, StoreWrite
  <2>3. w \in {[i \in 1 .. h |-> Piece(x, i)] : x \in Texts, h \in 1 .. MaxBlocks}
    BY <2>1
  <2> QED BY <2>2, <2>3 DEF Store!Next
<1>5. CASE UNCHANGED <<file, free, disk>>
  BY <1>5 DEF Content, Files, Live
<1> QED BY <1>1, <1>2, <1>3, <1>4, <1>5, Steps

(* What the files hold is what FileStore promises: each write is found     *)
(* whole at the end of its file, no other file changes, a deleted file     *)
(* gives its room back, and neither do directories come or go at the cost  *)
(* of a file (lines 236-324, 556-601).                                     *)
THEOREM ContentsKept == ASSUME NoMemory = {} PROVE Spec => KeepsContents
<1>1. Init => Store!Init
  BY StoreInit
<1>2. IInv /\ [Next]_vars => [Store!Next]_<<Content, Len(free)>>
  BY StoreStep
<1> QED BY <1>1, <1>2, Invariance, PTL DEF Spec, KeepsContents, Store!Spec
=============================================================================
