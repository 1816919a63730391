-------------------------- MODULE NodeGraph_proofs --------------------------
(***************************************************************************)
(* Proofs about NodeGraph for every set of infos, slots, types and names   *)
(* and every bound: what the call stack and the shared helpers keep; that  *)
(* every variable keeps its type; that every action keeps GoodGraph, the   *)
(* part of the inductive invariant about the counts, the loops of the      *)
(* needed trees and the frames of the call stack, one lemma per action;    *)
(* and that it keeps GoodLists: which list entries count a node reference, *)
(* which lists outlive their info, and for whom a node is being created.   *)
(* Together they give GraphInv and the theorems about a context in use.    *)
(* LifeInv then follows a context through its shutdown and past its end,   *)
(* for infos with names of their own.                                      *)
(***************************************************************************)
EXTENDS NodeGraph, FiniteSetTheorems, TLAPS

-----------------------------------------------------------------------------
(* The call stack *)

\* Pushing a frame keeps the frames below and moves them one deeper.
LEMMA PushFacts ==
  ASSUME NEW op \in Ops, NEW i \in Infos, NEW s \in Seq(Frames)
  PROVE  /\ Push(op, i, s) \in Seq(Frames)
         /\ Len(Push(op, i, s)) = Len(s) + 1
         /\ Push(op, i, s)[1] = <<op, i>>
         /\ \A k \in 1..Len(s) : Push(op, i, s)[k + 1] = s[k]
         /\ \A k \in 2..(Len(s) + 1) : Push(op, i, s)[k] = s[k - 1]
<1>1. <<op, i>> \in Frames
  BY DEF Frames
<1>2. <<<<op, i>>>> \in Seq(Frames) /\ Len(<<<<op, i>>>>) = 1
  BY <1>1
<1> QED BY <1>1, <1>2 DEF Push

\* Popping the innermost frame moves the others one up.
LEMMA PopFacts ==
  ASSUME NEW s \in Seq(Frames), s # <<>>
  PROVE  /\ Tail(s) \in Seq(Frames)
         /\ Len(Tail(s)) = Len(s) - 1
         /\ Len(s) >= 1
         /\ \A k \in 1..(Len(s) - 1) : Tail(s)[k] = s[k + 1]
OBVIOUS

\* A frame of the stack is a known operation on a known info.
LEMMA FrameFacts ==
  ASSUME NEW s \in Seq(Frames), NEW k \in 1..Len(s)
  PROVE  s[k] \in Frames /\ s[k][1] \in Ops /\ s[k][2] \in Infos /\ s[k] = <<s[k][1], s[k][2]>>
BY DEF Frames

-----------------------------------------------------------------------------
(* Counting list entries *)

\* There are finitely many list cells.
LEMMA CellsFinite == IsFiniteSet(Cells)
<1> DEFINE Pairs == (Owners \X Infos) \X Slots
           f == [c \in Cells |-> <<<<c[1], c[2]>>, c[3]>>]
<1>1. IsFiniteSet(Owners)
  BY ConstantsAssumption, FS_AddElement DEF Owners
<1>2. IsFiniteSet(Owners \X Infos)
  BY <1>1, ConstantsAssumption, FS_Product
<1>3. IsFiniteSet(Pairs)
  BY <1>2, ConstantsAssumption, FS_Product
<1>4. f \in [Cells -> Pairs]
  BY DEF Cells
<1>5. \A c, d \in Cells : f[c] = f[d] => c = d
  BY DEF Cells
<1>6. f \in Injection(Cells, Pairs)
  BY <1>4, <1>5 DEF Injection, IsInjective
<1> QED BY <1>3, <1>6, FS_Injection

\* Adding a cell adds one to the entries of its info and of no other.
LEMMA CountAdd ==
  ASSUME NEW H \in SUBSET Cells, NEW c \in Cells, c \notin H, NEW j
  PROVE  /\ Cardinality({d \in H : d[2] = j}) \in Nat
         /\ c[2] = j => Cardinality({d \in H \cup {c} : d[2] = j}) = Cardinality({d \in H : d[2] = j}) + 1
         /\ c[2] # j => Cardinality({d \in H \cup {c} : d[2] = j}) = Cardinality({d \in H : d[2] = j})
<1> DEFINE D == {d \in H : d[2] = j}
           E == {d \in H \cup {c} : d[2] = j}
<1>1. IsFiniteSet(D) /\ Cardinality(D) \in Nat
  BY CellsFinite, FS_Subset, FS_CardinalityType
<1>2. c[2] = j => E = D \cup {c}
  OBVIOUS
<1>3. c[2] # j => E = D
  OBVIOUS
<1>4. c \notin D
  OBVIOUS
<1>5. Cardinality(D \cup {c}) = Cardinality(D) + 1
  BY <1>1, <1>4, FS_AddElement
<1> HIDE DEF D, E
<1>6. /\ c[2] = j => Cardinality(E) = Cardinality(D) + 1
      /\ c[2] # j => Cardinality(E) = Cardinality(D)
  BY <1>1, <1>2, <1>3, <1>5
<1> QED BY <1>1, <1>6 DEF D, E

\* Removing a cell takes one from the entries of its info and of no other.
LEMMA CountRemove ==
  ASSUME NEW H \in SUBSET Cells, NEW c \in H, NEW j
  PROVE  /\ Cardinality({d \in H : d[2] = j}) \in Nat
         /\ Cardinality({d \in H \ {c} : d[2] = j})
              = Cardinality({d \in H : d[2] = j}) - (IF c[2] = j THEN 1 ELSE 0)
         /\ c[2] = j => Cardinality({d \in H : d[2] = j}) > 0
<1> DEFINE D == {d \in H : d[2] = j}
           E == {d \in H \ {c} : d[2] = j}
<1>1. IsFiniteSet(D) /\ Cardinality(D) \in Nat
  BY CellsFinite, FS_Subset, FS_CardinalityType
<1>2. c[2] = j => E = D \ {c} /\ c \in D
  OBVIOUS
<1>3. c[2] # j => E = D
  OBVIOUS
<1>4. c \in D => Cardinality(D \ {c}) = Cardinality(D) - 1 /\ Cardinality(D) # 0
  BY <1>1, FS_RemoveElement, FS_EmptySet
<1> HIDE DEF D, E
<1>5. /\ Cardinality(E) = Cardinality(D) - (IF c[2] = j THEN 1 ELSE 0)
      /\ c[2] = j => Cardinality(D) > 0
  BY <1>1, <1>2, <1>3, <1>4
<1> QED BY <1>1, <1>5 DEF D, E

\* No entry exactly when the count is 0.
LEMMA CountZero ==
  ASSUME NEW H \in SUBSET Cells, NEW j
  PROVE  /\ Cardinality({d \in H : d[2] = j}) \in Nat
         /\ Cardinality({d \in H : d[2] = j}) = 0 => \A d \in H : d[2] # j
<1>1. IsFiniteSet({d \in H : d[2] = j})
  BY CellsFinite, FS_Subset
<1> QED BY <1>1, FS_EmptySet, FS_CardinalityType

\* NewCell is an unused cell of the list and the info it is asked for.
LEMMA NewCellFacts ==
  ASSUME NEW o, NEW i, HasRoom(o, i)
  PROVE  NewCell(o, i) \in Cells /\ NewCell(o, i) \notin cells
         /\ NewCell(o, i)[1] = o /\ NewCell(o, i)[2] = i
BY DEF HasRoom, NewCell

-----------------------------------------------------------------------------
(* Type correctness *)

\* Releasing a node keeps the types of what it changes.
LEMMA ReleaseNodeType ==
  ASSUME TypeOK, NEW i \in Infos, NEW s \in Seq(Frames), ReleaseNode(i, s)
  PROVE  nRef' \in [Infos -> Nat] /\ nodesMap' \subseteq Infos /\ stack' \in Seq(Frames)
<1>1. Push("destroy", i, s) \in Seq(Frames)
  BY PushFacts DEF Ops
<1> QED BY <1>1 DEF TypeOK, ReleaseNode, Unmapped

\* Freeing an info keeps the types of what it changes.
LEMMA FreeInfoType ==
  ASSUME TypeOK, NEW i \in Infos, NEW s \in Seq(Frames), FreeInfo(i, s)
  PROVE  infoRef' \in [Infos -> Int] /\ stack' \in Seq(Frames)
<1>1. Push("infofree", i, s) \in Seq(Frames)
  BY PushFacts DEF Ops
<1> QED BY <1>1 DEF TypeOK, FreeInfo

\* The innermost frame of a running call.
LEMMA TopFacts ==
  ASSUME TypeOK, NEW op, Running(op)
  PROVE  /\ stack # <<>> /\ Len(stack) \in Nat /\ Len(stack) >= 1
         /\ Top = stack[1] /\ Top[1] = op /\ Top[2] \in Infos /\ op \in Ops
         /\ Tail(stack) \in Seq(Frames)
<1>1. stack \in Seq(Frames) /\ stack # <<>>
  BY DEF TypeOK, Running
<1>2. Len(stack) \in Nat /\ Len(stack) >= 1 /\ Tail(stack) \in Seq(Frames)
  BY <1>1
<1>3. stack[1] \in Frames
  BY <1>1, <1>2
<1> QED BY <1>1, <1>2, <1>3 DEF Running, Top, Frames

\* No call in progress is a call stack.
LEMMA EmptyStack == <<>> \in Seq(Frames)
OBVIOUS

\* A counter of the model that goes up or down by one stays a counter.
LEMMA CounterTypes ==
  ASSUME NEW i \in Infos
  PROVE  /\ \A f \in [Infos -> Nat] : [f EXCEPT ![i] = @ + 1] \in [Infos -> Nat]
         /\ \A f \in [Infos -> Nat] : f[i] > 0 => [f EXCEPT ![i] = @ - 1] \in [Infos -> Nat]
         /\ \A f \in [Infos -> Int] : [f EXCEPT ![i] = @ + 1] \in [Infos -> Int]
         /\ \A f \in [Infos -> Int] : [f EXCEPT ![i] = @ - 1] \in [Infos -> Int]
OBVIOUS

\* A stack deeper than one frame.
LEMMA DeepStack ==
  ASSUME NEW s \in Seq(Frames), s # <<>>, Len(s) # 1
  PROVE  /\ Len(s) \in Nat /\ Len(s) >= 2 /\ s[2] \in Frames /\ s[2][2] \in Infos /\ s[2][1] \in Ops
         /\ Tail(s) # <<>> /\ Tail(s)[1] = s[2] /\ Tail(Tail(s)) \in Seq(Frames)
<1>1. Len(s) \in Nat /\ Len(s) # 0
  OBVIOUS
<1>2. Len(s) >= 2
  <2>1. \A n \in Nat : n # 0 /\ n # 1 => n >= 2
    OBVIOUS
  <2> QED BY <1>1, <2>1
<1>3. Tail(s) \in Seq(Frames) /\ Len(Tail(s)) = Len(s) - 1 /\ Tail(s)[1] = s[2]
  BY <1>1, <1>2
<1>4. Tail(s) # <<>>
  BY <1>1, <1>2, <1>3
<1>5. s[2] \in Frames
  BY <1>1, <1>2
<1> QED BY <1>1, <1>2, <1>3, <1>4, <1>5 DEF Frames

\* Every step keeps the types.
LEMMA TypeStep ==
  ASSUME TypeOK, [Next]_vars
  PROVE  TypeOK'
<1>1. ASSUME NEW i \in Infos, NEW needed \in SUBSET Infos, NodeInfoAllocate(i, needed)
      PROVE  TypeOK'
  <2>1. cells' \subseteq Cells
    BY <1>1, NewCellFacts DEF NodeInfoAllocate, TypeOK
  <2>2. infoRef' \in [Infos -> Int]
    BY <1>1 DEF NodeInfoAllocate, TypeOK
  <2> QED BY <1>1, <2>1, <2>2 DEF NodeInfoAllocate, TypeOK, nodeVars, ctxVars
<1>2. CASE EnumerateExistingNodes
  <2>1. infoRef' \in [Infos -> Int]
    BY <1>2 DEF EnumerateExistingNodes, TypeOK
  <2>2. userInfo' \in [Infos -> Nat]
    <3>1. \A i \in Infos : userInfo[i] \in Nat /\ userInfo[i] + 1 \in Nat
      BY DEF TypeOK
    <3> QED BY <1>2, <3>1 DEF EnumerateExistingNodes
  <2> QED BY <1>2, <2>1, <2>2 DEF EnumerateExistingNodes, TypeOK, nodeVars, ctxVars
<1>3. CASE ContextAddRef
  BY <1>3 DEF ContextAddRef, TypeOK, nodeVars, infoVars
<1>4. CASE ContextRelease
  BY <1>4 DEF ContextRelease, CanCall, ReleaseContext, TypeOK, nodeVars, infoVars
<1>5. CASE Shutdown
  BY <1>5 DEF Shutdown, TypeOK, nodeVars, infoVars, appVars
<1>6. ASSUME NEW i \in Infos, NodeInfoFree(i)
      PROVE  TypeOK'
  <2>1. infoRef' \in [Infos -> Int] /\ stack' \in Seq(Frames)
    BY <1>6, FreeInfoType, EmptyStack DEF NodeInfoFree
  <2>2. userInfo' \in [Infos -> Nat]
    BY <1>6, CounterTypes DEF NodeInfoFree, TypeOK
  <2> QED BY <1>6, <2>1, <2>2 DEF NodeInfoFree, TypeOK, nodeVars, ctxVars
<1>7. ASSUME NEW i \in Infos, NEW nm \in UserNames[i], NodeInfoSetInstanceName(i, nm)
      PROVE  TypeOK'
  <2>1. nm \in Names
    BY ConstantsAssumption
  <2> QED BY <1>7, <2>1 DEF NodeInfoSetInstanceName, TypeOK, nodeVars, ctxVars, appVars
<1>8. ASSUME NEW i \in Infos, CreateProductionTree(i)
      PROVE  TypeOK'
  <2>1. Push("create", i, <<>>) \in Seq(Frames)
    BY PushFacts, EmptyStack DEF Ops
  <2>2. nRef' \in [Infos -> Nat] /\ user' \in [Infos -> Nat] /\ stack' \in Seq(Frames)
    <3>1. CASE i \in hNode
      <4>1. /\ nRef' = [nRef EXCEPT ![i] = @ + 1]
            /\ user' = [user EXCEPT ![i] = @ + 1]
            /\ stack' = stack
        BY <1>8, <3>1 DEF CreateProductionTree
      <4> QED BY <4>1, CounterTypes DEF TypeOK
    <3>2. CASE i \notin hNode
      BY <1>8, <2>1, <3>2 DEF CreateProductionTree, TypeOK
    <3> QED BY <3>1, <3>2
  <2> QED BY <1>8, <2>2 DEF CreateProductionTree, TypeOK, infoVars, ctxVars
<1>9. ASSUME NEW i \in Infos, ProductionNodeAddRef(i) \/ GetRefNodeHandleByName(i) \/ NodeInfoGetRefHandle(i)
      PROVE  TypeOK'
  <2>1. nRef' \in [Infos -> Nat] /\ user' \in [Infos -> Nat]
    <3>1. nRef' = [nRef EXCEPT ![i] = @ + 1] /\ user' = [user EXCEPT ![i] = @ + 1]
      BY <1>9 DEF ProductionNodeAddRef, GetRefNodeHandleByName, NodeInfoGetRefHandle
    <3> QED BY <3>1, CounterTypes DEF TypeOK
  <2> QED BY <1>9, <2>1 DEF ProductionNodeAddRef, GetRefNodeHandleByName, NodeInfoGetRefHandle,
                            TypeOK, infoVars, ctxVars
<1>10. ASSUME NEW i \in Infos, ProductionNodeRelease(i)
       PROVE  TypeOK'
  <2>1. nRef' \in [Infos -> Nat] /\ nodesMap' \subseteq Infos /\ stack' \in Seq(Frames)
    BY <1>10, ReleaseNodeType, EmptyStack DEF ProductionNodeRelease
  <2>2. user' \in [Infos -> Nat]
    BY <1>10, CounterTypes DEF ProductionNodeRelease, CanUseNode, TypeOK
  <2> QED BY <1>10, <2>1, <2>2 DEF ProductionNodeRelease, TypeOK, infoVars, ctxVars
<1>11. ASSUME NEW i \in Infos, PlayRecording(i)
       PROVE  TypeOK'
  <2>1. nRef' \in [Infos -> Nat] /\ lost' \in [Infos -> Nat]
    <3>1. nRef' = [nRef EXCEPT ![i] = @ + 1] /\ lost' = [lost EXCEPT ![i] = @ + 1]
      BY <1>11 DEF PlayRecording
    <3> QED BY <3>1, CounterTypes DEF TypeOK
  <2> QED BY <1>11, <2>1 DEF PlayRecording, TypeOK, infoVars, ctxVars
<1>12. ASSUME NEW i \in Infos, MarkOwnedNode(i)
       PROVE  TypeOK'
  <2>1. cells' \subseteq Cells /\ held' \subseteq Cells
    BY <1>12, NewCellFacts DEF MarkOwnedNode, TypeOK
  <2>2. user' \in [Infos -> Nat] /\ infoRef' \in [Infos -> Int]
    BY <1>12, CounterTypes DEF MarkOwnedNode, TypeOK
  <2> QED BY <1>12, <2>1, <2>2 DEF MarkOwnedNode, TypeOK, ctxVars
<1>13. ASSUME NEW i \in Infos, GetRefContextFromNodeHandle(i)
       PROVE  TypeOK'
  BY <1>13 DEF GetRefContextFromNodeHandle, TypeOK, infoVars, nodeVars
<1>14. ASSUME NEW i \in Infos, NEW j \in Infos, AddNeededNode(i, j)
       PROVE  TypeOK'
  <2>1. cells' \subseteq Cells /\ held' \subseteq Cells
    BY <1>14, NewCellFacts, SMTT(30) DEF AddNeededNode, TypeOK
  <2>2. nRef' \in [Infos -> Nat] /\ infoRef' \in [Infos -> Int]
    BY <1>14, CounterTypes DEF AddNeededNode, TypeOK
  <2> QED BY <1>14, <2>1, <2>2 DEF AddNeededNode, TypeOK, ctxVars, appVars
<1>15. ASSUME NEW i \in Infos, NEW j \in Infos, RemoveNeededNode(i, j)
       PROVE  TypeOK'
  <2>1. cells' \subseteq Cells /\ held' \subseteq Cells
    BY <1>15 DEF RemoveNeededNode, TypeOK
  <2>2. nRef' \in [Infos -> Nat] /\ nodesMap' \subseteq Infos /\ stack' \in Seq(Frames)
    BY <1>15, ReleaseNodeType, EmptyStack DEF RemoveNeededNode
  <2>3. infoRef' \in [Infos -> Int]
    BY <1>15, CounterTypes DEF RemoveNeededNode, TypeOK
  <2> QED BY <1>15, <2>1, <2>2, <2>3 DEF RemoveNeededNode, TypeOK, ctxVars, appVars
<1>16. CASE InfoFreeCell
  <2>1. PICK c \in cells : cells' = cells \ {c} /\ FreeInfo(c[2], stack)
    BY <1>16 DEF InfoFreeCell
  <2>2. c[2] \in Infos
    BY <2>1 DEF TypeOK, Cells
  <2>3. infoRef' \in [Infos -> Int] /\ stack' \in Seq(Frames)
    BY <2>1, <2>2, FreeInfoType DEF TypeOK
  <2> QED BY <1>16, <2>1, <2>3 DEF InfoFreeCell, TypeOK, nodeVars, ctxVars, appVars
<1>17. CASE InfoFreeReturn
  BY <1>17, TopFacts DEF InfoFreeReturn, TypeOK, infoVars, nodeVars, ctxVars, appVars
<1>18. CASE CreateNeeded
  <2>1. PICK c \in cells :
          IF c[2] \in hNode
            THEN /\ nRef' = [nRef EXCEPT ![c[2]] = @ + 1]
                 /\ held' = held \cup {c}
                 /\ UNCHANGED stack
            ELSE stack' = Push("create", c[2], stack) /\ UNCHANGED <<nRef, held>>
    BY <1>18 DEF CreateNeeded, ToCreate
  <2>2. c \in Cells /\ c[2] \in Infos
    BY DEF TypeOK, Cells
  <2>3. Push("create", c[2], stack) \in Seq(Frames)
    BY <2>2, PushFacts DEF TypeOK, Ops
  <2>4. nRef' \in [Infos -> Nat] /\ held' \subseteq Cells /\ stack' \in Seq(Frames)
    <3>1. CASE c[2] \in hNode
      <4>1. nRef' = [nRef EXCEPT ![c[2]] = @ + 1]
        BY <2>1, <3>1
      <4>2. nRef' \in [Infos -> Nat]
        BY <4>1, <2>2, CounterTypes DEF TypeOK
      <4>3. held' = held \cup {c} /\ stack' = stack
        BY <2>1, <3>1
      <4> QED BY <4>2, <4>3, <2>2 DEF TypeOK
    <3>2. CASE c[2] \notin hNode
      BY <2>1, <2>3, <3>2 DEF TypeOK
    <3> QED BY <3>1, <3>2
  <2> QED BY <1>18, <2>4 DEF CreateNeeded, TypeOK, infoVars, ctxVars, appVars
<1>19. CASE CreateRootNode
  <2>1. Top[2] \in Infos /\ Tail(stack) \in Seq(Frames)
    BY <1>19, TopFacts DEF CreateRootNode
  <2>2. held' \subseteq Cells /\ user' \in [Infos -> Nat] /\ stack' \in Seq(Frames)
    <3>1. ReturnNode(Top[2])
      BY <1>19 DEF CreateRootNode
    <3>2. stack' \in Seq(Frames)
      BY <3>1, <2>1 DEF ReturnNode
    <3>3. held' \subseteq Cells
      BY <3>1 DEF ReturnNode, ToCreate, TypeOK
    <3>4. user' \in [Infos -> Nat]
      <4>1. [user EXCEPT ![Top[2]] = @ + 1] \in [Infos -> Nat]
        BY <2>1, CounterTypes DEF TypeOK
      <4> QED BY <3>1, <4>1 DEF ReturnNode, TypeOK
    <3> QED BY <3>2, <3>3, <3>4
  <2>3. name' \in [Infos -> Names \cup {NoName}] /\ nodesMap' \subseteq Infos
    BY <1>19, <2>1 DEF CreateRootNode, Mapped, TypeOK
  <2>4. hPlayer' \in Infos \cup {NoNode} /\ hNode' \subseteq Infos /\ mem' \subseteq Infos
    BY <1>19, <2>1 DEF CreateRootNode, TypeOK
  <2>5. nRef' \in [Infos -> Nat] /\ infoRef' \in [Infos -> Int]
    BY <1>19, <2>1, CounterTypes DEF CreateRootNode, TypeOK
  <2>6. ctxRef' \in Int /\ UNCHANGED <<cells, ctx, userInfo, userCtx, lost>>
    BY <1>19 DEF CreateRootNode, TypeOK
  <2> QED BY <2>2, <2>3, <2>4, <2>5, <2>6 DEF TypeOK
<1>20. CASE CreateRootNodeFails
  <2>1. Top[2] \in Infos /\ Tail(stack) \in Seq(Frames)
    BY <1>20, TopFacts DEF CreateRootNodeFails
  <2>2. stack' \in Seq(Frames)
    BY <1>20, <2>1, PushFacts DEF CreateRootNodeFails, Ops
  <2>3. name' \in [Infos -> Names \cup {NoName}]
    BY <1>20, <2>1 DEF CreateRootNodeFails, TypeOK
  <2>4. hPlayer' \in Infos \cup {NoNode}
    BY <1>20, <2>1 DEF CreateRootNodeFails, TypeOK
  <2> QED BY <1>20, <2>2, <2>3, <2>4 DEF CreateRootNodeFails, TypeOK, ctxVars, appVars
<1>21. CASE UndoRelease \/ DestroyRelease
  <2>1. PICK c \in held : held' = held \ {c} /\ ReleaseNode(c[2], stack)
    BY <1>21 DEF UndoRelease, DestroyRelease, ToRelease
  <2>2. c[2] \in Infos
    BY <2>1 DEF TypeOK, Cells
  <2>3. nRef' \in [Infos -> Nat] /\ nodesMap' \subseteq Infos /\ stack' \in Seq(Frames)
    BY <2>1, <2>2, ReleaseNodeType DEF TypeOK
  <2> QED BY <1>21, <2>1, <2>3
          DEF UndoRelease, DestroyRelease, TypeOK, infoVars, ctxVars, appVars
<1>22. CASE UndoReturn
  <2>1. stack \in Seq(Frames) /\ stack # <<>>
    BY <1>22 DEF UndoReturn, Running, TypeOK
  <2>2. stack' \in Seq(Frames)
    <3>1. CASE Len(stack) = 1
      BY <1>22, <3>1, EmptyStack DEF UndoReturn
    <3>2. CASE Len(stack) # 1
      <4>1. stack[2][2] \in Infos /\ Tail(Tail(stack)) \in Seq(Frames)
        BY <2>1, <3>2, DeepStack
      <4> QED BY <1>22, <3>2, <4>1, PushFacts DEF UndoReturn, Ops
    <3> QED BY <3>1, <3>2
  <2> QED BY <1>22, <2>2 DEF UndoReturn, TypeOK, infoVars, nodeVars, ctxVars, appVars
<1>23. CASE DestroyFreeInfo
  <2>1. Top[2] \in Infos /\ Tail(stack) \in Seq(Frames)
    BY <1>23, TopFacts DEF DestroyFreeInfo
  <2>2. Push("free", Top[2], Tail(stack)) \in Seq(Frames)
    BY <2>1, PushFacts DEF Ops
  <2>3. infoRef' \in [Infos -> Int] /\ stack' \in Seq(Frames)
    BY <1>23, <2>1, <2>2, FreeInfoType DEF DestroyFreeInfo
  <2>4. nRef' \in [Infos -> Nat] /\ hNode' \subseteq Infos
    BY <1>23, <2>1 DEF DestroyFreeInfo, TypeOK
  <2> QED BY <1>23, <2>3, <2>4 DEF DestroyFreeInfo, TypeOK, ctxVars, appVars
<1>24. CASE FreeProductionNode
  <2>1. Tail(stack) \in Seq(Frames)
    BY <1>24, TopFacts DEF FreeProductionNode
  <2> QED BY <1>24, <2>1 DEF FreeProductionNode, ReleaseContext, TypeOK, infoVars, appVars
<1>25. CASE ShutdownNode
  <2>1. PICK i \in nodesMap : nodesMap' = Unmapped(i) /\ stack' = Push("destroy", i, <<>>)
    BY <1>25 DEF ShutdownNode
  <2>2. i \in Infos /\ nodesMap' \subseteq Infos
    BY <2>1 DEF TypeOK, Unmapped
  <2>3. stack' \in Seq(Frames)
    BY <2>1, <2>2, PushFacts, EmptyStack DEF Ops
  <2> QED BY <1>25, <2>2, <2>3 DEF ShutdownNode, TypeOK, infoVars, ctxVars, appVars
<1>26. CASE ShutdownOwned
  <2>1. PICK c \in cells : cells' = cells \ {c} /\ held' = held \ {c} /\ FreeInfo(c[2], <<>>)
    BY <1>26 DEF ShutdownOwned
  <2>2. c[2] \in Infos
    BY <2>1 DEF TypeOK, Cells
  <2>3. infoRef' \in [Infos -> Int] /\ stack' \in Seq(Frames)
    BY <2>1, <2>2, FreeInfoType, EmptyStack
  <2> QED BY <1>26, <2>1, <2>3 DEF ShutdownOwned, TypeOK, ctxVars, appVars
<1>27. CASE ShutdownReturn
  BY <1>27 DEF ShutdownReturn, TypeOK, infoVars, nodeVars, appVars
<1>28. CASE UNCHANGED vars
  BY <1>28 DEF vars, TypeOK, infoVars, nodeVars, ctxVars, appVars
<1> QED BY <1>1, <1>2, <1>3, <1>4, <1>5, <1>6, <1>7, <1>8, <1>9, <1>10, <1>11, <1>12, <1>13,
           <1>14, <1>15, <1>16, <1>17, <1>18, <1>19, <1>20, <1>21, <1>22, <1>23, <1>24,
           <1>25, <1>26, <1>27, <1>28 DEF Next, Call, Internal

\* The initial state has the right types.
LEMMA TypeInit == Init => TypeOK
BY EmptyStack DEF Init, TypeOK

\* Every variable keeps its type, in use, during a shutdown and after it.
THEOREM TypeCorrect == Spec => []TypeOK
<1> QED BY TypeInit, TypeStep, PTL DEF Spec

-----------------------------------------------------------------------------
(* Invariants of the call stack, for any stack, set of existing nodes and  *)
(* counts                                                                  *)

DFrames(st, h, r) ==
  /\ \A k \in 1..Len(st) : st[k][1] = "destroy" => st[k][2] \in h /\ r[st[k][2]] = 0
  /\ \A k, l \in 1..Len(st) : /\ st[k][1] = "destroy" /\ st[l][1] = "destroy"
                              /\ st[k][2] = st[l][2]
                              => k = l

CFrames(st, h) ==
  /\ \A k \in 1..Len(st) : st[k][1] \in {"create", "undo"} => st[k][2] \notin h
  /\ \A k, l \in 1..Len(st) : k < l /\ st[k][1] \in {"create", "undo"} => st[l][1] = "create"
  /\ \A k \in 1..Len(st) : st[k][1] \in {"destroy", "free", "infofree"} /\ k + 1 \in 1..Len(st)
                      => st[k + 1][1] # "create"

Chain == \A k, l \in Depth : k < l => IsNodeNeededBy(stack[l][2], stack[k][2])

\* The conjuncts about the call stack, as operators on any stack.
LEMMA FramesDef ==
  /\ DestroyFrames <=> DFrames(stack, hNode, nRef)
  /\ CreateFrames <=> CFrames(stack, hNode) /\ (Running("create") => Chain)
BY DEF DestroyFrames, DFrames, CreateFrames, CFrames, Chain, Depth

\* An index of a pushed stack is the new frame or one of the old ones.
LEMMA PushIndex ==
  ASSUME NEW op \in Ops, NEW i \in Infos, NEW s \in Seq(Frames),
         NEW k \in 1..Len(Push(op, i, s))
  PROVE  \/ k = 1 /\ Push(op, i, s)[k] = <<op, i>>
         \/ k - 1 \in 1..Len(s) /\ Push(op, i, s)[k] = s[k - 1]
<1>1. Len(s) \in Nat /\ Len(Push(op, i, s)) = Len(s) + 1
  BY PushFacts
<1>2. k \in Nat /\ k >= 1 /\ k <= Len(s) + 1
  BY <1>1
<1>3. CASE k = 1
  BY <1>3, PushFacts
<1>4. CASE k # 1
  <2>1. k \in 2..(Len(s) + 1) /\ k - 1 \in 1..Len(s)
    BY <1>1, <1>2, <1>4
  <2> QED BY <2>1, PushFacts
<1> QED BY <1>3, <1>4

\* A push keeps the nodes being destroyed distinct and at count 0.
LEMMA DFramesPush ==
  ASSUME NEW op \in Ops, NEW i \in Infos, NEW s \in Seq(Frames), NEW h, NEW r,
         DFrames(s, h, r),
         op = "destroy" => i \in h /\ r[i] = 0 /\ \A k \in 1..Len(s) : s[k] # <<"destroy", i>>
  PROVE  DFrames(Push(op, i, s), h, r)
<1> DEFINE t == Push(op, i, s)
<1>1. ASSUME NEW k \in 1..Len(t)
      PROVE  \/ k = 1 /\ t[k] = <<op, i>>
             \/ k - 1 \in 1..Len(s) /\ t[k] = s[k - 1]
  BY PushIndex
<1>2. ASSUME NEW k \in 1..Len(s)
      PROVE  s[k] = <<s[k][1], s[k][2]>>
  BY FrameFacts
<1> HIDE DEF t
<1>3. \A k \in 1..Len(t) : t[k][1] = "destroy" => t[k][2] \in h /\ r[t[k][2]] = 0
  BY <1>1 DEF DFrames
<1>4. ASSUME NEW k \in 1..Len(t), NEW l \in 1..Len(t),
             t[k][1] = "destroy", t[l][1] = "destroy", t[k][2] = t[l][2]
      PROVE  k = l
  <2>1. CASE k = 1 /\ l - 1 \in 1..Len(s) /\ t[l] = s[l - 1] /\ t[k] = <<op, i>>
    BY <1>2, <1>4, <2>1
  <2>2. CASE l = 1 /\ k - 1 \in 1..Len(s) /\ t[k] = s[k - 1] /\ t[l] = <<op, i>>
    BY <1>2, <1>4, <2>2
  <2>3. CASE k - 1 \in 1..Len(s) /\ t[k] = s[k - 1] /\ l - 1 \in 1..Len(s) /\ t[l] = s[l - 1]
    <3>1. k - 1 = l - 1
      BY <1>4, <2>3 DEF DFrames
    <3>2. k \in Int /\ l \in Int
      OBVIOUS
    <3> QED BY <3>1, <3>2
  <2> QED BY <1>1, <2>1, <2>2, <2>3
<1> QED BY <1>3, <1>4 DEF DFrames, t

\* A pop keeps the nodes being destroyed distinct and at count 0.
LEMMA DFramesPop ==
  ASSUME NEW s \in Seq(Frames), s # <<>>, NEW h, NEW r, DFrames(s, h, r)
  PROVE  /\ DFrames(Tail(s), h, r)
         /\ s[1][1] = "destroy" =>
              \A k \in 1..Len(Tail(s)) : Tail(s)[k][1] = "destroy" => Tail(s)[k][2] # s[1][2]
<1> DEFINE t == Tail(s)
<1>1. Len(s) \in Nat /\ Len(s) >= 1 /\ Len(t) = Len(s) - 1
  BY PopFacts
<1>2. ASSUME NEW k \in 1..Len(t)
      PROVE  k + 1 \in 1..Len(s) /\ t[k] = s[k + 1] /\ k \in Int /\ k + 1 # 1
  BY <1>1, PopFacts
<1>3. 1 \in 1..Len(s)
  BY <1>1
<1> HIDE DEF t
<1>4. \A k \in 1..Len(t) : t[k][1] = "destroy" => t[k][2] \in h /\ r[t[k][2]] = 0
  BY <1>2 DEF DFrames
<1>5. ASSUME NEW k \in 1..Len(t), NEW l \in 1..Len(t),
             t[k][1] = "destroy", t[l][1] = "destroy", t[k][2] = t[l][2]
      PROVE  k = l
  <2>1. k + 1 = l + 1
    BY <1>2, <1>5 DEF DFrames
  <2> QED BY <1>2, <2>1
<1>6. ASSUME s[1][1] = "destroy", NEW k \in 1..Len(t), t[k][1] = "destroy"
      PROVE  t[k][2] # s[1][2]
  BY <1>2, <1>3, <1>6 DEF DFrames
<1> QED BY <1>4, <1>5, <1>6 DEF DFrames, t

\* A push keeps creations on nodes that do not exist, below nothing taken down.
LEMMA CFramesPush ==
  ASSUME NEW op \in Ops, NEW i \in Infos, NEW s \in Seq(Frames), NEW h, CFrames(s, h),
         \/ op \in {"destroy", "free", "infofree"} /\ (s # <<>> => s[1][1] # "create")
         \/ op \in {"create", "undo"} /\ i \notin h /\ \A k \in 1..Len(s) : s[k][1] = "create"
  PROVE  CFrames(Push(op, i, s), h)
<1> DEFINE t == Push(op, i, s)
<1>1. ASSUME NEW k \in 1..Len(t)
      PROVE  \/ k = 1 /\ t[k] = <<op, i>>
             \/ k - 1 \in 1..Len(s) /\ t[k] = s[k - 1]
  BY PushIndex
<1>2. Len(s) \in Nat /\ Len(t) = Len(s) + 1
  BY PushFacts
<1> HIDE DEF t
<1>3. \A k \in 1..Len(t) : t[k][1] \in {"create", "undo"} => t[k][2] \notin h
  BY <1>1 DEF CFrames
<1>4. ASSUME NEW k \in 1..Len(t), NEW l \in 1..Len(t), k < l, t[k][1] \in {"create", "undo"}
      PROVE  t[l][1] = "create"
  <2>1. k \in Int /\ l \in Int /\ l # 1
    BY <1>4
  <2>2. l - 1 \in 1..Len(s) /\ t[l] = s[l - 1]
    BY <1>1, <2>1
  <2>3. CASE k = 1 /\ t[k] = <<op, i>>
    <3>1. op \in {"create", "undo"}
      BY <1>4, <2>3
    <3> QED BY <2>2, <3>1
  <2>4. CASE k - 1 \in 1..Len(s) /\ t[k] = s[k - 1]
    <3>1. k - 1 < l - 1
      BY <1>4, <2>1
    <3> QED BY <1>4, <2>2, <2>4, <3>1 DEF CFrames
  <2> QED BY <1>1, <2>3, <2>4
<1>5. ASSUME NEW k \in 1..Len(t), t[k][1] \in {"destroy", "free", "infofree"}, k + 1 \in 1..Len(t)
      PROVE  t[k + 1][1] # "create"
  <2>1. k \in Int /\ k + 1 # 1 /\ (k + 1) - 1 = k
    OBVIOUS
  <2>2. k \in 1..Len(s) /\ t[k + 1] = s[k]
    BY <1>1, <1>5, <2>1
  <2>3. CASE k = 1 /\ t[k] = <<op, i>>
    <3>1. s # <<>>
      BY <1>2, <2>2
    <3>2. op \in {"destroy", "free", "infofree"}
      BY <1>5, <2>3
    <3> QED BY <2>2, <2>3, <3>1, <3>2
  <2>4. CASE k - 1 \in 1..Len(s) /\ t[k] = s[k - 1]
    <3>1. (k - 1) + 1 = k
      BY <2>1
    <3> QED BY <1>5, <2>2, <2>4, <3>1 DEF CFrames
  <2> QED BY <1>1, <2>3, <2>4
<1> QED BY <1>3, <1>4, <1>5 DEF CFrames, t

\* A pop keeps creations on nodes that do not exist, below nothing taken down.
LEMMA CFramesPop ==
  ASSUME NEW s \in Seq(Frames), s # <<>>, NEW h, CFrames(s, h)
  PROVE  /\ CFrames(Tail(s), h)
         /\ s[1][1] \in {"create", "undo"} => \A k \in 1..Len(Tail(s)) : Tail(s)[k][1] = "create"
         /\ s[1][1] \in {"destroy", "free", "infofree"} /\ Tail(s) # <<>> => Tail(s)[1][1] # "create"
<1> DEFINE t == Tail(s)
<1>1. Len(s) \in Nat /\ Len(s) >= 1 /\ Len(t) = Len(s) - 1 /\ t \in Seq(Frames)
  BY PopFacts
<1>2. ASSUME NEW k \in 1..Len(t)
      PROVE  k + 1 \in 1..Len(s) /\ t[k] = s[k + 1] /\ k \in Int /\ 1 < k + 1
  BY <1>1, PopFacts
<1>3. 1 \in 1..Len(s)
  BY <1>1
<1>4. t # <<>> => 1 \in 1..Len(t)
  BY <1>1
<1> HIDE DEF t
<1>5. \A k \in 1..Len(t) : t[k][1] \in {"create", "undo"} => t[k][2] \notin h
  BY <1>2 DEF CFrames
<1>6. ASSUME NEW k \in 1..Len(t), NEW l \in 1..Len(t), k < l, t[k][1] \in {"create", "undo"}
      PROVE  t[l][1] = "create"
  <2>1. k + 1 < l + 1
    BY <1>2, <1>6
  <2> QED BY <1>2, <1>6, <2>1 DEF CFrames
<1>7. ASSUME NEW k \in 1..Len(t), t[k][1] \in {"destroy", "free", "infofree"}, k + 1 \in 1..Len(t)
      PROVE  t[k + 1][1] # "create"
  BY <1>2, <1>7 DEF CFrames
<1>8. ASSUME s[1][1] \in {"create", "undo"}, NEW k \in 1..Len(t)
      PROVE  t[k][1] = "create"
  BY <1>2, <1>3, <1>8 DEF CFrames
<1>9. ASSUME s[1][1] \in {"destroy", "free", "infofree"}, t # <<>>
      PROVE  t[1][1] # "create"
  <2>1. 1 + 1 \in 1..Len(s) /\ t[1] = s[1 + 1]
    BY <1>2, <1>4, <1>9
  <2> QED BY <1>3, <1>9, <2>1 DEF CFrames
<1> QED BY <1>5, <1>6, <1>7, <1>8, <1>9 DEF CFrames, t
-----------------------------------------------------------------------------
(* Loops in the needed trees *)

\* Everything an info needs is an info.
LEMMA NeedsType ==
  ASSUME TypeOK, NEW x
  PROVE  Needs(x) \subseteq Infos
BY DEF TypeOK, Needs, Cells

\* No info needs itself exactly when each has a closed set of infos that
\* contains what it needs and not itself.
LEMMA AcyclicSets ==
  Acyclic <=> \A x \in Infos : \E S \in SUBSET Infos :
                 NeedsClosed(S) /\ Needs(x) \subseteq S /\ x \notin S
BY DEF Acyclic, IsNodeNeededBy

\* What a needed info needs is needed as well.
LEMMA NeededTransitive ==
  ASSUME NEW x, NEW y, NEW z, IsNodeNeededBy(x, y), z \in Needs(y)
  PROVE  IsNodeNeededBy(x, z)
BY DEF IsNodeNeededBy, NeedsClosed

\* What is in an info's own list is needed by it.
LEMMA NeededDirect ==
  ASSUME NEW x, NEW z \in Needs(x)
  PROVE  IsNodeNeededBy(x, z)
BY DEF IsNodeNeededBy

\* Removing list entries closes no loop.
LEMMA AcyclicShrink ==
  ASSUME Acyclic, cells' \subseteq cells
  PROVE  Acyclic'
<1>1. \A x : Needs(x)' \subseteq Needs(x)
  BY DEF Needs
<1>2. \A x \in Infos : \E S \in SUBSET Infos :
        NeedsClosed(S)' /\ Needs(x)' \subseteq S /\ x \notin S
  <2>1. ASSUME NEW x \in Infos
        PROVE  \E S \in SUBSET Infos : NeedsClosed(S)' /\ Needs(x)' \subseteq S /\ x \notin S
    <3>1. PICK S \in SUBSET Infos : NeedsClosed(S) /\ Needs(x) \subseteq S /\ x \notin S
      BY AcyclicSets
    <3>2. NeedsClosed(S)'
      BY <1>1, <3>1 DEF NeedsClosed
    <3> QED BY <1>1, <3>1, <3>2
  <2> QED BY <2>1
<1> QED BY <1>2 DEF Acyclic, IsNodeNeededBy

\* An entry in the context's own list is not one of a needed tree.
LEMMA AcyclicOwned ==
  ASSUME Acyclic, NEW c, c[1] = Owned, cells' = cells \cup {c}
  PROVE  Acyclic'
<1>1. \A x \in Infos : Needs(x)' = Needs(x)
  BY ConstantsAssumption DEF Needs
<1>2. \A S \in SUBSET Infos : NeedsClosed(S)' <=> NeedsClosed(S)
  BY <1>1 DEF NeedsClosed
<1> QED BY <1>1, <1>2 DEF Acyclic, IsNodeNeededBy

\* The check of xnAddNeededNode: an entry for b in a's list closes no loop
\* when b is not a and does not need a.
LEMMA AcyclicAdd ==
  ASSUME TypeOK, Acyclic, NEW a \in Infos, NEW b \in Infos, a # b, ~IsNodeNeededBy(b, a),
         NEW c, c[1] = a, c[2] = b, cells' = cells \cup {c}
  PROVE  Acyclic'
<1>1. Needs(a)' = Needs(a) \cup {b} /\ \A x : x # a => Needs(x)' = Needs(x)
  BY DEF Needs
<1>2. PICK T \in SUBSET Infos : NeedsClosed(T) /\ Needs(b) \subseteq T /\ a \notin T
  BY DEF IsNodeNeededBy
<1> DEFINE B == T \cup {b}
<1>3. B \in SUBSET Infos /\ NeedsClosed(B) /\ a \notin B /\ b \in B
  BY <1>2 DEF NeedsClosed
<1> HIDE DEF B
<1>4. ASSUME NEW x \in Infos
      PROVE  \E S \in SUBSET Infos : NeedsClosed(S)' /\ Needs(x)' \subseteq S /\ x \notin S
  <2>1. PICK S \in SUBSET Infos : NeedsClosed(S) /\ Needs(x) \subseteq S /\ x \notin S
    BY AcyclicSets
  <2>2. CASE x \notin B
    <3>1. NeedsClosed(S \cup B)'
      BY <1>1, <1>3, <2>1 DEF NeedsClosed
    <3>2. Needs(x)' \subseteq S \cup B
      BY <1>1, <1>3, <2>1
    <3> QED BY <1>3, <2>1, <2>2, <3>1, <3>2
  <2>3. CASE x \in B
    <3>1. NeedsClosed(S \cap B)'
      BY <1>1, <1>3, <2>1 DEF NeedsClosed
    <3>2. Needs(x)' \subseteq S \cap B
      BY <1>1, <1>3, <2>1, <2>3 DEF NeedsClosed
    <3> QED BY <2>1, <3>1, <3>2
  <2> QED BY <2>2, <2>3
<1> QED BY <1>4 DEF Acyclic, IsNodeNeededBy

\* A new info closes no loop: no list points to it yet.
LEMMA AcyclicNew ==
  ASSUME TypeOK, Acyclic, NEW i \in Infos, NEW C, cells' = cells \cup C,
         \A c \in cells : c[2] # i,
         \A c \in C : c[1] = i /\ c[2] # i /\ c[2] \in Infos
  PROVE  Acyclic'
<1>1. \A x : i \notin Needs(x)' /\ (x # i => Needs(x)' = Needs(x))
  BY DEF Needs
<1>2. \A x : Needs(x)' \subseteq Infos
  <2>1. \A x : Needs(x) \subseteq Infos
    BY NeedsType
  <2> QED BY <2>1 DEF Needs
<1>3. ASSUME NEW x \in Infos
      PROVE  \E S \in SUBSET Infos : NeedsClosed(S)' /\ Needs(x)' \subseteq S /\ x \notin S
  <2>1. CASE x = i
    <3>1. NeedsClosed(Infos \ {i})'
      BY <1>1, <1>2 DEF NeedsClosed
    <3>2. Needs(x)' \subseteq Infos \ {i}
      BY <1>1, <1>2
    <3> QED BY <2>1, <3>1, <3>2
  <2>2. CASE x # i
    <3>1. PICK S \in SUBSET Infos : NeedsClosed(S) /\ Needs(x) \subseteq S /\ x \notin S
      BY AcyclicSets
    <3>2. NeedsClosed(S \ {i})'
      BY <1>1, <3>1 DEF NeedsClosed
    <3>3. Needs(x)' \subseteq S \ {i}
      BY <1>1, <2>2, <3>1
    <3> QED BY <3>1, <3>2, <3>3
  <2> QED BY <2>1, <2>2
<1> QED BY <1>3 DEF Acyclic, IsNodeNeededBy

-----------------------------------------------------------------------------
(* How the steps change the counts *)

\* A counted entry that goes takes its reference with it; there was one.
LEMMA CountedDrop ==
  ASSUME TypeOK, NodesCounted, NEW c \in held, held' = held \ {c},
         UNCHANGED <<user, lost>>
  PROVE  /\ nRef[c[2]] > 0
         /\ nRef' = [nRef EXCEPT ![c[2]] = @ - 1] => NodesCounted'
<1>1. held \in SUBSET Cells /\ c[2] \in Infos
  BY DEF TypeOK, Cells
<1>2. ASSUME NEW j \in Infos
      PROVE  /\ Cardinality(HeldTo(j)) \in Nat
             /\ j = c[2] => Cardinality(HeldTo(j)) > 0 /\ Cardinality(HeldTo(j)') = Cardinality(HeldTo(j)) - 1
             /\ j # c[2] => Cardinality(HeldTo(j)') = Cardinality(HeldTo(j))
  BY <1>1, CountRemove DEF HeldTo
<1>3. \A j \in Infos : /\ user[j] \in Nat /\ lost[j] \in Nat /\ nRef[j] \in Nat
                       /\ nRef[j] = user[j] + Cardinality(HeldTo(j)) + lost[j]
  BY DEF TypeOK, NodesCounted
<1>4. nRef[c[2]] > 0
  BY <1>1, <1>2, <1>3
<1>5. ASSUME nRef' = [nRef EXCEPT ![c[2]] = @ - 1], NEW j \in Infos
      PROVE  nRef'[j] = user'[j] + Cardinality(HeldTo(j)') + lost'[j]
  <2>1. nRef'[j] = IF j = c[2] THEN nRef[j] - 1 ELSE nRef[j]
    BY <1>5 DEF TypeOK
  <2>2. CASE j = c[2]
    BY <1>2, <1>3, <2>1, <2>2
  <2>3. CASE j # c[2]
    BY <1>2, <1>3, <2>1, <2>3
  <2> QED BY <2>2, <2>3
<1> QED BY <1>4, <1>5 DEF NodesCounted

\* A new counted entry comes with a reference.
LEMMA CountedHold ==
  ASSUME TypeOK, NodesCounted, NEW c \in Cells, c \notin held, held' = held \cup {c},
         nRef' = [nRef EXCEPT ![c[2]] = @ + 1], UNCHANGED <<user, lost>>
  PROVE  NodesCounted'
<1>1. held \in SUBSET Cells /\ c[2] \in Infos
  BY DEF TypeOK, Cells
<1>2. ASSUME NEW j \in Infos
      PROVE  /\ Cardinality(HeldTo(j)) \in Nat
             /\ j = c[2] => Cardinality(HeldTo(j)') = Cardinality(HeldTo(j)) + 1
             /\ j # c[2] => Cardinality(HeldTo(j)') = Cardinality(HeldTo(j))
  <2>1. HeldTo(j) = {d \in held : d[2] = j} /\ HeldTo(j)' = {d \in held \cup {c} : d[2] = j}
    BY DEF HeldTo
  <2>2. /\ Cardinality({d \in held : d[2] = j}) \in Nat
        /\ c[2] = j => Cardinality({d \in held \cup {c} : d[2] = j}) = Cardinality({d \in held : d[2] = j}) + 1
        /\ c[2] # j => Cardinality({d \in held \cup {c} : d[2] = j}) = Cardinality({d \in held : d[2] = j})
    BY <1>1, CountAdd
  <2> QED BY <2>1, <2>2
<1>3. \A j \in Infos : /\ user[j] \in Nat /\ lost[j] \in Nat /\ nRef[j] \in Nat
                       /\ nRef[j] = user[j] + Cardinality(HeldTo(j)) + lost[j]
  BY DEF TypeOK, NodesCounted
<1>4. ASSUME NEW j \in Infos
      PROVE  nRef'[j] = user'[j] + Cardinality(HeldTo(j)') + lost'[j]
  <2>1. nRef'[j] = IF j = c[2] THEN nRef[j] + 1 ELSE nRef[j]
    BY DEF TypeOK
  <2>2. CASE j = c[2]
    BY <1>2, <1>3, <2>1, <2>2
  <2>3. CASE j # c[2]
    BY <1>2, <1>3, <2>1, <2>3
  <2> QED BY <2>2, <2>3
<1> QED BY <1>4 DEF NodesCounted

\* The application takes, or xnPlayRecording loses, a reference.
LEMMA CountedTake ==
  ASSUME TypeOK, NodesCounted, NEW i \in Infos, held' = held,
         nRef' = [nRef EXCEPT ![i] = @ + 1],
         \/ user' = [user EXCEPT ![i] = @ + 1] /\ lost' = lost
         \/ lost' = [lost EXCEPT ![i] = @ + 1] /\ user' = user
  PROVE  NodesCounted'
<1>1. ASSUME NEW j \in Infos
      PROVE  nRef'[j] = user'[j] + Cardinality(HeldTo(j)') + lost'[j]
  <2>1. HeldTo(j)' = HeldTo(j)
    BY DEF HeldTo
  <2>2. Cardinality(HeldTo(j)) \in Nat
    <3>1. held \in SUBSET Cells
      BY DEF TypeOK
    <3> QED BY <3>1, CountZero DEF HeldTo
  <2>3. /\ user[j] \in Nat /\ lost[j] \in Nat /\ nRef[j] \in Nat
        /\ nRef[j] = user[j] + Cardinality(HeldTo(j)) + lost[j]
    BY DEF TypeOK, NodesCounted
  <2>4. nRef'[j] = IF j = i THEN nRef[j] + 1 ELSE nRef[j]
    BY DEF TypeOK
  <2>5. Cardinality(HeldTo(j)') = Cardinality(HeldTo(j))
    BY <2>1
  <2>6. CASE user' = [user EXCEPT ![i] = @ + 1] /\ lost' = lost
    <3>1. user'[j] = (IF j = i THEN user[j] + 1 ELSE user[j]) /\ lost'[j] = lost[j]
      BY <2>6 DEF TypeOK
    <3> QED BY <2>2, <2>3, <2>4, <2>5, <3>1
  <2>7. CASE lost' = [lost EXCEPT ![i] = @ + 1] /\ user' = user
    <3>1. lost'[j] = (IF j = i THEN lost[j] + 1 ELSE lost[j]) /\ user'[j] = user[j]
      BY <2>7 DEF TypeOK
    <3> QED BY <2>2, <2>3, <2>4, <2>5, <3>1
  <2> QED BY <2>6, <2>7
<1> QED BY <1>1 DEF NodesCounted

\* The application gives a reference back.
LEMMA CountedGive ==
  ASSUME TypeOK, NodesCounted, NEW i \in Infos, user[i] > 0, held' = held,
         user' = [user EXCEPT ![i] = @ - 1], lost' = lost
  PROVE  /\ nRef[i] > 0
         /\ nRef' = [nRef EXCEPT ![i] = @ - 1] => NodesCounted'
<1>1. \A j \in Infos : HeldTo(j)' = HeldTo(j) /\ Cardinality(HeldTo(j)) \in Nat
  BY CountZero DEF HeldTo, TypeOK
<1>2. \A j \in Infos : /\ user[j] \in Nat /\ lost[j] \in Nat /\ nRef[j] \in Nat
                       /\ nRef[j] = user[j] + Cardinality(HeldTo(j)) + lost[j]
  BY DEF TypeOK, NodesCounted
<1>3. nRef[i] > 0
  BY <1>1, <1>2
<1>4. ASSUME nRef' = [nRef EXCEPT ![i] = @ - 1], NEW j \in Infos
      PROVE  nRef'[j] = user'[j] + Cardinality(HeldTo(j)') + lost'[j]
  <2>1. nRef'[j] = IF j = i THEN nRef[j] - 1 ELSE nRef[j]
    BY <1>4 DEF TypeOK
  <2>2. user'[j] = IF j = i THEN user[j] - 1 ELSE user[j]
    BY DEF TypeOK
  <2>3. lost'[j] = lost[j] /\ Cardinality(HeldTo(j)') = Cardinality(HeldTo(j))
    BY <1>1
  <2>4. Cardinality(HeldTo(j)) \in Nat
    BY <1>1
  <2> QED BY <1>2, <2>1, <2>2, <2>3, <2>4
<1> QED BY <1>3, <1>4 DEF NodesCounted

\* Nothing a node's count depends on changes.
LEMMA CountedSame ==
  ASSUME NodesCounted, UNCHANGED <<nRef, user, held, lost>>
  PROVE  NodesCounted'
BY DEF NodesCounted, HeldTo

\* A new list entry references its info.
LEMMA InfoEntryAdd ==
  ASSUME TypeOK, InfoRefExact, NEW c \in Cells, c \notin cells, cells' = cells \cup {c},
         infoRef' = [infoRef EXCEPT ![c[2]] = @ + 1], UNCHANGED <<userInfo, hNode>>
  PROVE  InfoRefExact'
<1>1. cells \in SUBSET Cells /\ c[2] \in Infos
  BY DEF TypeOK, Cells
<1>2. ASSUME NEW j \in Infos
      PROVE  /\ Cardinality(CellsTo(j)) \in Nat
             /\ j = c[2] => Cardinality(CellsTo(j)') = Cardinality(CellsTo(j)) + 1
             /\ j # c[2] => Cardinality(CellsTo(j)') = Cardinality(CellsTo(j))
  <2>1. CellsTo(j) = {d \in cells : d[2] = j} /\ CellsTo(j)' = {d \in cells \cup {c} : d[2] = j}
    BY DEF CellsTo
  <2>2. /\ Cardinality({d \in cells : d[2] = j}) \in Nat
        /\ c[2] = j => Cardinality({d \in cells \cup {c} : d[2] = j}) = Cardinality({d \in cells : d[2] = j}) + 1
        /\ c[2] # j => Cardinality({d \in cells \cup {c} : d[2] = j}) = Cardinality({d \in cells : d[2] = j})
    BY <1>1, CountAdd
  <2> QED BY <2>1, <2>2
<1>3. ASSUME NEW j \in Infos
      PROVE  infoRef'[j] = userInfo'[j] + Cardinality(CellsTo(j)') + (IF j \in hNode' THEN 1 ELSE 0)
  <2> DEFINE h == IF j \in hNode THEN 1 ELSE 0
  <2>1. /\ userInfo[j] \in Nat /\ h \in Nat /\ infoRef[j] \in Int
        /\ infoRef[j] = userInfo[j] + Cardinality(CellsTo(j)) + h
    BY DEF TypeOK, InfoRefExact
  <2>2. infoRef'[j] = IF j = c[2] THEN infoRef[j] + 1 ELSE infoRef[j]
    BY DEF TypeOK
  <2> HIDE DEF h
  <2>3. infoRef'[j] = userInfo[j] + Cardinality(CellsTo(j)') + h
    <3>1. CASE j = c[2]
      BY <1>2, <2>1, <2>2, <3>1
    <3>2. CASE j # c[2]
      BY <1>2, <2>1, <2>2, <3>2
    <3> QED BY <3>1, <3>2
  <2> QED BY <2>3 DEF h
<1> QED BY <1>3 DEF InfoRefExact

\* A list entry that goes drops its reference; there was one.
LEMMA InfoEntryRemove ==
  ASSUME TypeOK, InfoRefExact, NEW c \in cells, cells' = cells \ {c},
         infoRef' = [infoRef EXCEPT ![c[2]] = @ - 1], UNCHANGED <<userInfo, hNode>>
  PROVE  InfoRefExact'
<1>1. cells \in SUBSET Cells /\ c[2] \in Infos
  BY DEF TypeOK, Cells
<1>2. ASSUME NEW j \in Infos
      PROVE  /\ Cardinality(CellsTo(j)) \in Nat
             /\ j = c[2] => Cardinality(CellsTo(j)') = Cardinality(CellsTo(j)) - 1
             /\ j # c[2] => Cardinality(CellsTo(j)') = Cardinality(CellsTo(j))
  BY <1>1, CountRemove DEF CellsTo
<1>3. ASSUME NEW j \in Infos
      PROVE  infoRef'[j] = userInfo'[j] + Cardinality(CellsTo(j)') + (IF j \in hNode' THEN 1 ELSE 0)
  <2> DEFINE h == IF j \in hNode THEN 1 ELSE 0
  <2>1. /\ userInfo[j] \in Nat /\ h \in Nat /\ infoRef[j] \in Int
        /\ infoRef[j] = userInfo[j] + Cardinality(CellsTo(j)) + h
    BY DEF TypeOK, InfoRefExact
  <2>2. infoRef'[j] = IF j = c[2] THEN infoRef[j] - 1 ELSE infoRef[j]
    BY DEF TypeOK
  <2> HIDE DEF h
  <2>3. infoRef'[j] = userInfo[j] + Cardinality(CellsTo(j)') + h
    <3>1. CASE j = c[2]
      BY <1>2, <2>1, <2>2, <3>1
    <3>2. CASE j # c[2]
      BY <1>2, <2>1, <2>2, <3>2
    <3> QED BY <3>1, <3>2
  <2> QED BY <2>3 DEF h
<1> QED BY <1>3 DEF InfoRefExact

\* A node is created or destroyed: its info gains or loses one reference.
LEMMA InfoNodeChange ==
  ASSUME TypeOK, InfoRefExact, NEW i \in Infos, UNCHANGED <<userInfo, cells>>,
         \/ i \notin hNode /\ hNode' = hNode \cup {i} /\ infoRef' = [infoRef EXCEPT ![i] = @ + 1]
         \/ i \in hNode /\ hNode' = hNode \ {i} /\ infoRef' = [infoRef EXCEPT ![i] = @ - 1]
  PROVE  InfoRefExact'
<1>1. ASSUME NEW j \in Infos
      PROVE  infoRef'[j] = userInfo'[j] + Cardinality(CellsTo(j)') + (IF j \in hNode' THEN 1 ELSE 0)
  <2> DEFINE h == IF j \in hNode THEN 1 ELSE 0
             g == IF j \in hNode' THEN 1 ELSE 0
             n == Cardinality(CellsTo(j))
  <2>1. Cardinality(CellsTo(j)') = n /\ n \in Nat
    <3>1. cells \in SUBSET Cells
      BY DEF TypeOK
    <3> QED BY <3>1, CountZero DEF CellsTo
  <2>2. /\ userInfo[j] \in Nat /\ infoRef[j] \in Int /\ h \in Int /\ g \in Int
        /\ infoRef[j] = userInfo[j] + n + h
    BY DEF TypeOK, InfoRefExact
  <2>3. \/ j = i /\ h = 0 /\ g = 1 /\ infoRef'[j] = infoRef[j] + 1
        \/ j = i /\ h = 1 /\ g = 0 /\ infoRef'[j] = infoRef[j] - 1
        \/ j # i /\ h = g /\ infoRef'[j] = infoRef[j]
    <3>1. CASE i \notin hNode /\ hNode' = hNode \cup {i} /\ infoRef' = [infoRef EXCEPT ![i] = @ + 1]
      BY <3>1 DEF TypeOK
    <3>2. CASE i \in hNode /\ hNode' = hNode \ {i} /\ infoRef' = [infoRef EXCEPT ![i] = @ - 1]
      BY <3>2 DEF TypeOK
    <3> QED BY <3>1, <3>2
  <2> HIDE DEF h, g, n
  <2>4. infoRef'[j] = userInfo[j] + n + g
    BY <2>1, <2>2, <2>3
  <2> QED BY <2>1, <2>4 DEF g
<1> QED BY <1>1 DEF InfoRefExact

\* The application takes or gives back references on infos.
LEMMA InfoUserChange ==
  ASSUME TypeOK, InfoRefExact, UNCHANGED <<cells, hNode>>,
         \A j \in Infos : infoRef'[j] - infoRef[j] = userInfo'[j] - userInfo[j]
                          /\ infoRef'[j] \in Int /\ userInfo'[j] \in Int
  PROVE  InfoRefExact'
<1>1. ASSUME NEW j \in Infos
      PROVE  infoRef'[j] = userInfo'[j] + Cardinality(CellsTo(j)') + (IF j \in hNode' THEN 1 ELSE 0)
  <2> DEFINE h == IF j \in hNode THEN 1 ELSE 0
             n == Cardinality(CellsTo(j))
  <2>1. Cardinality(CellsTo(j)') = n /\ n \in Nat
    <3>1. cells \in SUBSET Cells
      BY DEF TypeOK
    <3> QED BY <3>1, CountZero DEF CellsTo
  <2>2. /\ userInfo[j] \in Nat /\ infoRef[j] \in Int /\ h \in Int
        /\ infoRef[j] = userInfo[j] + n + h
    BY DEF TypeOK, InfoRefExact
  <2> HIDE DEF h, n
  <2>3. infoRef'[j] = userInfo'[j] + n + h
    BY <2>1, <2>2
  <2> QED BY <2>1, <2>3 DEF h
<1> QED BY <1>1 DEF InfoRefExact

\* Nothing an info's count depends on changes.
LEMMA InfoSame ==
  ASSUME InfoRefExact, UNCHANGED <<infoRef, userInfo, cells, hNode>>
  PROVE  InfoRefExact'
BY DEF InfoRefExact, CellsTo

-----------------------------------------------------------------------------
(* How the steps change the call stack *)

\* Between two calls every existing node is counted.
LEMMA IdleFacts ==
  ASSUME GoodGraph, Idle
  PROVE  /\ stack = <<>> /\ stack \in Seq(Frames) /\ Depth = {} /\ ~Running("create")
         /\ \A i \in hNode : nRef[i] # 0
BY DEF GoodGraph, Idle, UncountedDying, Depth, Running

\* A call that returns at once and drops no count to 0 leaves no frame.
LEMMA IdleKeeps ==
  ASSUME stack' = <<>>, \A i \in hNode' : nRef'[i] # 0
  PROVE  UncountedDying' /\ DestroyFrames' /\ CreateFrames'
BY DEF UncountedDying, DestroyFrames, CreateFrames, Depth, Running

\* Nothing these parts depend on changes.
LEMMA StackSame ==
  ASSUME UncountedDying, DestroyFrames, CreateFrames, UNCHANGED <<stack, hNode, nRef>>,
         ~Running("create") \/ cells' = cells
  PROVE  UncountedDying' /\ DestroyFrames' /\ CreateFrames'
<1>1. UncountedDying'
  BY DEF UncountedDying, Depth
<1>2. DestroyFrames'
  BY DEF DestroyFrames, Depth
<1>3. cells' = cells => \A x, y \in Infos : IsNodeNeededBy(x, y)' <=> IsNodeNeededBy(x, y)
  BY DEF IsNodeNeededBy, NeedsClosed, Needs
<1>4. Running("create")' <=> Running("create")
  BY DEF Running, Top
<1>5. CFrames(stack, hNode)'
  BY FramesDef DEF CFrames
<1>6. Running("create")' => Chain'
  BY <1>4, FramesDef DEF Chain, Depth, IsNodeNeededBy, NeedsClosed, Needs
<1> QED BY <1>1, <1>2, <1>5, <1>6 DEF DestroyFrames, CreateFrames, CFrames, Chain, Depth

\* Releasing a counted node: at 0 it leaves the map and its destruction starts.
LEMMA ReleaseKeeps ==
  ASSUME TypeOK, DeadUncounted, UncountedDying, DestroyFrames, CreateFrames, MapCounted,
         ~Running("create"), NEW i \in Infos, nRef[i] > 0, ReleaseNode(i, stack), hNode' = hNode
  PROVE  /\ nRef' = [nRef EXCEPT ![i] = @ - 1]
         /\ DeadUncounted' /\ UncountedDying' /\ DestroyFrames' /\ CreateFrames' /\ MapCounted'
<1>1. /\ nRef' = [nRef EXCEPT ![i] = @ - 1]
      /\ nRef[i] \in Nat /\ nRef[i] # 0
      /\ stack \in Seq(Frames)
  BY DEF ReleaseNode, TypeOK
<1>2. \A j \in Infos : nRef'[j] = IF j = i THEN nRef[i] - 1 ELSE nRef[j]
  BY <1>1 DEF TypeOK
<1>3. i \in hNode
  BY <1>1 DEF DeadUncounted
<1>4. DeadUncounted'
  BY <1>2, <1>3 DEF DeadUncounted
<1>5. \A k \in Depth : stack[k] # <<"destroy", i>>
  BY <1>1 DEF DestroyFrames, Depth
<1>6. DFrames(stack, hNode, nRef')
  <2>1. \A k \in 1..Len(stack) : stack[k] \in Frames /\ stack[k][2] \in Infos
    BY <1>1, FrameFacts
  <2>2. \A k \in 1..Len(stack) : stack[k][1] = "destroy" => stack[k][2] # i
    BY <1>1 DEF DestroyFrames, Depth
  <2> QED BY <1>2, <2>1, <2>2, FramesDef DEF DFrames
<1>7. CFrames(stack, hNode) /\ (stack # <<>> => stack[1][1] # "create")
  BY FramesDef DEF Running, Top
<1>8. CASE nRef[i] = 1
  <2>1. stack' = Push("destroy", i, stack) /\ nodesMap' = Unmapped(i) /\ nRef'[i] = 0
    BY <1>2, <1>8 DEF ReleaseNode
  <2>2. DFrames(stack', hNode, nRef')
    BY <1>1, <1>3, <1>5, <1>6, <2>1, DFramesPush DEF Ops, Depth
  <2>3. CFrames(stack', hNode)
    BY <1>1, <1>7, <2>1, CFramesPush DEF Ops
  <2>4. stack'[1] = <<"destroy", i>> /\ Len(stack') = Len(stack) + 1 /\ Len(stack) \in Nat
        /\ \A k \in 1..Len(stack) : stack'[k + 1] = stack[k]
    <3>1. "destroy" \in Ops /\ Len(stack) \in Nat
      BY <1>1 DEF Ops
    <3> QED BY <1>1, <2>1, <3>1, PushFacts
  <2>5. ~Running("create")'
    BY <2>4 DEF Running, Top
  <2>6. UncountedDying'
    <3>1. ASSUME NEW j \in hNode, nRef'[j] = 0
          PROVE  \E k \in 1..Len(stack') : stack'[k] = <<"destroy", j>>
      <4>1. CASE j = i
        <5>1. 1 \in 1..Len(stack')
          BY <2>4
        <5> QED BY <2>4, <4>1, <5>1
      <4>2. CASE j # i
        <5>1. j \in Infos
          BY DEF TypeOK
        <5>2. PICK k \in 1..Len(stack) : stack[k] = <<"destroy", j>>
          BY <1>2, <3>1, <4>2, <5>1 DEF UncountedDying, Depth
        <5>3. k + 1 \in 1..Len(stack')
          BY <2>4
        <5> QED BY <2>4, <5>2, <5>3
      <4> QED BY <4>1, <4>2
    <3> QED BY <3>1 DEF UncountedDying, Depth
  <2>7. MapCounted'
    <3>1. \A j \in nodesMap' : j \in nodesMap /\ j # i /\ j \in Infos
      BY <2>1 DEF Unmapped, TypeOK
    <3> QED BY <1>2, <3>1 DEF MapCounted
  <2> QED BY <1>1, <1>4, <2>2, <2>3, <2>5, <2>6, <2>7
          DEF DFrames, CFrames, DestroyFrames, CreateFrames, Depth
<1>9. CASE nRef[i] # 1
  <2>1. stack' = stack /\ nodesMap' = nodesMap /\ nRef'[i] > 0
    BY <1>1, <1>2, <1>9 DEF ReleaseNode
  <2>2. UncountedDying'
    <3>1. ASSUME NEW j \in hNode, nRef'[j] = 0
          PROVE  \E k \in 1..Len(stack) : stack[k] = <<"destroy", j>>
      <4>1. j \in Infos /\ j # i
        BY <2>1, <3>1 DEF TypeOK
      <4> QED BY <1>2, <3>1, <4>1 DEF UncountedDying, Depth
    <3> QED BY <2>1, <3>1 DEF UncountedDying, Depth
  <2>3. MapCounted'
    <3>1. \A j \in nodesMap : j \in Infos
      BY DEF TypeOK
    <3> QED BY <1>2, <2>1, <3>1 DEF MapCounted
  <2>4. ~Running("create")'
    BY <2>1 DEF Running, Top
  <2> QED BY <1>1, <1>4, <1>6, <1>7, <2>1, <2>2, <2>3, <2>4
          DEF DFrames, CFrames, DestroyFrames, CreateFrames, Depth
<1> QED BY <1>8, <1>9

\* Freeing an info: at 0 its list is taken down on top of the stack s.
LEMMA FreeInfoFrames ==
  ASSUME NEW i \in Infos, NEW s \in Seq(Frames), NEW h, NEW r,
         DFrames(s, h, r), CFrames(s, h), s # <<>> => s[1][1] # "create",
         FreeInfo(i, s)
  PROVE  /\ DFrames(stack', h, r) /\ CFrames(stack', h)
         /\ stack' # <<>> => stack'[1][1] # "create"
         /\ \A k \in 1..Len(s) : \E l \in 1..Len(stack') : stack'[l] = s[k]
<1>1. CASE stack' = s
  BY <1>1
<1>2. CASE stack' = Push("infofree", i, s)
  <2>1. stack'[1] = <<"infofree", i>> /\ Len(stack') = Len(s) + 1 /\ Len(s) \in Nat
        /\ \A k \in 1..Len(s) : stack'[k + 1] = s[k]
    <3>1. "infofree" \in Ops /\ Len(s) \in Nat
      BY DEF Ops
    <3> QED BY <1>2, <3>1, PushFacts
  <2>2. \A k \in 1..Len(s) : k + 1 \in 1..Len(stack')
    BY <2>1
  <2>3. DFrames(stack', h, r)
    BY <1>2, DFramesPush DEF Ops
  <2>4. CFrames(stack', h)
    BY <1>2, CFramesPush DEF Ops
  <2> QED BY <2>1, <2>2, <2>3, <2>4
<1> QED BY <1>1, <1>2 DEF FreeInfo

\* Freeing an info outside a creation keeps the stack invariants.
LEMMA FreeInfoKeeps ==
  ASSUME TypeOK, UncountedDying, DestroyFrames, CreateFrames, ~Running("create"),
         NEW i \in Infos, FreeInfo(i, stack), UNCHANGED <<hNode, nRef>>
  PROVE  UncountedDying' /\ DestroyFrames' /\ CreateFrames'
<1>1. stack \in Seq(Frames) /\ DFrames(stack, hNode, nRef) /\ CFrames(stack, hNode)
      /\ (stack # <<>> => stack[1][1] # "create")
  BY FramesDef DEF TypeOK, Running, Top
<1>2. /\ DFrames(stack', hNode, nRef) /\ CFrames(stack', hNode)
      /\ stack' # <<>> => stack'[1][1] # "create"
      /\ \A k \in 1..Len(stack) : \E l \in 1..Len(stack') : stack'[l] = stack[k]
  BY <1>1, FreeInfoFrames
<1>3. ~Running("create")'
  BY <1>2 DEF Running, Top
<1>4. UncountedDying'
  <2>1. ASSUME NEW j \in hNode, nRef[j] = 0
        PROVE  \E l \in 1..Len(stack') : stack'[l] = <<"destroy", j>>
    <3>1. PICK k \in 1..Len(stack) : stack[k] = <<"destroy", j>>
      BY <2>1 DEF UncountedDying, Depth
    <3> QED BY <1>2, <3>1
  <2> QED BY <2>1 DEF UncountedDying, Depth
<1> QED BY <1>2, <1>3, <1>4 DEF DFrames, CFrames, DestroyFrames, CreateFrames, Depth

-----------------------------------------------------------------------------
(* Calls that return at once *)

\* A frame pushed on the empty stack.
LEMMA OneFrame ==
  ASSUME NEW op \in Ops, NEW i \in Infos
  PROVE  /\ Len(Push(op, i, <<>>)) = 1
         /\ Push(op, i, <<>>)[1] = <<op, i>>
<1>1. Len(<<>>) = 0
  OBVIOUS
<1>2. Len(Push(op, i, <<>>)) = Len(<<>>) + 1 /\ Push(op, i, <<>>)[1] = <<op, i>>
  BY EmptyStack, PushFacts
<1> QED BY <1>1, <1>2

\* Nothing the invariant depends on changes.
LEMMA GraphSame ==
  ASSUME GoodGraph,
         UNCHANGED <<infoRef, cells, hNode, nRef, held, nodesMap, stack, user, userInfo, lost>>
  PROVE  GoodGraph'
<1>1. NodesCounted' /\ InfoRefExact'
  BY CountedSame, InfoSame DEF GoodGraph
<1>2. Acyclic'
  BY AcyclicShrink DEF GoodGraph
<1>3. DeadUncounted' /\ ListsCounted' /\ MapCounted'
  BY DEF GoodGraph, DeadUncounted, ListsCounted, MapCounted
<1>4. UncountedDying' /\ DestroyFrames' /\ CreateFrames'
  BY StackSame DEF GoodGraph
<1> QED BY <1>1, <1>2, <1>3, <1>4 DEF GoodGraph

\* Only the list entries and infos change, between two calls.
LEMMA IdleStack ==
  ASSUME GoodGraph, Idle, UNCHANGED <<stack, hNode, nRef>>
  PROVE  UncountedDying' /\ DestroyFrames' /\ CreateFrames'
<1>1. stack = <<>> /\ \A i \in hNode : nRef[i] # 0
  BY IdleFacts
<1> QED BY <1>1, IdleKeeps

\* A node the application or a list entry has a reference on exists.
LEMMA CountedExist ==
  ASSUME TypeOK, GoodGraph, NEW i \in Infos
  PROVE  /\ user[i] > 0 => nRef[i] > 0 /\ i \in hNode
         /\ \A c \in held : c[2] = i => nRef[i] > 0 /\ i \in hNode
<1>1. /\ user[i] \in Nat /\ lost[i] \in Nat /\ nRef[i] \in Nat
      /\ nRef[i] = user[i] + Cardinality(HeldTo(i)) + lost[i]
  BY DEF TypeOK, GoodGraph, NodesCounted
<1>2. /\ Cardinality(HeldTo(i)) \in Nat
      /\ Cardinality(HeldTo(i)) = 0 => \A d \in held : d[2] # i
  <2>1. held \in SUBSET Cells
    BY DEF TypeOK
  <2> QED BY <2>1, CountZero DEF HeldTo
<1>3. nRef[i] > 0 => i \in hNode
  BY DEF GoodGraph, DeadUncounted
<1>4. user[i] > 0 => nRef[i] > 0
  BY <1>1, <1>2
<1>5. \A c \in held : c[2] = i => nRef[i] > 0
  <2>1. ASSUME NEW c \in held, c[2] = i
        PROVE  Cardinality(HeldTo(i)) # 0
    BY <1>2, <2>1
  <2>2. Cardinality(HeldTo(i)) # 0 => nRef[i] > 0
    BY <1>1, <1>2
  <2> QED BY <2>1, <2>2
<1> QED BY <1>3, <1>4, <1>5

\* xnNodeInfoAllocate hands out an info nothing refers to.
LEMMA NodeInfoAllocateKeeps ==
  ASSUME TypeOK, GoodGraph, NEW i \in Infos, NEW needed \in SUBSET Infos,
         NodeInfoAllocate(i, needed)
  PROVE  GoodGraph'
<1> DEFINE C == {NewCell(i, n) : n \in needed}
<1>1. /\ Idle /\ infoRef[i] = 0 /\ \A n \in needed : userInfo[n] > 0 /\ HasRoom(i, n)
      /\ infoRef' = [j \in Infos |-> IF j = i THEN 1
                                     ELSE IF j \in needed THEN infoRef[j] + 1 ELSE infoRef[j]]
      /\ cells' = cells \cup C
      /\ userInfo' = [userInfo EXCEPT ![i] = 1]
      /\ UNCHANGED <<hNode, nRef, held, nodesMap, stack, user, lost>>
  BY DEF NodeInfoAllocate, CanCall, nodeVars
<1>2. \A n \in needed : /\ NewCell(i, n) \in Cells /\ NewCell(i, n) \notin cells
                        /\ NewCell(i, n)[1] = i /\ NewCell(i, n)[2] = n
  BY <1>1, NewCellFacts
<1>3. cells \in SUBSET Cells /\ \A j \in Infos : userInfo[j] \in Nat /\ infoRef[j] \in Int
  BY DEF TypeOK
<1>4. ASSUME NEW j \in Infos
      PROVE  /\ Cardinality(CellsTo(j)) \in Nat
             /\ Cardinality(CellsTo(j)) = 0 => \A d \in cells : d[2] # j
             /\ j \in needed => Cardinality(CellsTo(j)') = Cardinality(CellsTo(j)) + 1
             /\ j \notin needed => Cardinality(CellsTo(j)') = Cardinality(CellsTo(j))
  <2>1. /\ Cardinality(CellsTo(j)) \in Nat
        /\ Cardinality(CellsTo(j)) = 0 => \A d \in cells : d[2] # j
    BY <1>3, CountZero DEF CellsTo
  <2>2. CASE j \in needed
    <3> DEFINE c == NewCell(i, j)
    <3>1. c \in Cells /\ c \notin cells /\ c[2] = j
      BY <1>2, <2>2
    <3>2. CellsTo(j)' = {d \in cells \cup {c} : d[2] = j}
      BY <1>1, <1>2, <2>2 DEF CellsTo
    <3> HIDE DEF c
    <3>3. Cardinality({d \in cells \cup {c} : d[2] = j}) = Cardinality({d \in cells : d[2] = j}) + 1
      BY <1>3, <3>1, CountAdd
    <3> QED BY <2>1, <2>2, <3>2, <3>3 DEF CellsTo
  <2>3. CASE j \notin needed
    <3>1. CellsTo(j)' = CellsTo(j)
      BY <1>1, <1>2, <2>3 DEF CellsTo
    <3> QED BY <2>1, <2>3, <3>1
  <2> QED BY <2>2, <2>3
<1>5. \A j \in Infos : /\ j \in hNode => infoRef[j] = userInfo[j] + Cardinality(CellsTo(j)) + 1
                       /\ j \notin hNode => infoRef[j] = userInfo[j] + Cardinality(CellsTo(j))
  BY <1>3, <1>4 DEF GoodGraph, InfoRefExact
<1>6. i \notin hNode /\ userInfo[i] = 0 /\ Cardinality(CellsTo(i)) = 0
  BY <1>1, <1>3, <1>4, <1>5
<1>7. i \notin needed
  BY <1>1, <1>6
<1>8. InfoRefExact'
  <2>1. ASSUME NEW j \in Infos
        PROVE  infoRef'[j] = userInfo'[j] + Cardinality(CellsTo(j)') + (IF j \in hNode' THEN 1 ELSE 0)
    <3>1. /\ j = i => infoRef'[j] = 1 /\ userInfo'[j] = 1
          /\ j # i /\ j \in needed => infoRef'[j] = infoRef[j] + 1 /\ userInfo'[j] = userInfo[j]
          /\ j # i /\ j \notin needed => infoRef'[j] = infoRef[j] /\ userInfo'[j] = userInfo[j]
      BY <1>1 DEF TypeOK
    <3>2. /\ userInfo[j] \in Nat /\ infoRef[j] \in Int /\ Cardinality(CellsTo(j)) \in Nat
          /\ j \in needed => Cardinality(CellsTo(j)') = Cardinality(CellsTo(j)) + 1
          /\ j \notin needed => Cardinality(CellsTo(j)') = Cardinality(CellsTo(j))
      BY <1>3, <1>4
    <3>3. CASE j = i
      <4>1. infoRef'[j] = 1 /\ userInfo'[j] = 1 /\ Cardinality(CellsTo(j)') = 0 /\ j \notin hNode'
        BY <1>1, <1>6, <1>7, <3>1, <3>2, <3>3
      <4> QED BY <4>1
    <3>4. CASE j # i /\ j \in needed
      <4>1. j \in hNode => infoRef'[j] = userInfo'[j] + Cardinality(CellsTo(j)') + 1
        BY <1>5, <3>1, <3>2, <3>4
      <4>2. j \notin hNode => infoRef'[j] = userInfo'[j] + Cardinality(CellsTo(j)') + 0
        BY <1>5, <3>1, <3>2, <3>4
      <4> QED BY <1>1, <4>1, <4>2
    <3>5. CASE j # i /\ j \notin needed
      <4>1. j \in hNode => infoRef'[j] = userInfo'[j] + Cardinality(CellsTo(j)') + 1
        BY <1>5, <3>1, <3>2, <3>5
      <4>2. j \notin hNode => infoRef'[j] = userInfo'[j] + Cardinality(CellsTo(j)') + 0
        BY <1>5, <3>1, <3>2, <3>5
      <4> QED BY <1>1, <4>1, <4>2
    <3> QED BY <3>3, <3>4, <3>5
  <2> QED BY <2>1 DEF InfoRefExact
<1>9. Acyclic'
  <2>1. \A c \in cells : c[2] # i
    BY <1>4, <1>6
  <2>2. \A c \in C : c[1] = i /\ c[2] # i /\ c[2] \in Infos
    BY <1>2, <1>7
  <2> HIDE DEF C
  <2> QED BY <1>1, <2>1, <2>2, AcyclicNew DEF GoodGraph
<1>10. NodesCounted' /\ DeadUncounted' /\ MapCounted'
  BY <1>1, CountedSame DEF GoodGraph, DeadUncounted, MapCounted
<1>11. UncountedDying' /\ DestroyFrames' /\ CreateFrames'
  BY <1>1, IdleStack
<1>12. ListsCounted'
  <2>1. nRef[i] = 0
    BY <1>6 DEF GoodGraph, DeadUncounted
  <2> QED BY <1>1, <1>2, <2>1 DEF GoodGraph, ListsCounted
<1> QED BY <1>8, <1>9, <1>10, <1>11, <1>12 DEF GoodGraph

\* xnEnumerateExistingNodes references the infos it lists, for the caller.
LEMMA EnumerateKeeps ==
  ASSUME TypeOK, GoodGraph, EnumerateExistingNodes
  PROVE  GoodGraph'
<1>1. /\ infoRef' = [i \in Infos |-> IF i \in nodesMap THEN infoRef[i] + 1 ELSE infoRef[i]]
      /\ userInfo' = [i \in Infos |-> IF i \in nodesMap THEN userInfo[i] + 1 ELSE userInfo[i]]
      /\ UNCHANGED <<cells, hNode, nRef, held, nodesMap, stack, user, lost>>
  BY DEF EnumerateExistingNodes, nodeVars
<1>2. \A j \in Infos : infoRef'[j] - infoRef[j] = userInfo'[j] - userInfo[j]
                       /\ infoRef'[j] \in Int /\ userInfo'[j] \in Int
  <2>1. ASSUME NEW j \in Infos
        PROVE  infoRef'[j] - infoRef[j] = userInfo'[j] - userInfo[j]
               /\ infoRef'[j] \in Int /\ userInfo'[j] \in Int
    <3>1. infoRef[j] \in Int /\ userInfo[j] \in Int
      BY DEF TypeOK
    <3>2. \/ infoRef'[j] = infoRef[j] + 1 /\ userInfo'[j] = userInfo[j] + 1
          \/ infoRef'[j] = infoRef[j] /\ userInfo'[j] = userInfo[j]
      BY <1>1
    <3> QED BY <3>1, <3>2
  <2> QED BY <2>1
<1>3. InfoRefExact'
  BY <1>1, <1>2, InfoUserChange DEF GoodGraph
<1>4. NodesCounted' /\ Acyclic' /\ DeadUncounted' /\ ListsCounted' /\ MapCounted'
  BY <1>1, CountedSame, AcyclicShrink DEF GoodGraph, DeadUncounted, ListsCounted, MapCounted
<1>5. UncountedDying' /\ DestroyFrames' /\ CreateFrames'
  BY <1>1, StackSame DEF GoodGraph
<1> QED BY <1>3, <1>4, <1>5 DEF GoodGraph

\* xnNodeInfoFree by the application.
LEMMA NodeInfoFreeKeeps ==
  ASSUME TypeOK, GoodGraph, NEW i \in Infos, NodeInfoFree(i)
  PROVE  GoodGraph'
<1>1. /\ Idle /\ userInfo[i] > 0 /\ userInfo' = [userInfo EXCEPT ![i] = @ - 1]
      /\ infoRef' = [infoRef EXCEPT ![i] = @ - 1]
      /\ FreeInfo(i, <<>>)
      /\ UNCHANGED <<cells, hNode, nRef, held, nodesMap, user, lost>>
  BY DEF NodeInfoFree, FreeInfo, nodeVars
<1>2. \A j \in Infos : infoRef'[j] - infoRef[j] = userInfo'[j] - userInfo[j]
                       /\ infoRef'[j] \in Int /\ userInfo'[j] \in Int
  <2>1. ASSUME NEW j \in Infos
        PROVE  infoRef'[j] - infoRef[j] = userInfo'[j] - userInfo[j]
               /\ infoRef'[j] \in Int /\ userInfo'[j] \in Int
    <3>1. infoRef[j] \in Int /\ userInfo[j] \in Int
      BY DEF TypeOK
    <3>2. \/ infoRef'[j] = infoRef[j] - 1 /\ userInfo'[j] = userInfo[j] - 1
          \/ infoRef'[j] = infoRef[j] /\ userInfo'[j] = userInfo[j]
      BY <1>1 DEF TypeOK
    <3> QED BY <3>1, <3>2
  <2> QED BY <2>1
<1>3. InfoRefExact'
  BY <1>1, <1>2, InfoUserChange DEF GoodGraph
<1>4. NodesCounted' /\ Acyclic' /\ DeadUncounted' /\ ListsCounted' /\ MapCounted'
  BY <1>1, CountedSame, AcyclicShrink DEF GoodGraph, DeadUncounted, ListsCounted, MapCounted
<1>5. UncountedDying' /\ DestroyFrames' /\ CreateFrames'
  <2>1. stack = <<>> /\ ~Running("create")
    BY <1>1, IdleFacts
  <2> QED BY <1>1, <2>1, FreeInfoKeeps DEF GoodGraph
<1> QED BY <1>3, <1>4, <1>5 DEF GoodGraph

\* A reference on an existing node, taken by the application or lost by
\* xnPlayRecording.
LEMMA TakeKeeps ==
  ASSUME TypeOK, GoodGraph, Idle, NEW i \in hNode, nRef' = [nRef EXCEPT ![i] = @ + 1],
         UNCHANGED <<infoRef, cells, hNode, held, nodesMap, stack, userInfo>>,
         \/ user' = [user EXCEPT ![i] = @ + 1] /\ lost' = lost
         \/ lost' = [lost EXCEPT ![i] = @ + 1] /\ user' = user
  PROVE  GoodGraph'
<1>1. i \in Infos /\ hNode \subseteq Infos /\ nodesMap \subseteq Infos
  BY DEF TypeOK
<1>2. \A j \in Infos : nRef[j] \in Nat /\ nRef'[j] = IF j = i THEN nRef[j] + 1 ELSE nRef[j]
  BY <1>1 DEF TypeOK
<1>3. NodesCounted'
  BY <1>1, CountedTake DEF GoodGraph
<1>4. InfoRefExact' /\ Acyclic'
  BY InfoSame, AcyclicShrink DEF GoodGraph
<1>5. DeadUncounted'
  BY <1>2 DEF GoodGraph, DeadUncounted
<1>6. MapCounted'
  <2>1. \A j \in nodesMap : j \in hNode /\ nRef[j] > 0
    BY DEF GoodGraph, MapCounted
  <2>2. \A j \in Infos : nRef[j] > 0 => nRef'[j] > 0
    BY <1>2
  <2> QED BY <1>1, <2>1, <2>2 DEF MapCounted
<1>7. ListsCounted'
  <2>1. nRef[i] > 0
    <3>1. nRef[i] # 0
      BY IdleFacts
    <3> QED BY <1>1, <1>2, <3>1
  <2>2. \A j \in Infos : nRef'[j] > 0 => nRef[j] > 0
    BY <1>2, <2>1
  <2> QED BY <2>2 DEF GoodGraph, ListsCounted
<1>8. UncountedDying' /\ DestroyFrames' /\ CreateFrames'
  <2>1. stack = <<>> /\ \A j \in hNode : nRef[j] # 0
    BY IdleFacts
  <2>2. \A j \in Infos : nRef[j] # 0 => nRef'[j] # 0
    BY <1>2
  <2> QED BY <1>1, <2>1, <2>2, IdleKeeps
<1> QED BY <1>3, <1>4, <1>5, <1>6, <1>7, <1>8 DEF GoodGraph

\* xnCreateProductionTree references the node that exists, or starts creating it.
LEMMA CreateProductionTreeKeeps ==
  ASSUME TypeOK, GoodGraph, NEW i \in Infos, CreateProductionTree(i)
  PROVE  GoodGraph'
<1>1. Idle /\ UNCHANGED <<infoRef, cells, hNode, held, nodesMap, userInfo, lost>>
  BY DEF CreateProductionTree, CanCall, infoVars
<1>2. CASE i \in hNode
  <2>1. /\ nRef' = [nRef EXCEPT ![i] = @ + 1] /\ user' = [user EXCEPT ![i] = @ + 1]
        /\ stack' = stack
    BY <1>2 DEF CreateProductionTree
  <2> QED BY <1>1, <1>2, <2>1, TakeKeeps
<1>3. CASE i \notin hNode
  <2>1. stack' = Push("create", i, <<>>) /\ UNCHANGED <<nRef, user>>
    BY <1>3 DEF CreateProductionTree
  <2>2. NodesCounted' /\ InfoRefExact' /\ Acyclic' /\ DeadUncounted' /\ ListsCounted' /\ MapCounted'
    BY <1>1, <2>1, CountedSame, InfoSame, AcyclicShrink
       DEF GoodGraph, DeadUncounted, ListsCounted, MapCounted
  <2>3. stack = <<>> /\ <<>> \in Seq(Frames) /\ \A j \in hNode : nRef[j] # 0
    BY <1>1, IdleFacts
  <2>4. Len(stack') = 1 /\ stack'[1] = <<"create", i>>
    BY <2>1, OneFrame DEF Ops
  <2>6. Depth' = {1}
    BY <2>4 DEF Depth
  <2>7. UncountedDying'
    BY <1>1, <2>1, <2>3 DEF UncountedDying
  <2>8. DestroyFrames'
    BY <2>4, <2>6 DEF DestroyFrames
  <2>9. CreateFrames'
    BY <1>1, <1>3, <2>4, <2>6 DEF CreateFrames
  <2> QED BY <2>2, <2>7, <2>8, <2>9 DEF GoodGraph
<1> QED BY <1>2, <1>3

\* xnProductionNodeAddRef and the calls that hand out a reference on a node.
LEMMA GetRefKeeps ==
  ASSUME TypeOK, GoodGraph, NEW i \in Infos,
         \/ ProductionNodeAddRef(i) \/ GetRefNodeHandleByName(i)
         \/ NodeInfoGetRefHandle(i) \/ PlayRecording(i)
  PROVE  GoodGraph'
<1>1. /\ Idle /\ nRef' = [nRef EXCEPT ![i] = @ + 1]
      /\ UNCHANGED <<infoRef, cells, hNode, held, nodesMap, stack, userInfo>>
      /\ \/ user' = [user EXCEPT ![i] = @ + 1] /\ lost' = lost
         \/ lost' = [lost EXCEPT ![i] = @ + 1] /\ user' = user
  BY DEF ProductionNodeAddRef, GetRefNodeHandleByName, NodeInfoGetRefHandle, PlayRecording,
         CanCall, CanUseNode, infoVars
<1>2. i \in hNode
  <2>1. CASE ProductionNodeAddRef(i)
    BY <2>1, CountedExist DEF ProductionNodeAddRef, CanUseNode
  <2>2. CASE GetRefNodeHandleByName(i) \/ NodeInfoGetRefHandle(i) \/ PlayRecording(i)
    BY <2>2 DEF GetRefNodeHandleByName, NodeInfoGetRefHandle, PlayRecording, GoodGraph, MapCounted
  <2> QED BY <2>1, <2>2
<1> QED BY <1>1, <1>2, TakeKeeps

\* A released reference of the application.
LEMMA ProductionNodeReleaseKeeps ==
  ASSUME TypeOK, GoodGraph, NEW i \in Infos, ProductionNodeRelease(i)
  PROVE  GoodGraph'
<1>1. /\ Idle /\ user[i] > 0 /\ user' = [user EXCEPT ![i] = @ - 1] /\ ReleaseNode(i, <<>>)
      /\ UNCHANGED <<infoRef, cells, hNode, held, userInfo, lost>>
  BY DEF ProductionNodeRelease, CanUseNode, infoVars
<1>2. nRef[i] > 0 /\ (nRef' = [nRef EXCEPT ![i] = @ - 1] => NodesCounted')
  BY <1>1, CountedGive DEF GoodGraph
<1>3. stack = <<>> /\ ~Running("create")
  BY <1>1, IdleFacts
<1>4. /\ nRef' = [nRef EXCEPT ![i] = @ - 1]
      /\ DeadUncounted' /\ UncountedDying' /\ DestroyFrames' /\ CreateFrames' /\ MapCounted'
  BY <1>1, <1>2, <1>3, ReleaseKeeps DEF GoodGraph
<1>5. InfoRefExact' /\ Acyclic'
  BY <1>1, InfoSame, AcyclicShrink DEF GoodGraph
<1>6. ListsCounted'
  <2>1. \A j \in Infos : nRef'[j] > 0 => nRef[j] > 0
    BY <1>2, <1>4 DEF TypeOK
  <2> QED BY <1>1, <2>1 DEF GoodGraph, ListsCounted
<1> QED BY <1>2, <1>4, <1>5, <1>6 DEF GoodGraph

\* xnAddNeededNode: the loop check is what keeps the graph free of loops.
LEMMA AddNeededNodeKeeps ==
  ASSUME TypeOK, GoodGraph, GoodLists, NEW a \in Infos, NEW b \in Infos, AddNeededNode(a, b)
  PROVE  GoodGraph'
<1> DEFINE c == NewCell(a, b)
<1>1. /\ Idle /\ user[a] > 0 /\ user[b] > 0 /\ a # b /\ ~IsNodeNeededBy(b, a) /\ HasRoom(a, b)
      /\ nRef' = [nRef EXCEPT ![b] = @ + 1] /\ infoRef' = [infoRef EXCEPT ![b] = @ + 1]
      /\ cells' = cells \cup {c} /\ held' = held \cup {c}
      /\ UNCHANGED <<hNode, nodesMap, stack, user, userInfo, lost>>
  BY DEF AddNeededNode, CanUseNode, appVars
<1>2. c \in Cells /\ c \notin cells /\ c[1] = a /\ c[2] = b
  BY <1>1, NewCellFacts
<1> HIDE DEF c
<1>3. b \in hNode /\ nRef[b] > 0 /\ hNode \subseteq Infos /\ nodesMap \subseteq Infos
  BY <1>1, CountedExist DEF TypeOK
<1>4. \A j \in Infos : nRef[j] \in Nat /\ nRef'[j] = IF j = b THEN nRef[j] + 1 ELSE nRef[j]
  BY <1>1 DEF TypeOK
<1>5. \A j \in Infos : nRef'[j] > 0 <=> nRef[j] > 0
  BY <1>3, <1>4
<1>6. c \notin held
  BY <1>2 DEF GoodLists, HeldListed
<1>7. NodesCounted'
  BY <1>1, <1>2, <1>6, CountedHold DEF GoodGraph
<1>8. InfoRefExact'
  BY <1>1, <1>2, InfoEntryAdd DEF GoodGraph
<1>9. Acyclic'
  BY <1>1, <1>2, AcyclicAdd DEF GoodGraph
<1>10. DeadUncounted' /\ MapCounted'
  BY <1>1, <1>3, <1>4, <1>5 DEF GoodGraph, DeadUncounted, MapCounted
<1>11. ListsCounted'
  BY <1>1, <1>2, <1>5 DEF GoodGraph, ListsCounted
<1>12. UncountedDying' /\ DestroyFrames' /\ CreateFrames'
  <2>1. stack = <<>> /\ \A j \in hNode : nRef[j] # 0
    BY <1>1, IdleFacts
  <2>2. \A j \in Infos : nRef[j] # 0 => nRef'[j] # 0
    BY <1>4
  <2> QED BY <1>1, <1>3, <2>1, <2>2, IdleKeeps
<1> QED BY <1>7, <1>8, <1>9, <1>10, <1>11, <1>12 DEF GoodGraph

\* xnRemoveNeededNode: the entry was counted, so the release is justified.
LEMMA RemoveNeededNodeKeeps ==
  ASSUME TypeOK, GoodGraph, NEW a \in Infos, NEW b \in Infos, RemoveNeededNode(a, b)
  PROVE  GoodGraph'
<1>1. PICK c \in cells : c[2] = b /\ c[1] = a /\ cells' = cells \ {c} /\ held' = held \ {c}
  BY DEF RemoveNeededNode, CellsTo
<1>2. /\ Idle /\ user[a] > 0 /\ infoRef' = [infoRef EXCEPT ![c[2]] = @ - 1] /\ ReleaseNode(b, <<>>)
      /\ UNCHANGED <<hNode, user, userInfo, lost>>
  BY <1>1 DEF RemoveNeededNode, CanUseNode, appVars
<1>3. c \in held
  BY <1>1, <1>2, CountedExist DEF GoodGraph, ListsCounted
<1>4. nRef[b] > 0 /\ (nRef' = [nRef EXCEPT ![b] = @ - 1] => NodesCounted')
  BY <1>1, <1>2, <1>3, CountedDrop DEF GoodGraph
<1>5. stack = <<>> /\ ~Running("create")
  BY <1>2, IdleFacts
<1>6. /\ nRef' = [nRef EXCEPT ![b] = @ - 1]
      /\ DeadUncounted' /\ UncountedDying' /\ DestroyFrames' /\ CreateFrames' /\ MapCounted'
  BY <1>2, <1>4, <1>5, ReleaseKeeps DEF GoodGraph
<1>7. InfoRefExact'
  BY <1>1, <1>2, InfoEntryRemove DEF GoodGraph
<1>8. Acyclic'
  BY <1>1, AcyclicShrink DEF GoodGraph
<1>9. ListsCounted'
  <2>1. \A j \in Infos : nRef'[j] > 0 => nRef[j] > 0
    BY <1>4, <1>6 DEF TypeOK
  <2> QED BY <1>1, <2>1 DEF GoodGraph, ListsCounted
<1> QED BY <1>4, <1>6, <1>7, <1>8, <1>9 DEF GoodGraph

\* The reference the caller of a script would get moves to the owned nodes.
LEMMA MarkOwnedNodeKeeps ==
  ASSUME TypeOK, GoodGraph, GoodLists, NEW i \in Infos, MarkOwnedNode(i)
  PROVE  GoodGraph'
<1> DEFINE c == NewCell(Owned, i)
<1>1. /\ Idle /\ user[i] > 0 /\ HasRoom(Owned, i) /\ user' = [user EXCEPT ![i] = @ - 1]
      /\ infoRef' = [infoRef EXCEPT ![i] = @ + 1]
      /\ cells' = cells \cup {c} /\ held' = held \cup {c}
      /\ UNCHANGED <<hNode, nRef, nodesMap, stack, userInfo, lost>>
  BY DEF MarkOwnedNode, CanCall
<1>2. c \in Cells /\ c \notin cells /\ c[1] = Owned /\ c[2] = i
  BY <1>1, NewCellFacts
<1> HIDE DEF c
<1>3. c \notin held
  BY <1>2 DEF GoodLists, HeldListed
<1>4. NodesCounted'
  <2>1. held \in SUBSET Cells
    BY DEF TypeOK
  <2>2. ASSUME NEW j \in Infos
        PROVE  nRef'[j] = user'[j] + Cardinality(HeldTo(j)') + lost'[j]
    <3>1. /\ Cardinality({d \in held : d[2] = j}) \in Nat
          /\ c[2] = j => Cardinality({d \in held \cup {c} : d[2] = j}) = Cardinality({d \in held : d[2] = j}) + 1
          /\ c[2] # j => Cardinality({d \in held \cup {c} : d[2] = j}) = Cardinality({d \in held : d[2] = j})
      BY <1>2, <1>3, <2>1, CountAdd
    <3>2. /\ Cardinality(HeldTo(j)) \in Nat
          /\ j = i => Cardinality(HeldTo(j)') = Cardinality(HeldTo(j)) + 1
          /\ j # i => Cardinality(HeldTo(j)') = Cardinality(HeldTo(j))
      BY <1>1, <1>2, <3>1 DEF HeldTo
    <3>3. /\ user[j] \in Nat /\ lost[j] \in Nat /\ nRef[j] \in Nat
          /\ nRef[j] = user[j] + Cardinality(HeldTo(j)) + lost[j]
      BY DEF TypeOK, GoodGraph, NodesCounted
    <3>4. /\ nRef'[j] = nRef[j] /\ lost'[j] = lost[j]
          /\ j = i => user'[j] = user[j] - 1
          /\ j # i => user'[j] = user[j]
      BY <1>1 DEF TypeOK
    <3>5. CASE j = i
      BY <3>2, <3>3, <3>4, <3>5
    <3>6. CASE j # i
      BY <3>2, <3>3, <3>4, <3>6
    <3> QED BY <3>5, <3>6
  <2> QED BY <2>2 DEF NodesCounted
<1>5. InfoRefExact'
  BY <1>1, <1>2, InfoEntryAdd DEF GoodGraph
<1>6. Acyclic'
  BY <1>1, <1>2, AcyclicOwned DEF GoodGraph
<1>7. DeadUncounted' /\ MapCounted'
  BY <1>1 DEF GoodGraph, DeadUncounted, MapCounted
<1>8. ListsCounted'
  BY <1>1, <1>2, ConstantsAssumption DEF GoodGraph, ListsCounted
<1>9. UncountedDying' /\ DestroyFrames' /\ CreateFrames'
  BY <1>1, IdleStack
<1> QED BY <1>4, <1>5, <1>6, <1>7, <1>8, <1>9 DEF GoodGraph

-----------------------------------------------------------------------------
(* The steps of a call in progress *)

\* Freeing the list of a freed info.
LEMMA InfoFreeCellKeeps ==
  ASSUME TypeOK, GoodGraph, GoodLists, InfoFreeCell
  PROVE  GoodGraph'
<1>1. PICK c \in cells : c[1] = Top[2] /\ cells' = cells \ {c} /\ FreeInfo(c[2], stack)
  BY DEF InfoFreeCell
<1>2. /\ Running("infofree") /\ UNCHANGED <<hNode, nRef, held, nodesMap, user, userInfo, lost>>
      /\ infoRef' = [infoRef EXCEPT ![c[2]] = @ - 1]
  BY <1>1 DEF InfoFreeCell, FreeInfo, nodeVars, appVars
<1>3. c[2] \in Infos
  BY DEF TypeOK, Cells
<1>4. ~Running("create")
  BY <1>2 DEF Running, Top
<1>5. UncountedDying' /\ DestroyFrames' /\ CreateFrames'
  BY <1>1, <1>2, <1>3, <1>4, FreeInfoKeeps DEF GoodGraph
<1>6. InfoRefExact'
  BY <1>1, <1>2, InfoEntryRemove DEF GoodGraph
<1>7. Acyclic'
  BY <1>1, AcyclicShrink DEF GoodGraph
<1>8. NodesCounted' /\ DeadUncounted' /\ MapCounted' /\ ListsCounted'
  BY <1>1, <1>2, CountedSame DEF GoodGraph, DeadUncounted, MapCounted, ListsCounted
<1> QED BY <1>5, <1>6, <1>7, <1>8 DEF GoodGraph

\* The innermost call returns, and it neither destroyed a node nor created one.
LEMMA PopKeeps ==
  ASSUME TypeOK, GoodGraph, stack # <<>>, stack[1][1] \in {"free", "infofree"},
         stack' = Tail(stack), UNCHANGED <<hNode, nRef>>
  PROVE  UncountedDying' /\ DestroyFrames' /\ CreateFrames'
<1>1. stack \in Seq(Frames) /\ DFrames(stack, hNode, nRef) /\ CFrames(stack, hNode)
  BY FramesDef DEF TypeOK, GoodGraph
<1>2. /\ DFrames(stack', hNode, nRef) /\ CFrames(stack', hNode)
      /\ stack' # <<>> => stack'[1][1] # "create"
  BY <1>1, DFramesPop, CFramesPop
<1>3. ~Running("create")'
  BY <1>2 DEF Running, Top
<1>4. UncountedDying'
  <2>1. ASSUME NEW j \in hNode, nRef[j] = 0
        PROVE  \E l \in 1..Len(stack') : stack'[l] = <<"destroy", j>>
    <3>1. PICK k \in 1..Len(stack) : stack[k] = <<"destroy", j>>
      BY <2>1 DEF GoodGraph, UncountedDying, Depth
    <3>2. k # 1
      BY <3>1
    <3>3. Len(stack) \in Nat /\ Len(stack') = Len(stack) - 1
      BY <1>1, PopFacts
    <3>4. k - 1 \in 1..Len(stack') /\ (k - 1) + 1 = k
      BY <3>2, <3>3
    <3>5. stack'[k - 1] = stack[k]
      BY <1>1, <3>3, <3>4, PopFacts
    <3> QED BY <3>1, <3>4, <3>5
  <2> QED BY <2>1 DEF UncountedDying, Depth
<1> QED BY <1>2, <1>3, <1>4 DEF DFrames, CFrames, DestroyFrames, CreateFrames, Depth

\* xnNodeInfoFree and xnFreeProductionNodeImpl return.
LEMMA ReturnKeeps ==
  ASSUME TypeOK, GoodGraph, InfoFreeReturn \/ FreeProductionNode
  PROVE  GoodGraph'
<1>1. /\ stack # <<>> /\ stack[1][1] \in {"free", "infofree"} /\ stack' = Tail(stack)
      /\ UNCHANGED <<infoRef, cells, hNode, nRef, held, nodesMap, user, userInfo, lost>>
  BY DEF InfoFreeReturn, FreeProductionNode, Running, Top, infoVars, nodeVars, appVars
<1>2. UncountedDying' /\ DestroyFrames' /\ CreateFrames'
  BY <1>1, PopKeeps
<1>3. NodesCounted' /\ InfoRefExact' /\ Acyclic'
  BY <1>1, CountedSame, InfoSame, AcyclicShrink DEF GoodGraph
<1>4. DeadUncounted' /\ ListsCounted' /\ MapCounted'
  BY <1>1 DEF GoodGraph, DeadUncounted, ListsCounted, MapCounted
<1> QED BY <1>2, <1>3, <1>4 DEF GoodGraph

\* A reference on a needed node goes, while its owner is destroyed or its
\* creation is undone.
LEMMA ReleaseNeededKeeps ==
  ASSUME TypeOK, GoodGraph, UndoRelease \/ DestroyRelease
  PROVE  GoodGraph'
<1>1. PICK c \in held : c[1] = Top[2] /\ held' = held \ {c} /\ ReleaseNode(c[2], stack)
  BY DEF UndoRelease, DestroyRelease, ToRelease
<1>2. /\ Top[2] \in Infos /\ Top = stack[1] /\ 1 \in Depth
      /\ stack[1][1] \in {"undo", "destroy"} /\ stack[1][2] = Top[2]
      /\ UNCHANGED <<infoRef, cells, hNode, user, userInfo, lost>>
  <2>1. Running("undo") \/ Running("destroy")
    BY DEF UndoRelease, DestroyRelease
  <2>2. Len(stack) \in Nat /\ Len(stack) >= 1 /\ stack \in Seq(Frames) /\ Top[2] \in Infos
    BY <2>1, TopFacts DEF TypeOK
  <2>3. 1 \in Depth
    BY <2>2 DEF Depth
  <2>4. UNCHANGED <<infoRef, cells, hNode, user, userInfo, lost>>
    BY DEF UndoRelease, DestroyRelease, infoVars, appVars
  <2> QED BY <2>1, <2>2, <2>3, <2>4 DEF Running, Top
<1>3. c[2] \in Infos
  BY DEF TypeOK, Cells
<1>4. nRef[c[2]] > 0 /\ (nRef' = [nRef EXCEPT ![c[2]] = @ - 1] => NodesCounted')
  BY <1>1, <1>2, CountedDrop DEF GoodGraph
<1>5. ~Running("create")
  BY <1>2 DEF Running, Top
<1>6. /\ nRef' = [nRef EXCEPT ![c[2]] = @ - 1]
      /\ DeadUncounted' /\ UncountedDying' /\ DestroyFrames' /\ CreateFrames' /\ MapCounted'
  BY <1>1, <1>2, <1>3, <1>4, <1>5, ReleaseKeeps DEF GoodGraph
<1>7. InfoRefExact' /\ Acyclic'
  BY <1>2, InfoSame, AcyclicShrink DEF GoodGraph
<1>8. ListsCounted'
  <2>1. nRef[Top[2]] = 0
    <3>1. CASE stack[1][1] = "undo"
      <4>1. Top[2] \notin hNode
        BY <1>2, <3>1 DEF GoodGraph, CreateFrames
      <4> QED BY <1>2, <4>1 DEF GoodGraph, DeadUncounted
    <3>2. CASE stack[1][1] = "destroy"
      BY <1>2, <3>2 DEF GoodGraph, DestroyFrames
    <3> QED BY <1>2, <3>1, <3>2
  <2>2. \A j \in Infos : nRef'[j] > 0 => nRef[j] > 0
    BY <1>4, <1>6 DEF TypeOK
  <2>3. \A d \in cells : d[1] \in Infos /\ nRef'[d[1]] > 0 => d \in held /\ d # c
    BY <1>1, <2>1, <2>2 DEF GoodGraph, ListsCounted
  <2> QED BY <1>1, <1>2, <2>3 DEF ListsCounted
<1> QED BY <1>4, <1>6, <1>7, <1>8 DEF GoodGraph

\* While a node is created or a creation undone, nothing is being destroyed.
LEMMA CreatingFacts ==
  ASSUME TypeOK, GoodGraph, Running("create") \/ Running("undo")
  PROVE  /\ Top[2] \in Infos /\ Top = stack[1] /\ stack # <<>> /\ stack \in Seq(Frames)
         /\ 1 \in Depth /\ Top[2] \notin hNode /\ nRef[Top[2]] = 0
         /\ \A k \in Depth : k # 1 => stack[k][1] = "create"
         /\ \A j \in hNode : nRef[j] # 0
<1>1. /\ Len(stack) \in Nat /\ Len(stack) >= 1 /\ stack \in Seq(Frames) /\ stack # <<>>
      /\ Top[2] \in Infos /\ Top = stack[1]
  BY TopFacts DEF TypeOK
<1>2. 1 \in Depth /\ stack[1][1] \in {"create", "undo"}
  BY <1>1 DEF Depth, Running, Top
<1>3. Top[2] \notin hNode
  BY <1>1, <1>2 DEF GoodGraph, CreateFrames
<1>4. \A k \in Depth : k # 1 => stack[k][1] = "create"
  <2>1. \A k \in Depth : k # 1 => 1 < k
    BY <1>1 DEF Depth
  <2> QED BY <1>2, <2>1 DEF GoodGraph, CreateFrames
<1>5. nRef[Top[2]] = 0
  BY <1>1, <1>3 DEF GoodGraph, DeadUncounted
<1>6. \A j \in hNode : nRef[j] # 0
  <2>1. SUFFICES ASSUME NEW j \in hNode, nRef[j] = 0 PROVE FALSE
    OBVIOUS
  <2>2. PICK k \in Depth : stack[k] = <<"destroy", j>>
    BY <2>1 DEF GoodGraph, UncountedDying
  <2>3. stack[k][1] = "destroy"
    BY <2>2
  <2> QED BY <1>2, <1>4, <2>3
<1> QED BY <1>1, <1>2, <1>3, <1>4, <1>5, <1>6

\* A failed creation turns into undoing it, or undoing into that of the
\* creation that needed it.
LEMMA UndoFrames ==
  ASSUME TypeOK, GoodGraph, NEW s \in Seq(Frames), NEW i \in Infos, i \notin hNode,
         DFrames(s, hNode, nRef), CFrames(s, hNode),
         \A k \in 1..Len(s) : s[k][1] = "create",
         \A j \in hNode : nRef[j] # 0,
         stack' = Push("undo", i, s), UNCHANGED <<hNode, nRef>>
  PROVE  UncountedDying' /\ DestroyFrames' /\ CreateFrames'
<1>1. "undo" \in Ops
  BY DEF Ops
<1>2. DFrames(stack', hNode, nRef) /\ CFrames(stack', hNode)
  BY <1>1, DFramesPush, CFramesPush
<1>3. stack'[1] = <<"undo", i>>
  BY <1>1, PushFacts
<1>4. ~Running("create")'
  BY <1>3 DEF Running, Top
<1>5. UncountedDying'
  BY DEF UncountedDying
<1> QED BY <1>2, <1>4, <1>5 DEF DFrames, CFrames, DestroyFrames, CreateFrames, Depth

\* xnCreateProductionNodeImpl fails.
LEMMA CreateRootNodeFailsKeeps ==
  ASSUME TypeOK, GoodGraph, CreateRootNodeFails
  PROVE  GoodGraph'
<1>1. /\ Running("create") /\ stack' = Push("undo", Top[2], Tail(stack))
      /\ UNCHANGED <<infoRef, cells, hNode, nRef, held, nodesMap, user, userInfo, lost>>
  BY DEF CreateRootNodeFails, appVars
<1>2. /\ Top[2] \in Infos /\ Top[2] \notin hNode /\ \A j \in hNode : nRef[j] # 0
      /\ stack \in Seq(Frames) /\ stack # <<>> /\ stack[1][1] = "create"
      /\ Tail(stack) \in Seq(Frames)
  BY <1>1, CreatingFacts, TopFacts DEF Running
<1>3. /\ DFrames(Tail(stack), hNode, nRef) /\ CFrames(Tail(stack), hNode)
      /\ \A k \in 1..Len(Tail(stack)) : Tail(stack)[k][1] = "create"
  BY <1>2, FramesDef, DFramesPop, CFramesPop DEF GoodGraph
<1>4. UncountedDying' /\ DestroyFrames' /\ CreateFrames'
  BY <1>1, <1>2, <1>3, UndoFrames
<1>5. NodesCounted' /\ InfoRefExact' /\ Acyclic'
  BY <1>1, CountedSame, InfoSame, AcyclicShrink DEF GoodGraph
<1>6. DeadUncounted' /\ ListsCounted' /\ MapCounted'
  BY <1>1 DEF GoodGraph, DeadUncounted, ListsCounted, MapCounted
<1> QED BY <1>4, <1>5, <1>6 DEF GoodGraph

\* An undone creation returns its error.
LEMMA UndoReturnKeeps ==
  ASSUME TypeOK, GoodGraph, UndoReturn
  PROVE  GoodGraph'
<1>1. /\ Running("undo")
      /\ Len(stack) = 1 => stack' = <<>>
      /\ Len(stack) # 1 => stack' = Push("undo", stack[2][2], Tail(Tail(stack)))
      /\ UNCHANGED <<infoRef, cells, hNode, nRef, held, nodesMap, user, userInfo, lost>>
  BY DEF UndoReturn, infoVars, nodeVars, appVars
<1>2. /\ \A j \in hNode : nRef[j] # 0
      /\ stack \in Seq(Frames) /\ stack # <<>> /\ stack[1][1] = "undo"
      /\ Tail(stack) \in Seq(Frames)
  BY <1>1, CreatingFacts, TopFacts DEF Running
<1>3. /\ DFrames(Tail(stack), hNode, nRef) /\ CFrames(Tail(stack), hNode)
      /\ \A k \in 1..Len(Tail(stack)) : Tail(stack)[k][1] = "create"
  BY <1>2, FramesDef, DFramesPop, CFramesPop DEF GoodGraph
<1>4. UncountedDying' /\ DestroyFrames' /\ CreateFrames'
  <2>1. CASE Len(stack) = 1
    BY <1>1, <1>2, <2>1, IdleKeeps
  <2>2. CASE Len(stack) # 1
    <3> DEFINE t == Tail(stack)
    <3>1. /\ stack[2][2] \in Infos /\ t # <<>> /\ t[1] = stack[2] /\ Tail(t) \in Seq(Frames)
          /\ t \in Seq(Frames) /\ Len(t) >= 1 /\ Len(t) \in Nat
      BY <1>2, <2>2, DeepStack, PopFacts
    <3>2. t[1][1] = "create" /\ t[1][2] \notin hNode
      <4>1. 1 \in 1..Len(t)
        BY <3>1
      <4>2. t[1][1] = "create"
        BY <1>3, <4>1
      <4> QED BY <1>3, <4>1, <4>2 DEF CFrames
    <3>3. /\ DFrames(Tail(t), hNode, nRef) /\ CFrames(Tail(t), hNode)
          /\ \A k \in 1..Len(Tail(t)) : Tail(t)[k][1] = "create"
      BY <1>3, <3>1, <3>2, DFramesPop, CFramesPop
    <3>4. stack' = Push("undo", t[1][2], Tail(t)) /\ t[1][2] \in Infos
      BY <1>1, <2>2, <3>1
    <3> HIDE DEF t
    <3> QED BY <1>1, <1>2, <3>1, <3>2, <3>3, <3>4, UndoFrames
  <2> QED BY <2>1, <2>2
<1>5. NodesCounted' /\ InfoRefExact' /\ Acyclic'
  BY <1>1, CountedSame, InfoSame, AcyclicShrink DEF GoodGraph
<1>6. DeadUncounted' /\ ListsCounted' /\ MapCounted'
  BY <1>1 DEF GoodGraph, DeadUncounted, ListsCounted, MapCounted
<1> QED BY <1>4, <1>5, <1>6 DEF GoodGraph

\* The chain of creations in progress depends only on the stack and the lists.
LEMMA ChainSame ==
  ASSUME Chain, UNCHANGED <<stack, cells>>
  PROVE  Chain'
BY DEF Chain, Depth, IsNodeNeededBy, NeedsClosed, Needs

\* The next needed node is referenced, or its creation starts.
LEMMA CreateNeededKeeps ==
  ASSUME TypeOK, GoodGraph, CreateNeeded
  PROVE  GoodGraph'
<1>1. PICK c \in ToCreate(Top[2]) :
        IF c[2] \in hNode
          THEN /\ nRef' = [nRef EXCEPT ![c[2]] = @ + 1]
               /\ held' = held \cup {c}
               /\ UNCHANGED stack
          ELSE stack' = Push("create", c[2], stack) /\ UNCHANGED <<nRef, held>>
  BY DEF CreateNeeded
<1>2. /\ Running("create")
      /\ UNCHANGED <<infoRef, cells, hNode, nodesMap, user, userInfo, lost>>
  BY DEF CreateNeeded, infoVars, appVars
<1>3. c \in Cells /\ c[2] \in Infos /\ c \in cells /\ c \notin held /\ c[1] = Top[2]
  BY <1>1 DEF TypeOK, ToCreate, Cells
<1>4. /\ Top[2] \in Infos /\ Top = stack[1] /\ stack # <<>> /\ stack \in Seq(Frames)
      /\ Top[2] \notin hNode
      /\ \A k \in Depth : stack[k][1] = "create"
      /\ \A j \in hNode : nRef[j] # 0
  BY <1>2, CreatingFacts DEF Running
<1>5. hNode \subseteq Infos /\ nodesMap \subseteq Infos /\ \A j \in Infos : nRef[j] \in Nat
  BY DEF TypeOK
<1>6. InfoRefExact' /\ Acyclic'
  BY <1>2, InfoSame, AcyclicShrink DEF GoodGraph
<1>7. CASE c[2] \in hNode
  <2>1. /\ nRef' = [nRef EXCEPT ![c[2]] = @ + 1] /\ held' = held \cup {c} /\ stack' = stack
    BY <1>1, <1>7
  <2>2. NodesCounted'
    BY <1>2, <1>3, <2>1, CountedHold DEF GoodGraph
  <2>3. \A j \in Infos : nRef'[j] = IF j = c[2] THEN nRef[j] + 1 ELSE nRef[j]
    BY <2>1 DEF TypeOK
  <2>4. nRef[c[2]] # 0
    BY <1>4, <1>7
  <2>5. \A j \in Infos : nRef'[j] > 0 <=> nRef[j] > 0
    BY <1>3, <1>5, <2>3, <2>4
  <2>6. DeadUncounted'
    BY <1>2, <1>7, <2>3 DEF GoodGraph, DeadUncounted
  <2>7. MapCounted'
    BY <1>2, <1>5, <2>5 DEF GoodGraph, MapCounted
  <2>8. ListsCounted'
    BY <1>2, <2>1, <2>5 DEF GoodGraph, ListsCounted
  <2>9. UncountedDying'
    <3>1. \A j \in hNode : nRef'[j] # 0
      BY <1>4, <1>5, <2>3, <2>5
    <3> QED BY <1>2, <3>1 DEF UncountedDying
  <2>10. DestroyFrames' /\ CreateFrames'
    <3>1. Chain' /\ CFrames(stack, hNode)
      BY <1>2, <2>1, FramesDef, ChainSame DEF GoodGraph
    <3>2. \A k \in Depth : stack[k][1] # "destroy"
      BY <1>4
    <3> QED BY <1>2, <2>1, <3>1, <3>2 DEF DestroyFrames, CreateFrames, CFrames, Chain, Depth
  <2> QED BY <1>6, <2>2, <2>6, <2>7, <2>8, <2>9, <2>10 DEF GoodGraph
<1>8. CASE c[2] \notin hNode
  <2>1. stack' = Push("create", c[2], stack) /\ nRef' = nRef /\ held' = held
    BY <1>1, <1>8
  <2>2. NodesCounted' /\ DeadUncounted' /\ ListsCounted' /\ MapCounted'
    BY <1>2, <2>1, CountedSame DEF GoodGraph, DeadUncounted, ListsCounted, MapCounted
  <2>3. UncountedDying'
    BY <1>2, <1>4, <2>1 DEF UncountedDying
  <2>4. "create" \in Ops
    BY DEF Ops
  <2>5. DFrames(stack, hNode, nRef) /\ CFrames(stack, hNode) /\ Chain
    BY <1>2, FramesDef DEF GoodGraph
  <2>6. DFrames(stack', hNode, nRef) /\ CFrames(stack', hNode)
    BY <1>3, <1>4, <1>8, <2>1, <2>4, <2>5, DFramesPush, CFramesPush DEF Depth
  <2>7. Chain'
    <3>1. ASSUME NEW k \in 1..Len(stack'), NEW l \in 1..Len(stack'), k < l
          PROVE  IsNodeNeededBy(stack'[l][2], stack'[k][2])
      <4>1. \/ k = 1 /\ stack'[k] = <<"create", c[2]>>
            \/ k - 1 \in 1..Len(stack) /\ stack'[k] = stack[k - 1]
        BY <1>3, <1>4, <2>1, <2>4, PushIndex
      <4>2. \/ l = 1 /\ stack'[l] = <<"create", c[2]>>
            \/ l - 1 \in 1..Len(stack) /\ stack'[l] = stack[l - 1]
        BY <1>3, <1>4, <2>1, <2>4, PushIndex
      <4>3. k \in Int /\ l \in Int /\ k >= 1 /\ l # 1 /\ k - 1 < l - 1
        BY <3>1
      <4>4. l - 1 \in Depth /\ stack'[l] = stack[l - 1]
        BY <4>2, <4>3 DEF Depth
      <4>5. CASE k = 1 /\ stack'[k] = <<"create", c[2]>>
        <5>1. c[2] \in Needs(Top[2])
          BY <1>3 DEF Needs
        <5>2. CASE l - 1 = 1
          <6>1. IsNodeNeededBy(Top[2], c[2])
            BY <5>1, NeededDirect
          <6> QED BY <1>4, <4>4, <4>5, <5>2, <6>1
        <5>3. CASE l - 1 # 1
          <6>1. 1 \in Depth /\ 1 < l - 1
            BY <4>3, <4>4, <5>3 DEF Depth
          <6>2. IsNodeNeededBy(stack[l - 1][2], stack[1][2])
            BY <2>5, <4>4, <6>1 DEF Chain
          <6>3. IsNodeNeededBy(stack[l - 1][2], c[2])
            BY <1>4, <5>1, <6>2, NeededTransitive
          <6> QED BY <4>4, <4>5, <6>3
        <5> QED BY <5>2, <5>3
      <4>6. CASE k - 1 \in 1..Len(stack) /\ stack'[k] = stack[k - 1]
        BY <2>5, <4>3, <4>4, <4>6 DEF Chain, Depth
      <4> QED BY <4>1, <4>5, <4>6
    <3> QED BY <1>2, <3>1 DEF Chain, Depth, IsNodeNeededBy, NeedsClosed, Needs
  <2>8. DestroyFrames' /\ CreateFrames'
    BY <1>2, <2>1, <2>6, <2>7 DEF DFrames, CFrames, Chain, DestroyFrames, CreateFrames, Depth
  <2> QED BY <1>6, <2>2, <2>3, <2>8 DEF GoodGraph
<1> QED BY <1>7, <1>8

\* A node is created: it comes with the reference its creator gets.
LEMMA CreateRootNodeKeeps ==
  ASSUME TypeOK, GoodGraph, CreateRootNode
  PROVE  GoodGraph'
<1> DEFINE i == Top[2]
<1>1. /\ Running("create") /\ ToCreate(i) = {}
      /\ nRef' = [nRef EXCEPT ![i] = 1] /\ hNode' = hNode \cup {i}
      /\ infoRef' = [infoRef EXCEPT ![i] = @ + 1]
      /\ stack' = Tail(stack) /\ ReturnNode(i)
      /\ UNCHANGED <<cells, userInfo, lost>>
      /\ nodesMap' \subseteq nodesMap \cup {i}
  BY DEF CreateRootNode, ReturnNode, Mapped
<1>2. /\ i \in Infos /\ Top = stack[1] /\ stack # <<>> /\ stack \in Seq(Frames)
      /\ 1 \in Depth /\ i \notin hNode /\ nRef[i] = 0
      /\ \A j \in hNode : nRef[j] # 0
  BY <1>1, CreatingFacts
<1>3. hNode \subseteq Infos /\ nodesMap \subseteq Infos /\ \A j \in Infos : nRef[j] \in Nat
  BY DEF TypeOK
<1>4. stack[1][1] = "create" /\ stack[1][2] = i
  BY <1>1, <1>2 DEF Running, Top
<1> HIDE DEF i
<1>5. nRef' = [nRef EXCEPT ![i] = @ + 1]
  BY <1>1, <1>2 DEF TypeOK
<1>6. \/ user' = [user EXCEPT ![i] = @ + 1] /\ held' = held
      \/ \E c \in cells : c \notin held /\ c[2] = i /\ held' = held \cup {c} /\ user' = user
  BY <1>1 DEF ReturnNode, ToCreate
<1>7. NodesCounted'
  <2>1. CASE user' = [user EXCEPT ![i] = @ + 1] /\ held' = held
    BY <1>1, <1>2, <1>5, <2>1, CountedTake DEF GoodGraph
  <2>2. CASE \E c \in cells : c \notin held /\ c[2] = i /\ held' = held \cup {c} /\ user' = user
    <3>1. PICK c \in cells : c \notin held /\ c[2] = i /\ held' = held \cup {c} /\ user' = user
      BY <2>2
    <3>2. c \in Cells
      BY DEF TypeOK
    <3> QED BY <1>1, <1>5, <3>1, <3>2, CountedHold DEF GoodGraph
  <2> QED BY <1>6, <2>1, <2>2
<1>8. InfoRefExact'
  BY <1>1, <1>2, InfoNodeChange DEF GoodGraph
<1>9. Acyclic'
  BY <1>1, AcyclicShrink DEF GoodGraph
<1>10. \A j \in Infos : nRef'[j] = IF j = i THEN 1 ELSE nRef[j]
  BY <1>1 DEF TypeOK
<1>11. DeadUncounted'
  BY <1>1, <1>10 DEF GoodGraph, DeadUncounted
<1>12. MapCounted'
  <2>1. ASSUME NEW j \in nodesMap'
        PROVE  j \in hNode' /\ nRef'[j] > 0
    <3>1. CASE j = i
      BY <1>1, <1>2, <1>10, <3>1
    <3>2. CASE j # i
      <4>1. j \in nodesMap /\ j \in Infos /\ nRef'[j] = nRef[j]
        BY <1>1, <1>3, <1>10, <3>2
      <4> QED BY <1>1, <4>1 DEF GoodGraph, MapCounted
    <3> QED BY <3>1, <3>2
  <2> QED BY <2>1 DEF MapCounted
<1>13. ListsCounted'
  <2>1. held \subseteq held'
    BY <1>6
  <2>2. ASSUME NEW d \in cells, d[1] \in Infos, nRef'[d[1]] > 0
        PROVE  d \in held
    <3>1. CASE d[1] = i
      BY <1>1, <3>1 DEF ToCreate
    <3>2. CASE d[1] # i
      <4>1. nRef[d[1]] > 0
        BY <1>10, <2>2, <3>2
      <4> QED BY <2>2, <4>1 DEF GoodGraph, ListsCounted
    <3> QED BY <3>1, <3>2
  <2> QED BY <1>1, <2>1, <2>2 DEF ListsCounted
<1>14. UncountedDying'
  <2>1. ASSUME NEW j \in hNode'
        PROVE  nRef'[j] # 0
    <3>1. CASE j = i
      BY <1>2, <1>10, <3>1
    <3>2. CASE j # i
      BY <1>1, <1>2, <1>3, <1>10, <3>2
    <3> QED BY <3>1, <3>2
  <2> QED BY <2>1 DEF UncountedDying
<1>15. DestroyFrames' /\ CreateFrames'
  <2>1. /\ CFrames(stack', hNode) /\ \A k \in 1..Len(stack') : stack'[k][1] = "create"
    BY <1>1, <1>2, <1>4, FramesDef, CFramesPop DEF GoodGraph
  <2>2. Chain
    BY <1>1, FramesDef DEF GoodGraph
  <2>3. /\ Len(stack) \in Nat /\ Len(stack') = Len(stack) - 1 /\ Len(stack') \in Int
        /\ \A k \in 1..(Len(stack) - 1) : stack'[k] = stack[k + 1]
    BY <1>1, <1>2, PopFacts
  <2>4. ASSUME NEW k \in 1..Len(stack')
        PROVE  k + 1 \in Depth /\ 1 < k + 1 /\ stack'[k] = stack[k + 1]
    BY <2>3 DEF Depth
  <2>5. ASSUME NEW k \in 1..Len(stack')
        PROVE  stack'[k][2] \notin hNode'
    <3>1. IsNodeNeededBy(stack'[k][2], i)
      BY <1>2, <1>4, <2>2, <2>4 DEF Chain
    <3>2. stack'[k][2] # i
      BY <1>2, <3>1 DEF GoodGraph, Acyclic
    <3> QED BY <1>1, <2>1, <3>2 DEF CFrames
  <2>6. CFrames(stack', hNode')
    BY <2>1, <2>5 DEF CFrames
  <2>7. Chain'
    <3>1. ASSUME NEW k \in 1..Len(stack'), NEW l \in 1..Len(stack'), k < l
          PROVE  IsNodeNeededBy(stack'[l][2], stack'[k][2])
      <4>1. k + 1 < l + 1
        BY <3>1
      <4> QED BY <2>2, <2>4, <4>1 DEF Chain
    <3>2. \A x, y : IsNodeNeededBy(x, y)' <=> IsNodeNeededBy(x, y)
      BY <1>1 DEF IsNodeNeededBy, NeedsClosed, Needs
    <3> QED BY <3>1, <3>2 DEF Chain, Depth
  <2> QED BY <2>1, <2>6, <2>7 DEF CFrames, Chain, DestroyFrames, CreateFrames, Depth
<1> QED BY <1>7, <1>8, <1>9, <1>11, <1>12, <1>13, <1>14, <1>15 DEF GoodGraph

\* A destroyed node's info loses its handle and the reference that went with it.
LEMMA DestroyFreeInfoKeeps ==
  ASSUME TypeOK, GoodGraph, DestroyFreeInfo
  PROVE  GoodGraph'
<1> DEFINE i == Top[2]
           s == Push("free", i, Tail(stack))
<1>1. /\ Running("destroy") /\ ToRelease(i) = {}
      /\ hNode' = hNode \ {i} /\ nRef' = [nRef EXCEPT ![i] = 0]
      /\ infoRef' = [infoRef EXCEPT ![i] = @ - 1]
      /\ FreeInfo(i, s)
      /\ UNCHANGED <<cells, held, nodesMap, user, userInfo, lost>>
  BY DEF DestroyFreeInfo, FreeInfo, appVars
<1>2. /\ i \in Infos /\ stack # <<>> /\ stack \in Seq(Frames) /\ Tail(stack) \in Seq(Frames)
      /\ Len(stack) \in Nat /\ Len(stack) >= 1 /\ stack[1][1] = "destroy" /\ stack[1][2] = i
  BY <1>1, TopFacts DEF TypeOK
<1>3. "free" \in Ops /\ 1 \in Depth
  BY <1>2 DEF Ops, Depth
<1>4. /\ s \in Seq(Frames) /\ s[1] = <<"free", i>> /\ Len(s) = Len(Tail(stack)) + 1
      /\ \A k \in 1..Len(Tail(stack)) : s[k + 1] = Tail(stack)[k]
  BY <1>2, <1>3, PushFacts
<1> HIDE DEF i
<1>5. i \in hNode /\ nRef[i] = 0
  BY <1>2, <1>3 DEF GoodGraph, DestroyFrames
<1>6. nRef' = nRef
  BY <1>1, <1>2, <1>5 DEF TypeOK
<1>7. NodesCounted' /\ Acyclic' /\ ListsCounted'
  BY <1>1, <1>6, CountedSame, AcyclicShrink DEF GoodGraph, ListsCounted
<1>8. InfoRefExact'
  BY <1>1, <1>2, <1>5, InfoNodeChange DEF GoodGraph
<1>9. DeadUncounted'
  BY <1>1, <1>5, <1>6 DEF GoodGraph, DeadUncounted
<1>10. MapCounted'
  BY <1>1, <1>5, <1>6 DEF GoodGraph, MapCounted
<1>11. /\ DFrames(Tail(stack), hNode, nRef) /\ CFrames(Tail(stack), hNode)
       /\ \A k \in 1..Len(Tail(stack)) : Tail(stack)[k][1] = "destroy" => Tail(stack)[k][2] # i
       /\ Tail(stack) # <<>> => Tail(stack)[1][1] # "create"
  BY <1>2, FramesDef, DFramesPop, CFramesPop DEF GoodGraph
<1>12. DFrames(Tail(stack), hNode', nRef) /\ CFrames(Tail(stack), hNode')
  BY <1>1, <1>11 DEF DFrames, CFrames
<1>13. DFrames(s, hNode', nRef) /\ CFrames(s, hNode')
  BY <1>2, <1>3, <1>11, <1>12, DFramesPush, CFramesPush
<1> HIDE DEF s
<1>14. s # <<>> /\ s[1][1] # "create"
  <2>1. Len(s) # 0
    BY <1>2, <1>4
  <2> QED BY <1>4, <2>1
<1>15. /\ DFrames(stack', hNode', nRef) /\ CFrames(stack', hNode')
       /\ stack' # <<>> => stack'[1][1] # "create"
       /\ \A k \in 1..Len(s) : \E l \in 1..Len(stack') : stack'[l] = s[k]
  BY <1>1, <1>2, <1>4, <1>13, <1>14, FreeInfoFrames
<1>16. ~Running("create")'
  BY <1>15 DEF Running, Top
<1>17. UncountedDying'
  <2>1. ASSUME NEW j \in hNode', nRef[j] = 0
        PROVE  \E l \in 1..Len(stack') : stack'[l] = <<"destroy", j>>
    <3>1. j \in hNode /\ j # i
      BY <1>1, <2>1
    <3>2. PICK k \in 1..Len(stack) : stack[k] = <<"destroy", j>>
      BY <2>1, <3>1 DEF GoodGraph, UncountedDying, Depth
    <3>3. stack[1] = <<"destroy", i>>
      BY <1>2, <1>3, FrameFacts DEF Depth
    <3>4. k # 1
      BY <3>1, <3>2, <3>3
    <3>5. k \in Int /\ k - 1 \in 1..(Len(stack) - 1) /\ (k - 1) + 1 = k
      BY <1>2, <3>4
    <3>6. /\ Len(Tail(stack)) = Len(stack) - 1
          /\ Tail(stack)[k - 1] = stack[k]
      BY <1>2, <3>5, PopFacts
    <3>7. k \in 1..Len(s)
      BY <1>2, <1>4, <3>5, <3>6
    <3>8. k - 1 \in 1..Len(Tail(stack))
      BY <3>5, <3>6
    <3>9. s[k] = stack[k]
      BY <1>4, <3>5, <3>6, <3>8
    <3> QED BY <1>15, <3>2, <3>7, <3>9
  <2> QED BY <1>6, <2>1 DEF UncountedDying, Depth
<1>18. DestroyFrames' /\ CreateFrames'
  BY <1>6, <1>15, <1>16 DEF DFrames, CFrames, DestroyFrames, CreateFrames, Depth
<1> QED BY <1>7, <1>8, <1>9, <1>10, <1>17, <1>18 DEF GoodGraph

-----------------------------------------------------------------------------
(* Frames of a stack, for any stack, set of list entries and references    *)

FramesOf(st) == {st[k] : k \in 1..Len(st)}

WFrames(st, C, u) ==
  \A k \in 1..Len(st) : st[k][1] \in {"create", "undo"} =>
     /\ k = Len(st) => u[st[k][2]] > 0
     /\ k # Len(st) => \E c \in C : c[1] = st[k + 1][2] /\ c[2] = st[k][2]

\* The operators above on the state's own stack.
LEMMA ListsDef ==
  /\ Calls = FramesOf(stack)
  /\ CreateWanted <=> WFrames(stack, cells, userInfo)
BY DEF Calls, FramesOf, Depth, CreateWanted, WFrames

\* A push adds its frame.
LEMMA FramesOfPush ==
  ASSUME NEW op \in Ops, NEW i \in Infos, NEW s \in Seq(Frames)
  PROVE  FramesOf(Push(op, i, s)) = FramesOf(s) \cup {<<op, i>>}
<1> DEFINE t == Push(op, i, s)
<1>1. /\ Len(s) \in Nat /\ Len(t) = Len(s) + 1 /\ t[1] = <<op, i>>
      /\ \A k \in 1..Len(s) : t[k + 1] = s[k]
  BY PushFacts
<1>2. \A k \in 1..Len(t) : \/ k = 1 /\ t[k] = <<op, i>>
                           \/ k - 1 \in 1..Len(s) /\ t[k] = s[k - 1]
  BY PushIndex
<1> HIDE DEF t
<1>3. FramesOf(t) \subseteq FramesOf(s) \cup {<<op, i>>}
  BY <1>2 DEF FramesOf
<1>4. FramesOf(s) \subseteq FramesOf(t)
  <2>1. \A k \in 1..Len(s) : k + 1 \in 1..Len(t)
    BY <1>1
  <2> QED BY <1>1, <2>1 DEF FramesOf
<1>5. <<op, i>> \in FramesOf(t)
  <2>1. 1 \in 1..Len(t)
    BY <1>1
  <2> QED BY <1>1, <2>1 DEF FramesOf
<1> QED BY <1>3, <1>4, <1>5 DEF t

\* A pop removes at most the innermost frame.
LEMMA FramesOfPop ==
  ASSUME NEW s \in Seq(Frames), s # <<>>
  PROVE  FramesOf(s) = FramesOf(Tail(s)) \cup {s[1]}
<1> DEFINE t == Tail(s)
<1>1. /\ Len(s) \in Nat /\ Len(s) >= 1 /\ Len(t) = Len(s) - 1
      /\ \A k \in 1..(Len(s) - 1) : t[k] = s[k + 1]
  BY PopFacts
<1> HIDE DEF t
<1>2. FramesOf(t) \subseteq FramesOf(s)
  <2>1. \A k \in 1..Len(t) : k + 1 \in 1..Len(s) /\ t[k] = s[k + 1]
    BY <1>1
  <2> QED BY <2>1 DEF FramesOf
<1>3. s[1] \in FramesOf(s)
  <2>1. 1 \in 1..Len(s)
    BY <1>1
  <2> QED BY <2>1 DEF FramesOf
<1>4. ASSUME NEW k \in 1..Len(s), k # 1
      PROVE  s[k] \in FramesOf(t)
  <2>1. k - 1 \in 1..(Len(s) - 1) /\ (k - 1) + 1 = k
    BY <1>1, <1>4
  <2>2. k - 1 \in 1..Len(t) /\ t[k - 1] = s[k]
    BY <1>1, <2>1
  <2> QED BY <2>2 DEF FramesOf
<1>5. FramesOf(s) \subseteq FramesOf(t) \cup {s[1]}
  BY <1>4 DEF FramesOf
<1> QED BY <1>2, <1>3, <1>5 DEF t

\* A pushed frame creates a node for the application, for the frame below, or
\* creates none.
LEMMA WFramesPush ==
  ASSUME NEW op \in Ops, NEW i \in Infos, NEW s \in Seq(Frames), NEW C, NEW u,
         WFrames(s, C, u),
         \/ op \notin {"create", "undo"}
         \/ s = <<>> /\ u[i] > 0
         \/ s # <<>> /\ \E c \in C : c[1] = s[1][2] /\ c[2] = i
  PROVE  WFrames(Push(op, i, s), C, u)
<1> DEFINE t == Push(op, i, s)
<1>1. /\ Len(s) \in Nat /\ Len(t) = Len(s) + 1 /\ t[1] = <<op, i>>
      /\ \A k \in 1..Len(s) : t[k + 1] = s[k]
  BY PushFacts
<1>2. \A k \in 1..Len(t) : \/ k = 1 /\ t[k] = <<op, i>>
                           \/ k - 1 \in 1..Len(s) /\ t[k] = s[k - 1]
  BY PushIndex
<1>3. s = <<>> <=> Len(s) = 0
  OBVIOUS
<1> HIDE DEF t
<1>4. ASSUME NEW k \in 1..Len(t), t[k][1] \in {"create", "undo"}
      PROVE  /\ k = Len(t) => u[t[k][2]] > 0
             /\ k # Len(t) => \E c \in C : c[1] = t[k + 1][2] /\ c[2] = t[k][2]
  <2>1. CASE k = 1 /\ t[k] = <<op, i>>
    <3>1. op \in {"create", "undo"}
      BY <1>4, <2>1
    <3>2. CASE s = <<>> /\ u[i] > 0
      BY <1>1, <1>3, <2>1, <3>2
    <3>3. CASE s # <<>> /\ \E c \in C : c[1] = s[1][2] /\ c[2] = i
      <4>1. 1 \in 1..Len(s) /\ Len(t) # 1
        BY <1>1, <1>3, <3>3
      <4>2. t[1 + 1] = s[1]
        BY <1>1, <4>1
      <4> QED BY <2>1, <3>3, <4>1, <4>2
    <3> QED BY <3>1, <3>2, <3>3
  <2>2. CASE k - 1 \in 1..Len(s) /\ t[k] = s[k - 1]
    <3>1. k \in Int /\ (k = Len(t) <=> k - 1 = Len(s)) /\ (k - 1) + 1 = k
      BY <1>1
    <3>2. k # Len(t) => t[k + 1] = s[(k - 1) + 1]
      <4>1. k # Len(t) => k \in 1..Len(s)
        BY <1>1, <2>2
      <4> QED BY <1>1, <3>1, <4>1
    <3> QED BY <1>4, <2>2, <3>1, <3>2 DEF WFrames
  <2> QED BY <1>2, <2>1, <2>2
<1> QED BY <1>4 DEF WFrames, t

\* A pop leaves the creations below as they are.
LEMMA WFramesPop ==
  ASSUME NEW s \in Seq(Frames), s # <<>>, NEW C, NEW u, WFrames(s, C, u)
  PROVE  WFrames(Tail(s), C, u)
<1> DEFINE t == Tail(s)
<1>1. /\ Len(s) \in Nat /\ Len(s) >= 1 /\ Len(t) = Len(s) - 1
      /\ \A k \in 1..(Len(s) - 1) : t[k] = s[k + 1]
  BY PopFacts
<1> HIDE DEF t
<1>2. ASSUME NEW k \in 1..Len(t), t[k][1] \in {"create", "undo"}
      PROVE  /\ k = Len(t) => u[t[k][2]] > 0
             /\ k # Len(t) => \E c \in C : c[1] = t[k + 1][2] /\ c[2] = t[k][2]
  <2>1. k + 1 \in 1..Len(s) /\ t[k] = s[k + 1] /\ (k = Len(t) <=> k + 1 = Len(s))
    BY <1>1
  <2>2. k # Len(t) => t[k + 1] = s[(k + 1) + 1]
    <3>1. k # Len(t) => k + 1 \in 1..(Len(s) - 1)
      BY <1>1
    <3> QED BY <1>1, <3>1
  <2> QED BY <1>2, <2>1, <2>2 DEF WFrames
<1> QED BY <1>2 DEF WFrames, t

\* An info with a node, in a list or held by the application is not freed.
LEMMA InfoCounted ==
  ASSUME TypeOK, InfoRefExact, NEW i \in Infos,
         i \in hNode \/ userInfo[i] > 0 \/ \E c \in cells : c[2] = i
  PROVE  infoRef[i] > 0
<1> DEFINE n == Cardinality(CellsTo(i))
           h == IF i \in hNode THEN 1 ELSE 0
<1>1. n \in Nat /\ (n = 0 => \A c \in cells : c[2] # i)
  <2>1. cells \in SUBSET Cells
    BY DEF TypeOK
  <2> QED BY <2>1, CountZero DEF CellsTo
<1>2. userInfo[i] \in Nat /\ h \in Nat /\ infoRef[i] = userInfo[i] + n + h
  BY DEF TypeOK, InfoRefExact
<1>3. i \in hNode => h = 1
  OBVIOUS
<1>4. (\E c \in cells : c[2] = i) => n # 0
  BY <1>1
<1> HIDE DEF n, h
<1> QED BY <1>1, <1>2, <1>3, <1>4

\* The info of a node being created is not freed.
LEMMA CreatedInfoCounted ==
  ASSUME TypeOK, InfoRefExact, CreateWanted, NEW i \in Infos,
         <<"create", i>> \in Calls \/ <<"undo", i>> \in Calls
  PROVE  infoRef[i] > 0
<1>1. PICK k \in Depth : stack[k][1] \in {"create", "undo"} /\ stack[k][2] = i
  BY DEF Calls
<1>2. userInfo[i] > 0 \/ \E c \in cells : c[2] = i
  BY <1>1 DEF CreateWanted
<1> QED BY <1>2, InfoCounted

-----------------------------------------------------------------------------
(* How the steps change what the lists stand for *)

\* The parts of FreedInfos for any stack.
FFrames(st, C, r) ==
  /\ \A i \in Infos : <<"infofree", i>> \in FramesOf(st) => r[i] = 0
  /\ \A c \in C : c[1] \in Infos => r[c[1]] > 0 \/ <<"infofree", c[1]>> \in FramesOf(st)

\* xnNodeInfoFree on a counted info: its list goes down when the count is 0.
LEMMA FreeInfoFreed ==
  ASSUME TypeOK, NEW i \in Infos, infoRef[i] > 0, NEW s \in Seq(Frames), NEW C,
         FFrames(s, C, infoRef), FreeInfo(i, s)
  PROVE  FFrames(stack', C, infoRef')
<1>1. /\ \A j \in Infos : infoRef[j] \in Int
      /\ \A j \in Infos : j # i => infoRef'[j] = infoRef[j]
      /\ infoRef'[i] = infoRef[i] - 1
  BY DEF FreeInfo, TypeOK
<1>2. CASE infoRef[i] = 1
  <2>1. "infofree" \in Ops
    BY DEF Ops
  <2>2. stack' = Push("infofree", i, s)
    BY <1>2 DEF FreeInfo
  <2>3. FramesOf(stack') = FramesOf(s) \cup {<<"infofree", i>>}
    BY <2>1, <2>2, FramesOfPush
  <2>4. infoRef'[i] = 0
    BY <1>1, <1>2
  <2>5. \A j \in Infos : <<"infofree", j>> \in FramesOf(stack') => infoRef'[j] = 0
    BY <1>1, <2>3, <2>4 DEF FFrames
  <2>6. \A c \in C : c[1] \in Infos => infoRef'[c[1]] > 0 \/ <<"infofree", c[1]>> \in FramesOf(stack')
    BY <1>1, <2>3 DEF FFrames
  <2> QED BY <2>5, <2>6 DEF FFrames
<1>3. CASE infoRef[i] # 1
  <2>1. stack' = s
    BY <1>3 DEF FreeInfo
  <2>2. infoRef'[i] > 0
    BY <1>1, <1>3
  <2>3. \A j \in Infos : <<"infofree", j>> \in FramesOf(s) => infoRef'[j] = 0
    BY <1>1 DEF FFrames
  <2>4. \A c \in C : c[1] \in Infos => infoRef'[c[1]] > 0 \/ <<"infofree", c[1]>> \in FramesOf(s)
    BY <1>1, <2>2 DEF FFrames
  <2> QED BY <2>1, <2>3, <2>4 DEF FFrames
<1> QED BY <1>2, <1>3

\* FreeInfo pushes a frame that creates nothing.
LEMMA FreeInfoWanted ==
  ASSUME NEW i \in Infos, NEW s \in Seq(Frames), NEW C, NEW u, WFrames(s, C, u), FreeInfo(i, s)
  PROVE  /\ WFrames(stack', C, u) /\ FramesOf(s) \subseteq FramesOf(stack')
<1>1. "infofree" \in Ops
  BY DEF Ops
<1>2. CASE stack' = s
  BY <1>2
<1>3. CASE stack' = Push("infofree", i, s)
  BY <1>1, <1>3, WFramesPush, FramesOfPush
<1> QED BY <1>2, <1>3 DEF FreeInfo

\* xnProductionNodeRelease pushes at most a frame that creates and frees nothing.
LEMMA ReleaseLists ==
  ASSUME TypeOK, NEW i \in Infos, CreateWanted, FreedInfos, ReleaseNode(i, stack),
         UNCHANGED <<cells, infoRef, userInfo>>
  PROVE  CreateWanted' /\ FreedInfos' /\ Calls \subseteq Calls'
<1>1. "destroy" \in Ops /\ stack \in Seq(Frames)
  BY DEF Ops, TypeOK
<1>2. WFrames(stack, cells, userInfo)
  BY ListsDef
<1>3. CASE stack' = stack
  BY <1>3 DEF CreateWanted, FreedInfos, Calls, Depth
<1>4. CASE stack' = Push("destroy", i, stack)
  <2>1. FramesOf(stack') = FramesOf(stack) \cup {<<"destroy", i>>}
    BY <1>1, <1>4, FramesOfPush
  <2>2. WFrames(stack', cells, userInfo)
    BY <1>1, <1>2, <1>4, WFramesPush
  <2>3. Calls = FramesOf(stack) /\ Calls' = FramesOf(stack')
    BY DEF Calls, FramesOf, Depth
  <2>4. FreedInfos'
    BY <2>1, <2>3 DEF FreedInfos
  <2>5. CreateWanted'
    BY <2>2 DEF CreateWanted, WFrames, Depth
  <2> QED BY <2>1, <2>3, <2>4, <2>5
<1> QED BY <1>3, <1>4 DEF ReleaseNode

\* Calls that only count references on nodes or the context.
LEMMA ListsSame ==
  ASSUME GoodLists, UNCHANGED <<infoRef, cells, held, hNode, stack, userInfo>>
  PROVE  GoodLists'
<1>1. Calls' = Calls /\ Depth' = Depth
  BY DEF Calls, Depth
<1>2. HeldListed' /\ FreedInfos'
  BY <1>1 DEF GoodLists, HeldListed, FreedInfos
<1>3. CreateWanted'
  BY <1>1 DEF GoodLists, CreateWanted
<1> QED BY <1>2, <1>3 DEF GoodLists

\* Between two calls no creation is in progress and no list is being freed.
LEMMA IdleLists ==
  ASSUME Idle
  PROVE  /\ stack = <<>> /\ stack \in Seq(Frames) /\ Depth = {} /\ Calls = {}
         /\ FramesOf(stack) = {} /\ \A C, u : WFrames(stack, C, u)
BY DEF Idle, Depth, Calls, FramesOf, WFrames

-----------------------------------------------------------------------------
(* Calls that return at once *)

\* xnNodeInfoAllocate and xnEnumerateExistingNodes.
LEMMA ObtainInfosLists ==
  ASSUME TypeOK, GoodGraph, GoodLists,
         \/ \E i \in Infos, needed \in SUBSET Infos : NodeInfoAllocate(i, needed)
         \/ EnumerateExistingNodes
  PROVE  GoodLists'
<1>1. CASE \E i \in Infos, needed \in SUBSET Infos : NodeInfoAllocate(i, needed)
  <2>1. PICK i \in Infos, needed \in SUBSET Infos : NodeInfoAllocate(i, needed)
    BY <1>1
  <2>2. /\ Idle /\ \A n \in needed : HasRoom(i, n)
        /\ infoRef' = [j \in Infos |-> IF j = i THEN 1
                                       ELSE IF j \in needed THEN infoRef[j] + 1 ELSE infoRef[j]]
        /\ cells' = cells \cup {NewCell(i, n) : n \in needed}
        /\ UNCHANGED <<hNode, held, stack>>
    BY <2>1 DEF NodeInfoAllocate, CanCall, nodeVars
  <2>3. \A n \in needed : NewCell(i, n)[1] = i
    BY <2>2, NewCellFacts
  <2>4. stack = <<>> /\ Calls = {} /\ Calls' = {} /\ Depth' = {}
    BY <2>2, IdleLists DEF Calls, Depth
  <2>5. ASSUME NEW j \in Infos
        PROVE  infoRef[j] > 0 \/ j = i => infoRef'[j] > 0
    <3>1. infoRef[j] \in Int
      BY DEF TypeOK
    <3>2. \/ infoRef'[j] = 1
          \/ j # i /\ infoRef'[j] = infoRef[j] + 1
          \/ j # i /\ infoRef'[j] = infoRef[j]
      BY <2>2
    <3> QED BY <3>1, <3>2
  <2>6. FreedInfos'
    BY <2>2, <2>3, <2>4, <2>5 DEF GoodLists, FreedInfos
  <2>7. HeldListed' /\ CreateWanted'
    BY <2>2, <2>4 DEF GoodLists, HeldListed, CreateWanted
  <2> QED BY <2>6, <2>7 DEF GoodLists
<1>2. CASE EnumerateExistingNodes
  <2>1. /\ infoRef' = [i \in Infos |-> IF i \in nodesMap THEN infoRef[i] + 1 ELSE infoRef[i]]
        /\ Idle /\ UNCHANGED <<cells, hNode, held, stack>>
    BY <1>2 DEF EnumerateExistingNodes, CanCall, nodeVars
  <2>2. stack = <<>> /\ Calls = {} /\ Calls' = {} /\ Depth' = {}
    BY <2>1, IdleLists DEF Calls, Depth
  <2>3. ASSUME NEW j \in Infos, infoRef[j] > 0
        PROVE  infoRef'[j] > 0
    BY <2>1, <2>3 DEF TypeOK
  <2>4. FreedInfos'
    BY <2>1, <2>2, <2>3 DEF GoodLists, FreedInfos
  <2>5. HeldListed' /\ CreateWanted'
    BY <2>1, <2>2 DEF GoodLists, HeldListed, CreateWanted
  <2> QED BY <2>4, <2>5 DEF GoodLists
<1> QED BY <1>1, <1>2

\* xnNodeInfoFree by the application.
LEMMA NodeInfoFreeLists ==
  ASSUME TypeOK, GoodGraph, GoodLists, NEW i \in Infos, NodeInfoFree(i)
  PROVE  GoodLists'
<1>1. /\ Idle /\ userInfo[i] > 0 /\ FreeInfo(i, stack)
      /\ UNCHANGED <<cells, hNode, held>>
  BY IdleLists DEF NodeInfoFree, nodeVars
<1>2. stack \in Seq(Frames) /\ Calls = FramesOf(stack) /\ WFrames(stack, cells, userInfo')
  BY <1>1, IdleLists, ListsDef
<1>3. infoRef[i] > 0
  BY <1>1, InfoCounted DEF GoodGraph
<1>4. FFrames(stack, cells, infoRef)
  BY <1>2 DEF GoodLists, FreedInfos, FFrames
<1>5. FFrames(stack', cells, infoRef')
  BY <1>1, <1>2, <1>3, <1>4, FreeInfoFreed
<1>6. WFrames(stack', cells, userInfo') /\ FramesOf(stack) \subseteq FramesOf(stack')
  BY <1>1, <1>2, FreeInfoWanted
<1>7. Calls' = FramesOf(stack')
  BY DEF Calls, FramesOf, Depth
<1>8. FreedInfos' /\ CreateWanted'
  BY <1>1, <1>5, <1>6, <1>7 DEF FreedInfos, FFrames, CreateWanted, WFrames, Depth
<1>9. HeldListed'
  BY <1>1, <1>2, <1>6, <1>7 DEF GoodLists, HeldListed
<1> QED BY <1>8, <1>9 DEF GoodLists

\* xnCreateProductionTree by the application, on an info it holds.
LEMMA CreateProductionTreeLists ==
  ASSUME TypeOK, GoodLists, NEW i \in Infos, CreateProductionTree(i)
  PROVE  GoodLists'
<1>1. Idle /\ userInfo[i] > 0 /\ UNCHANGED <<infoRef, cells, hNode, held, userInfo>>
  BY DEF CreateProductionTree, CanCall, infoVars
<1>2. CASE i \in hNode
  <2>1. stack' = stack
    BY <1>2 DEF CreateProductionTree
  <2> QED BY <1>1, <2>1, ListsSame
<1>3. CASE i \notin hNode
  <2>1. stack' = Push("create", i, <<>>) /\ "create" \in Ops /\ stack = <<>>
    BY <1>1, <1>3, IdleLists DEF CreateProductionTree, Ops
  <2>2. Calls = {} /\ FramesOf(<<>>) = {} /\ \A C, u : WFrames(<<>>, C, u)
    BY <1>1, <2>1, IdleLists
  <2>3. FramesOf(stack') = {<<"create", i>>}
    <3>1. FramesOf(stack') = FramesOf(<<>>) \cup {<<"create", i>>}
      BY <2>1, EmptyStack, FramesOfPush
    <3> QED BY <2>2, <3>1
  <2>7. WFrames(stack', cells, userInfo)
    BY <1>1, <2>1, <2>2, EmptyStack, WFramesPush
  <2>4. Calls' = FramesOf(stack')
    BY DEF Calls, FramesOf, Depth
  <2>5. FreedInfos' /\ HeldListed'
    BY <1>1, <2>2, <2>3, <2>4 DEF GoodLists, FreedInfos, HeldListed
  <2>6. CreateWanted'
    BY <1>1, <2>7 DEF CreateWanted, WFrames, Depth
  <2> QED BY <2>5, <2>6 DEF GoodLists
<1> QED BY <1>2, <1>3

\* A released reference of the application.
LEMMA ProductionNodeReleaseLists ==
  ASSUME TypeOK, GoodLists, NEW i \in Infos, ProductionNodeRelease(i)
  PROVE  GoodLists'
<1>1. Idle /\ ReleaseNode(i, <<>>) /\ UNCHANGED <<infoRef, cells, hNode, held, userInfo>>
  BY DEF ProductionNodeRelease, CanUseNode, infoVars
<1>2. ReleaseNode(i, stack)
  BY <1>1, IdleLists
<1>3. CreateWanted' /\ FreedInfos' /\ Calls \subseteq Calls'
  BY <1>1, <1>2, ReleaseLists DEF GoodLists
<1> QED BY <1>1, <1>3 DEF GoodLists, HeldListed

\* xnAddNeededNode: the owner of the new entry is a node the application holds.
LEMMA AddNeededNodeLists ==
  ASSUME TypeOK, GoodGraph, GoodLists, NEW a \in Infos, NEW b \in Infos, AddNeededNode(a, b)
  PROVE  GoodLists'
<1> DEFINE c == NewCell(a, b)
<1>1. /\ Idle /\ user[a] > 0 /\ HasRoom(a, b) /\ infoRef' = [infoRef EXCEPT ![b] = @ + 1]
      /\ cells' = cells \cup {c} /\ held' = held \cup {c}
      /\ UNCHANGED <<hNode, stack>>
  BY DEF AddNeededNode, CanUseNode, appVars
<1>2. c[1] = a /\ a \in hNode /\ infoRef[a] > 0
  BY <1>1, NewCellFacts, CountedExist, InfoCounted DEF GoodGraph
<1> HIDE DEF c
<1>3. Calls = {} /\ Calls' = {} /\ Depth' = {}
  BY <1>1, IdleLists DEF Calls, Depth
<1>4. ASSUME NEW j \in Infos, infoRef[j] > 0
      PROVE  infoRef'[j] > 0
  BY <1>1, <1>4 DEF TypeOK
<1>5. FreedInfos'
  BY <1>1, <1>2, <1>3, <1>4 DEF GoodLists, FreedInfos
<1>6. HeldListed' /\ CreateWanted'
  BY <1>1, <1>2, <1>3 DEF GoodLists, HeldListed, CreateWanted
<1> QED BY <1>5, <1>6 DEF GoodLists

\* A node becomes one of the context's owned nodes.
LEMMA MarkOwnedNodeLists ==
  ASSUME TypeOK, GoodLists, NEW i \in Infos, MarkOwnedNode(i)
  PROVE  GoodLists'
<1> DEFINE c == NewCell(Owned, i)
<1>1. /\ Idle /\ HasRoom(Owned, i) /\ infoRef' = [infoRef EXCEPT ![i] = @ + 1]
      /\ cells' = cells \cup {c} /\ held' = held \cup {c}
      /\ UNCHANGED <<hNode, stack>>
  BY DEF MarkOwnedNode, CanCall
<1>2. c[1] = Owned /\ Owned \notin Infos
  BY <1>1, NewCellFacts, ConstantsAssumption
<1> HIDE DEF c
<1>3. Calls = {} /\ Calls' = {} /\ Depth' = {}
  BY <1>1, IdleLists DEF Calls, Depth
<1>4. ASSUME NEW j \in Infos, infoRef[j] > 0
      PROVE  infoRef'[j] > 0
  BY <1>1, <1>4 DEF TypeOK
<1>5. FreedInfos'
  BY <1>1, <1>2, <1>3, <1>4 DEF GoodLists, FreedInfos
<1>6. HeldListed' /\ CreateWanted'
  BY <1>1, <1>2, <1>3 DEF GoodLists, HeldListed, CreateWanted
<1> QED BY <1>5, <1>6 DEF GoodLists

\* xnRemoveNeededNode: the node still holds its info when the entry is gone.
LEMMA RemoveNeededNodeLists ==
  ASSUME TypeOK, GoodGraph, GoodLists, NEW a \in Infos, NEW b \in Infos, RemoveNeededNode(a, b),
         InfoRefExact'
  PROVE  GoodLists'
<1>1. PICK c \in cells : c[2] = b /\ c[1] = a /\ cells' = cells \ {c} /\ held' = held \ {c}
  BY DEF RemoveNeededNode, CellsTo
<1>2. /\ Idle /\ user[a] > 0 /\ user[b] > 0 /\ infoRef' = [infoRef EXCEPT ![b] = @ - 1]
      /\ ReleaseNode(b, <<>>) /\ UNCHANGED <<hNode, user, userInfo, lost>>
  BY <1>1 DEF RemoveNeededNode, CanUseNode, appVars
<1>3. b \in hNode /\ cells \in SUBSET Cells
  BY <1>2, CountedExist DEF TypeOK
<1>4. infoRef'[b] > 0
  <2> DEFINE n == Cardinality(CellsTo(b)')
  <2>1. n \in Nat
    <3>1. cells' \in SUBSET Cells
      BY <1>1, <1>3
    <3>2. Cardinality({d \in cells' : d[2] = b}) \in Nat
      BY <3>1, CountZero
    <3>3. CellsTo(b)' = {d \in cells' : d[2] = b}
      BY DEF CellsTo
    <3> QED BY <3>2, <3>3
  <2>2. infoRef'[b] = userInfo'[b] + n + 1 /\ userInfo'[b] \in Nat
    BY <1>2, <1>3 DEF InfoRefExact, TypeOK
  <2> HIDE DEF n
  <2> QED BY <2>1, <2>2
<1>5. \A j \in Infos : infoRef[j] > 0 => infoRef'[j] > 0
  BY <1>2, <1>4 DEF TypeOK
<1>6. stack = <<>> /\ Calls = {} /\ stack' \in {<<>>, Push("destroy", b, <<>>)}
  BY <1>2, IdleLists DEF ReleaseNode
<1>7. "destroy" \in Ops /\ FramesOf(<<>>) = {} /\ WFrames(<<>>, cells', userInfo')
  BY <1>6, IdleLists DEF Ops, Idle
<1>8. FramesOf(stack') \subseteq {<<"destroy", b>>} /\ WFrames(stack', cells', userInfo')
  <2>1. FramesOf(Push("destroy", b, <<>>)) = FramesOf(<<>>) \cup {<<"destroy", b>>}
    BY <1>7, EmptyStack, FramesOfPush
  <2>2. WFrames(Push("destroy", b, <<>>), cells', userInfo')
    BY <1>7, EmptyStack, WFramesPush
  <2> QED BY <1>6, <1>7, <2>1, <2>2
<1>9. Calls' = FramesOf(stack')
  BY DEF Calls, FramesOf, Depth
<1>10. FreedInfos'
  BY <1>1, <1>5, <1>6, <1>8, <1>9 DEF GoodLists, FreedInfos
<1>11. CreateWanted'
  BY <1>8 DEF CreateWanted, WFrames, Depth
<1>12. HeldListed'
  BY <1>1, <1>2, <1>6 DEF GoodLists, HeldListed
<1> QED BY <1>10, <1>11, <1>12 DEF GoodLists

-----------------------------------------------------------------------------
(* The steps of a call in progress *)

\* The innermost frame is one of the calls in progress.
LEMMA TopCall ==
  ASSUME TypeOK, NEW op, Running(op)
  PROVE  /\ <<op, Top[2]>> \in Calls /\ <<op, Top[2]>> = stack[1] /\ Top[2] \in Infos
         /\ stack \in Seq(Frames) /\ stack # <<>> /\ 1 \in Depth
<1>1. /\ Len(stack) \in Nat /\ Len(stack) >= 1 /\ stack \in Seq(Frames) /\ stack # <<>>
      /\ Top[2] \in Infos /\ Top = stack[1] /\ Top[1] = op
  BY TopFacts DEF TypeOK
<1>2. 1 \in Depth
  BY <1>1 DEF Depth
<1>3. stack[1] = <<op, Top[2]>>
  BY <1>1, <1>2, FrameFacts DEF Depth
<1> QED BY <1>1, <1>2, <1>3 DEF Calls

\* Freeing the list of a freed info: none of its entries counts a reference
\* on a node, and no creation depends on them.
LEMMA InfoFreeCellLists ==
  ASSUME TypeOK, GoodGraph, GoodLists, InfoFreeCell
  PROVE  GoodLists'
<1>1. PICK c \in cells : c[1] = Top[2] /\ cells' = cells \ {c} /\ FreeInfo(c[2], stack)
  BY DEF InfoFreeCell
<1>2. Running("infofree") /\ UNCHANGED <<hNode, held, userInfo>>
  BY DEF InfoFreeCell, nodeVars, appVars
<1>3. /\ c[2] \in Infos /\ Top[2] \in Infos /\ <<"infofree", Top[2]>> \in Calls
      /\ stack \in Seq(Frames) /\ Owned \notin Infos
  BY <1>2, TopCall, ConstantsAssumption DEF TypeOK, Cells
<1>4. infoRef[Top[2]] = 0
  BY <1>3 DEF GoodLists, FreedInfos
<1>5. infoRef[c[2]] > 0
  BY <1>1, <1>3, InfoCounted DEF GoodGraph
<1>6. Top[2] \notin hNode
  <2>1. Top[2] \in hNode => infoRef[Top[2]] > 0
    BY <1>3, InfoCounted DEF GoodGraph
  <2> QED BY <1>4, <2>1
<1>7. \A x \in Infos : <<"create", x>> \in Calls \/ <<"undo", x>> \in Calls => x # Top[2]
  <2>1. ASSUME NEW x \in Infos, <<"create", x>> \in Calls \/ <<"undo", x>> \in Calls
        PROVE  infoRef[x] > 0
    BY <2>1, CreatedInfoCounted DEF GoodGraph, GoodLists
  <2> QED BY <1>4, <2>1
<1>8. c \notin held
  BY <1>1, <1>3, <1>6, <1>7 DEF GoodLists, HeldListed
<1>9. Calls = FramesOf(stack) /\ Calls' = FramesOf(stack')
  BY DEF Calls, FramesOf, Depth
<1>10. FFrames(stack, cells', infoRef)
  BY <1>1, <1>9 DEF GoodLists, FreedInfos, FFrames
<1>11. FFrames(stack', cells', infoRef')
  BY <1>1, <1>3, <1>5, <1>10, FreeInfoFreed
<1>12. WFrames(stack, cells', userInfo)
  <2>1. ASSUME NEW k \in 1..Len(stack), stack[k][1] \in {"create", "undo"}, k # Len(stack)
        PROVE  \E d \in cells' : d[1] = stack[k + 1][2] /\ d[2] = stack[k][2]
    <3>1. PICK d \in cells : d[1] = stack[k + 1][2] /\ d[2] = stack[k][2]
      BY <2>1 DEF GoodLists, CreateWanted, Depth
    <3>2. Len(stack) \in Nat
      BY <1>3
    <3>3. k + 1 \in 1..Len(stack) /\ k < k + 1
      BY <2>1, <3>2
    <3>4. stack[k + 1][1] = "create"
      BY <2>1, <3>3 DEF GoodGraph, CreateFrames, Depth
    <3>5. stack[k + 1] = <<"create", stack[k + 1][2]>> /\ stack[k + 1][2] \in Infos
      BY <1>3, <3>3, <3>4, FrameFacts
    <3>6. <<"create", stack[k + 1][2]>> \in Calls
      BY <3>3, <3>5 DEF Calls, Depth
    <3>7. d # c
      BY <1>1, <1>7, <3>1, <3>5, <3>6
    <3> QED BY <1>1, <3>1, <3>7
  <2>2. \A k \in 1..Len(stack) : stack[k][1] \in {"create", "undo"} /\ k = Len(stack)
                               => userInfo[stack[k][2]] > 0
    BY DEF GoodLists, CreateWanted, Depth
  <2> QED BY <2>1, <2>2 DEF WFrames
<1>13. WFrames(stack', cells', userInfo) /\ FramesOf(stack) \subseteq FramesOf(stack')
  BY <1>1, <1>3, <1>12, FreeInfoWanted
<1>14. FreedInfos' /\ CreateWanted'
  BY <1>2, <1>9, <1>11, <1>13 DEF FreedInfos, FFrames, CreateWanted, WFrames, Depth
<1>15. HeldListed'
  BY <1>1, <1>2, <1>8, <1>9, <1>13 DEF GoodLists, HeldListed
<1> QED BY <1>14, <1>15 DEF GoodLists

\* xnNodeInfoFree returns when its list is empty; xnFreeProductionNodeImpl
\* returns.
LEMMA ReturnLists ==
  ASSUME TypeOK, GoodLists, InfoFreeReturn \/ FreeProductionNode
  PROVE  GoodLists'
<1>1. /\ stack' = Tail(stack) /\ UNCHANGED <<infoRef, cells, hNode, held, userInfo>>
      /\ \/ Running("free")
         \/ Running("infofree") /\ Needs(Top[2]) = {}
  BY DEF InfoFreeReturn, FreeProductionNode, infoVars, nodeVars, appVars
<1>2. stack \in Seq(Frames) /\ stack # <<>>
  BY <1>1, TopCall
<1>3. FramesOf(stack) = FramesOf(stack') \cup {stack[1]}
  BY <1>1, <1>2, FramesOfPop
<1>4. WFrames(stack', cells, userInfo)
  BY <1>1, <1>2, WFramesPop, ListsDef DEF GoodLists
<1>5. Calls = FramesOf(stack) /\ Calls' = FramesOf(stack')
  BY DEF Calls, FramesOf, Depth
<1>6. \/ stack[1] = <<"free", Top[2]>>
      \/ stack[1] = <<"infofree", Top[2]>> /\ Needs(Top[2]) = {}
  <2>1. \A op : Running(op) => stack[1] = <<op, Top[2]>>
    BY TopCall
  <2> QED BY <1>1, <2>1
<1>7. \A x : /\ <<"create", x>> \in Calls => <<"create", x>> \in Calls'
             /\ <<"undo", x>> \in Calls => <<"undo", x>> \in Calls'
  BY <1>3, <1>5, <1>6
<1>8. HeldListed'
  BY <1>1, <1>7 DEF GoodLists, HeldListed
<1>9. CreateWanted'
  BY <1>1, <1>4 DEF CreateWanted, WFrames, Depth
<1>10. FreedInfos'
  <2>1. ASSUME NEW c \in cells, <<"infofree", c[1]>> \in Calls
        PROVE  <<"infofree", c[1]>> \in Calls'
    <3>1. Needs(Top[2]) = {} => c[1] # Top[2]
      BY DEF Needs
    <3> QED BY <1>3, <1>5, <1>6, <2>1, <3>1
  <2>2. Calls' \subseteq Calls
    BY <1>3, <1>5
  <2> QED BY <1>1, <2>1, <2>2 DEF GoodLists, FreedInfos
<1> QED BY <1>8, <1>9, <1>10 DEF GoodLists

\* A reference on a needed node goes.
LEMMA ReleaseNeededLists ==
  ASSUME TypeOK, GoodLists, UndoRelease \/ DestroyRelease
  PROVE  GoodLists'
<1>1. PICK c \in held : held' = held \ {c} /\ ReleaseNode(c[2], stack)
  BY DEF UndoRelease, DestroyRelease, ToRelease
<1>2. UNCHANGED <<infoRef, cells, hNode, userInfo>>
  BY DEF UndoRelease, DestroyRelease, infoVars, appVars
<1>3. c[2] \in Infos
  BY DEF TypeOK, Cells
<1>4. CreateWanted' /\ FreedInfos' /\ Calls \subseteq Calls'
  BY <1>1, <1>2, <1>3, ReleaseLists DEF GoodLists
<1>5. HeldListed'
  BY <1>1, <1>2, <1>4 DEF GoodLists, HeldListed
<1> QED BY <1>4, <1>5 DEF GoodLists

\* The loop over the needed trees of a node being created.
LEMMA CreateNeededLists ==
  ASSUME TypeOK, GoodLists, CreateNeeded
  PROVE  GoodLists'
<1>1. PICK c \in ToCreate(Top[2]) :
        \/ held' = held \cup {c} /\ stack' = stack
        \/ stack' = Push("create", c[2], stack) /\ held' = held
  BY DEF CreateNeeded
<1>2. Running("create") /\ UNCHANGED <<infoRef, cells, hNode, userInfo>>
  BY DEF CreateNeeded, infoVars, appVars
<1>3. c \in cells /\ c[1] = Top[2] /\ c[2] \in Infos /\ "create" \in Ops
  BY DEF ToCreate, TypeOK, Cells, Ops
<1>4. <<"create", Top[2]>> \in Calls /\ stack[1] = <<"create", Top[2]>> /\ stack \in Seq(Frames) /\ stack # <<>>
  BY <1>2, TopCall
<1>5. Calls = FramesOf(stack) /\ Calls' = FramesOf(stack')
  BY DEF Calls, FramesOf, Depth
<1>6. WFrames(stack, cells, userInfo)
  BY ListsDef DEF GoodLists
<1>7. CASE held' = held \cup {c} /\ stack' = stack
  <2>1. HeldListed'
    BY <1>2, <1>3, <1>4, <1>5, <1>7 DEF GoodLists, HeldListed
  <2>2. FreedInfos' /\ CreateWanted'
    BY <1>2, <1>5, <1>7 DEF GoodLists, FreedInfos, CreateWanted, Depth
  <2> QED BY <2>1, <2>2 DEF GoodLists
<1>8. CASE stack' = Push("create", c[2], stack) /\ held' = held
  <2>1. FramesOf(stack') = FramesOf(stack) \cup {<<"create", c[2]>>}
    BY <1>3, <1>4, <1>8, FramesOfPush
  <2>2. \E d \in cells : d[1] = stack[1][2] /\ d[2] = c[2]
    BY <1>3, <1>4
  <2>3. WFrames(stack', cells, userInfo)
    BY <1>3, <1>4, <1>6, <1>8, <2>2, WFramesPush
  <2>4. HeldListed' /\ FreedInfos'
    BY <1>2, <1>5, <1>8, <2>1 DEF GoodLists, HeldListed, FreedInfos
  <2>5. CreateWanted'
    BY <1>2, <2>3 DEF CreateWanted, WFrames, Depth
  <2> QED BY <2>4, <2>5 DEF GoodLists
<1> QED BY <1>1, <1>7, <1>8

\* A node is created: its info is counted once more, and the entry of the
\* creation that needed it counts the node.
LEMMA CreateRootNodeLists ==
  ASSUME TypeOK, GoodGraph, GoodLists, CreateRootNode
  PROVE  GoodLists'
<1> DEFINE i == Top[2]
<1>1. /\ Running("create") /\ hNode' = hNode \cup {i} /\ infoRef' = [infoRef EXCEPT ![i] = @ + 1]
      /\ stack' = Tail(stack) /\ UNCHANGED <<cells, userInfo>>
      /\ \/ held' = held
         \/ /\ Len(stack) # 1
            /\ \E c \in cells : c[1] = stack[2][2] /\ held' = held \cup {c}
  BY DEF CreateRootNode, ReturnNode, ToCreate
<1>2. /\ <<"create", i>> \in Calls /\ stack[1] = <<"create", i>> /\ i \in Infos
      /\ stack \in Seq(Frames) /\ stack # <<>>
  BY <1>1, TopCall
<1> HIDE DEF i
<1>3. FramesOf(stack) = FramesOf(stack') \cup {<<"create", i>>}
  BY <1>1, <1>2, FramesOfPop
<1>4. Calls = FramesOf(stack) /\ Calls' = FramesOf(stack')
  BY DEF Calls, FramesOf, Depth
<1>5. infoRef[i] > 0
  BY <1>2, CreatedInfoCounted DEF GoodGraph, GoodLists
<1>6. \A j \in Infos : infoRef[j] \in Int /\ infoRef'[j] = IF j = i THEN infoRef[j] + 1 ELSE infoRef[j]
  BY <1>1 DEF TypeOK
<1>7. CreateWanted'
  <2>1. WFrames(stack', cells, userInfo)
    BY <1>1, <1>2, WFramesPop, ListsDef DEF GoodLists
  <2> QED BY <1>1, <2>1 DEF CreateWanted, WFrames, Depth
<1>8. FreedInfos'
  <2>1. ASSUME NEW j \in Infos, <<"infofree", j>> \in Calls'
        PROVE  infoRef'[j] = 0
    <3>1. infoRef[j] = 0
      BY <1>3, <1>4, <2>1 DEF GoodLists, FreedInfos
    <3> QED BY <1>5, <1>6, <3>1
  <2>2. ASSUME NEW c \in cells, c[1] \in Infos
        PROVE  infoRef'[c[1]] > 0 \/ <<"infofree", c[1]>> \in Calls'
    <3>1. CASE infoRef[c[1]] > 0
      BY <1>6, <2>2, <3>1
    <3>2. CASE <<"infofree", c[1]>> \in Calls
      BY <1>3, <1>4, <3>2
    <3> QED BY <2>2, <3>1, <3>2 DEF GoodLists, FreedInfos
  <2> QED BY <1>1, <2>1, <2>2 DEF FreedInfos
<1>9. HeldListed'
  <2>1. ASSUME NEW c \in held
        PROVE  /\ c \in cells
               /\ \/ c[1] \in hNode' \cup {Owned}
                  \/ <<"create", c[1]>> \in Calls' \/ <<"undo", c[1]>> \in Calls'
    BY <1>1, <1>3, <1>4 DEF GoodLists, HeldListed
  <2>2. ASSUME Len(stack) # 1
        PROVE  <<"create", stack[2][2]>> \in Calls'
    <3>1. /\ Len(stack) \in Nat /\ Len(stack) >= 2 /\ Tail(stack) # <<>> /\ Tail(stack)[1] = stack[2]
      BY <1>2, <2>2, DeepStack
    <3>2. Len(Tail(stack)) = Len(stack) - 1
      BY <1>2, PopFacts
    <3>3. 1 \in 1..Len(stack') /\ 2 \in Depth /\ 1 \in Depth
      BY <1>1, <3>1, <3>2 DEF Depth
    <3>4. stack[2][1] = "create"
      BY <1>2, <3>3 DEF GoodGraph, CreateFrames
    <3>5. stack[2] = <<"create", stack[2][2]>>
      BY <1>2, <3>3, <3>4, FrameFacts DEF Depth
    <3> QED BY <1>1, <1>4, <3>1, <3>3, <3>5 DEF FramesOf
  <2> QED BY <1>1, <2>1, <2>2 DEF HeldListed
<1> QED BY <1>7, <1>8, <1>9 DEF GoodLists

\* A creation that turns into undoing it is still wanted by the same caller.
LEMMA UndoWanted ==
  ASSUME NEW s \in Seq(Frames), s # <<>>, s[1][1] = "create", NEW C, NEW u, WFrames(s, C, u)
  PROVE  /\ WFrames(Push("undo", s[1][2], Tail(s)), C, u)
         /\ FramesOf(s) = FramesOf(Tail(s)) \cup {<<"create", s[1][2]>>}
         /\ FramesOf(Push("undo", s[1][2], Tail(s))) = FramesOf(Tail(s)) \cup {<<"undo", s[1][2]>>}
<1>1. /\ Len(s) \in Nat /\ Len(s) >= 1 /\ Tail(s) \in Seq(Frames) /\ Len(Tail(s)) = Len(s) - 1
      /\ \A k \in 1..(Len(s) - 1) : Tail(s)[k] = s[k + 1]
  BY PopFacts
<1>2. 1 \in 1..Len(s) /\ "undo" \in Ops
  BY <1>1 DEF Ops
<1>3. s[1] = <<"create", s[1][2]>> /\ s[1][2] \in Infos
  BY <1>2, FrameFacts
<1>4. /\ FramesOf(s) = FramesOf(Tail(s)) \cup {<<"create", s[1][2]>>}
      /\ FramesOf(Push("undo", s[1][2], Tail(s))) = FramesOf(Tail(s)) \cup {<<"undo", s[1][2]>>}
  BY <1>1, <1>2, <1>3, FramesOfPush, FramesOfPop
<1>5. WFrames(Tail(s), C, u)
  BY WFramesPop
<1>6. CASE Len(s) = 1
  <2>1. u[s[1][2]] > 0
    BY <1>2, <1>6 DEF WFrames
  <2>2. Tail(s) = <<>>
    <3>1. Len(Tail(s)) = 0
      BY <1>1, <1>6
    <3>2. \A q \in Seq(Frames) : Len(q) = 0 => q = <<>>
      OBVIOUS
    <3> QED BY <1>1, <3>1, <3>2
  <2>3. WFrames(Push("undo", s[1][2], Tail(s)), C, u)
    BY <1>1, <1>2, <1>3, <1>5, <2>1, <2>2, WFramesPush
  <2> QED BY <1>4, <2>3
<1>7. CASE Len(s) # 1
  <2>1. Tail(s) # <<>> /\ Tail(s)[1] = s[1 + 1]
    BY <1>7, DeepStack
  <2>2. \E c \in C : c[1] = Tail(s)[1][2] /\ c[2] = s[1][2]
    BY <1>2, <1>7, <2>1 DEF WFrames
  <2>3. WFrames(Push("undo", s[1][2], Tail(s)), C, u)
    BY <1>1, <1>2, <1>3, <1>5, <2>1, <2>2, WFramesPush
  <2> QED BY <1>4, <2>3
<1> QED BY <1>6, <1>7

\* xnCreateProductionNodeImpl fails.
LEMMA CreateRootNodeFailsLists ==
  ASSUME TypeOK, GoodLists, CreateRootNodeFails
  PROVE  GoodLists'
<1>1. /\ Running("create") /\ stack' = Push("undo", Top[2], Tail(stack))
      /\ UNCHANGED <<infoRef, cells, hNode, held, userInfo>>
  BY DEF CreateRootNodeFails, appVars
<1>2. /\ stack[1] = <<"create", Top[2]>> /\ stack \in Seq(Frames) /\ stack # <<>>
      /\ WFrames(stack, cells, userInfo)
  BY <1>1, TopCall, ListsDef DEF GoodLists
<1>3. stack[1][1] = "create" /\ stack[1][2] = Top[2]
  BY <1>2
<1>4. /\ WFrames(stack', cells, userInfo)
      /\ FramesOf(stack) = FramesOf(Tail(stack)) \cup {<<"create", Top[2]>>}
      /\ FramesOf(stack') = FramesOf(Tail(stack)) \cup {<<"undo", Top[2]>>}
  BY <1>1, <1>2, <1>3, UndoWanted
<1>5. Calls = FramesOf(stack) /\ Calls' = FramesOf(stack')
  BY DEF Calls, FramesOf, Depth
<1>6. HeldListed' /\ FreedInfos'
  BY <1>1, <1>4, <1>5 DEF GoodLists, HeldListed, FreedInfos
<1>7. CreateWanted'
  BY <1>1, <1>4 DEF CreateWanted, WFrames, Depth
<1> QED BY <1>6, <1>7 DEF GoodLists

\* An undone creation, which counts nothing any more, returns its error.
LEMMA UndoReturnLists ==
  ASSUME TypeOK, GoodGraph, GoodLists, UndoReturn
  PROVE  GoodLists'
<1>1. /\ Running("undo") /\ ToRelease(Top[2]) = {}
      /\ Len(stack) = 1 => stack' = <<>>
      /\ Len(stack) # 1 => stack' = Push("undo", stack[2][2], Tail(Tail(stack)))
      /\ UNCHANGED <<infoRef, cells, hNode, held, userInfo>>
  BY DEF UndoReturn, infoVars, nodeVars, appVars
<1>2. /\ stack[1] = <<"undo", Top[2]>> /\ stack \in Seq(Frames) /\ stack # <<>> /\ 1 \in Depth
      /\ WFrames(stack, cells, userInfo)
  BY <1>1, TopCall, ListsDef DEF GoodLists
<1>3. \A c \in held : c[1] # Top[2]
  BY <1>1 DEF ToRelease
<1>4. Calls = FramesOf(stack) /\ Calls' = FramesOf(stack')
  BY DEF Calls, FramesOf, Depth
<1>5. FramesOf(stack) = FramesOf(Tail(stack)) \cup {<<"undo", Top[2]>>}
  BY <1>2, FramesOfPop
<1>6. CASE Len(stack) = 1
  <2>1. stack' = <<>> /\ Tail(stack) = <<>>
    BY <1>1, <1>2, <1>6
  <2>2. FramesOf(<<>>) = {} /\ WFrames(<<>>, cells, userInfo)
    BY DEF FramesOf, WFrames
  <2>3. HeldListed' /\ FreedInfos'
    BY <1>1, <1>3, <1>4, <1>5, <2>1, <2>2 DEF GoodLists, HeldListed, FreedInfos
  <2>4. CreateWanted'
    BY <1>1, <2>1, <2>2 DEF CreateWanted, WFrames, Depth
  <2> QED BY <2>3, <2>4 DEF GoodLists
<1>7. CASE Len(stack) # 1
  <2> DEFINE t == Tail(stack)
  <2>1. /\ t # <<>> /\ t[1] = stack[2] /\ t \in Seq(Frames)
        /\ Len(stack) \in Nat /\ Len(stack) >= 2
    BY <1>2, <1>7, DeepStack, PopFacts
  <2>2. t[1][1] = "create"
    <3>1. 2 \in Depth /\ 1 < 2 /\ stack[1][1] = "undo"
      BY <1>2, <2>1 DEF Depth
    <3> QED BY <1>2, <2>1, <3>1 DEF GoodGraph, CreateFrames
  <2>3. WFrames(t, cells, userInfo) /\ stack' = Push("undo", t[1][2], Tail(t))
    BY <1>1, <1>2, <1>7, <2>1, WFramesPop
  <2> HIDE DEF t
  <2>4. /\ WFrames(stack', cells, userInfo)
        /\ FramesOf(t) = FramesOf(Tail(t)) \cup {<<"create", t[1][2]>>}
        /\ FramesOf(stack') = FramesOf(Tail(t)) \cup {<<"undo", t[1][2]>>}
    BY <2>1, <2>2, <2>3, UndoWanted
  <2>5. Calls = FramesOf(t) \cup {<<"undo", Top[2]>>}
    BY <1>4, <1>5 DEF t
  <2>6. HeldListed' /\ FreedInfos'
    BY <1>1, <1>3, <1>4, <2>4, <2>5 DEF GoodLists, HeldListed, FreedInfos
  <2>7. CreateWanted'
    BY <1>1, <2>4 DEF CreateWanted, WFrames, Depth
  <2> QED BY <2>6, <2>7 DEF GoodLists
<1> QED BY <1>6, <1>7

\* A destroyed node's info loses its node; the list counts nothing any more.
LEMMA DestroyFreeInfoLists ==
  ASSUME TypeOK, GoodGraph, GoodLists, DestroyFreeInfo
  PROVE  GoodLists'
<1> DEFINE i == Top[2]
           s == Push("free", i, Tail(stack))
<1>1. /\ Running("destroy") /\ ToRelease(i) = {} /\ hNode' = hNode \ {i} /\ FreeInfo(i, s)
      /\ UNCHANGED <<cells, held, userInfo>>
  BY DEF DestroyFreeInfo, appVars
<1>2. /\ i \in Infos /\ stack[1] = <<"destroy", i>> /\ stack \in Seq(Frames) /\ stack # <<>>
      /\ Tail(stack) \in Seq(Frames) /\ 1 \in Depth /\ "free" \in Ops
  BY <1>1, TopCall, PopFacts DEF Ops
<1>3. s \in Seq(Frames) /\ FramesOf(s) = FramesOf(Tail(stack)) \cup {<<"free", i>>}
  BY <1>2, PushFacts, FramesOfPush
<1>4. \A c \in held : c[1] # i
  BY <1>1 DEF ToRelease
<1>5. WFrames(s, cells, userInfo)
  <2>1. WFrames(Tail(stack), cells, userInfo)
    BY <1>2, ListsDef, WFramesPop DEF GoodLists
  <2> QED BY <1>2, <2>1, WFramesPush
<1> HIDE DEF i, s
<1>6. i \in hNode
  BY <1>2 DEF GoodGraph, DestroyFrames
<1>7. infoRef[i] > 0
  BY <1>2, <1>6, InfoCounted DEF GoodGraph
<1>8. Calls = FramesOf(stack) /\ Calls' = FramesOf(stack')
  BY DEF Calls, FramesOf, Depth
<1>9. FramesOf(stack) = FramesOf(Tail(stack)) \cup {<<"destroy", i>>}
  BY <1>2, FramesOfPop
<1>10. FFrames(s, cells, infoRef)
  BY <1>3, <1>8, <1>9 DEF GoodLists, FreedInfos, FFrames
<1>11. FFrames(stack', cells, infoRef')
  BY <1>1, <1>2, <1>3, <1>7, <1>10, FreeInfoFreed
<1>12. WFrames(stack', cells, userInfo) /\ FramesOf(s) \subseteq FramesOf(stack')
  BY <1>1, <1>2, <1>3, <1>5, FreeInfoWanted
<1>13. FreedInfos' /\ CreateWanted'
  BY <1>1, <1>8, <1>11, <1>12 DEF FreedInfos, FFrames, CreateWanted, WFrames, Depth
<1>14. HeldListed'
  BY <1>1, <1>3, <1>4, <1>8, <1>9, <1>12 DEF GoodLists, HeldListed
<1> QED BY <1>13, <1>14 DEF GoodLists

-----------------------------------------------------------------------------
(* The invariant and what follows from it *)

\* GraphInv holds initially: nothing exists and nothing is counted.
LEMMA GraphInit == Init => GraphInv
<1> SUFFICES ASSUME Init PROVE GraphInv
  OBVIOUS
<1>1. /\ cells = {} /\ held = {} /\ hNode = {} /\ nodesMap = {} /\ stack = <<>>
      /\ \A i \in Infos : nRef[i] = 0 /\ user[i] = 0 /\ lost[i] = 0 /\ infoRef[i] = 0 /\ userInfo[i] = 0
  BY DEF Init
<1>2. \A i \in Infos : HeldTo(i) = {} /\ CellsTo(i) = {}
  BY <1>1 DEF HeldTo, CellsTo
<1>3. Cardinality({}) = 0
  BY FS_EmptySet
<1>4. NodesCounted /\ InfoRefExact
  <2>1. ASSUME NEW i \in Infos
        PROVE  nRef[i] = user[i] + Cardinality(HeldTo(i)) + lost[i]
    <3>1. Cardinality(HeldTo(i)) = 0
      BY <1>2, <1>3
    <3> QED BY <1>1, <3>1
  <2>2. ASSUME NEW i \in Infos
        PROVE  infoRef[i] = userInfo[i] + Cardinality(CellsTo(i)) + (IF i \in hNode THEN 1 ELSE 0)
    <3>1. Cardinality(CellsTo(i)) = 0 /\ (IF i \in hNode THEN 1 ELSE 0) = 0
      BY <1>1, <1>2, <1>3
    <3> QED BY <1>1, <3>1
  <2> QED BY <2>1, <2>2 DEF NodesCounted, InfoRefExact
<1>5. Acyclic
  <2>1. NeedsClosed({}) /\ \A x : Needs(x) = {}
    BY <1>1 DEF NeedsClosed, Needs
  <2> QED BY <2>1, AcyclicSets
<1>6. Depth = {} /\ ~Running("create") /\ Calls = {}
  BY <1>1 DEF Depth, Running, Calls
<1>7. DeadUncounted /\ UncountedDying /\ DestroyFrames /\ CreateFrames /\ ListsCounted /\ MapCounted
  BY <1>1, <1>6 DEF DeadUncounted, UncountedDying, DestroyFrames, CreateFrames, ListsCounted, MapCounted
<1>8. GoodLists
  BY <1>1, <1>6 DEF GoodLists, HeldListed, FreedInfos, CreateWanted
<1> QED BY <1>4, <1>5, <1>7, <1>8 DEF GraphInv, GoodGraph

\* Every step keeps GraphInv; no step puts a context back in use.
LEMMA GraphStep ==
  ASSUME TypeOK, GraphInv, [Next]_vars
  PROVE  GraphInv'
<1> SUFFICES ASSUME InUse' PROVE GoodGraph' /\ GoodLists'
  BY DEF GraphInv
<1>1. ASSUME NEW i \in Infos, NEW needed \in SUBSET Infos, NodeInfoAllocate(i, needed)
      PROVE  GoodGraph' /\ GoodLists'
  <2>1. InUse
    BY <1>1 DEF NodeInfoAllocate, CanCall, InUse
  <2> QED BY <1>1, <2>1, NodeInfoAllocateKeeps, ObtainInfosLists DEF GraphInv
<1>2. CASE EnumerateExistingNodes
  <2>1. InUse
    BY <1>2 DEF EnumerateExistingNodes, CanCall, InUse
  <2> QED BY <1>2, <2>1, EnumerateKeeps, ObtainInfosLists DEF GraphInv
<1>3. CASE ContextAddRef \/ ContextRelease \/ (\E i \in Infos : GetRefContextFromNodeHandle(i))
  <2>1. InUse
    BY <1>3 DEF ContextAddRef, ContextRelease, GetRefContextFromNodeHandle, CanCall, CanUseNode, InUse
  <2>2. UNCHANGED <<infoRef, cells, hNode, nRef, held, nodesMap, stack, user, userInfo, lost>>
    BY <1>3 DEF ContextAddRef, ContextRelease, GetRefContextFromNodeHandle, infoVars, nodeVars
  <2> QED BY <2>1, <2>2, GraphSame, ListsSame DEF GraphInv
<1>4. CASE Shutdown \/ ShutdownNode \/ ShutdownOwned \/ ShutdownReturn
  BY <1>4 DEF Shutdown, ShutdownNode, ShutdownOwned, ShutdownReturn, InUse, ctxVars
<1>5. ASSUME NEW i \in Infos, NodeInfoFree(i)
      PROVE  GoodGraph' /\ GoodLists'
  <2>1. InUse
    BY <1>5 DEF NodeInfoFree, InUse, ctxVars
  <2> QED BY <1>5, <2>1, NodeInfoFreeKeeps, NodeInfoFreeLists DEF GraphInv
<1>6. ASSUME NEW i \in Infos, NEW nm, NodeInfoSetInstanceName(i, nm)
      PROVE  GoodGraph' /\ GoodLists'
  <2>1. /\ InUse
        /\ UNCHANGED <<infoRef, cells, hNode, nRef, held, nodesMap, stack, user, userInfo, lost>>
    BY <1>6 DEF NodeInfoSetInstanceName, InUse, nodeVars, appVars
  <2> QED BY <2>1, GraphSame, ListsSame DEF GraphInv
<1>7. ASSUME NEW i \in Infos, CreateProductionTree(i)
      PROVE  GoodGraph' /\ GoodLists'
  <2>1. InUse
    BY <1>7 DEF CreateProductionTree, CanCall, InUse
  <2> QED BY <1>7, <2>1, CreateProductionTreeKeeps, CreateProductionTreeLists DEF GraphInv
<1>8. ASSUME NEW i \in Infos,
             \/ ProductionNodeAddRef(i) \/ GetRefNodeHandleByName(i)
             \/ NodeInfoGetRefHandle(i) \/ PlayRecording(i)
      PROVE  GoodGraph' /\ GoodLists'
  <2>1. /\ InUse /\ UNCHANGED <<infoRef, cells, held, hNode, stack, userInfo>>
    BY <1>8 DEF ProductionNodeAddRef, GetRefNodeHandleByName, NodeInfoGetRefHandle, PlayRecording,
                CanCall, CanUseNode, InUse, infoVars
  <2> QED BY <1>8, <2>1, GetRefKeeps, ListsSame DEF GraphInv
<1>9. ASSUME NEW i \in Infos, ProductionNodeRelease(i)
      PROVE  GoodGraph' /\ GoodLists'
  <2>1. InUse
    BY <1>9 DEF ProductionNodeRelease, CanUseNode, InUse
  <2> QED BY <1>9, <2>1, ProductionNodeReleaseKeeps, ProductionNodeReleaseLists DEF GraphInv
<1>10. ASSUME NEW i \in Infos, MarkOwnedNode(i)
       PROVE  GoodGraph' /\ GoodLists'
  <2>1. InUse
    BY <1>10 DEF MarkOwnedNode, CanCall, InUse
  <2> QED BY <1>10, <2>1, MarkOwnedNodeKeeps, MarkOwnedNodeLists DEF GraphInv
<1>11. ASSUME NEW i \in Infos, NEW j \in Infos, AddNeededNode(i, j)
       PROVE  GoodGraph' /\ GoodLists'
  <2>1. InUse
    BY <1>11 DEF AddNeededNode, CanUseNode, InUse
  <2> QED BY <1>11, <2>1, AddNeededNodeKeeps, AddNeededNodeLists DEF GraphInv
<1>12. ASSUME NEW i \in Infos, NEW j \in Infos, RemoveNeededNode(i, j)
       PROVE  GoodGraph' /\ GoodLists'
  <2>1. InUse
    BY <1>12 DEF RemoveNeededNode, CanUseNode, InUse
  <2>2. GoodGraph'
    BY <1>12, <2>1, RemoveNeededNodeKeeps DEF GraphInv
  <2>3. InfoRefExact'
    BY <2>2 DEF GoodGraph
  <2> QED BY <1>12, <2>1, <2>2, <2>3, RemoveNeededNodeLists DEF GraphInv
<1>13. CASE \/ InfoFreeCell \/ InfoFreeReturn \/ CreateNeeded \/ CreateRootNode \/ CreateRootNodeFails
            \/ UndoRelease \/ UndoReturn \/ DestroyRelease \/ DestroyFreeInfo \/ FreeProductionNode
  <2>1. GoodGraph /\ GoodLists
    <3>1. ctx' = ctx \/ ctx' = "gone"
      BY <1>13 DEF InfoFreeCell, InfoFreeReturn, CreateNeeded, CreateRootNode, CreateRootNodeFails,
                   UndoRelease, UndoReturn, DestroyRelease, DestroyFreeInfo, FreeProductionNode,
                   ReleaseContext, ctxVars
    <3> QED BY <3>1 DEF GraphInv, InUse
  <2>2. CASE InfoFreeCell
    BY <2>1, <2>2, InfoFreeCellKeeps, InfoFreeCellLists
  <2>3. CASE InfoFreeReturn \/ FreeProductionNode
    BY <2>1, <2>3, ReturnKeeps, ReturnLists
  <2>4. CASE CreateNeeded
    BY <2>1, <2>4, CreateNeededKeeps, CreateNeededLists
  <2>5. CASE CreateRootNode
    BY <2>1, <2>5, CreateRootNodeKeeps, CreateRootNodeLists
  <2>6. CASE CreateRootNodeFails
    BY <2>1, <2>6, CreateRootNodeFailsKeeps, CreateRootNodeFailsLists
  <2>7. CASE UndoRelease \/ DestroyRelease
    BY <2>1, <2>7, ReleaseNeededKeeps, ReleaseNeededLists
  <2>8. CASE UndoReturn
    BY <2>1, <2>8, UndoReturnKeeps, UndoReturnLists
  <2>9. CASE DestroyFreeInfo
    BY <2>1, <2>9, DestroyFreeInfoKeeps, DestroyFreeInfoLists
  <2> QED BY <1>13, <2>2, <2>3, <2>4, <2>5, <2>6, <2>7, <2>8, <2>9
<1>14. CASE UNCHANGED vars
  <2>1. /\ UNCHANGED <<infoRef, cells, hNode, nRef, held, nodesMap, stack, user, userInfo, lost>>
        /\ ctx' = ctx
    BY <1>14 DEF vars, infoVars, nodeVars, ctxVars, appVars
  <2>2. GoodGraph /\ GoodLists
    BY <2>1 DEF GraphInv, InUse
  <2> QED BY <2>1, <2>2, GraphSame, ListsSame
<1> QED BY <1>1, <1>2, <1>3, <1>4, <1>5, <1>6, <1>7, <1>8, <1>9, <1>10, <1>11, <1>12, <1>13, <1>14
        DEF Next, Call, Internal

\* As long as the context is in use, GraphInv holds.
THEOREM GraphCorrect == Spec => []GraphInv
<1>1. Init => TypeOK /\ GraphInv
  BY TypeInit, GraphInit
<1>2. TypeOK /\ GraphInv /\ [Next]_vars => (TypeOK /\ GraphInv)'
  BY TypeStep, GraphStep
<1> QED BY <1>1, <1>2, PTL DEF Spec

\* Every reference on a node is accounted for, also in the middle of a
\* creation, its undoing or a cascade of releases.
THEOREM NodeRefsExact == Spec => []NodeRefExact
<1>1. GraphInv => NodeRefExact
  BY DEF GraphInv, GoodGraph, NodeRefExact
<1> QED BY <1>1, GraphCorrect, PTL

\* A node the application holds a reference on exists and is not going down.
THEOREM HandlesStayValid == Spec => []HandlesValid
<1>1. TypeOK /\ GraphInv => HandlesValid
  <2>1. SUFFICES ASSUME TypeOK, GoodGraph, NEW i \in Infos, user[i] > 0
                 PROVE  i \in hNode \ Being("destroy")
    BY DEF GraphInv, HandlesValid
  <2>2. nRef[i] > 0 /\ i \in hNode
    BY <2>1, CountedExist
  <2>3. \A k \in Depth : stack[k][1] = "destroy" => stack[k][2] # i
    BY <2>1, <2>2 DEF GoodGraph, DestroyFrames
  <2>4. i \notin Being("destroy")
    BY <2>3 DEF Being, Depth
  <2> QED BY <2>2, <2>4
<1> QED BY <1>1, TypeCorrect, GraphCorrect, PTL

\* What a live node needs is alive and counted, and so is what a creation in
\* progress has obtained.
THEOREM NeededStayAlive == Spec => []NeededAlive
<1>1. TypeOK /\ GraphInv => NeededAlive
  <2> SUFFICES ASSUME TypeOK, GoodGraph, GoodLists
               PROVE  /\ \A c \in held : c \in cells /\ c[2] \in hNode \ Being("destroy")
                      /\ \A c \in cells : c[1] \in hNode \ Being("destroy") => c \in held
    BY DEF GraphInv, NeededAlive
  <2>1. ASSUME NEW c \in held
        PROVE  c \in cells /\ c[2] \in hNode \ Being("destroy")
    <3>1. c \in cells /\ c[2] \in Infos
      BY DEF GoodLists, HeldListed, TypeOK, Cells
    <3>2. nRef[c[2]] > 0 /\ c[2] \in hNode
      BY <3>1, CountedExist
    <3>3. \A k \in Depth : stack[k][1] = "destroy" => stack[k][2] # c[2]
      BY <3>2 DEF GoodGraph, DestroyFrames
    <3> QED BY <3>1, <3>2, <3>3 DEF Being, Depth
  <2>2. ASSUME NEW c \in cells, c[1] \in hNode \ Being("destroy")
        PROVE  c \in held
    <3>1. c[1] \in Infos /\ nRef[c[1]] \in Nat
      BY <2>2 DEF TypeOK
    <3>2. \A k \in Depth : stack[k] # <<"destroy", c[1]>>
      <4>1. SUFFICES ASSUME NEW k \in Depth, stack[k] = <<"destroy", c[1]>> PROVE FALSE
        OBVIOUS
      <4>2. stack[k] \in {stack[l] : l \in DOMAIN stack} \cap ({"destroy"} \X Infos)
        <5>1. k \in DOMAIN stack
          BY DEF Depth, TypeOK
        <5> QED BY <3>1, <4>1, <5>1
      <4>3. stack[k][2] \in Being("destroy")
        BY <4>2 DEF Being
      <4> QED BY <2>2, <4>1, <4>3
    <3>3. nRef[c[1]] # 0
      BY <2>2, <3>2 DEF GoodGraph, UncountedDying
    <3> QED BY <3>1, <3>3 DEF GoodGraph, ListsCounted
  <2> QED BY <2>1, <2>2
<1> QED BY <1>1, TypeCorrect, GraphCorrect, PTL

\* xnNodeInfoFree frees an info exactly when its last reference goes, and
\* between two calls no list of a context in use holds a freed info.
THEOREM InfosStayAlive == Spec => [](InUse => InfoRefExact /\ InfosAlive)
<1>1. TypeOK /\ GraphInv => (InUse => InfoRefExact /\ InfosAlive)
  <2> SUFFICES ASSUME TypeOK, GoodGraph, GoodLists
               PROVE  InfoRefExact /\ InfosAlive
    BY DEF GraphInv
  <2>1. InfoRefExact
    BY DEF GoodGraph
  <2>2. ASSUME Idle, NEW c \in cells
        PROVE  infoRef[c[2]] > 0 /\ (c[1] = Owned \/ infoRef[c[1]] > 0)
    <3>1. c[2] \in Infos /\ c[1] \in Infos \cup {Owned}
      BY DEF TypeOK, Cells, Owners
    <3>2. infoRef[c[2]] > 0
      BY <2>1, <3>1, InfoCounted
    <3>3. Calls = {}
      BY <2>2, IdleLists
    <3> QED BY <3>1, <3>2, <3>3 DEF GoodLists, FreedInfos
  <2> QED BY <2>1, <2>2 DEF InfosAlive
<1> QED BY <1>1, TypeCorrect, GraphCorrect, PTL

\* Nobody counts a reference on a node that goes down.
THEOREM TopDown == Spec => [](InUse => DestroyedTopDown)
<1>1. TypeOK /\ GraphInv => (InUse => DestroyedTopDown)
  <2> SUFFICES ASSUME TypeOK, GoodGraph, NEW i \in Being("destroy"), NEW c \in HeldTo(i)
               PROVE  FALSE
    BY DEF GraphInv, DestroyedTopDown
  <2>1. PICK k \in Depth : stack[k][1] = "destroy" /\ stack[k][2] = i
    BY DEF Being, Depth
  <2>2. nRef[i] = 0
    BY <2>1 DEF GoodGraph, DestroyFrames
  <2>3. c \in held /\ c[2] = i /\ i \in Infos
    BY DEF HeldTo, TypeOK, Cells
  <2> QED BY <2>2, <2>3, CountedExist
<1> QED BY <1>1, TypeCorrect, GraphCorrect, PTL

\* No info ever needs itself, not even when the context is shut down or gone.
THEOREM NoLoops == Spec => []Acyclic
<1>1. Init => Acyclic
  BY GraphInit DEF GraphInv, GoodGraph, InUse, Init
<1>2. TypeOK /\ GraphInv /\ Acyclic /\ [Next]_vars => Acyclic'
  <2> SUFFICES ASSUME TypeOK, GraphInv, Acyclic, [Next]_vars
               PROVE  Acyclic'
    OBVIOUS
  <2> DEFINE Grow == \E i \in Infos : \/ \E needed \in SUBSET Infos : NodeInfoAllocate(i, needed)
                                     \/ \E j \in Infos : AddNeededNode(i, j)
                                     \/ MarkOwnedNode(i)
  <2>1. CASE Grow
    <3>1. InUse /\ InUse'
      BY <2>1 DEF InUse, NodeInfoAllocate, AddNeededNode, MarkOwnedNode, CanCall, CanUseNode, ctxVars
    <3>2. GraphInv'
      BY GraphStep
    <3> QED BY <3>1, <3>2 DEF GraphInv, GoodGraph
  <2>2. CASE ~Grow
    <3>1. CASE Call
      <4>1. CASE EnumerateExistingNodes \/ ContextAddRef \/ ContextRelease \/ Shutdown
        BY <4>1, AcyclicShrink
           DEF EnumerateExistingNodes, ContextAddRef, ContextRelease, Shutdown, infoVars
      <4>2. ASSUME NEW i \in Infos,
                   \/ NodeInfoFree(i) \/ \E nm \in UserNames[i] : NodeInfoSetInstanceName(i, nm)
                   \/ CreateProductionTree(i) \/ ProductionNodeAddRef(i) \/ ProductionNodeRelease(i)
                   \/ GetRefNodeHandleByName(i) \/ NodeInfoGetRefHandle(i) \/ PlayRecording(i)
                   \/ GetRefContextFromNodeHandle(i) \/ \E j \in Infos : RemoveNeededNode(i, j)
            PROVE  cells' \subseteq cells
        BY <4>2 DEF NodeInfoFree, NodeInfoSetInstanceName, CreateProductionTree, ProductionNodeAddRef,
                    ProductionNodeRelease, GetRefNodeHandleByName, NodeInfoGetRefHandle, PlayRecording,
                    GetRefContextFromNodeHandle, RemoveNeededNode, infoVars
      <4> QED BY <2>2, <3>1, <4>1, <4>2, AcyclicShrink DEF Call
    <3>2. CASE Internal
      <4>1. cells' \subseteq cells
        BY <3>2 DEF Internal, InfoFreeCell, InfoFreeReturn, CreateNeeded, CreateRootNode,
                    CreateRootNodeFails, UndoRelease, UndoReturn, DestroyRelease, DestroyFreeInfo,
                    FreeProductionNode, ShutdownNode, ShutdownOwned, ShutdownReturn, infoVars
      <4> QED BY <4>1, AcyclicShrink
    <3>3. CASE UNCHANGED vars
      BY <3>3, AcyclicShrink DEF vars, infoVars
    <3> QED BY <3>1, <3>2, <3>3 DEF Next
  <2> QED BY <2>1, <2>2
<1> QED BY <1>1, <1>2, TypeCorrect, GraphCorrect, PTL DEF Spec

\* Nothing the application or a list refers to is gone.
THEOREM NothingEverDangles == Spec => [](InUse => NothingDangles)
BY HandlesStayValid, NeededStayAlive, InfosStayAlive, PTL DEF NothingDangles

\* The needed trees have no loop and are taken down from top to bottom.
THEOREM OrderKept == Spec => [](InUse => GraphOrdered)
BY NoLoops, TopDown, PTL DEF GraphOrdered

-----------------------------------------------------------------------------
(* The context's count *)

\* The nodes that are being freed; each is freed once.
FreeNodes(st) == {j \in Infos : \E k \in 1..Len(st) : st[k] = <<"free", j>>}
FreeOnce(st) == \A k, l \in 1..Len(st) : st[k][1] = "free" /\ st[l] = st[k] => k = l

\* A node is allocated until it is freed, after the info's handle was cleared.
Allocated ==
  /\ mem = hNode \cup FreeNodes(stack)
  /\ hNode \cap FreeNodes(stack) = {}
  /\ FreeOnce(stack)

ContextCounted == InUse => Allocated /\ ctxRef = userCtx + Cardinality(mem)

\* A call that is no freeing frees nothing.
LEMMA FreePush ==
  ASSUME NEW op \in Ops, NEW i \in Infos, NEW s \in Seq(Frames), FreeOnce(s),
         op = "free" => i \notin FreeNodes(s)
  PROVE  /\ FreeNodes(Push(op, i, s)) = FreeNodes(s) \cup (IF op = "free" THEN {i} ELSE {})
         /\ FreeOnce(Push(op, i, s))
<1> DEFINE t == Push(op, i, s)
<1>1. Len(s) \in Nat /\ Len(t) = Len(s) + 1 /\ t[1] = <<op, i>>
      /\ \A k \in 1..Len(s) : t[k + 1] = s[k]
  BY PushFacts
<1>2. \A k \in 1..Len(t) : k = 1 \/ (k - 1 \in 1..Len(s) /\ t[k] = s[k - 1])
  BY PushIndex
<1> HIDE DEF t
<1>3. ASSUME NEW j \in FreeNodes(s) PROVE j \in FreeNodes(t)
  <2>1. PICK k \in 1..Len(s) : s[k] = <<"free", j>>
    BY DEF FreeNodes
  <2>2. k + 1 \in 1..Len(t) /\ t[k + 1] = <<"free", j>>
    BY <1>1, <2>1
  <2> QED BY <2>2 DEF FreeNodes
<1>4. op = "free" => i \in FreeNodes(t)
  <2>1. 1 \in 1..Len(t)
    BY <1>1
  <2> QED BY <1>1, <2>1 DEF FreeNodes
<1>5. ASSUME NEW j \in FreeNodes(t) PROVE j \in FreeNodes(s) \/ (op = "free" /\ j = i)
  <2>1. PICK k \in 1..Len(t) : t[k] = <<"free", j>>
    BY DEF FreeNodes
  <2>2. CASE k = 1
    BY <1>1, <2>1, <2>2
  <2>3. CASE k - 1 \in 1..Len(s) /\ t[k] = s[k - 1]
    BY <2>1, <2>3 DEF FreeNodes
  <2> QED BY <1>2, <2>2, <2>3
<1>6. ASSUME NEW k \in 1..Len(t), NEW l \in 1..Len(t), t[k][1] = "free", t[l] = t[k]
      PROVE  k = l
  <2>1. ASSUME NEW m \in 1..Len(s), s[m] = t[1], t[1][1] = "free" PROVE FALSE
    <3>1. op = "free" /\ s[m] = <<"free", i>>
      BY <1>1, <2>1
    <3> QED BY <3>1 DEF FreeNodes
  <2>2. CASE k = 1 \/ l = 1
    BY <1>2, <1>6, <2>1, <2>2
  <2>3. CASE k # 1 /\ l # 1
    <3>1. k - 1 \in 1..Len(s) /\ l - 1 \in 1..Len(s) /\ t[k] = s[k - 1] /\ t[l] = s[l - 1]
      BY <1>2, <2>3
    <3>2. k - 1 = l - 1
      BY <1>6, <3>1 DEF FreeOnce
    <3> QED BY <3>2
  <2> QED BY <2>2, <2>3
<1> QED BY <1>3, <1>4, <1>5, <1>6 DEF FreeOnce, t

\* Any other call frees nothing.
LEMMA FreePushOther ==
  ASSUME NEW op \in Ops, op # "free", NEW i \in Infos, NEW s \in Seq(Frames), FreeOnce(s)
  PROVE  FreeNodes(Push(op, i, s)) = FreeNodes(s) /\ FreeOnce(Push(op, i, s))
<1>1. /\ FreeNodes(Push(op, i, s)) = FreeNodes(s) \cup (IF op = "free" THEN {i} ELSE {})
      /\ FreeOnce(Push(op, i, s))
  BY FreePush
<1> QED BY <1>1

\* The return of a freeing ends it.
LEMMA FreePop ==
  ASSUME NEW s \in Seq(Frames), s # <<>>, FreeOnce(s)
  PROVE  /\ FreeNodes(Tail(s)) = FreeNodes(s) \ (IF s[1][1] = "free" THEN {s[1][2]} ELSE {})
         /\ FreeOnce(Tail(s))
<1> DEFINE t == Tail(s)
<1>1. Len(s) \in Nat /\ Len(s) >= 1 /\ Len(t) = Len(s) - 1
      /\ \A k \in 1..(Len(s) - 1) : t[k] = s[k + 1]
  BY PopFacts
<1> HIDE DEF t
<1>2. ASSUME NEW j \in FreeNodes(t)
      PROVE  j \in FreeNodes(s) /\ ~(s[1][1] = "free" /\ j = s[1][2])
  <2>1. PICK k \in 1..Len(t) : t[k] = <<"free", j>>
    BY DEF FreeNodes
  <2>2. k + 1 \in 1..Len(s) /\ k + 1 # 1 /\ 1 \in 1..Len(s) /\ s[k + 1] = <<"free", j>>
    BY <1>1, <2>1
  <2>3. s[1] = <<s[1][1], s[1][2]>>
    BY <2>2, FrameFacts
  <2>4. s[1] # <<"free", j>>
    BY <2>2 DEF FreeOnce
  <2> QED BY <2>2, <2>3, <2>4 DEF FreeNodes
<1>3. ASSUME NEW j \in FreeNodes(s), ~(s[1][1] = "free" /\ j = s[1][2])
      PROVE  j \in FreeNodes(t)
  <2>1. PICK k \in 1..Len(s) : s[k] = <<"free", j>>
    BY DEF FreeNodes
  <2>2. k # 1
    BY <1>3, <2>1
  <2>3. k - 1 \in 1..Len(t) /\ t[k - 1] = <<"free", j>>
    BY <1>1, <2>1, <2>2
  <2> QED BY <2>3 DEF FreeNodes
<1>4. ASSUME NEW k \in 1..Len(t), NEW l \in 1..Len(t), t[k][1] = "free", t[l] = t[k]
      PROVE  k = l
  <2>1. k + 1 \in 1..Len(s) /\ l + 1 \in 1..Len(s) /\ t[k] = s[k + 1] /\ t[l] = s[l + 1]
    BY <1>1
  <2>2. k + 1 = l + 1
    BY <1>4, <2>1 DEF FreeOnce
  <2> QED BY <2>2
<1> QED BY <1>2, <1>3, <1>4 DEF FreeOnce, t

\* Calls of xnProductionNodeRelease and xnNodeInfoFree free no node at once.
LEMMA FreeSame ==
  ASSUME NEW i \in Infos, NEW s \in Seq(Frames), FreeOnce(s),
         ReleaseNode(i, s) \/ FreeInfo(i, s)
  PROVE  FreeNodes(stack') = FreeNodes(s) /\ FreeOnce(stack')
<1>1. \/ stack' = s \/ stack' = Push("destroy", i, s) \/ stack' = Push("infofree", i, s)
  BY DEF ReleaseNode, FreeInfo
<1>2. ASSUME NEW op \in {"destroy", "infofree"}, stack' = Push(op, i, s)
      PROVE  FreeNodes(stack') = FreeNodes(s) /\ FreeOnce(stack')
  BY <1>2, FreePushOther DEF Ops
<1> QED BY <1>1, <1>2

\* A call on an idle context frees no node at once either.
LEMMA AllocatedCall ==
  ASSUME TypeOK, Allocated, Call
  PROVE  Allocated'
<1>1. stack = <<>> /\ stack \in Seq(Frames) /\ FreeNodes(stack) = {} /\ FreeOnce(stack)
      /\ UNCHANGED <<mem, hNode>>
  <2>1. Idle /\ UNCHANGED <<mem, hNode>>
    BY DEF Call, NodeInfoAllocate, EnumerateExistingNodes, ContextAddRef, ContextRelease, Shutdown,
         NodeInfoFree, NodeInfoSetInstanceName, CreateProductionTree, ProductionNodeAddRef,
         ProductionNodeRelease, GetRefNodeHandleByName, NodeInfoGetRefHandle, PlayRecording,
         MarkOwnedNode, GetRefContextFromNodeHandle, AddNeededNode, RemoveNeededNode,
         CanCall, CanUseNode, nodeVars
  <2>2. Len(<<>>) = 0 /\ <<>> \in Seq(Frames)
    OBVIOUS
  <2> QED BY <2>1, <2>2 DEF Idle, FreeNodes, FreeOnce
<1>2. FreeNodes(stack') = {} /\ FreeOnce(stack')
  <2>1. \/ stack' = stack
        \/ \E i \in Infos : \/ ReleaseNode(i, stack) \/ FreeInfo(i, stack)
                            \/ stack' = Push("create", i, stack)
    BY <1>1 DEF Call, NodeInfoAllocate, EnumerateExistingNodes, ContextAddRef, ContextRelease, Shutdown,
         NodeInfoFree, NodeInfoSetInstanceName, CreateProductionTree, ProductionNodeAddRef,
         ProductionNodeRelease, GetRefNodeHandleByName, NodeInfoGetRefHandle, PlayRecording,
         MarkOwnedNode, GetRefContextFromNodeHandle, AddNeededNode, RemoveNeededNode, appVars
  <2>2. ASSUME NEW i \in Infos, stack' = Push("create", i, stack)
        PROVE  FreeNodes(stack') = {} /\ FreeOnce(stack')
    BY <1>1, <2>2, FreePushOther DEF Ops
  <2> QED BY <1>1, <2>1, <2>2, FreeSame
<1> QED BY <1>1, <1>2 DEF Allocated

\* Below the innermost of several frames is a second one.
LEMMA SecondFrame ==
  ASSUME NEW s \in Seq(Frames), s # <<>>, Len(s) # 1
  PROVE  1 \in 1..Len(s) /\ 2 \in 1..Len(s) /\ Tail(s) # <<>> /\ Tail(s)[1] = s[2]
<1> DEFINE n == Len(s)
<1>1. n \in Nat /\ n # 0 /\ n # 1
  <2>1. Len(s) \in Nat
    OBVIOUS
  <2>2. Len(s) # 0
    OBVIOUS
  <2> QED BY <2>1, <2>2
<1>2. n >= 2
  <2> HIDE DEF n
  <2> QED BY <1>1
<1>3. Len(Tail(s)) = n - 1 /\ \A k \in 1..(n - 1) : Tail(s)[k] = s[k + 1]
  BY PopFacts
<1>4. 1 \in 1..n /\ 2 \in 1..n /\ 1 \in 1..(n - 1) /\ n - 1 # 0
  <2> HIDE DEF n
  <2> QED BY <1>1, <1>2
<1>5. Tail(s)[1] = s[1 + 1]
  BY <1>3, <1>4
<1>6. ASSUME Tail(s) = <<>> PROVE FALSE
  <2>1. Len(<<>>) = 0
    OBVIOUS
  <2> HIDE DEF n
  <2>2. n - 1 # 0
    BY <1>4
  <2>3. Len(Tail(s)) = 0
    BY <1>6, <2>1, Zenon
  <2> QED BY <1>3, <2>2, <2>3
<1> QED BY <1>4, <1>5, <1>6

\* The steps of a call free only nodes whose handle is cleared.
LEMMA AllocatedInternal ==
  ASSUME TypeOK, GoodGraph, Allocated, Internal, InUse
  PROVE  Allocated'
<1>0. stack \in Seq(Frames) /\ FreeOnce(stack)
  BY DEF TypeOK, Allocated
<1>1. ASSUME stack # <<>> PROVE Top[1] \in Ops /\ Top[2] \in Infos /\ Tail(stack) \in Seq(Frames)
  <2>1. 1 \in 1..Len(stack)
    BY <1>0, <1>1
  <2> QED BY <1>0, <1>1, <2>1, FrameFacts, PopFacts DEF Top
<1>2. ASSUME UNCHANGED <<mem, hNode>>, FreeNodes(stack') = FreeNodes(stack), FreeOnce(stack')
      PROVE  Allocated'
  BY <1>2 DEF Allocated
<1>3. CASE InfoFreeCell \/ UndoRelease \/ DestroyRelease
  <2>1. UNCHANGED <<mem, hNode>> /\ \E i \in Infos : ReleaseNode(i, stack) \/ FreeInfo(i, stack)
    BY <1>3 DEF InfoFreeCell, UndoRelease, DestroyRelease, ToRelease, TypeOK, Cells, nodeVars
  <2> QED BY <1>0, <1>2, <2>1, FreeSame
<1>4. CASE InfoFreeReturn
  <2>1. UNCHANGED <<mem, hNode>> /\ stack # <<>> /\ stack' = Tail(stack) /\ stack[1][1] # "free"
    BY <1>4 DEF InfoFreeReturn, Running, Top, nodeVars
  <2> QED BY <1>0, <1>2, <2>1, FreePop
<1>5. CASE CreateNeeded
  <2>1. UNCHANGED <<mem, hNode>>
        /\ (stack' = stack \/ \E i \in Infos : stack' = Push("create", i, stack))
    BY <1>5 DEF CreateNeeded, ToCreate, TypeOK, Cells
  <2>2. ASSUME NEW i \in Infos, stack' = Push("create", i, stack)
        PROVE  FreeNodes(stack') = FreeNodes(stack) /\ FreeOnce(stack')
    BY <1>0, <2>2, FreePushOther DEF Ops
  <2> QED BY <1>0, <1>2, <2>1, <2>2
<1>6. CASE CreateRootNode
  <2>1. /\ stack # <<>> /\ stack[1][1] = "create" /\ stack' = Tail(stack)
        /\ hNode' = hNode \cup {Top[2]} /\ mem' = mem \cup {Top[2]}
    BY <1>6 DEF CreateRootNode, ReturnNode, Running, Top
  <2>2. \A k \in 1..Len(stack) : stack[k][1] # "free"
    <3>1. \A k \in 1..Len(stack) : 1 < k => stack[k][1] = "create"
      <4>1. 1 \in Depth
        BY <1>0, <2>1 DEF Depth
      <4> QED BY <2>1, <4>1 DEF GoodGraph, CreateFrames, Depth
    <3> QED BY <2>1, <3>1
  <2>3. FreeNodes(stack) = {}
    BY <2>2 DEF FreeNodes
  <2>4. FreeNodes(stack') = {} /\ FreeOnce(stack')
    BY <1>0, <2>1, <2>3, FreePop
  <2> QED BY <2>1, <2>3, <2>4 DEF Allocated
<1>7. CASE CreateRootNodeFails
  <2>1. /\ stack # <<>> /\ stack[1][1] = "create" /\ stack' = Push("undo", Top[2], Tail(stack))
        /\ UNCHANGED <<mem, hNode>>
    BY <1>7 DEF CreateRootNodeFails, Running, Top
  <2>2. FreeNodes(Tail(stack)) = FreeNodes(stack) /\ FreeOnce(Tail(stack))
    BY <1>0, <2>1, FreePop
  <2>3. FreeNodes(stack') = FreeNodes(stack) /\ FreeOnce(stack')
    <3>1. "undo" \in Ops /\ Top[2] \in Infos /\ Tail(stack) \in Seq(Frames)
      BY <1>1, <2>1 DEF Ops
    <3> QED BY <2>1, <2>2, <3>1, FreePushOther
  <2> QED BY <1>2, <2>1, <2>3
<1>8. CASE UndoReturn
  <2>1. /\ stack # <<>> /\ stack[1][1] = "undo" /\ UNCHANGED <<mem, hNode>>
        /\ stack' = IF Len(stack) = 1 THEN <<>> ELSE Push("undo", stack[2][2], Tail(Tail(stack)))
    BY <1>8 DEF UndoReturn, Running, Top, nodeVars
  <2>2. FreeNodes(Tail(stack)) = FreeNodes(stack) /\ FreeOnce(Tail(stack))
    BY <1>0, <2>1, FreePop
  <2>3. CASE Len(stack) = 1
    <3>1. stack' = <<>> /\ Len(Tail(stack)) = 0
      BY <1>0, <2>1, <2>3, PopFacts
    <3>2. FreeNodes(stack') = {} /\ FreeOnce(stack') /\ FreeNodes(Tail(stack)) = {}
      BY <3>1 DEF FreeNodes, FreeOnce
    <3> QED BY <1>2, <2>1, <2>2, <3>2
  <2>4. CASE Len(stack) # 1
    <3>1. 1 \in Depth /\ 2 \in Depth /\ Tail(stack) # <<>> /\ Tail(stack)[1] = stack[2]
      BY <1>0, <2>1, <2>4, SecondFrame DEF Depth
    <3>2. stack[2][1] = "create" /\ stack[2][2] \in Infos
      BY <1>0, <2>1, <3>1, FrameFacts DEF GoodGraph, CreateFrames, Depth
    <3>3. /\ FreeNodes(Tail(Tail(stack))) = FreeNodes(stack) /\ FreeOnce(Tail(Tail(stack)))
          /\ Tail(Tail(stack)) \in Seq(Frames)
      BY <1>1, <2>1, <2>2, <3>1, <3>2, FreePop, PopFacts
    <3>4. FreeNodes(stack') = FreeNodes(stack) /\ FreeOnce(stack')
      <4>1. "undo" \in Ops /\ "undo" # "free" /\ stack' = Push("undo", stack[2][2], Tail(Tail(stack)))
        BY <2>1, <2>4 DEF Ops
      <4> QED BY <3>2, <3>3, <4>1, FreePushOther
    <3> QED BY <1>2, <2>1, <3>4
  <2> QED BY <2>3, <2>4
<1>9. CASE DestroyFreeInfo
  <2>1. /\ stack # <<>> /\ stack[1][1] = "destroy" /\ mem' = mem /\ hNode' = hNode \ {Top[2]}
        /\ FreeInfo(Top[2], Push("free", Top[2], Tail(stack)))
    BY <1>9 DEF DestroyFreeInfo, Running, Top
  <2>2. Top[2] \in hNode
    <3>1. 1 \in Depth
      BY <1>0, <2>1 DEF Depth
    <3> QED BY <2>1, <3>1 DEF GoodGraph, DestroyFrames, Top
  <2>3. FreeNodes(Tail(stack)) = FreeNodes(stack) /\ FreeOnce(Tail(stack))
    BY <1>0, <2>1, FreePop
  <2>4. Top[2] \notin FreeNodes(Tail(stack))
    BY <2>2, <2>3 DEF Allocated
  <2>5. /\ FreeNodes(Push("free", Top[2], Tail(stack))) = FreeNodes(stack) \cup {Top[2]}
        /\ FreeOnce(Push("free", Top[2], Tail(stack)))
        /\ Push("free", Top[2], Tail(stack)) \in Seq(Frames)
    <3>1. "free" \in Ops /\ Top[2] \in Infos /\ Tail(stack) \in Seq(Frames)
      BY <1>1, <2>1 DEF Ops
    <3>2. /\ FreeNodes(Push("free", Top[2], Tail(stack)))
               = FreeNodes(Tail(stack)) \cup (IF "free" = "free" THEN {Top[2]} ELSE {})
          /\ FreeOnce(Push("free", Top[2], Tail(stack)))
      BY <2>3, <2>4, <3>1, FreePush
    <3> QED BY <2>3, <3>1, <3>2, PushFacts
  <2>6. FreeNodes(stack') = FreeNodes(stack) \cup {Top[2]} /\ FreeOnce(stack')
    BY <1>1, <2>1, <2>5, FreeSame
  <2> QED BY <2>1, <2>2, <2>6 DEF Allocated
<1>10. CASE FreeProductionNode
  <2>1. /\ stack # <<>> /\ stack[1] = Top /\ Top[1] = "free" /\ stack' = Tail(stack)
        /\ hNode' = hNode /\ mem' = mem \ {Top[2]}
    BY <1>10 DEF FreeProductionNode, Running, Top
  <2>2. FreeNodes(stack') = FreeNodes(stack) \ {Top[2]} /\ FreeOnce(stack')
    BY <1>0, <2>1, FreePop
  <2>3. Top[2] \in FreeNodes(stack)
    <3>1. 1 \in 1..Len(stack)
      BY <1>0, <2>1
    <3>2. stack[1] = <<"free", Top[2]>>
      BY <1>0, <2>1, <3>1, FrameFacts
    <3> QED BY <1>1, <2>1, <3>1, <3>2 DEF FreeNodes
  <2> QED BY <2>1, <2>2, <2>3 DEF Allocated
<1>11. CASE ShutdownNode \/ ShutdownOwned \/ ShutdownReturn
  BY <1>11 DEF ShutdownNode, ShutdownOwned, ShutdownReturn, InUse
<1> QED BY <1>3, <1>4, <1>5, <1>6, <1>7, <1>8, <1>9, <1>10, <1>11 DEF Internal

\* The context's count follows its nodes and its holders.
LEMMA ContextStep ==
  ASSUME TypeOK, GraphInv, ContextCounted, [Next]_vars
  PROVE  ContextCounted'
<1> SUFFICES ASSUME InUse' PROVE Allocated' /\ ctxRef' = userCtx' + Cardinality(mem')
  BY DEF ContextCounted
<1>1. InUse
  BY DEF InUse, Next, Call, Internal, vars, ctxVars, NodeInfoAllocate, EnumerateExistingNodes,
         ContextAddRef, ContextRelease, Shutdown, NodeInfoFree, NodeInfoSetInstanceName,
         CreateProductionTree, ProductionNodeAddRef, ProductionNodeRelease, GetRefNodeHandleByName,
         NodeInfoGetRefHandle, PlayRecording, MarkOwnedNode, GetRefContextFromNodeHandle,
         AddNeededNode, RemoveNeededNode, InfoFreeCell, InfoFreeReturn, CreateNeeded, CreateRootNode,
         CreateRootNodeFails, UndoRelease, UndoReturn, DestroyRelease, DestroyFreeInfo,
         FreeProductionNode, ShutdownNode, ShutdownOwned, ShutdownReturn, ReleaseContext
<1>2. GoodGraph /\ Allocated /\ ctxRef = userCtx + Cardinality(mem)
  BY <1>1 DEF GraphInv, ContextCounted
<1>3. IsFiniteSet(mem) /\ Cardinality(mem) \in Nat /\ ctxRef \in Int /\ userCtx \in Nat
  BY ConstantsAssumption, FS_Subset, FS_CardinalityType DEF TypeOK
<1>4. Allocated'
  <2>1. CASE UNCHANGED vars
    BY <1>2, <2>1 DEF vars, nodeVars, Allocated
  <2> QED BY <1>1, <1>2, <2>1, AllocatedCall, AllocatedInternal DEF Next
<1>5. CASE CreateRootNode
  <2>1. ctxRef' = ctxRef + 1 /\ userCtx' = userCtx /\ mem' = mem \cup {Top[2]} /\ Top[2] \notin mem
    <3>1. stack \in Seq(Frames) /\ stack # <<>> /\ Top = stack[1] /\ Top[1] = "create"
          /\ 1 \in Depth
      BY <1>5 DEF CreateRootNode, Running, Top, TypeOK, Depth
    <3>2. Top[2] \notin hNode /\ \A k \in Depth : stack[k][1] # "free"
      BY <1>2, <3>1 DEF GoodGraph, CreateFrames, Depth
    <3>3. FreeNodes(stack) = {}
      BY <3>2 DEF FreeNodes, Depth
    <3> QED BY <1>2, <1>5, <3>2, <3>3 DEF CreateRootNode, Allocated
  <2>2. Cardinality(mem') = Cardinality(mem) + 1
    BY <1>3, <2>1, FS_AddElement
  <2> QED BY <1>2, <1>3, <1>4, <2>1, <2>2
<1>6. CASE FreeProductionNode
  <2>1. ctxRef' = ctxRef - 1 /\ userCtx' = userCtx /\ mem' = mem \ {Top[2]}
    BY <1>6 DEF FreeProductionNode, ReleaseContext, appVars
  <2>2. Top[2] \in mem
    <3>1. stack \in Seq(Frames) /\ stack # <<>> /\ Top = stack[1] /\ Top[1] = "free"
          /\ 1 \in 1..Len(stack)
      BY <1>6 DEF FreeProductionNode, Running, Top, TypeOK
    <3>2. Top = <<"free", Top[2]>> /\ Top[2] \in Infos
      BY <3>1, FrameFacts
    <3>3. Top[2] \in FreeNodes(stack)
      BY <3>1, <3>2 DEF FreeNodes
    <3> QED BY <1>2, <3>3 DEF Allocated
  <2>3. Cardinality(mem') = Cardinality(mem) - 1
    BY <1>3, <2>1, <2>2, FS_RemoveElement
  <2> QED BY <1>2, <1>3, <1>4, <2>1, <2>3
<1>7. CASE ContextAddRef \/ ContextRelease \/ \E i \in Infos : GetRefContextFromNodeHandle(i)
  <2>1. mem' = mem /\ ctxRef' - ctxRef = userCtx' - userCtx /\ userCtx' \in Int /\ ctxRef' \in Int
    BY <1>3, <1>7 DEF ContextAddRef, ContextRelease, GetRefContextFromNodeHandle, ReleaseContext,
                      CanCall, CanUseNode, nodeVars
  <2> QED BY <1>2, <1>3, <1>4, <2>1
<1>8. CASE ~(CreateRootNode \/ FreeProductionNode \/ ContextAddRef \/ ContextRelease
             \/ \E i \in Infos : GetRefContextFromNodeHandle(i))
  <2>1. UNCHANGED <<mem, ctxRef, userCtx>>
    BY <1>8 DEF Next, Call, Internal, vars, ctxVars, nodeVars, appVars, NodeInfoAllocate,
         EnumerateExistingNodes, Shutdown, NodeInfoFree, NodeInfoSetInstanceName,
         CreateProductionTree, ProductionNodeAddRef, ProductionNodeRelease, GetRefNodeHandleByName,
         NodeInfoGetRefHandle, PlayRecording, MarkOwnedNode, AddNeededNode, RemoveNeededNode,
         InfoFreeCell, InfoFreeReturn, CreateNeeded, CreateRootNodeFails, UndoRelease, UndoReturn,
         DestroyRelease, DestroyFreeInfo, ShutdownNode, ShutdownOwned, ShutdownReturn
  <2> QED BY <1>2, <1>4, <2>1
<1> QED BY <1>5, <1>6, <1>7, <1>8

\* The context's count is exact in every state of a context in use.
LEMMA ContextCorrect == Spec => []ContextCounted
<1>1. Init => ContextCounted
  <2> SUFFICES ASSUME Init PROVE Allocated /\ ctxRef = userCtx + Cardinality(mem)
    BY DEF ContextCounted
  <2>1. mem = {} /\ hNode = {} /\ stack = <<>> /\ ctxRef = 1 /\ userCtx = 1
    BY DEF Init
  <2>2. Cardinality(mem) = 0
    BY <2>1, FS_EmptySet
  <2> QED BY <2>1, <2>2 DEF Allocated, FreeNodes, FreeOnce
<1> QED BY <1>1, ContextStep, TypeCorrect, GraphCorrect, PTL DEF Spec

\* Every reference on a node, an info or the context is accounted for, also in
\* the middle of a creation, its undoing or a cascade of releases.
THEOREM RefsStayExact == Spec => [](InUse => RefsExact)
<1>1. ContextCounted => (InUse => CtxRefExact)
  BY DEF ContextCounted, CtxRefExact
<1>2. NodeRefExact /\ (InUse => InfoRefExact /\ InfosAlive) /\ ContextCounted => (InUse => RefsExact)
  BY <1>1 DEF RefsExact
<1> QED BY <1>2, ContextCorrect, NodeRefsExact, InfosStayAlive, PTL

-----------------------------------------------------------------------------
(* Nothing is forgotten *)

\* Between two calls, a node that exists is one the application holds, one a
\* list entry counts, or one xnPlayRecording keeps alive with a lost reference.
LEMMA OnlyLostKeepAlive ==
  ASSUME TypeOK, GraphInv, Idle, InUse, NEW i \in hNode
  PROVE  user[i] > 0 \/ HeldTo(i) # {} \/ lost[i] > 0
<1>1. i \in Infos /\ user[i] \in Nat /\ lost[i] \in Nat /\ nRef[i] \in Nat
  BY DEF TypeOK
<1>2. nRef[i] # 0
  BY DEF GraphInv, GoodGraph, UncountedDying, Depth, Idle
<1>3. nRef[i] = user[i] + Cardinality(HeldTo(i)) + lost[i]
  BY <1>1 DEF GraphInv, GoodGraph, NodesCounted
<1>4. HeldTo(i) = {} => Cardinality(HeldTo(i)) = 0
  BY FS_EmptySet
<1> QED BY <1>1, <1>2, <1>3, <1>4

\* A node that nobody holds or needs is gone when the call that dropped the last
\* reference returns, unless xnPlayRecording lost a reference on it.
THEOREM NothingForgotten == Spec => []OnlyLostStay
<1>1. TypeOK /\ GraphInv => OnlyLostStay
  BY OnlyLostKeepAlive DEF OnlyLostStay
<1> QED BY <1>1, TypeCorrect, GraphCorrect, PTL

-----------------------------------------------------------------------------
(* What the context knows: names and the player slot                       *)

\* The node in the player slot is allocated, and it is a player.
PlayerKept == hPlayer # NoNode => hPlayer \in mem /\ IsPlayer(hPlayer)

\* Freeing a player clears the slot, so it never points to a freed node, in any
\* phase of the context's life.
THEOREM SlotStaysValid == Spec => []PlayerSlotValid
<1>1. Init => PlayerKept
  BY DEF Init, PlayerKept
<1>2. TypeOK /\ PlayerKept /\ [Next]_vars => PlayerKept'
  <2> SUFFICES ASSUME TypeOK, PlayerKept, [Next]_vars PROVE PlayerKept'
    OBVIOUS
  <2>1. CASE CreateRootNode
    <3>1. /\ mem' = mem \cup {Top[2]}
          /\ hPlayer' = IF IsPlayer(Top[2]) THEN Top[2] ELSE hPlayer
      BY <2>1 DEF CreateRootNode
    <3> QED BY <3>1 DEF PlayerKept, IsPlayer
  <2>2. CASE CreateRootNodeFails
    <3>1. mem' = mem /\ (hPlayer' = hPlayer \/ hPlayer' = NoNode)
      BY <2>2 DEF CreateRootNodeFails
    <3> QED BY <3>1 DEF PlayerKept, IsPlayer
  <2>3. CASE FreeProductionNode
    <3>1. /\ mem' = mem \ {Top[2]}
          /\ hPlayer' = IF IsPlayer(Top[2]) THEN NoNode ELSE hPlayer
      BY <2>3 DEF FreeProductionNode
    <3> QED BY <3>1 DEF PlayerKept, IsPlayer
  <2>4. CASE ~(CreateRootNode \/ CreateRootNodeFails \/ FreeProductionNode)
    <3>1. UNCHANGED <<mem, hPlayer>>
      BY <2>4 DEF Next, Call, Internal, vars, ctxVars, nodeVars, appVars, NodeInfoAllocate,
           EnumerateExistingNodes, ContextAddRef, ContextRelease, Shutdown, NodeInfoFree,
           NodeInfoSetInstanceName, CreateProductionTree, ProductionNodeAddRef, ProductionNodeRelease,
           GetRefNodeHandleByName, NodeInfoGetRefHandle, PlayRecording, MarkOwnedNode,
           GetRefContextFromNodeHandle, AddNeededNode, RemoveNeededNode, InfoFreeCell, InfoFreeReturn,
           CreateNeeded, UndoRelease, UndoReturn, DestroyRelease, DestroyFreeInfo, ShutdownNode,
           ShutdownOwned, ShutdownReturn
    <3> QED BY <3>1 DEF PlayerKept, IsPlayer
  <2> QED BY <2>1, <2>2, <2>3, <2>4
<1>3. PlayerKept => PlayerSlotValid
  BY DEF PlayerKept, PlayerSlotValid
<1> QED BY <1>1, <1>2, <1>3, TypeCorrect, PTL DEF Spec

\* The names the node of an info can be given: by the application, or by
\* default. They differ from info to info when each info has a type of its own
\* and the application keeps off the default names of other types; otherwise
\* two infos can get one name (see the README), and the map holds one of them.
OwnNames(i) == UserNames[i] \cup ({TypeOf[i]} \X (1..MaxIndex))
DistinctNames == \A i, j \in Infos : i # j => OwnNames(i) \cap OwnNames(j) = {}

\* An info has no name or one of its own, and an existing node has one.
NamesOwn ==
  \A i \in Infos : /\ name[i] \in OwnNames(i) \cup {NoName}
                   /\ i \in hNode => name[i] # NoName

\* No name is the empty one.
LEMMA OwnNamesFacts ==
  ASSUME NEW i \in Infos
  PROVE  NoName \notin OwnNames(i)
BY ConstantsAssumption DEF OwnNames, Names

\* The name a creation gives is one of the info's own.
LEMMA GivenName ==
  ASSUME NamesOwn, NEW i \in Infos, NEW nm \in Names, GiveName(i, nm)
  PROVE  nm \in OwnNames(i)
<1>1. CASE name[i] = NoName
  <2>1. nm[1] = TypeOf[i]
    BY <1>1 DEF GiveName, IsValidNameForType
  <2> QED BY <2>1 DEF Names, OwnNames
<1>2. CASE name[i] # NoName
  BY <1>2 DEF GiveName, NamesOwn
<1> QED BY <1>1, <1>2

\* Every step keeps to the infos' own names.
LEMMA NamesStep ==
  ASSUME TypeOK, GraphInv, NamesOwn, [Next]_vars
  PROVE  NamesOwn'
<1>1. ASSUME NEW i \in Infos, NEW nm \in OwnNames(i), name' = [name EXCEPT ![i] = nm],
             hNode' \subseteq hNode \cup {i}
      PROVE  NamesOwn'
  BY <1>1, OwnNamesFacts DEF NamesOwn, TypeOK
<1>2. ASSUME NEW i \in Infos, NEW needed \in SUBSET Infos, NodeInfoAllocate(i, needed)
      PROVE  NamesOwn'
  <2>1. /\ InUse /\ infoRef[i] = 0 /\ name' = [name EXCEPT ![i] = NoName] /\ hNode' = hNode
    BY <1>2 DEF NodeInfoAllocate, CanCall, InUse, nodeVars
  <2>2. i \notin hNode
    <3>1. i \in hNode => infoRef[i] > 0
      BY <2>1, InfoCounted DEF GraphInv, GoodGraph
    <3> QED BY <2>1, <3>1
  <2> QED BY <2>1, <2>2 DEF NamesOwn, TypeOK
<1>3. ASSUME NEW i \in Infos, NEW nm \in UserNames[i], NodeInfoSetInstanceName(i, nm)
      PROVE  NamesOwn'
  BY <1>1, <1>3 DEF NodeInfoSetInstanceName, OwnNames, nodeVars
<1>4. CASE CreateRootNode \/ CreateRootNodeFails
  <2>1. PICK nm \in Names : GiveName(Top[2], nm) /\ name' = [name EXCEPT ![Top[2]] = nm]
    BY <1>4 DEF CreateRootNode, CreateRootNodeFails
  <2>2. Top[2] \in Infos
    BY <1>4, TopFacts DEF CreateRootNode, CreateRootNodeFails
  <2>3. hNode' \subseteq hNode \cup {Top[2]}
    BY <1>4 DEF CreateRootNode, CreateRootNodeFails
  <2> QED BY <1>1, <2>1, <2>2, <2>3, GivenName
<1>5. CASE ~(\/ \E i \in Infos, needed \in SUBSET Infos : NodeInfoAllocate(i, needed)
             \/ \E i \in Infos : \E nm \in UserNames[i] : NodeInfoSetInstanceName(i, nm)
             \/ CreateRootNode \/ CreateRootNodeFails)
  <2>1. name' = name /\ hNode' \subseteq hNode
    BY <1>5 DEF Next, Call, Internal, vars, infoVars, ctxVars, nodeVars, appVars,
         EnumerateExistingNodes, ContextAddRef, ContextRelease, Shutdown, NodeInfoFree,
         CreateProductionTree, ProductionNodeAddRef, ProductionNodeRelease,
         GetRefNodeHandleByName, NodeInfoGetRefHandle, PlayRecording, MarkOwnedNode,
         GetRefContextFromNodeHandle, AddNeededNode, RemoveNeededNode, InfoFreeCell, InfoFreeReturn,
         CreateNeeded, UndoRelease, UndoReturn, DestroyRelease, DestroyFreeInfo, FreeProductionNode,
         ShutdownNode, ShutdownOwned, ShutdownReturn
  <2> QED BY <2>1 DEF NamesOwn
<1> QED BY <1>2, <1>3, <1>4, <1>5

\* With distinct names, a name leads to one node.
LEMMA OneNode ==
  ASSUME DistinctNames, NamesOwn, NEW S \in SUBSET hNode, NEW i \in hNode, hNode \subseteq Infos
  PROVE  \A j \in S : name[j] = name[i] => j = i
BY DEF DistinctNames, NamesOwn

-----------------------------------------------------------------------------
(* The map of names *)

\* Every node somebody counts can be found under its name.
MappedAll == InUse => \A i \in hNode : nRef[i] > 0 => i \in nodesMap

\* No step puts a context back in use.
LEMMA OnlyInUse ==
  ASSUME InUse', [Next]_vars
  PROVE  InUse
BY DEF InUse, Next, Call, Internal, vars, ctxVars, NodeInfoAllocate, EnumerateExistingNodes,
       ContextAddRef, ContextRelease, Shutdown, NodeInfoFree, NodeInfoSetInstanceName,
       CreateProductionTree, ProductionNodeAddRef, ProductionNodeRelease, GetRefNodeHandleByName,
       NodeInfoGetRefHandle, PlayRecording, MarkOwnedNode, GetRefContextFromNodeHandle,
       AddNeededNode, RemoveNeededNode, InfoFreeCell, InfoFreeReturn, CreateNeeded, CreateRootNode,
       CreateRootNodeFails, UndoRelease, UndoReturn, DestroyRelease, DestroyFreeInfo,
       FreeProductionNode, ShutdownNode, ShutdownOwned, ShutdownReturn, ReleaseContext

\* Nothing is removed from the map but the released node.
LEMMA UnmappedFacts ==
  ASSUME DistinctNames, TypeOK, NamesOwn, nodesMap \subseteq hNode, NEW i \in hNode
  PROVE  Unmapped(i) = nodesMap \ {i}
<1>1. \A j \in nodesMap : name[j] = name[i] => j = i
  BY OneNode DEF TypeOK
<1> QED BY <1>1 DEF Unmapped

\* Releasing a node of the graph takes it out of the map with its last reference.
LEMMA ReleaseMapped ==
  ASSUME DistinctNames, TypeOK, GoodGraph, NamesOwn, MappedAll, InUse,
         NEW i \in Infos, NEW s, ReleaseNode(i, s), hNode' = hNode
  PROVE  MappedAll'
<1>1. CASE nRef[i] = 0
  BY <1>1 DEF ReleaseNode, MappedAll
<1>2. CASE nRef[i] = 1
  <2>1. i \in hNode
    BY <1>2 DEF GoodGraph, DeadUncounted
  <2>2. nodesMap' = nodesMap \ {i} /\ nRef' = [nRef EXCEPT ![i] = @ - 1]
    <3>1. nodesMap \subseteq hNode
      BY DEF GoodGraph, MapCounted
    <3> QED BY <1>2, <2>1, <3>1, UnmappedFacts DEF ReleaseNode
  <2>3. nRef'[i] = 0
    BY <1>2, <2>2 DEF TypeOK
  <2>4. \A j \in hNode : j # i => nRef'[j] = nRef[j]
    BY <2>2 DEF TypeOK
  <2> QED BY <2>2, <2>3, <2>4 DEF MappedAll
<1>3. CASE nRef[i] # 0 /\ nRef[i] # 1
  <2>1. nodesMap' = nodesMap /\ nRef' = [nRef EXCEPT ![i] = @ - 1]
    BY <1>3 DEF ReleaseNode
  <2>2. \A j \in hNode : nRef'[j] > 0 => nRef[j] > 0
    BY <1>3, <2>1 DEF TypeOK
  <2> QED BY <2>1, <2>2 DEF MappedAll
<1> QED BY <1>1, <1>2, <1>3

\* Every step of a context in use keeps the counted nodes in the map.
LEMMA MappedStep ==
  ASSUME DistinctNames, TypeOK, GraphInv, NamesOwn, MappedAll, [Next]_vars
  PROVE  MappedAll'
<1> SUFFICES ASSUME InUse' PROVE MappedAll'
  BY DEF MappedAll
<1>1. InUse /\ GoodGraph
  BY OnlyInUse DEF GraphInv
<1>2. \A i \in hNode : nRef[i] \in Nat
  BY DEF TypeOK
<1>3. ASSUME hNode' = hNode, nodesMap' = nodesMap, Idle \/ Running("create")
      PROVE  MappedAll'
  <2>1. \A i \in hNode : nRef[i] # 0
    BY <1>1, <1>3, IdleFacts, CreatingFacts
  <2> QED BY <1>1, <1>2, <1>3, <2>1 DEF MappedAll
<1>4. ASSUME UNCHANGED <<hNode, nodesMap, nRef>>
      PROVE  MappedAll'
  BY <1>1, <1>4 DEF MappedAll
<1>5. ASSUME NEW i \in Infos, NEW s, ReleaseNode(i, s), hNode' = hNode
      PROVE  MappedAll'
  BY <1>1, <1>5, ReleaseMapped
<1>6. CASE Call
  <2>1. \/ hNode' = hNode /\ nodesMap' = nodesMap /\ Idle
        \/ hNode' = hNode /\ \E i \in Infos : ReleaseNode(i, <<>>)
    BY <1>6 DEF Call, NodeInfoAllocate, EnumerateExistingNodes, ContextAddRef, ContextRelease,
         Shutdown, NodeInfoFree, NodeInfoSetInstanceName, CreateProductionTree, ProductionNodeAddRef,
         ProductionNodeRelease, GetRefNodeHandleByName, NodeInfoGetRefHandle, PlayRecording,
         MarkOwnedNode, GetRefContextFromNodeHandle, AddNeededNode, RemoveNeededNode,
         CanCall, CanUseNode, nodeVars
  <2> QED BY <1>3, <1>5, <2>1
<1>7. CASE InfoFreeCell \/ InfoFreeReturn \/ CreateRootNodeFails \/ UndoReturn \/ FreeProductionNode
  BY <1>4, <1>7 DEF InfoFreeCell, InfoFreeReturn, CreateRootNodeFails, UndoReturn,
                    FreeProductionNode, nodeVars
<1>8. CASE CreateNeeded
  BY <1>3, <1>8 DEF CreateNeeded
<1>9. CASE UndoRelease \/ DestroyRelease
  <2>1. hNode' = hNode /\ \E i \in Infos : ReleaseNode(i, stack)
    BY <1>9 DEF UndoRelease, DestroyRelease, ToRelease, TypeOK, Cells
  <2> QED BY <1>5, <2>1
<1>10. CASE DestroyFreeInfo
  <2>1. hNode' = hNode \ {Top[2]} /\ nRef' = [nRef EXCEPT ![Top[2]] = 0] /\ nodesMap' = nodesMap
    BY <1>10 DEF DestroyFreeInfo
  <2>2. \A j \in hNode' : j \in hNode /\ nRef'[j] = nRef[j]
    BY <2>1 DEF TypeOK
  <2> QED BY <1>1, <2>1, <2>2 DEF MappedAll
<1>11. CASE CreateRootNode
  <2>1. PICK nm \in Names : GiveName(Top[2], nm) /\ nodesMap' = Mapped(Top[2], nm)
    BY <1>11 DEF CreateRootNode
  <2>2. Top[2] \in Infos /\ \A j \in hNode : nRef[j] # 0
    BY <1>1, <1>11, CreatingFacts DEF CreateRootNode
  <2>3. hNode' = hNode \cup {Top[2]} /\ Top[2] \notin hNode
    BY <1>1, <1>11, CreatingFacts DEF CreateRootNode
  <2>4. \A j \in hNode : j \in Infos /\ j # Top[2] /\ name[j] \in OwnNames(j)
    BY <2>3 DEF TypeOK, NamesOwn
  <2>5. \A j \in hNode : name[j] # nm
    BY <2>1, <2>2, <2>4, GivenName DEF DistinctNames
  <2>6. \A j \in hNode : j \in nodesMap
    BY <1>1, <1>2, <2>2 DEF MappedAll
  <2> QED BY <2>1, <2>3, <2>5, <2>6 DEF MappedAll, Mapped
<1>12. CASE ShutdownNode \/ ShutdownOwned \/ ShutdownReturn
  BY <1>1, <1>12 DEF ShutdownNode, ShutdownOwned, ShutdownReturn, InUse
<1>13. CASE UNCHANGED vars
  BY <1>4, <1>13 DEF vars, nodeVars
<1> QED BY <1>6, <1>7, <1>8, <1>9, <1>10, <1>11, <1>12, <1>13 DEF Next, Internal

-----------------------------------------------------------------------------
(* Creating needs a context somebody holds                                 *)

Building(st) == \E f \in FramesOf(st) : f[1] \in {"create", "undo"}

\* A creation never runs on a context the application has given back.
BuilderHoldsContext == InUse /\ Building(stack) => userCtx > 0

\* A push adds its frame to what is being built.
LEMMA BuildingPush ==
  ASSUME NEW op \in Ops, NEW i \in Infos, NEW s \in Seq(Frames)
  PROVE  Building(Push(op, i, s)) <=> op \in {"create", "undo"} \/ Building(s)
<1>1. FramesOf(Push(op, i, s)) = FramesOf(s) \cup {<<op, i>>}
  BY FramesOfPush
<1> DEFINE f == <<op, i>>
<1>2. f[1] = op
  OBVIOUS
<1> HIDE DEF f
<1>3. FramesOf(Push(op, i, s)) = FramesOf(s) \cup {f}
  BY <1>1 DEF f
<1> QED BY <1>2, <1>3 DEF Building

\* A pop takes its frame from what is being built.
LEMMA BuildingPop ==
  ASSUME NEW s \in Seq(Frames), s # <<>>
  PROVE  Building(s) <=> s[1][1] \in {"create", "undo"} \/ Building(Tail(s))
<1>1. FramesOf(s) = FramesOf(Tail(s)) \cup {s[1]}
  BY FramesOfPop
<1> QED BY <1>1 DEF Building

\* Releasing a node or freeing an info builds nothing.
LEMMA BuildingSame ==
  ASSUME NEW i \in Infos, NEW s \in Seq(Frames), ReleaseNode(i, s) \/ FreeInfo(i, s)
  PROVE  Building(stack') <=> Building(s)
<1>1. stack' = s \/ stack' = Push("destroy", i, s) \/ stack' = Push("infofree", i, s)
  BY DEF ReleaseNode, FreeInfo
<1>2. "destroy" \in Ops /\ "infofree" \in Ops
  BY DEF Ops
<1> QED BY <1>1, <1>2, BuildingPush

\* No step starts a creation without a reference on the context.
LEMMA BuilderStep ==
  ASSUME TypeOK, BuilderHoldsContext, [Next]_vars
  PROVE  BuilderHoldsContext'
<1> SUFFICES ASSUME InUse', Building(stack') PROVE userCtx' > 0
  BY DEF BuilderHoldsContext
<1>1. InUse /\ userCtx \in Nat /\ stack \in Seq(Frames)
  BY OnlyInUse DEF TypeOK
<1>2. ASSUME userCtx' = userCtx, Building(stack') => Building(stack)
      PROVE  userCtx' > 0
  BY <1>1, <1>2 DEF BuilderHoldsContext
<1>3. CASE Call
  <2>1. Idle /\ stack = <<>> /\ ~Building(<<>>)
    <3>1. Idle
      BY <1>3 DEF Call, NodeInfoAllocate, EnumerateExistingNodes, ContextAddRef, ContextRelease,
         Shutdown, NodeInfoFree, NodeInfoSetInstanceName, CreateProductionTree, ProductionNodeAddRef,
         ProductionNodeRelease, GetRefNodeHandleByName, NodeInfoGetRefHandle, PlayRecording,
         MarkOwnedNode, GetRefContextFromNodeHandle, AddNeededNode, RemoveNeededNode,
         CanCall, CanUseNode
    <3> QED BY <3>1, IdleLists DEF Building
  <2>2. \/ \E i \in Infos : CreateProductionTree(i)
        \/ stack' = <<>>
        \/ \E i \in Infos : ReleaseNode(i, <<>>) \/ FreeInfo(i, <<>>)
    BY <1>3, <2>1 DEF Call, NodeInfoAllocate, EnumerateExistingNodes, ContextAddRef, ContextRelease,
       Shutdown, NodeInfoFree, NodeInfoSetInstanceName, ProductionNodeAddRef, ProductionNodeRelease,
       GetRefNodeHandleByName, NodeInfoGetRefHandle, PlayRecording, MarkOwnedNode,
       GetRefContextFromNodeHandle, AddNeededNode, RemoveNeededNode, appVars
  <2>3. \E i \in Infos : CreateProductionTree(i)
    BY <2>1, <2>2, EmptyStack, BuildingSame
  <2> QED BY <2>3 DEF CreateProductionTree, CanCall
<1>4. CASE Internal
  <2>1. userCtx' = userCtx
    BY <1>4 DEF Internal, InfoFreeCell, InfoFreeReturn, CreateNeeded, CreateRootNode,
       CreateRootNodeFails, UndoRelease, UndoReturn, DestroyRelease, DestroyFreeInfo,
       FreeProductionNode, ShutdownNode, ShutdownOwned, ShutdownReturn, appVars
  <2>2. CASE InfoFreeCell \/ UndoRelease \/ DestroyRelease
    <3>1. \E i \in Infos : ReleaseNode(i, stack) \/ FreeInfo(i, stack)
      BY <2>2 DEF InfoFreeCell, UndoRelease, DestroyRelease, ToRelease, TypeOK, Cells
    <3> QED BY <1>1, <1>2, <2>1, <3>1, BuildingSame
  <2>3. CASE InfoFreeReturn \/ FreeProductionNode
    <3>1. stack # <<>> /\ stack' = Tail(stack)
      BY <2>3 DEF InfoFreeReturn, FreeProductionNode, Running
    <3> QED BY <1>1, <1>2, <2>1, <3>1, BuildingPop
  <2>4. CASE CreateNeeded \/ CreateRootNode \/ CreateRootNodeFails \/ UndoReturn
    <3>1. stack # <<>> /\ stack[1][1] \in {"create", "undo"}
      BY <2>4 DEF CreateNeeded, CreateRootNode, CreateRootNodeFails, UndoReturn, Running, Top
    <3> QED BY <1>1, <1>2, <2>1, <3>1, BuildingPop
  <2>5. CASE DestroyFreeInfo
    <3>1. Running("destroy") /\ FreeInfo(Top[2], Push("free", Top[2], Tail(stack)))
      BY <2>5 DEF DestroyFreeInfo
    <3>2. Top[2] \in Infos /\ Tail(stack) \in Seq(Frames) /\ stack # <<>> /\ "free" \in Ops
      BY <3>1, TopFacts DEF Ops
    <3>3. Push("free", Top[2], Tail(stack)) \in Seq(Frames)
      BY <3>2, PushFacts
    <3>4. Building(stack') <=> Building(Tail(stack))
      BY <3>1, <3>2, <3>3, BuildingSame, BuildingPush
    <3> QED BY <1>1, <1>2, <2>1, <3>2, <3>4, BuildingPop
  <2>6. CASE ShutdownNode \/ ShutdownOwned \/ ShutdownReturn
    BY <1>1, <2>6 DEF ShutdownNode, ShutdownOwned, ShutdownReturn, InUse
  <2> QED BY <1>4, <2>2, <2>3, <2>4, <2>5, <2>6 DEF Internal
<1>5. CASE UNCHANGED vars
  BY <1>2, <1>5 DEF vars, appVars
<1> QED BY <1>3, <1>4, <1>5 DEF Next
-----------------------------------------------------------------------------
(* Infos and their lists, also while the context shuts down and after it   *)

InfosGood == InfoRefExact /\ FreedInfos

\* FreedInfos as an operator on the call stack.
LEMMA FreedDef == FreedInfos <=> FFrames(stack, cells, infoRef)
BY ListsDef DEF FreedInfos, FFrames

\* Frames of other calls do not matter to the lists of infos.
LEMMA FFramesPush ==
  ASSUME NEW op \in Ops, op # "infofree", NEW i \in Infos, NEW s \in Seq(Frames), NEW C, NEW r,
         FFrames(s, C, r)
  PROVE  FFrames(Push(op, i, s), C, r)
<1>1. FramesOf(Push(op, i, s)) = FramesOf(s) \cup {<<op, i>>}
  BY FramesOfPush
<1>2. \A j : <<"infofree", j>> # <<op, i>>
  OBVIOUS
<1> QED BY <1>1, <1>2 DEF FFrames

\* A list of infos that is empty needs its frame no longer.
LEMMA FFramesPop ==
  ASSUME NEW s \in Seq(Frames), s # <<>>, NEW C, NEW r, FFrames(s, C, r),
         s[1][1] = "infofree" => \A c \in C : c[1] # s[1][2]
  PROVE  FFrames(Tail(s), C, r)
<1>1. FramesOf(s) = FramesOf(Tail(s)) \cup {s[1]}
  BY FramesOfPop
<1>2. \A j : s[1] = <<"infofree", j>> => s[1][1] = "infofree" /\ s[1][2] = j
  OBVIOUS
<1> QED BY <1>1, <1>2 DEF FFrames

\* xnNodeInfoFree frees the list of a freed info entry by entry.
LEMMA InfoFreeCellInfos ==
  ASSUME TypeOK, InfosGood, InfoFreeCell
  PROVE  /\ InfosGood'
         /\ Top[2] \in Infos /\ Top[2] \notin hNode
         /\ \E c \in cells : /\ c[1] = Top[2] /\ c[2] \in Infos /\ cells' = cells \ {c}
                             /\ FreeInfo(c[2], stack)
<1>1. PICK c \in cells : c[1] = Top[2] /\ cells' = cells \ {c} /\ FreeInfo(c[2], stack)
  BY DEF InfoFreeCell
<1>2. Running("infofree") /\ UNCHANGED <<hNode, userInfo>>
  BY DEF InfoFreeCell, nodeVars, appVars
<1>3. /\ c[2] \in Infos /\ Top[2] \in Infos /\ <<"infofree", Top[2]>> \in Calls
      /\ stack \in Seq(Frames)
  BY <1>2, TopCall DEF TypeOK, Cells
<1>4. infoRef[Top[2]] = 0
  BY <1>3 DEF InfosGood, FreedInfos
<1>5. infoRef[c[2]] > 0
  BY <1>1, <1>3, InfoCounted DEF InfosGood
<1>6. Top[2] \notin hNode
  <2>1. Top[2] \in hNode => infoRef[Top[2]] > 0
    BY <1>3, InfoCounted DEF InfosGood
  <2> QED BY <1>4, <2>1
<1>7. FFrames(stack, cells', infoRef)
  BY <1>1, FreedDef DEF InfosGood, FFrames
<1>8. FFrames(stack', cells', infoRef')
  BY <1>1, <1>3, <1>5, <1>7, FreeInfoFreed
<1>9. FreedInfos'
  BY <1>8, FreedDef DEF FreedInfos, FFrames, Calls, FramesOf, Depth
<1>10. InfoRefExact'
  BY <1>1, <1>2, InfoEntryRemove DEF FreeInfo, InfosGood
<1> QED BY <1>1, <1>3, <1>6, <1>9, <1>10 DEF InfosGood

\* The returns of xnNodeInfoFree and xnFreeProductionNodeImpl.
LEMMA ReturnInfos ==
  ASSUME TypeOK, InfosGood, InfoFreeReturn \/ FreeProductionNode
  PROVE  InfosGood' /\ stack \in Seq(Frames) /\ stack # <<>> /\ stack' = Tail(stack)
<1>1. /\ stack' = Tail(stack) /\ UNCHANGED <<infoRef, cells, hNode, userInfo>>
      /\ \/ Running("free")
         \/ Running("infofree") /\ Needs(Top[2]) = {}
  BY DEF InfoFreeReturn, FreeProductionNode, infoVars, nodeVars, appVars
<1>2. stack \in Seq(Frames) /\ stack # <<>>
  BY <1>1, TopCall
<1>3. stack[1][1] = "infofree" => \A c \in cells : c[1] # stack[1][2]
  BY <1>1 DEF Running, Top, Needs
<1>4. FFrames(stack', cells, infoRef)
  BY <1>1, <1>2, <1>3, FFramesPop, FreedDef DEF InfosGood
<1>5. FreedInfos'
  BY <1>1, <1>4 DEF FreedInfos, FFrames, Calls, FramesOf, Depth
<1> QED BY <1>1, <1>2, <1>5, InfoSame DEF InfosGood

\* A destroyed node gives up the reference on its info.
LEMMA DestroyFreeInfoInfos ==
  ASSUME TypeOK, InfosGood, DestroyFreeInfo, Top[2] \in hNode
  PROVE  InfosGood'
<1> DEFINE i == Top[2]
           s == Push("free", i, Tail(stack))
<1>1. /\ Running("destroy") /\ hNode' = hNode \ {i} /\ FreeInfo(i, s)
      /\ UNCHANGED <<cells, userInfo>>
  BY DEF DestroyFreeInfo, appVars
<1>2. /\ i \in Infos /\ stack[1][1] = "destroy" /\ stack \in Seq(Frames) /\ stack # <<>>
      /\ Tail(stack) \in Seq(Frames) /\ "free" \in Ops
  BY <1>1, TopFacts DEF Ops, TypeOK
<1>3. s \in Seq(Frames)
  BY <1>2, PushFacts
<1>4. FFrames(s, cells, infoRef)
  <2>1. FFrames(Tail(stack), cells, infoRef)
    BY <1>2, FFramesPop, FreedDef DEF InfosGood
  <2> QED BY <1>2, <2>1, FFramesPush
<1> HIDE DEF i, s
<1>5. i \in hNode
  BY DEF i
<1>6. infoRef[i] > 0
  BY <1>2, <1>5, InfoCounted DEF InfosGood
<1>7. FFrames(stack', cells, infoRef')
  BY <1>1, <1>2, <1>3, <1>4, <1>6, FreeInfoFreed
<1>8. FreedInfos'
  BY <1>1, <1>7 DEF FreedInfos, FFrames, Calls, FramesOf, Depth
<1>9. InfoRefExact'
  BY <1>1, <1>2, <1>5, InfoNodeChange DEF FreeInfo, InfosGood
<1> QED BY <1>8, <1>9 DEF InfosGood

\* A call or the start of a destruction leaves infos and lists alone.
LEMMA PushInfos ==
  ASSUME TypeOK, InfosGood, UNCHANGED <<infoRef, cells, hNode, userInfo>>,
         stack' = stack \/ \E i \in Infos : stack' = Push("destroy", i, stack)
  PROVE  InfosGood'
<1>1. stack \in Seq(Frames) /\ "destroy" \in Ops
  BY DEF TypeOK, Ops
<1>2. FFrames(stack', cells, infoRef)
  BY <1>1, FFramesPush, FreedDef DEF InfosGood
<1>3. FreedInfos'
  BY <1>2 DEF FreedInfos, FFrames, Calls, FramesOf, Depth
<1> QED BY <1>3, InfoSame DEF InfosGood

\* The list of owned nodes is freed entry by entry.
LEMMA ShutdownOwnedInfos ==
  ASSUME TypeOK, InfosGood, ShutdownOwned
  PROVE  InfosGood'
<1>1. PICK c \in cells : c[1] = Owned /\ cells' = cells \ {c} /\ FreeInfo(c[2], <<>>)
  BY DEF ShutdownOwned
<1>2. Idle /\ UNCHANGED <<hNode, userInfo>>
  BY DEF ShutdownOwned, appVars
<1>3. c[2] \in Infos
  BY DEF TypeOK, Cells
<1>4. infoRef[c[2]] > 0
  BY <1>3, InfoCounted DEF InfosGood
<1>5. FFrames(<<>>, cells', infoRef)
  BY <1>1, <1>2, FreedDef DEF InfosGood, FFrames, Idle
<1>6. FFrames(stack', cells', infoRef')
  BY <1>1, <1>3, <1>4, <1>5, EmptyStack, FreeInfoFreed
<1>7. FreedInfos'
  BY <1>6 DEF FreedInfos, FFrames, Calls, FramesOf, Depth
<1>8. InfoRefExact'
  BY <1>1, <1>2, InfoEntryRemove DEF FreeInfo, InfosGood
<1> QED BY <1>7, <1>8 DEF InfosGood

\* xnNodeInfoFree by the application.
LEMMA NodeInfoFreeInfos ==
  ASSUME TypeOK, InfosGood, NEW i \in Infos, NodeInfoFree(i)
  PROVE  InfosGood'
<1>1. /\ Idle /\ userInfo[i] > 0 /\ FreeInfo(i, <<>>) /\ userInfo' = [userInfo EXCEPT ![i] = @ - 1]
      /\ UNCHANGED <<cells, hNode>>
  BY DEF NodeInfoFree, nodeVars
<1>2. infoRef[i] > 0
  BY <1>1, InfoCounted DEF InfosGood
<1>3. FFrames(<<>>, cells, infoRef)
  BY <1>1, FreedDef DEF InfosGood, Idle
<1>4. FFrames(stack', cells, infoRef')
  BY <1>1, <1>2, <1>3, EmptyStack, FreeInfoFreed
<1>5. FreedInfos'
  BY <1>1, <1>4 DEF FreedInfos, FFrames, Calls, FramesOf, Depth
<1>6. InfoRefExact'
  <2>1. infoRef' = [infoRef EXCEPT ![i] = @ - 1]
    BY <1>1 DEF FreeInfo
  <2>2. \A j \in Infos : infoRef[j] \in Int /\ userInfo[j] \in Int
    BY DEF TypeOK
  <2>3. \A j \in Infos : infoRef'[j] = IF j = i THEN infoRef[j] - 1 ELSE infoRef[j]
    BY <2>1 DEF TypeOK
  <2>4. \A j \in Infos : userInfo'[j] = IF j = i THEN userInfo[j] - 1 ELSE userInfo[j]
    BY <1>1 DEF TypeOK
  <2>5. \A j \in Infos : infoRef'[j] - infoRef[j] = userInfo'[j] - userInfo[j]
                         /\ infoRef'[j] \in Int /\ userInfo'[j] \in Int
    BY <2>2, <2>3, <2>4
  <2> QED BY <1>1, <2>5, InfoUserChange DEF InfosGood
<1> QED BY <1>5, <1>6 DEF InfosGood
-----------------------------------------------------------------------------
(* The shutdown                                                            *)

Shutting == ctx = "shutting"
NoCount == [i \in Infos |-> 0]
Dying(st) == {i \in Infos : <<"destroy", i>> \in FramesOf(st)}

\* The calls of a shutdown take nodes down; a node is in the map until its one
\* destruction starts, and exists until the destruction is done with it.
TakesDown(st) == \A f \in FramesOf(st) : f[1] \in {"destroy", "free", "infofree"}
MappedOrDying ==
  /\ DFrames(stack, hNode \ nodesMap, NoCount)
  /\ hNode = nodesMap \cup Dying(stack)

\* A node of the map still has all its references.  xnContextDestroy takes a
\* node down however many references the application has, so this ends for it.
MappedCounted ==
  \A i \in nodesMap : nRef[i] > 0 /\ nRef[i] = user[i] + Cardinality(HeldTo(i)) + lost[i]

\* Only existing nodes and the context count references on nodes; a node's are
\* on nodes of the map.
MappedHeld ==
  \A c \in held : c \in cells /\ (c[1] = Owned \/ (c[1] \in hNode /\ c[2] \in nodesMap))

\* The application still has a reference on the context that is shut down.
ContextHeld == Allocated /\ ctxRef = userCtx + Cardinality(mem) /\ userCtx > 0

ShutGraph ==
  /\ TakesDown(stack) /\ MappedOrDying /\ MappedCounted /\ MappedHeld
  /\ InfosGood /\ ContextHeld
ShutInv == Shutting => ShutGraph

\* Once the context is gone, only infos are freed.
GoneGraph ==
  /\ hNode = {} /\ mem = {} /\ InfosGood
  /\ \A f \in FramesOf(stack) : f[1] = "infofree"
GoneInv == ctx = "gone" => GoneGraph

\* What a push adds to the nodes being destroyed.
LEMMA DyingPush ==
  ASSUME NEW op \in Ops, NEW i \in Infos, NEW s \in Seq(Frames)
  PROVE  /\ op = "destroy" => Dying(Push(op, i, s)) = Dying(s) \cup {i}
         /\ op # "destroy" => Dying(Push(op, i, s)) = Dying(s)
         /\ op \in {"destroy", "free", "infofree"} /\ TakesDown(s) => TakesDown(Push(op, i, s))
<1>1. FramesOf(Push(op, i, s)) = FramesOf(s) \cup {<<op, i>>}
  BY FramesOfPush
<1>2. \A j : <<"destroy", j>> = <<op, i>> <=> op = "destroy" /\ j = i
  OBVIOUS
<1>3. op \in {"destroy", "free", "infofree"} /\ TakesDown(s) => TakesDown(Push(op, i, s))
  <2> DEFINE f == <<op, i>>
  <2>1. f[1] = op
    OBVIOUS
  <2> HIDE DEF f
  <2>2. FramesOf(Push(op, i, s)) = FramesOf(s) \cup {f}
    BY <1>1 DEF f
  <2> QED BY <2>1, <2>2 DEF TakesDown
<1> QED BY <1>1, <1>2, <1>3 DEF Dying

\* The frame that frees a node destroys no other.
LEMMA DyingPushFree ==
  ASSUME NEW i \in Infos, NEW s \in Seq(Frames), TakesDown(s)
  PROVE  TakesDown(Push("free", i, s)) /\ Dying(Push("free", i, s)) = Dying(s)
<1>1. "free" \in Ops
  BY DEF Ops
<1> QED BY <1>1, DyingPush

\* What a pop takes from the nodes being destroyed.
LEMMA DyingPop ==
  ASSUME NEW s \in Seq(Frames), s # <<>>
  PROVE  /\ s[1][1] = "destroy" => Dying(s) = Dying(Tail(s)) \cup {s[1][2]}
         /\ s[1][1] # "destroy" => Dying(Tail(s)) = Dying(s)
         /\ TakesDown(s) => TakesDown(Tail(s))
<1>1. FramesOf(s) = FramesOf(Tail(s)) \cup {s[1]}
  BY FramesOfPop
<1>2. 1 \in 1..Len(s)
  OBVIOUS
<1>3. s[1] = <<s[1][1], s[1][2]>> /\ s[1][2] \in Infos
  BY <1>2, FrameFacts
<1>4. \A j : s[1] = <<"destroy", j>> <=> s[1][1] = "destroy" /\ s[1][2] = j
  BY <1>3
<1> QED BY <1>1, <1>3, <1>4 DEF Dying, TakesDown

\* Freeing an info takes no node down.
LEMMA DyingFreeInfo ==
  ASSUME NEW i \in Infos, NEW s \in Seq(Frames), NEW h, TakesDown(s), DFrames(s, h, NoCount),
         FreeOnce(s), FreeInfo(i, s)
  PROVE  /\ TakesDown(stack') /\ DFrames(stack', h, NoCount) /\ Dying(stack') = Dying(s)
         /\ FreeNodes(stack') = FreeNodes(s) /\ FreeOnce(stack')
<1>1. FreeNodes(stack') = FreeNodes(s) /\ FreeOnce(stack')
  BY FreeSame
<1>2. CASE stack' = s
  BY <1>1, <1>2
<1>3. CASE stack' = Push("infofree", i, s)
  <2>1. "infofree" \in Ops
    BY DEF Ops
  <2> QED BY <1>1, <1>3, <2>1, DyingPush, DFramesPush
<1> QED BY <1>2, <1>3 DEF FreeInfo

\* The shutdown begins: between two calls, the map holds every node.
LEMMA ShutdownShuts ==
  ASSUME TypeOK, GoodGraph, GoodLists, MappedAll, ContextCounted, Shutdown
  PROVE  ShutGraph'
<1>1. /\ InUse /\ Idle /\ userCtx > 0
      /\ UNCHANGED <<infoRef, cells, hNode, nRef, mem, held, nodesMap, ctxRef, stack, user, userInfo,
                     userCtx, lost>>
  BY DEF Shutdown, CanCall, InUse, infoVars, nodeVars, appVars
<1>2. stack = <<>> /\ Calls = {} /\ FramesOf(stack) = {} /\ \A i \in hNode : nRef[i] # 0
  BY <1>1, IdleLists, IdleFacts
<1>3. hNode = nodesMap
  <2>1. \A i \in hNode : nRef[i] > 0
    BY <1>2 DEF TypeOK
  <2> QED BY <1>1, <2>1 DEF MappedAll, GoodGraph, MapCounted
<1>4. TakesDown(stack)' /\ MappedOrDying'
  BY <1>1, <1>2, <1>3 DEF TakesDown, MappedOrDying, DFrames, Dying, FramesOf
<1>5. MappedCounted'
  <2>1. \A i : HeldTo(i)' = HeldTo(i)
    BY <1>1 DEF HeldTo
  <2>2. MappedCounted
    BY DEF MappedCounted, GoodGraph, MapCounted, NodesCounted, TypeOK
  <2> QED BY <1>1, <2>1, <2>2 DEF MappedCounted
<1>6. MappedHeld'
  <2>1. ASSUME NEW c \in held PROVE c \in cells /\ c[2] \in hNode
    BY CountedExist DEF GoodLists, HeldListed, TypeOK, Cells
  <2>2. \A c \in held : c[1] \in hNode \cup {Owned}
    BY <1>2 DEF GoodLists, HeldListed
  <2> QED BY <1>1, <1>3, <2>1, <2>2 DEF MappedHeld
<1>7. InfosGood'
  <2>1. InfosGood
    BY DEF InfosGood, GoodGraph, GoodLists
  <2> QED BY <1>1, <2>1, PushInfos
<1>8. ContextHeld'
  BY <1>1 DEF ContextCounted, ContextHeld, Allocated
<1> QED BY <1>4, <1>5, <1>6, <1>7, <1>8 DEF ShutGraph

\* xnNodeInfoFree and xnFreeProductionNodeImpl during a shutdown.
LEMMA ShutInfoFreeCell ==
  ASSUME TypeOK, ShutGraph, InfoFreeCell
  PROVE  ShutGraph'
<1>1. /\ InfosGood' /\ Top[2] \in Infos /\ Top[2] \notin hNode
      /\ \E c \in cells : /\ c[1] = Top[2] /\ c[2] \in Infos /\ cells' = cells \ {c}
                          /\ FreeInfo(c[2], stack)
  BY InfoFreeCellInfos DEF ShutGraph
<1>2. PICK c \in cells : c[1] = Top[2] /\ c[2] \in Infos /\ cells' = cells \ {c}
                         /\ FreeInfo(c[2], stack)
  BY <1>1
<1>3. UNCHANGED <<hNode, nRef, mem, held, nodesMap, ctxRef, user, userCtx, lost>>
  BY DEF InfoFreeCell, nodeVars, ctxVars, appVars
<1>4. /\ stack \in Seq(Frames) /\ TakesDown(stack) /\ DFrames(stack, hNode \ nodesMap, NoCount)
      /\ hNode = nodesMap \cup Dying(stack) /\ FreeOnce(stack)
  BY DEF TypeOK, ShutGraph, MappedOrDying, ContextHeld, Allocated
<1>5. /\ TakesDown(stack') /\ DFrames(stack', hNode \ nodesMap, NoCount)
      /\ Dying(stack') = Dying(stack) /\ FreeNodes(stack') = FreeNodes(stack) /\ FreeOnce(stack')
  BY <1>2, <1>4, DyingFreeInfo
<1>6. TakesDown(stack)' /\ MappedOrDying'
  BY <1>3, <1>4, <1>5 DEF TakesDown, MappedOrDying, DFrames, Dying, FramesOf, NoCount
<1>7. MappedCounted'
  BY <1>3 DEF ShutGraph, MappedCounted, HeldTo
<1>8. MappedHeld'
  <2>1. c \notin held
    BY <1>1, <1>2, ConstantsAssumption DEF ShutGraph, MappedHeld
  <2> QED BY <1>2, <1>3, <2>1 DEF ShutGraph, MappedHeld
<1>9. ContextHeld'
  BY <1>3, <1>5 DEF ShutGraph, ContextHeld, Allocated
<1> QED BY <1>1, <1>6, <1>7, <1>8, <1>9 DEF ShutGraph

\* The end of xnNodeInfoFree keeps the graph that is being shut down.
LEMMA ShutInfoFreeReturn ==
  ASSUME TypeOK, ShutGraph, InfoFreeReturn
  PROVE  ShutGraph'
<1>1. InfosGood' /\ stack \in Seq(Frames) /\ stack # <<>> /\ stack' = Tail(stack)
  BY ReturnInfos DEF ShutGraph
<1>2. UNCHANGED <<cells, hNode, nRef, mem, held, nodesMap, ctxRef, user, userCtx, lost>>
      /\ stack[1][1] = "infofree"
  BY DEF InfoFreeReturn, Running, Top, infoVars, nodeVars, ctxVars, appVars
<1>3. /\ TakesDown(stack) /\ DFrames(stack, hNode \ nodesMap, NoCount)
      /\ hNode = nodesMap \cup Dying(stack) /\ FreeOnce(stack)
  BY DEF ShutGraph, MappedOrDying, ContextHeld, Allocated
<1>4. /\ TakesDown(stack') /\ DFrames(stack', hNode \ nodesMap, NoCount)
      /\ Dying(stack') = Dying(stack) /\ FreeNodes(stack') = FreeNodes(stack) /\ FreeOnce(stack')
  BY <1>1, <1>2, <1>3, DyingPop, DFramesPop, FreePop
<1>5. TakesDown(stack)' /\ MappedOrDying'
  BY <1>2, <1>3, <1>4 DEF TakesDown, MappedOrDying, DFrames, Dying, FramesOf, NoCount
<1>6. MappedCounted' /\ MappedHeld'
  BY <1>2 DEF ShutGraph, MappedCounted, MappedHeld, HeldTo
<1>7. ContextHeld'
  BY <1>2, <1>4 DEF ShutGraph, ContextHeld, Allocated
<1> QED BY <1>1, <1>5, <1>6, <1>7 DEF ShutGraph

\* A node is freed; the context stays, because the application holds it.
LEMMA ShutFreeProductionNode ==
  ASSUME TypeOK, ShutGraph, FreeProductionNode
  PROVE  ShutGraph' /\ ctx' = ctx
<1>1. InfosGood' /\ stack \in Seq(Frames) /\ stack # <<>> /\ stack' = Tail(stack)
  BY ReturnInfos DEF ShutGraph
<1>2. /\ UNCHANGED <<cells, hNode, nRef, held, nodesMap, user, userCtx, lost>>
      /\ stack[1] = Top /\ Top[1] = "free" /\ mem' = mem \ {Top[2]} /\ ctxRef' = ctxRef - 1
      /\ ctx' = IF ctxRef = 1 THEN "gone" ELSE ctx
  BY DEF FreeProductionNode, ReleaseContext, Running, Top, infoVars, appVars
<1>3. /\ TakesDown(stack) /\ DFrames(stack, hNode \ nodesMap, NoCount)
      /\ hNode = nodesMap \cup Dying(stack) /\ FreeOnce(stack)
      /\ mem = hNode \cup FreeNodes(stack) /\ hNode \cap FreeNodes(stack) = {}
  BY DEF ShutGraph, MappedOrDying, ContextHeld, Allocated
<1>4. /\ TakesDown(stack') /\ DFrames(stack', hNode \ nodesMap, NoCount)
      /\ Dying(stack') = Dying(stack)
      /\ FreeNodes(stack') = FreeNodes(stack) \ {Top[2]} /\ FreeOnce(stack')
  BY <1>1, <1>2, <1>3, DyingPop, DFramesPop, FreePop
<1>5. Top[2] \in FreeNodes(stack)
  <2>1. 1 \in 1..Len(stack)
    BY <1>1
  <2>2. stack[1] = <<"free", Top[2]>> /\ Top[2] \in Infos
    BY <1>1, <1>2, <2>1, FrameFacts
  <2> QED BY <2>1, <2>2 DEF FreeNodes
<1>6. TakesDown(stack)' /\ MappedOrDying'
  BY <1>2, <1>3, <1>4 DEF TakesDown, MappedOrDying, DFrames, Dying, FramesOf, NoCount
<1>7. MappedCounted' /\ MappedHeld'
  BY <1>2 DEF ShutGraph, MappedCounted, MappedHeld, HeldTo
<1>8. Allocated'
  BY <1>2, <1>3, <1>4, <1>5 DEF Allocated
<1>9. ctxRef' = userCtx' + Cardinality(mem') /\ userCtx' > 0 /\ ctx' = ctx
  <2>1. IsFiniteSet(mem) /\ Cardinality(mem) \in Nat /\ ctxRef \in Int /\ userCtx \in Nat
    BY ConstantsAssumption, FS_Subset, FS_CardinalityType DEF TypeOK
  <2>2. Cardinality(mem') = Cardinality(mem) - 1 /\ Cardinality(mem') \in Nat
    <3>1. Top[2] \in mem /\ IsFiniteSet(mem')
      BY <1>2, <1>3, <1>5, <2>1, FS_RemoveElement
    <3> QED BY <1>2, <2>1, <3>1, FS_RemoveElement, FS_CardinalityType
  <2>3. ctxRef = userCtx + Cardinality(mem) /\ userCtx > 0
    BY DEF ShutGraph, ContextHeld
  <2> QED BY <1>2, <2>1, <2>2, <2>3
<1>10. ContextHeld'
  BY <1>8, <1>9 DEF ContextHeld
<1> QED BY <1>1, <1>6, <1>7, <1>9, <1>10 DEF ShutGraph

\* A node that leaves the map starts to be destroyed.
LEMMA MapLeaves ==
  ASSUME TypeOK, ShutGraph, NEW j \in nodesMap, nodesMap' = nodesMap \ {j}, hNode' = hNode,
         stack' = Push("destroy", j, stack)
  PROVE  /\ TakesDown(stack)' /\ MappedOrDying'
         /\ FreeNodes(stack') = FreeNodes(stack) /\ FreeOnce(stack')
<1>1. /\ stack \in Seq(Frames) /\ "destroy" \in Ops /\ j \in Infos /\ j \in hNode
      /\ TakesDown(stack) /\ DFrames(stack, hNode \ nodesMap, NoCount)
      /\ hNode = nodesMap \cup Dying(stack) /\ FreeOnce(stack)
  BY DEF TypeOK, Ops, ShutGraph, MappedOrDying, ContextHeld, Allocated
<1>2. TakesDown(stack') /\ Dying(stack') = Dying(stack) \cup {j}
  BY <1>1, DyingPush
<1>3. FreeNodes(stack') = FreeNodes(stack) /\ FreeOnce(stack')
  BY <1>1, FreePushOther
<1>4. DFrames(stack, hNode \ nodesMap', NoCount)
  BY <1>1 DEF DFrames
<1>5. \A k \in 1..Len(stack) : stack[k] # <<"destroy", j>>
  BY <1>1 DEF DFrames
<1>6. NoCount[j] = 0 /\ j \in hNode \ nodesMap'
  BY <1>1 DEF NoCount
<1>7. DFrames(stack', hNode \ nodesMap', NoCount)
  BY <1>1, <1>4, <1>5, <1>6, DFramesPush
<1> QED BY <1>1, <1>2, <1>3, <1>7 DEF TakesDown, MappedOrDying, DFrames, Dying, FramesOf, NoCount

\* The count of each node follows a counted entry that goes.
LEMMA CountedDropOne ==
  ASSUME TypeOK, NEW c \in held, held' = held \ {c}, nRef' = [nRef EXCEPT ![c[2]] = @ - 1],
         UNCHANGED <<user, lost>>, NEW j \in Infos,
         nRef[j] = user[j] + Cardinality(HeldTo(j)) + lost[j]
  PROVE  nRef'[j] = user'[j] + Cardinality(HeldTo(j)') + lost'[j]
<1>1. held \in SUBSET Cells /\ c[2] \in Infos
  BY DEF TypeOK, Cells
<1>2. /\ Cardinality(HeldTo(j)) \in Nat
      /\ j = c[2] => Cardinality(HeldTo(j)') = Cardinality(HeldTo(j)) - 1
      /\ j # c[2] => Cardinality(HeldTo(j)') = Cardinality(HeldTo(j))
  BY <1>1, CountRemove DEF HeldTo
<1>3. user[j] \in Nat /\ lost[j] \in Nat /\ nRef[j] \in Nat
  BY DEF TypeOK
<1>4. nRef'[j] = IF j = c[2] THEN nRef[j] - 1 ELSE nRef[j]
  BY DEF TypeOK
<1>5. CASE j = c[2]
  BY <1>2, <1>3, <1>4, <1>5
<1>6. CASE j # c[2]
  BY <1>2, <1>3, <1>4, <1>6
<1> QED BY <1>5, <1>6

\* A destroyed node releases what it needs; the last reference takes it down too.
LEMMA ShutDestroyRelease ==
  ASSUME DistinctNames, TypeOK, NamesOwn, ShutGraph, DestroyRelease
  PROVE  ShutGraph'
<1>1. PICK c \in held : c[1] = Top[2] /\ held' = held \ {c} /\ ReleaseNode(c[2], stack)
  BY DEF DestroyRelease, ToRelease
<1>2. Running("destroy") /\ UNCHANGED <<infoRef, cells, hNode, mem, ctxRef, user, userInfo, userCtx, lost>>
  BY DEF DestroyRelease, infoVars, ctxVars, appVars
<1> DEFINE j == c[2]
<1>3. Top[2] \in Infos /\ Top[2] # Owned /\ j \in Infos
  BY <1>2, TopFacts, ConstantsAssumption DEF TypeOK, Cells
<1>4. j \in nodesMap /\ nodesMap \subseteq hNode /\ nodesMap \subseteq Infos
  BY <1>1, <1>3 DEF ShutGraph, MappedHeld, MappedOrDying, TypeOK
<1>5. nRef[j] > 0 /\ nRef' = [nRef EXCEPT ![j] = @ - 1]
  BY <1>1, <1>4 DEF ShutGraph, MappedCounted, ReleaseNode, TypeOK
<1> HIDE DEF j
<1>6. ASSUME NEW i \in nodesMap
      PROVE  nRef'[i] = user'[i] + Cardinality(HeldTo(i)') + lost'[i]
  BY <1>1, <1>2, <1>4, <1>5, CountedDropOne DEF ShutGraph, MappedCounted, j
<1>7. InfosGood'
  <2>1. stack' = stack \/ stack' = Push("destroy", j, stack)
    BY <1>1 DEF ReleaseNode, j
  <2> QED BY <1>2, <1>3, <2>1, PushInfos DEF ShutGraph
<1>8. CASE nRef[j] = 1
  <2>1. nodesMap' = nodesMap \ {j} /\ stack' = Push("destroy", j, stack)
    <3>1. Unmapped(j) = nodesMap \ {j}
      BY <1>4, UnmappedFacts
    <3> QED BY <1>1, <1>8, <3>1 DEF ReleaseNode, j
  <2>2. /\ TakesDown(stack)' /\ MappedOrDying'
        /\ FreeNodes(stack') = FreeNodes(stack) /\ FreeOnce(stack')
    BY <1>2, <1>4, <2>1, MapLeaves
  <2>3. MappedCounted'
    <3>1. \A i \in nodesMap' : i \in nodesMap /\ i \in Infos /\ i # j /\ nRef'[i] = nRef[i]
      BY <1>4, <1>5, <2>1 DEF TypeOK
    <3> QED BY <1>6, <3>1 DEF ShutGraph, MappedCounted
  <2>4. \A d \in held' : d[2] # j
    <3>1. nRef'[j] = 0
      BY <1>3, <1>5, <1>8 DEF TypeOK
    <3>2. user'[j] \in Nat /\ lost'[j] \in Nat
      BY <1>2, <1>3 DEF TypeOK
    <3>3. /\ Cardinality(HeldTo(j)') \in Nat
          /\ Cardinality(HeldTo(j)') = 0 => \A d \in held' : d[2] # j
      <4>1. held' \in SUBSET Cells
        BY <1>1 DEF TypeOK
      <4> QED BY <4>1, CountZero DEF HeldTo
    <3> QED BY <1>4, <1>6, <3>1, <3>2, <3>3
  <2>5. MappedHeld'
    BY <1>1, <1>2, <2>1, <2>4 DEF ShutGraph, MappedHeld
  <2>6. ContextHeld'
    BY <1>2, <2>2 DEF ShutGraph, ContextHeld, Allocated
  <2> QED BY <1>7, <2>2, <2>3, <2>5, <2>6 DEF ShutGraph
<1>9. CASE nRef[j] # 1
  <2>1. nodesMap' = nodesMap /\ stack' = stack
    BY <1>1, <1>5, <1>9 DEF ReleaseNode, j
  <2>2. TakesDown(stack)' /\ MappedOrDying'
    BY <1>2, <2>1 DEF ShutGraph, TakesDown, MappedOrDying, DFrames, Dying, FramesOf, NoCount
  <2>3. MappedCounted'
    <3>1. \A i \in nodesMap : nRef'[i] > 0
      BY <1>4, <1>5, <1>9 DEF ShutGraph, MappedCounted, TypeOK
    <3> QED BY <1>6, <2>1, <3>1 DEF MappedCounted
  <2>4. MappedHeld'
    BY <1>1, <1>2, <2>1 DEF ShutGraph, MappedHeld
  <2>5. ContextHeld'
    BY <1>2, <2>1 DEF ShutGraph, ContextHeld, Allocated, FreeNodes, FreeOnce
  <2> QED BY <1>7, <2>2, <2>3, <2>4, <2>5 DEF ShutGraph
<1> QED BY <1>8, <1>9

\* A destroyed node's info loses the node, which is freed next.
LEMMA ShutDestroyFreeInfo ==
  ASSUME TypeOK, ShutGraph, DestroyFreeInfo
  PROVE  ShutGraph'
<1> DEFINE i == Top[2]
           s == Push("free", i, Tail(stack))
<1>1. /\ Running("destroy") /\ ToRelease(i) = {}
      /\ hNode' = hNode \ {i} /\ nRef' = [nRef EXCEPT ![i] = 0]
      /\ FreeInfo(i, s)
      /\ UNCHANGED <<cells, mem, held, nodesMap, ctxRef, user, userCtx, lost>>
  BY DEF DestroyFreeInfo, ctxVars, appVars
<1>2. /\ i \in Infos /\ stack[1][1] = "destroy" /\ stack[1][2] = i
      /\ stack \in Seq(Frames) /\ stack # <<>> /\ 1 \in 1..Len(stack)
      /\ Tail(stack) \in Seq(Frames) /\ "free" \in Ops
  BY <1>1, TopFacts DEF Ops, TypeOK
<1>3. /\ TakesDown(stack) /\ DFrames(stack, hNode \ nodesMap, NoCount)
      /\ hNode = nodesMap \cup Dying(stack) /\ FreeOnce(stack)
      /\ mem = hNode \cup FreeNodes(stack) /\ hNode \cap FreeNodes(stack) = {}
  BY DEF ShutGraph, MappedOrDying, ContextHeld, Allocated
<1>4. i \in hNode /\ i \notin nodesMap
  BY <1>2, <1>3 DEF DFrames
<1>5. InfosGood'
  BY <1>4, DestroyFreeInfoInfos DEF ShutGraph
<1>6. /\ TakesDown(Tail(stack)) /\ DFrames(Tail(stack), hNode \ nodesMap, NoCount)
      /\ \A k \in 1..Len(Tail(stack)) : Tail(stack)[k][1] = "destroy" => Tail(stack)[k][2] # i
      /\ Dying(stack) = Dying(Tail(stack)) \cup {i}
      /\ FreeNodes(Tail(stack)) = FreeNodes(stack) /\ FreeOnce(Tail(stack))
  <2>1. /\ FreeNodes(Tail(stack)) = FreeNodes(stack) \ (IF stack[1][1] = "free" THEN {stack[1][2]} ELSE {})
        /\ FreeOnce(Tail(stack))
    BY <1>2, <1>3, FreePop
  <2> QED BY <1>2, <1>3, <2>1, DyingPop, DFramesPop
<1>7. DFrames(Tail(stack), hNode' \ nodesMap, NoCount)
  BY <1>1, <1>6 DEF DFrames
<1>8. i \notin Dying(Tail(stack))
  BY <1>6 DEF Dying, FramesOf
<1>9. /\ TakesDown(s) /\ DFrames(s, hNode' \ nodesMap, NoCount) /\ Dying(s) = Dying(Tail(stack))
      /\ FreeNodes(s) = FreeNodes(stack) \cup {i} /\ FreeOnce(s) /\ s \in Seq(Frames)
  <2>1. s \in Seq(Frames) /\ DFrames(s, hNode' \ nodesMap, NoCount)
    BY <1>2, <1>7, PushFacts, DFramesPush
  <2>2. TakesDown(s) /\ Dying(s) = Dying(Tail(stack))
    <3>1. TakesDown(Tail(stack))
      BY <1>6
    <3> QED BY <1>2, <3>1, DyingPushFree
  <2>3. FreeNodes(s) = FreeNodes(Tail(stack)) \cup (IF "free" = "free" THEN {i} ELSE {}) /\ FreeOnce(s)
    <3>1. i \notin FreeNodes(Tail(stack)) /\ FreeOnce(Tail(stack))
      BY <1>3, <1>4, <1>6
    <3> QED BY <1>2, <3>1, FreePush
  <2> QED BY <1>6, <2>1, <2>2, <2>3
<1> HIDE DEF i, s
<1>10. /\ TakesDown(stack') /\ DFrames(stack', hNode' \ nodesMap, NoCount)
       /\ Dying(stack') = Dying(Tail(stack))
       /\ FreeNodes(stack') = FreeNodes(stack) \cup {i} /\ FreeOnce(stack')
  BY <1>1, <1>2, <1>9, DyingFreeInfo
<1>11. hNode' = nodesMap \cup Dying(stack')
  BY <1>1, <1>3, <1>4, <1>6, <1>8, <1>10
<1>12. TakesDown(stack)' /\ MappedOrDying'
  BY <1>1, <1>10, <1>11 DEF TakesDown, MappedOrDying, DFrames, Dying, FramesOf, NoCount
<1>13. MappedCounted'
  <2>1. \A j \in nodesMap : j \in Infos /\ nRef'[j] = nRef[j] /\ HeldTo(j)' = HeldTo(j)
    BY <1>1, <1>4 DEF TypeOK, HeldTo
  <2> QED BY <1>1, <2>1 DEF ShutGraph, MappedCounted
<1>14. MappedHeld'
  <2>1. \A c \in held : c[1] # i
    BY <1>1 DEF ToRelease
  <2> QED BY <1>1, <2>1 DEF ShutGraph, MappedHeld
<1>15. ContextHeld'
  BY <1>1, <1>3, <1>4, <1>10 DEF ShutGraph, ContextHeld, Allocated
<1> QED BY <1>5, <1>12, <1>13, <1>14, <1>15 DEF ShutGraph

\* Between two destructions, the nodes of the map are the ones that exist.
LEMMA ShutIdle ==
  ASSUME ShutGraph, Idle
  PROVE  /\ stack = <<>> /\ FramesOf(stack) = {} /\ hNode = nodesMap
         /\ FreeNodes(stack) = {} /\ mem = nodesMap
<1>1. stack = <<>> /\ FramesOf(stack) = {} /\ FreeNodes(stack) = {}
  BY IdleLists DEF FreeNodes
<1> QED BY <1>1 DEF ShutGraph, MappedOrDying, Dying, ContextHeld, Allocated

\* xnContextDestroy destroys a node of the map that no node of the map needs.
LEMMA ShutShutdownNode ==
  ASSUME DistinctNames, TypeOK, NamesOwn, ShutGraph, ShutdownNode
  PROVE  ShutGraph'
<1>1. PICK i \in nodesMap : ~IsNeeded(i) /\ nodesMap' = Unmapped(i) /\ stack' = Push("destroy", i, <<>>)
  BY DEF ShutdownNode
<1>2. /\ UNCHANGED <<infoRef, cells, hNode, nRef, mem, held, ctxRef, user, userInfo, userCtx, lost>>
      /\ Idle
  BY DEF ShutdownNode, infoVars, ctxVars, appVars
<1>3. stack = <<>> /\ hNode = nodesMap /\ i \in Infos
  BY <1>2, ShutIdle DEF TypeOK
<1>4. nodesMap' = nodesMap \ {i}
  BY <1>1, <1>3, UnmappedFacts
<1>5. /\ TakesDown(stack)' /\ MappedOrDying'
      /\ FreeNodes(stack') = FreeNodes(stack) /\ FreeOnce(stack')
  BY <1>1, <1>2, <1>3, <1>4, MapLeaves
<1>6. MappedCounted'
  BY <1>2, <1>4 DEF ShutGraph, MappedCounted, HeldTo
<1>7. MappedHeld'
  <2>1. ASSUME NEW c \in held, c[1] # Owned PROVE c[2] # i
    <3>1. c \in cells /\ c[1] \in nodesMap
      BY <1>3, <2>1 DEF ShutGraph, MappedHeld
    <3>2. c[2] \in Needs(c[1])
      BY <3>1 DEF Needs
    <3> QED BY <1>1, <3>1, <3>2 DEF IsNeeded
  <2> QED BY <1>2, <1>4, <2>1 DEF ShutGraph, MappedHeld
<1>8. ContextHeld'
  BY <1>2, <1>5 DEF ShutGraph, ContextHeld, Allocated
<1>9. InfosGood'
  BY <1>1, <1>2, <1>3, PushInfos DEF ShutGraph
<1> QED BY <1>5, <1>6, <1>7, <1>8, <1>9 DEF ShutGraph

\* With no node left, the entries of the owned list go.
LEMMA ShutShutdownOwned ==
  ASSUME TypeOK, ShutGraph, ShutdownOwned
  PROVE  ShutGraph'
<1>1. PICK c \in cells : cells' = cells \ {c} /\ held' = held \ {c} /\ FreeInfo(c[2], <<>>)
  BY DEF ShutdownOwned
<1>2. /\ UNCHANGED <<hNode, nRef, mem, nodesMap, ctxRef, user, userCtx, lost>>
      /\ Idle /\ nodesMap = {}
  BY DEF ShutdownOwned, ctxVars, appVars
<1>3. /\ stack = <<>> /\ hNode = {} /\ mem = {} /\ FramesOf(<<>>) = {} /\ FreeNodes(<<>>) = {}
      /\ c[2] \in Infos
  BY <1>2, ShutIdle DEF TypeOK, Cells
<1>4. /\ TakesDown(<<>>) /\ DFrames(<<>>, hNode \ nodesMap, NoCount) /\ FreeOnce(<<>>)
      /\ Dying(<<>>) = {}
  BY <1>3 DEF ShutGraph, MappedOrDying, ContextHeld, Allocated, Dying
<1>5. /\ TakesDown(stack') /\ DFrames(stack', hNode \ nodesMap, NoCount) /\ Dying(stack') = {}
      /\ FreeNodes(stack') = {} /\ FreeOnce(stack')
  BY <1>1, <1>3, <1>4, EmptyStack, DyingFreeInfo
<1>6. TakesDown(stack)' /\ MappedOrDying'
  BY <1>2, <1>3, <1>5 DEF TakesDown, MappedOrDying, DFrames, Dying, FramesOf, NoCount
<1>7. MappedCounted' /\ MappedHeld'
  BY <1>1, <1>2 DEF ShutGraph, MappedCounted, MappedHeld
<1>8. ContextHeld'
  BY <1>2, <1>3, <1>5 DEF ShutGraph, ContextHeld, Allocated
<1>9. InfosGood'
  BY ShutdownOwnedInfos DEF ShutGraph
<1> QED BY <1>6, <1>7, <1>8, <1>9 DEF ShutGraph

\* Nothing the shutdown's invariant depends on changes.
LEMMA ShutSame ==
  ASSUME TypeOK, ShutGraph, UNCHANGED vars
  PROVE  ShutGraph'
<1>1. UNCHANGED <<infoRef, cells, hNode, nRef, mem, held, nodesMap, ctxRef, stack, user, userInfo,
                  userCtx, lost>>
  BY DEF vars, infoVars, nodeVars, ctxVars, appVars
<1>2. TakesDown(stack)' /\ MappedOrDying'
  BY <1>1 DEF ShutGraph, TakesDown, MappedOrDying, DFrames, Dying, FramesOf, NoCount
<1>3. MappedCounted' /\ MappedHeld'
  BY <1>1 DEF ShutGraph, MappedCounted, MappedHeld, HeldTo
<1>4. ContextHeld'
  BY <1>1 DEF ShutGraph, ContextHeld, Allocated, FreeNodes, FreeOnce
<1>5. InfosGood'
  BY <1>1, PushInfos DEF ShutGraph
<1> QED BY <1>2, <1>3, <1>4, <1>5 DEF ShutGraph

\* From xnShutdown to its return: no other call runs, and a creation would need
\* a frame that no shutdown has.
LEMMA ShutStep ==
  ASSUME DistinctNames, TypeOK, GraphInv, NamesOwn, MappedAll, ContextCounted, ShutInv, [Next]_vars
  PROVE  ShutInv'
<1> SUFFICES ASSUME Shutting' PROVE ShutGraph'
  BY DEF ShutInv
<1>1. CASE Shutdown
  <2>1. GoodGraph /\ GoodLists
    BY <1>1 DEF GraphInv, InUse, Shutdown, CanCall
  <2> QED BY <1>1, <2>1, ShutdownShuts
<1>2. CASE ~Shutdown
  <2>1. Shutting
    BY <1>2 DEF Shutting, Next, Call, Internal, vars, ctxVars, NodeInfoAllocate,
       EnumerateExistingNodes, ContextAddRef, ContextRelease, NodeInfoFree, NodeInfoSetInstanceName,
       CreateProductionTree, ProductionNodeAddRef, ProductionNodeRelease, GetRefNodeHandleByName,
       NodeInfoGetRefHandle, PlayRecording, MarkOwnedNode, GetRefContextFromNodeHandle,
       AddNeededNode, RemoveNeededNode, InfoFreeCell, InfoFreeReturn, CreateNeeded, CreateRootNode,
       CreateRootNodeFails, UndoRelease, UndoReturn, DestroyRelease, DestroyFreeInfo,
       FreeProductionNode, ShutdownNode, ShutdownOwned, ShutdownReturn, ReleaseContext
  <2>2. ShutGraph
    BY <2>1 DEF ShutInv
  <2>3. CASE Call
    BY <1>2, <2>1, <2>3 DEF Shutting, Call, NodeInfoAllocate, EnumerateExistingNodes, ContextAddRef,
       ContextRelease, NodeInfoFree, NodeInfoSetInstanceName, CreateProductionTree,
       ProductionNodeAddRef, ProductionNodeRelease, GetRefNodeHandleByName, NodeInfoGetRefHandle,
       PlayRecording, MarkOwnedNode, GetRefContextFromNodeHandle, AddNeededNode, RemoveNeededNode,
       CanCall, CanUseNode
  <2>4. CASE CreateNeeded \/ CreateRootNode \/ CreateRootNodeFails \/ UndoRelease \/ UndoReturn
    <3>1. Running("create") \/ Running("undo")
      BY <2>4 DEF CreateNeeded, CreateRootNode, CreateRootNodeFails, UndoRelease, UndoReturn
    <3>2. stack[1] \in FramesOf(stack) /\ stack[1][1] \in {"create", "undo"}
      BY <3>1, TopCall DEF FramesOf, Depth, Running, Top
    <3> QED BY <2>2, <3>2 DEF ShutGraph, TakesDown
  <2>5. CASE ShutdownReturn
    BY <2>5 DEF Shutting, ShutdownReturn
  <2>6. CASE InfoFreeCell \/ InfoFreeReturn \/ FreeProductionNode
    BY <2>2, <2>6, ShutInfoFreeCell, ShutInfoFreeReturn, ShutFreeProductionNode
  <2>7. CASE DestroyRelease \/ DestroyFreeInfo \/ ShutdownNode \/ ShutdownOwned
    BY <2>2, <2>7, ShutDestroyRelease, ShutDestroyFreeInfo, ShutShutdownNode, ShutShutdownOwned
  <2>8. CASE UNCHANGED vars
    BY <2>2, <2>8, ShutSame
  <2> QED BY <2>3, <2>4, <2>5, <2>6, <2>7, <2>8 DEF Next, Internal
<1> QED BY <1>1, <1>2

\* The last reference on a context in use goes when no node is left: by
\* xnContextRelease between two calls, or by the last node, in which case
\* nobody builds anything and only lists of infos can still be going down.
LEMMA LastReference ==
  ASSUME TypeOK, GoodGraph, GoodLists, BuilderHoldsContext, ContextCounted, InUse,
         ContextRelease \/ FreeProductionNode, ctx' = "gone"
  PROVE  GoneGraph'
<1>1. InfosGood
  BY DEF InfosGood, GoodGraph, GoodLists
<1>2. /\ IsFiniteSet(mem) /\ Cardinality(mem) \in Nat /\ userCtx \in Nat
      /\ Allocated /\ ctxRef = userCtx + Cardinality(mem)
  BY ConstantsAssumption, FS_Subset, FS_CardinalityType DEF TypeOK, ContextCounted
<1>3. ctxRef = 1
  BY DEF ContextRelease, FreeProductionNode, ReleaseContext, InUse
<1>4. CASE ContextRelease
  <2>1. /\ Idle /\ userCtx > 0
        /\ UNCHANGED <<infoRef, cells, hNode, mem, stack, userInfo>>
    BY <1>4 DEF ContextRelease, CanCall, infoVars, nodeVars
  <2>2. mem = {} /\ hNode = {}
    <3>1. Cardinality(mem) = 0
      BY <1>2, <1>3, <2>1
    <3> QED BY <1>2, <3>1, FS_EmptySet DEF Allocated
  <2>3. FramesOf(stack) = {}
    BY <2>1, IdleLists
  <2>4. InfosGood'
    BY <1>1, <2>1, PushInfos
  <2> QED BY <2>1, <2>2, <2>3, <2>4 DEF GoneGraph, FramesOf
<1>5. CASE FreeProductionNode
  <2>1. /\ InfosGood' /\ stack \in Seq(Frames) /\ stack # <<>> /\ stack' = Tail(stack)
    BY <1>1, <1>5, ReturnInfos
  <2>2. /\ hNode' = hNode /\ stack[1] = Top /\ Top[1] = "free" /\ mem' = mem \ {Top[2]}
    BY <1>5 DEF FreeProductionNode, Running, Top
  <2>3. Top[2] \in FreeNodes(stack)
    <3>1. 1 \in 1..Len(stack)
      BY <2>1
    <3>2. stack[1] = <<"free", Top[2]>> /\ Top[2] \in Infos
      BY <2>1, <2>2, <3>1, FrameFacts
    <3> QED BY <3>1, <3>2 DEF FreeNodes
  <2>4. userCtx = 0 /\ mem' = {} /\ hNode = {}
    <3>1. Top[2] \in mem /\ Top[2] \notin hNode
      BY <1>2, <2>3 DEF Allocated
    <3>2. IsFiniteSet(mem') /\ Cardinality(mem') = Cardinality(mem) - 1 /\ Cardinality(mem') \in Nat
      <4>1. IsFiniteSet(mem')
        BY <1>2, <2>2, FS_RemoveElement
      <4> QED BY <1>2, <2>2, <3>1, <4>1, FS_RemoveElement, FS_CardinalityType
    <3>3. userCtx = 0 /\ Cardinality(mem') = 0
      BY <1>2, <1>3, <3>2
    <3>4. mem' = {}
      BY <3>2, <3>3, FS_EmptySet
    <3> QED BY <1>2, <2>2, <3>1, <3>3, <3>4 DEF Allocated
  <2>5. \A f \in FramesOf(stack') : f \in FramesOf(stack) /\ f \in Frames /\ f[1] \in Ops
    <3>1. FramesOf(stack) = FramesOf(stack') \cup {stack[1]}
      BY <2>1, FramesOfPop
    <3>2. \A f \in FramesOf(stack) : f \in Frames /\ f[1] \in Ops
      BY <2>1, FrameFacts DEF FramesOf
    <3> QED BY <3>1, <3>2
  <2>6. \A f \in FramesOf(stack) : f[1] \notin {"create", "undo"}
    BY <2>4 DEF BuilderHoldsContext, Building
  <2>7. \A f \in FramesOf(stack) : f[1] # "destroy"
    BY <2>4 DEF GoodGraph, DestroyFrames, Depth, FramesOf
  <2>8. \A f \in FramesOf(stack') : f[1] # "free"
    <3>1. FreeNodes(stack') = FreeNodes(stack) \ {Top[2]}
      BY <1>2, <2>1, <2>2, FreePop DEF Allocated
    <3>2. FreeNodes(stack') = {}
      BY <1>2, <2>2, <2>4, <3>1 DEF Allocated
    <3>3. ASSUME NEW k \in 1..Len(stack'), stack'[k][1] = "free" PROVE FALSE
      <4>1. stack' \in Seq(Frames)
        BY <2>1, PopFacts
      <4>2. stack'[k] = <<"free", stack'[k][2]>> /\ stack'[k][2] \in Infos
        BY <3>3, <4>1, FrameFacts
      <4> QED BY <3>2, <4>2 DEF FreeNodes
    <3> QED BY <3>3 DEF FramesOf
  <2>9. \A f \in FramesOf(stack') : f[1] = "infofree"
    BY <2>5, <2>6, <2>7, <2>8 DEF Ops
  <2> QED BY <2>1, <2>2, <2>4, <2>9 DEF GoneGraph, FramesOf
<1> QED BY <1>4, <1>5

\* Once the context is gone, the application can only free infos.
LEMMA GoneStays ==
  ASSUME TypeOK, GoneGraph, ctx = "gone", [Next]_vars
  PROVE  GoneGraph'
<1>1. ASSUME NEW i \in Infos, NEW s \in Seq(Frames), FreeInfo(i, s),
             \A f \in FramesOf(s) : f[1] = "infofree"
      PROVE  \A f \in FramesOf(stack') : f[1] = "infofree"
  <2>1. stack' = s \/ stack' = Push("infofree", i, s)
    BY <1>1 DEF FreeInfo
  <2>2. FramesOf(Push("infofree", i, s)) = FramesOf(s) \cup {<<"infofree", i>>}
    BY FramesOfPush DEF Ops
  <2> QED BY <1>1, <2>1, <2>2
<1>2. ASSUME hNode' = hNode, mem' = mem, InfosGood', \A f \in FramesOf(stack') : f[1] = "infofree"
      PROVE  GoneGraph'
  BY <1>2 DEF GoneGraph, FramesOf
<1>3. CASE Call
  <2>1. PICK i \in Infos : NodeInfoFree(i)
    BY <1>3 DEF Call, NodeInfoAllocate, EnumerateExistingNodes, ContextAddRef, ContextRelease,
       Shutdown, NodeInfoSetInstanceName, CreateProductionTree, ProductionNodeAddRef,
       ProductionNodeRelease, GetRefNodeHandleByName, NodeInfoGetRefHandle, PlayRecording,
       MarkOwnedNode, GetRefContextFromNodeHandle, AddNeededNode, RemoveNeededNode,
       CanCall, CanUseNode
  <2>2. FreeInfo(i, <<>>) /\ UNCHANGED <<hNode, mem>> /\ FramesOf(<<>>) = {}
    BY <2>1, IdleLists DEF NodeInfoFree, nodeVars, Idle
  <2>3. \A f \in FramesOf(stack') : f[1] = "infofree"
    BY <1>1, <2>2, EmptyStack
  <2> QED BY <1>2, <2>1, <2>2, <2>3, NodeInfoFreeInfos DEF GoneGraph
<1>4. CASE InfoFreeCell
  <2>1. InfosGood' /\ \E c \in cells : c[2] \in Infos /\ FreeInfo(c[2], stack)
    BY <1>4, InfoFreeCellInfos DEF GoneGraph
  <2>2. UNCHANGED <<hNode, mem>> /\ stack \in Seq(Frames)
    BY <1>4 DEF InfoFreeCell, nodeVars, TypeOK
  <2> QED BY <1>1, <1>2, <2>1, <2>2 DEF GoneGraph
<1>5. CASE InfoFreeReturn
  <2>1. InfosGood' /\ stack \in Seq(Frames) /\ stack # <<>> /\ stack' = Tail(stack)
    BY <1>5, ReturnInfos DEF GoneGraph
  <2>2. UNCHANGED <<hNode, mem>>
    BY <1>5 DEF InfoFreeReturn, nodeVars
  <2>3. FramesOf(stack) = FramesOf(stack') \cup {stack[1]}
    BY <2>1, FramesOfPop
  <2> QED BY <1>2, <2>1, <2>2, <2>3 DEF GoneGraph
<1>6. CASE \/ CreateNeeded \/ CreateRootNode \/ CreateRootNodeFails \/ UndoRelease \/ UndoReturn
           \/ DestroyRelease \/ DestroyFreeInfo \/ FreeProductionNode
  <2>1. PICK op \in {"create", "undo", "destroy", "free"} : Running(op)
    BY <1>6 DEF CreateNeeded, CreateRootNode, CreateRootNodeFails, UndoRelease, UndoReturn,
                DestroyRelease, DestroyFreeInfo, FreeProductionNode
  <2>2. stack[1] \in FramesOf(stack) /\ stack[1][1] = op
    BY <2>1, TopCall DEF FramesOf, Depth, Running, Top
  <2> QED BY <2>1, <2>2 DEF GoneGraph
<1>7. CASE ShutdownNode \/ ShutdownOwned \/ ShutdownReturn
  BY <1>7 DEF ShutdownNode, ShutdownOwned, ShutdownReturn
<1>8. CASE UNCHANGED vars
  <2>1. UNCHANGED <<infoRef, cells, hNode, mem, stack, userInfo>>
    BY <1>8 DEF vars, infoVars, nodeVars, appVars
  <2>2. InfosGood'
    BY <2>1, PushInfos DEF GoneGraph
  <2> QED BY <1>2, <2>1, <2>2 DEF GoneGraph
<1> QED BY <1>3, <1>4, <1>5, <1>6, <1>7, <1>8 DEF Next, Internal

\* However the context ends, its nodes end before.
LEMMA GoneStep ==
  ASSUME TypeOK, GraphInv, BuilderHoldsContext, ContextCounted, ShutInv, GoneInv, [Next]_vars
  PROVE  GoneInv'
<1> SUFFICES ASSUME ctx' = "gone" PROVE GoneGraph'
  BY DEF GoneInv
<1>1. CASE ctx = "gone"
  BY <1>1, GoneStays DEF GoneInv
<1>2. CASE ctx # "gone"
  <2>1. ContextRelease \/ FreeProductionNode \/ ShutdownReturn
    BY <1>2 DEF Next, Call, Internal, vars, ctxVars, NodeInfoAllocate,
       EnumerateExistingNodes, ContextAddRef, Shutdown, NodeInfoFree, NodeInfoSetInstanceName,
       CreateProductionTree, ProductionNodeAddRef, ProductionNodeRelease, GetRefNodeHandleByName,
       NodeInfoGetRefHandle, PlayRecording, MarkOwnedNode, GetRefContextFromNodeHandle,
       AddNeededNode, RemoveNeededNode, InfoFreeCell, InfoFreeReturn, CreateNeeded, CreateRootNode,
       CreateRootNodeFails, UndoRelease, UndoReturn, DestroyRelease, DestroyFreeInfo, ShutdownNode,
       ShutdownOwned
  <2>2. CASE ShutdownReturn
    <3>1. ShutGraph /\ Idle /\ nodesMap = {}
          /\ UNCHANGED <<infoRef, cells, hNode, mem, stack, userInfo>>
      BY <2>2 DEF ShutdownReturn, ShutInv, Shutting, infoVars, nodeVars, appVars
    <3>2. hNode = {} /\ mem = {} /\ FramesOf(stack) = {}
      BY <3>1, ShutIdle
    <3>3. InfosGood'
      BY <3>1, PushInfos DEF ShutGraph
    <3> QED BY <3>1, <3>2, <3>3 DEF GoneGraph, FramesOf
  <2>3. CASE ctx = "shutting"
    <3>1. ~ContextRelease
      BY <2>3 DEF ContextRelease, CanCall
    <3>2. ~FreeProductionNode
      BY <2>3, ShutFreeProductionNode DEF ShutInv, Shutting
    <3> QED BY <2>1, <2>2, <3>1, <3>2
  <2>4. CASE ctx = "up" /\ (ContextRelease \/ FreeProductionNode)
    <3>1. InUse /\ GoodGraph /\ GoodLists
      BY <2>4 DEF InUse, GraphInv
    <3> QED BY <2>4, <3>1, LastReference
  <2> QED BY <1>2, <2>1, <2>2, <2>3, <2>4 DEF TypeOK
<1> QED BY <1>1, <1>2

-----------------------------------------------------------------------------
(* The whole life of a context                                             *)

LifeInv == NamesOwn /\ MappedAll /\ BuilderHoldsContext /\ ShutInv /\ GoneInv

\* From its creation to the last info freed after its end.
LEMMA LifeCorrect ==
  ASSUME DistinctNames
  PROVE  Spec => []LifeInv
<1>1. Init => LifeInv
  <2> SUFFICES ASSUME Init PROVE LifeInv
    OBVIOUS
  <2>1. hNode = {} /\ name = [i \in Infos |-> NoName] /\ ctx = "up" /\ userCtx = 1
    BY DEF Init
  <2> QED BY <2>1 DEF LifeInv, NamesOwn, MappedAll, BuilderHoldsContext, ShutInv, Shutting, GoneInv
<1>2. TypeOK /\ GraphInv /\ ContextCounted /\ LifeInv /\ [Next]_vars => LifeInv'
  BY NamesStep, MappedStep, BuilderStep, ShutStep, GoneStep DEF LifeInv
<1> QED BY <1>1, <1>2, TypeCorrect, GraphCorrect, ContextCorrect, PTL DEF Spec

\* When the infos have names of their own, what the context knows agrees with
\* what exists: between two calls the map holds every node, a context that is
\* gone has taken all its nodes with it, and the player slot holds no freed node.
THEOREM ContextStaysConsistent ==
  ASSUME DistinctNames
  PROVE  Spec => []ContextConsistent
<1>1. TypeOK /\ GraphInv /\ MappedAll => ExistingNodesMapped
  <2> SUFFICES ASSUME TypeOK, GoodGraph, MappedAll, Idle, InUse PROVE nodesMap = hNode
    BY DEF ExistingNodesMapped, GraphInv
  <2>1. \A i \in hNode : nRef[i] > 0
    BY IdleFacts DEF TypeOK
  <2> QED BY <2>1 DEF MappedAll, GoodGraph, MapCounted
<1>2. GoneInv => ContextGoneNodesGone
  BY DEF GoneInv, GoneGraph, ContextGoneNodesGone
<1>3. TypeOK /\ GraphInv /\ LifeInv /\ PlayerSlotValid => ContextConsistent
  BY <1>1, <1>2 DEF LifeInv, ContextConsistent
<1> QED BY <1>3, TypeCorrect, GraphCorrect, LifeCorrect, SlotStaysValid, PTL

\* With names of their own, every count also stays exact while xnShutdown takes
\* down nodes that are still referenced, and for the infos that outlive it.
THEOREM RefsAlwaysExact ==
  ASSUME DistinctNames
  PROVE  Spec => []RefsExact
<1>1. TypeOK /\ GraphInv /\ ContextCounted /\ LifeInv => InfoRefExact /\ CtxRefExact
  <2> SUFFICES ASSUME TypeOK, GraphInv, ContextCounted, LifeInv
               PROVE  InfoRefExact /\ CtxRefExact
    OBVIOUS
  <2>1. CASE ctx = "up"
    BY <2>1 DEF InUse, GraphInv, GoodGraph, ContextCounted, CtxRefExact
  <2>2. CASE ctx = "shutting"
    BY <2>2 DEF LifeInv, ShutInv, Shutting, ShutGraph, InfosGood, ContextHeld, CtxRefExact
  <2>3. CASE ctx = "gone"
    BY <2>3 DEF LifeInv, GoneInv, GoneGraph, InfosGood, CtxRefExact
  <2> QED BY <2>1, <2>2, <2>3 DEF TypeOK
<1>2. TypeOK /\ GraphInv /\ ContextCounted /\ LifeInv /\ NodeRefExact => RefsExact
  BY <1>1 DEF RefsExact
<1> QED BY <1>2, TypeCorrect, GraphCorrect, ContextCorrect, LifeCorrect, NodeRefsExact, PTL

\* With names of their own, no list holds a freed info between two calls, not
\* even during a shutdown and after it.
THEOREM NothingDanglesLater ==
  ASSUME DistinctNames
  PROVE  Spec => []NothingDangles
<1>1. TypeOK /\ GraphInv /\ LifeInv => InfosAlive
  <2> SUFFICES ASSUME TypeOK, GraphInv, LifeInv, Idle, NEW c \in cells
               PROVE  infoRef[c[2]] > 0 /\ (c[1] = Owned \/ infoRef[c[1]] > 0)
    BY DEF InfosAlive
  <2>1. InfosGood
    <3>1. CASE ctx = "up"
      BY <3>1 DEF InUse, GraphInv, GoodGraph, GoodLists, InfosGood
    <3>2. CASE ctx = "shutting"
      BY <3>2 DEF LifeInv, ShutInv, Shutting, ShutGraph
    <3>3. CASE ctx = "gone"
      BY <3>3 DEF LifeInv, GoneInv, GoneGraph
    <3> QED BY <3>1, <3>2, <3>3 DEF TypeOK
  <2>2. c[2] \in Infos /\ c[1] \in Infos \cup {Owned}
    BY DEF TypeOK, Cells, Owners
  <2>3. infoRef[c[2]] > 0
    BY <2>1, <2>2, InfoCounted DEF InfosGood
  <2>4. Calls = {}
    BY IdleLists
  <2> QED BY <2>1, <2>2, <2>3, <2>4 DEF InfosGood, FreedInfos
<1>2. TypeOK /\ GraphInv /\ LifeInv /\ HandlesValid /\ NeededAlive => NothingDangles
  BY <1>1 DEF NothingDangles
<1> QED BY <1>2, TypeCorrect, GraphCorrect, LifeCorrect, HandlesStayValid, NeededStayAlive, PTL

\* With names of their own, a forced shutdown too destroys the nodes from top
\* to bottom: whatever it takes down, no other node counts a reference on it.
THEOREM OrderAlwaysKept ==
  ASSUME DistinctNames
  PROVE  Spec => []GraphOrdered
<1>1. TypeOK /\ LifeInv /\ (InUse => DestroyedTopDown) => DestroyedTopDown
  <2> SUFFICES ASSUME TypeOK, LifeInv, ~InUse, NEW i \in Being("destroy"), NEW c \in HeldTo(i)
               PROVE  c[1] = Owned
    BY DEF DestroyedTopDown
  <2>1. PICK k \in 1..Len(stack) : stack[k][1] = "destroy" /\ stack[k][2] = i
    BY DEF Being
  <2>2. c \in held /\ c[2] = i
    BY DEF HeldTo
  <2>3. CASE ctx = "shutting"
    <3>1. i \notin nodesMap
      BY <2>1, <2>3 DEF LifeInv, ShutInv, Shutting, ShutGraph, MappedOrDying, DFrames
    <3> QED BY <2>2, <2>3, <3>1 DEF LifeInv, ShutInv, Shutting, ShutGraph, MappedHeld
  <2>4. CASE ctx = "gone"
    <3>1. stack[k] \in FramesOf(stack)
      BY DEF FramesOf
    <3> QED BY <2>1, <2>4, <3>1 DEF LifeInv, GoneInv, GoneGraph
  <2> QED BY <2>3, <2>4 DEF TypeOK, InUse
<1>2. TypeOK /\ LifeInv /\ Acyclic /\ (InUse => DestroyedTopDown) => GraphOrdered
  BY <1>1 DEF GraphOrdered
<1> QED BY <1>2, TypeCorrect, LifeCorrect, NoLoops, TopDown, PTL
=============================================================================
