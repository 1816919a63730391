----------------------------- MODULE NodeGraph -----------------------------
(***************************************************************************)
(* The production graph of an OpenNI context (Source/OpenNI/XnOpenNI.cpp): *)
(* node infos and the lists that reference them, production nodes and      *)
(* their reference counts, the needed-node edges between them, the map of  *)
(* node names, the player slot and the context's own reference count.      *)
(*                                                                         *)
(* One application thread calls the C API.  A call that recurses in the    *)
(* code (creating a tree, releasing a node, freeing an info) runs as a     *)
(* series of internal steps over an explicit call stack, so that every     *)
(* intermediate state of a cascade is a state of the model.                *)
(***************************************************************************)
EXTENDS Integers, Sequences, FiniteSets, Functions

CONSTANTS
  Infos,        \* the XnNodeInfo objects an application can obtain
  Slots,        \* list cells that can exist for one (list, info) pair
  Types,        \* node types; they only provide the base of a default name
  TypeOf,       \* the type of each info
  PlayerTypes,  \* the types whose hierarchy contains XN_NODE_TYPE_PLAYER
  UserNames,    \* the names the application may give to each info
  MaxIndex,     \* bound: largest number in a default name
  MaxInfoRefs,  \* bound: references the application holds on one info
  MaxHeld,      \* bound: references the application takes on nodes, infos and the context
  MaxLost,      \* bound: references lost by xnPlayRecording on one node
  NoName,       \* the empty strInstanceName
  Owned,        \* the context's list pOwnedNodes
  NoNode        \* a NULL XnNodeHandle

Names == Types \X (1..MaxIndex)
Owners == Infos \cup {Owned}
Cells == Owners \X Infos \X Slots
Ops == {"create", "undo", "destroy", "free", "infofree"}
Frames == Ops \X Infos

ASSUME ConstantsAssumption ==
  /\ IsFiniteSet(Infos)
  /\ IsFiniteSet(Slots)
  /\ TypeOf \in [Infos -> Types]
  /\ PlayerTypes \subseteq Types
  /\ UserNames \in [Infos -> SUBSET Names]
  /\ {MaxIndex, MaxInfoRefs, MaxHeld, MaxLost} \subseteq Nat
  /\ NoName \notin Names
  /\ Owned \notin Infos
  /\ NoNode \notin Infos

VARIABLES
  infoRef,   \* XnNodeInfo::nRefCount; 0 once the info is freed
  name,      \* XnNodeInfo::strInstanceName
  cells,     \* the cells of all XnNodeInfoLists: <<list's owner, info, slot>>
  hNode,     \* the infos whose hNode is not NULL
  nRef,      \* XnInternalNodeData::nRefCount
  mem,       \* the infos whose XnInternalNodeData is allocated
  held,      \* the cells whose owner holds a node reference for that entry
  nodesMap,  \* the nodes the name map points to
  hPlayer,   \* XnContext::hPlayerNode
  ctx,       \* "up", "shutting" (in xnForceShutdown) or "gone"
  ctxRef,    \* XnContext::nRefCount
  stack,     \* calls in progress, the innermost first
  user,      \* references the application holds on each node
  userInfo,  \* references the application holds on each info
  userCtx,   \* references the application holds on the context
  lost       \* references nobody will ever release

infoVars == <<infoRef, name, cells>>
nodeVars == <<hNode, nRef, mem, held, nodesMap, hPlayer>>
ctxVars == <<ctx, ctxRef>>
appVars == <<user, userInfo, userCtx, lost>>
vars == <<infoVars, nodeVars, ctxVars, stack, appVars>>

-----------------------------------------------------------------------------
(* Reading the state *)

\* The infos in the list pNeededTrees of x.
Needs(x) == {c[2] : c \in {d \in cells : d[1] = x}}

\* A set of infos that contains everything its members need.
NeedsClosed(S) == \A x \in S : Needs(x) \subseteq S

\* x needs y, directly or through others.
IsNodeNeededBy(x, y) ==
  \A S \in SUBSET Infos : NeedsClosed(S) /\ Needs(x) \subseteq S => y \in S

\* The list cells that point to info i, and those that count a reference on its node.
CellsTo(i) == {c \in cells : c[2] = i}
HeldTo(i) == {c \in held : c[2] = i}

\* The part of x's list a loop over it still has to visit: entries without a
\* node reference while x is created, entries with one while x is taken down.
ToCreate(x) == {c \in cells : c[1] = x /\ c \notin held}
ToRelease(x) == {c \in held : c[1] = x}

\* Some node of the map has x in its list of needed trees.
IsNeeded(x) == \E y \in nodesMap : x \in Needs(y)

\* The map after Remove(name of i) and after Set(nm, i): one node per name.
Unmapped(i) == {j \in nodesMap : name[j] # name[i]}
Mapped(i, nm) == {j \in nodesMap : name[j] # nm} \cup {i}

\* The smallest numbered default name that the map does not hold.
IsValidNameForType(nm, t) ==
  LET taken == {name[j] : j \in nodesMap}
  IN  nm[1] = t /\ nm \notin taken /\ \A k \in 1..(nm[2] - 1) : <<t, k>> \in taken

IsPlayer(i) == TypeOf[i] \in PlayerTypes
Top == stack[1]
Running(op) == stack # <<>> /\ Top[1] = op
Push(op, i, s) == <<<<op, i>>>> \o s
Idle == stack = <<>>

-----------------------------------------------------------------------------
(* Helpers shared by the calls *)

\* A new cell for info i in the list of owner o.
NewCell(o, i) == CHOOSE c \in Cells : c \notin cells /\ c[1] = o /\ c[2] = i
HasRoom(o, i) == \E c \in Cells : c \notin cells /\ c[1] = o /\ c[2] = i

\* Mutants: the count drops twice; only the release after the last reference
\* destroys the node.
ReleaseNodeTwice(i, s) ==
  /\ nRef' = [nRef EXCEPT ![i] = @ - 2]
  /\ IF nRef[i] <= 2
       THEN stack' = Push("destroy", i, s) /\ nodesMap' = Unmapped(i)
       ELSE stack' = s /\ UNCHANGED nodesMap

ReleaseNodeLate(i, s) ==
  IF nRef[i] = 0
    THEN stack' = Push("destroy", i, s) /\ nodesMap' = Unmapped(i) /\ UNCHANGED nRef
    ELSE nRef' = [nRef EXCEPT ![i] = @ - 1] /\ stack' = s /\ UNCHANGED nodesMap

\* xnProductionNodeRelease on node i, continuing with call stack s.
ReleaseNode(i, s) ==
  IF nRef[i] = 0
    THEN stack' = s /\ UNCHANGED <<nRef, nodesMap>>
    ELSE /\ nRef' = [nRef EXCEPT ![i] = @ - 1]
         /\ IF nRef[i] = 1
              THEN stack' = Push("destroy", i, s) /\ nodesMap' = Unmapped(i)
              ELSE stack' = s /\ UNCHANGED nodesMap

\* xnNodeInfoFree on info i, continuing with call stack s.
FreeInfo(i, s) ==
  /\ infoRef' = [infoRef EXCEPT ![i] = @ - 1]
  /\ stack' = IF infoRef[i] = 1 THEN Push("infofree", i, s) ELSE s

Init ==
  /\ infoRef = [i \in Infos |-> 0]
  /\ name = [i \in Infos |-> NoName]
  /\ cells = {}
  /\ hNode = {}
  /\ nRef = [i \in Infos |-> 0]
  /\ mem = {}
  /\ held = {}
  /\ nodesMap = {}
  /\ hPlayer = NoNode
  /\ ctx = "up"
  /\ ctxRef = 1
  /\ stack = <<>>
  /\ user = [i \in Infos |-> 0]
  /\ userInfo = [i \in Infos |-> 0]
  /\ userCtx = 1
  /\ lost = [i \in Infos |-> 0]
-----------------------------------------------------------------------------
(* Calls on node infos *)

\* The application is between two calls on a context it may use, or on a node it holds.
CanCall == Idle /\ ctx = "up" /\ userCtx > 0
CanUseNode(i) == Idle /\ ctx = "up" /\ user[i] > 0

\* The bound on what the application holds altogether; a list of existing nodes may
\* exceed it.
MayHold == userCtx + SumFunction(user) + SumFunction(userInfo) < MaxHeld

\* Mutant: the new info's list does not reference the infos it holds.
NodeInfoAllocateUncounted(i, needed) ==
  /\ CanCall /\ infoRef[i] = 0 /\ MaxInfoRefs > 0 /\ MayHold
  /\ \A n \in needed : userInfo[n] > 0 /\ HasRoom(i, n)
  /\ infoRef' = [infoRef EXCEPT ![i] = 1]
  /\ cells' = cells \cup {NewCell(i, n) : n \in needed}
  /\ name' = [name EXCEPT ![i] = NoName]
  /\ userInfo' = [userInfo EXCEPT ![i] = 1]
  /\ UNCHANGED <<nodeVars, ctxVars, stack, user, userCtx, lost>>

\* xnNodeInfoAllocate: enumeration hands out a new info whose needed trees
\* are infos the application obtained before.
NodeInfoAllocate(i, needed) ==
  /\ CanCall /\ infoRef[i] = 0 /\ MaxInfoRefs > 0 /\ MayHold
  /\ \A n \in needed : userInfo[n] > 0 /\ HasRoom(i, n)
  /\ infoRef' = [j \in Infos |-> IF j = i THEN 1
                                 ELSE IF j \in needed THEN infoRef[j] + 1 ELSE infoRef[j]]
  /\ cells' = cells \cup {NewCell(i, n) : n \in needed}
  /\ name' = [name EXCEPT ![i] = NoName]
  /\ userInfo' = [userInfo EXCEPT ![i] = 1]
  /\ UNCHANGED <<nodeVars, ctxVars, stack, user, userCtx, lost>>

\* xnNodeInfoFree, or freeing a list that holds i.  Infos outlive the context.
NodeInfoFree(i) ==
  /\ Idle /\ ctx \in {"up", "gone"} /\ userInfo[i] > 0
  /\ userInfo' = [userInfo EXCEPT ![i] = @ - 1]
  /\ FreeInfo(i, <<>>)
  /\ UNCHANGED <<name, cells, nodeVars, ctxVars, user, userCtx, lost>>

\* xnNodeInfoSetInstanceName is refused once the node exists.
NodeInfoSetInstanceName(i, nm) ==
  /\ Idle /\ ctx = "up" /\ userInfo[i] > 0
  /\ i \notin hNode
  /\ name' = [name EXCEPT ![i] = nm]
  /\ UNCHANGED <<infoRef, cells, nodeVars, ctxVars, stack, appVars>>

\* xnEnumerateExistingNodes: a list of the infos of all nodes in the map.
EnumerateExistingNodes ==
  /\ CanCall /\ nodesMap # {}
  /\ \A i \in nodesMap : userInfo[i] < MaxInfoRefs
  /\ infoRef' = [i \in Infos |-> IF i \in nodesMap THEN infoRef[i] + 1 ELSE infoRef[i]]
  /\ userInfo' = [i \in Infos |-> IF i \in nodesMap THEN userInfo[i] + 1 ELSE userInfo[i]]
  /\ UNCHANGED <<name, cells, nodeVars, ctxVars, stack, user, userCtx, lost>>

\* The tail of xnNodeInfoFree for a count that reached 0: its list is freed,
\* entry by entry.
InfoFreeCell ==
  /\ Running("infofree")
  /\ \E c \in {d \in cells : d[1] = Top[2]} :
        /\ cells' = cells \ {c}
        /\ FreeInfo(c[2], stack)
  /\ UNCHANGED <<name, nodeVars, ctxVars, appVars>>

InfoFreeReturn ==
  /\ Running("infofree")
  /\ Needs(Top[2]) = {}
  /\ stack' = Tail(stack)
  /\ UNCHANGED <<infoVars, nodeVars, ctxVars, appVars>>
-----------------------------------------------------------------------------
(* Creating a production tree *)

\* xnCreateProductionTree on an info whose node exists only references it.
CreateProductionTree(i) ==
  /\ CanCall /\ userInfo[i] > 0 /\ MayHold
  /\ IF i \in hNode
       THEN /\ nRef' = [nRef EXCEPT ![i] = @ + 1]
            /\ user' = [user EXCEPT ![i] = @ + 1]
            /\ UNCHANGED stack
       ELSE stack' = Push("create", i, <<>>) /\ UNCHANGED <<nRef, user>>
  /\ UNCHANGED <<infoVars, hNode, mem, held, nodesMap, hPlayer, ctxVars, userInfo, userCtx, lost>>

\* Mutant: an existing node is used without a reference.
CreateNeededUncounted ==
  /\ Running("create")
  /\ \E c \in ToCreate(Top[2]) :
       IF c[2] \in hNode
         THEN held' = held \cup {c} /\ UNCHANGED stack
         ELSE stack' = Push("create", c[2], stack) /\ UNCHANGED held
  /\ UNCHANGED <<infoVars, hNode, nRef, mem, nodesMap, hPlayer, ctxVars, appVars>>

\* The loop of xnCreateProductionTreeImpl over the needed trees: an existing
\* node is referenced, a missing one is created first.
CreateNeeded ==
  /\ Running("create")
  /\ \E c \in ToCreate(Top[2]) :
       IF c[2] \in hNode
         THEN /\ nRef' = [nRef EXCEPT ![c[2]] = @ + 1]
              /\ held' = held \cup {c}
              /\ UNCHANGED stack
         ELSE stack' = Push("create", c[2], stack) /\ UNCHANGED <<nRef, held>>
  /\ UNCHANGED <<infoVars, hNode, mem, nodesMap, hPlayer, ctxVars, appVars>>

\* A created node is returned with one reference: to the application, or to
\* the loop of the creation that needed it.
ReturnNode(i) ==
  /\ stack' = Tail(stack)
  /\ IF Len(stack) = 1
       THEN user' = [user EXCEPT ![i] = @ + 1] /\ UNCHANGED held
       ELSE /\ \E c \in ToCreate(stack[2][2]) : c[2] = i /\ held' = held \cup {c}
            /\ UNCHANGED user

\* xnCreateProductionNodeImpl names an unnamed info before anything can fail.
GiveName(i, nm) ==
  IF name[i] = NoName THEN nm \in Names /\ IsValidNameForType(nm, TypeOf[i]) ELSE nm = name[i]

\* xnCreateProductionNodeImpl succeeds once every needed node is there.
CreateRootNode ==
  /\ Running("create") /\ ToCreate(Top[2]) = {}
  /\ LET i == Top[2] IN
     /\ \E nm \in Names :
          /\ GiveName(i, nm)
          /\ name' = [name EXCEPT ![i] = nm]
          /\ nodesMap' = Mapped(i, nm)
     /\ nRef' = [nRef EXCEPT ![i] = 1]
     /\ hNode' = hNode \cup {i}
     /\ mem' = mem \cup {i}
     /\ infoRef' = [infoRef EXCEPT ![i] = @ + 1]
     /\ hPlayer' = IF IsPlayer(i) THEN i ELSE hPlayer
     /\ ctxRef' = ctxRef + 1
     /\ ReturnNode(i)
  /\ UNCHANGED <<cells, ctx, userInfo, userCtx, lost>>

\* The module cannot create the node, or a later part of
\* xnCreateProductionNodeImpl fails; the latter frees the half-made node,
\* which for a player also clears the context's player slot.
CreateRootNodeFails ==
  /\ Running("create") /\ ToCreate(Top[2]) = {}
  /\ LET i == Top[2] IN
     /\ \E nm \in Names : GiveName(i, nm) /\ name' = [name EXCEPT ![i] = nm]
     /\ hPlayer' \in {hPlayer, IF IsPlayer(i) THEN NoNode ELSE hPlayer}
     /\ stack' = Push("undo", i, Tail(stack))
  /\ UNCHANGED <<infoRef, cells, hNode, nRef, mem, held, nodesMap, ctxVars, appVars>>

\* xnCreateProductionTreeImpl failed: release what its loop obtained, ...
UndoRelease ==
  /\ Running("undo")
  /\ \E c \in ToRelease(Top[2]) :
       /\ held' = held \ {c}
       /\ ReleaseNode(c[2], stack)
  /\ UNCHANGED <<infoVars, hNode, mem, hPlayer, ctxVars, appVars>>

\* ... and return the error, which fails the creation that needed this one.
UndoReturn ==
  /\ Running("undo") /\ ToRelease(Top[2]) = {}
  /\ stack' = IF Len(stack) = 1 THEN <<>>
              ELSE Push("undo", stack[2][2], Tail(Tail(stack)))
  /\ UNCHANGED <<infoVars, nodeVars, ctxVars, appVars>>
-----------------------------------------------------------------------------
(* References on nodes *)

ProductionNodeAddRef(i) ==
  /\ CanUseNode(i) /\ MayHold
  /\ nRef' = [nRef EXCEPT ![i] = @ + 1]
  /\ user' = [user EXCEPT ![i] = @ + 1]
  /\ UNCHANGED <<infoVars, hNode, mem, held, nodesMap, hPlayer, ctxVars, stack, userInfo, userCtx, lost>>

ProductionNodeRelease(i) ==
  /\ CanUseNode(i)
  /\ user' = [user EXCEPT ![i] = @ - 1]
  /\ ReleaseNode(i, <<>>)
  /\ UNCHANGED <<infoVars, hNode, mem, held, hPlayer, ctxVars, userInfo, userCtx, lost>>

\* xnGetRefNodeHandleByName: the node the map holds for a name.
\* xnFindExistingRefNodeByType hands out a node of the map in the same way.
GetRefNodeHandleByName(i) ==
  /\ CanCall /\ i \in nodesMap /\ MayHold
  /\ nRef' = [nRef EXCEPT ![i] = @ + 1]
  /\ user' = [user EXCEPT ![i] = @ + 1]
  /\ UNCHANGED <<infoVars, hNode, mem, held, nodesMap, hPlayer, ctxVars, stack, userInfo, userCtx, lost>>

\* xnNodeInfoGetRefHandle: the node of an info the application holds.
NodeInfoGetRefHandle(i) ==
  /\ Idle /\ ctx = "up" /\ userInfo[i] > 0 /\ i \in hNode /\ MayHold
  /\ nRef' = [nRef EXCEPT ![i] = @ + 1]
  /\ user' = [user EXCEPT ![i] = @ + 1]
  /\ UNCHANGED <<infoVars, hNode, mem, held, nodesMap, hPlayer, ctxVars, stack, userInfo, userCtx, lost>>

\* xnWaitNoneUpdateAll plays the recording of a context that has a player.
\* xnPlayRecording references a node of the player type to ask it for its
\* position and never releases it.
PlayRecording(i) ==
  /\ CanCall /\ i \in nodesMap /\ IsPlayer(i) /\ lost[i] < MaxLost
  /\ nRef' = [nRef EXCEPT ![i] = @ + 1]
  /\ lost' = [lost EXCEPT ![i] = @ + 1]
  /\ UNCHANGED <<infoVars, hNode, mem, held, nodesMap, hPlayer, ctxVars, stack, user, userInfo, userCtx>>

\* Mutant: only a node that needs itself directly is refused.
AddNeededNodeUnchecked(a, b) ==
  /\ CanUseNode(a) /\ CanUseNode(b)
  /\ a # b /\ HasRoom(a, b)
  /\ nRef' = [nRef EXCEPT ![b] = @ + 1]
  /\ infoRef' = [infoRef EXCEPT ![b] = @ + 1]
  /\ cells' = cells \cup {NewCell(a, b)}
  /\ held' = held \cup {NewCell(a, b)}
  /\ UNCHANGED <<name, hNode, mem, nodesMap, hPlayer, ctxVars, stack, appVars>>

\* xnAddNeededNode refuses a node that already needs hInstance.
AddNeededNode(a, b) ==
  /\ CanUseNode(a) /\ CanUseNode(b)
  /\ a # b /\ ~IsNodeNeededBy(b, a)
  /\ HasRoom(a, b)
  /\ nRef' = [nRef EXCEPT ![b] = @ + 1]
  /\ infoRef' = [infoRef EXCEPT ![b] = @ + 1]
  /\ cells' = cells \cup {NewCell(a, b)}
  /\ held' = held \cup {NewCell(a, b)}
  /\ UNCHANGED <<name, hNode, mem, nodesMap, hPlayer, ctxVars, stack, appVars>>

\* xnRemoveNeededNode: the entry goes, then its reference on the node.
RemoveNeededNode(a, b) ==
  /\ CanUseNode(a) /\ CanUseNode(b)
  /\ \E c \in CellsTo(b) :
       /\ c[1] = a
       /\ cells' = cells \ {c}
       /\ held' = held \ {c}
  /\ infoRef' = [infoRef EXCEPT ![b] = @ - 1]
  /\ ReleaseNode(b, <<>>)
  /\ UNCHANGED <<name, hNode, mem, hPlayer, ctxVars, appVars>>

\* The tail of xnContextRunXmlScriptFromFile and xnContextOpenFileRecording:
\* the reference the caller would get stays with the context's owned nodes.
MarkOwnedNode(i) ==
  /\ CanCall /\ user[i] > 0
  /\ HasRoom(Owned, i)
  /\ user' = [user EXCEPT ![i] = @ - 1]
  /\ infoRef' = [infoRef EXCEPT ![i] = @ + 1]
  /\ cells' = cells \cup {NewCell(Owned, i)}
  /\ held' = held \cup {NewCell(Owned, i)}
  /\ UNCHANGED <<name, hNode, nRef, mem, nodesMap, hPlayer, ctxVars, stack, userInfo, userCtx, lost>>
-----------------------------------------------------------------------------
(* Destroying a node: xnDestroyProductionNodeImpl after the node left the map *)

\* Mutant: a released entry stays in the list the loop walks.
DestroyReleaseStays ==
  /\ Running("destroy")
  /\ \E c \in ToRelease(Top[2]) : ReleaseNode(c[2], stack)
  /\ UNCHANGED <<infoVars, hNode, mem, held, hPlayer, ctxVars, appVars>>

\* Release the needed nodes one by one.
DestroyRelease ==
  /\ Running("destroy")
  /\ \E c \in ToRelease(Top[2]) :
       /\ held' = held \ {c}
       /\ ReleaseNode(c[2], stack)
  /\ UNCHANGED <<infoVars, hNode, mem, hPlayer, ctxVars, appVars>>

\* Clear the info's handle and drop the context's reference on the info.
DestroyFreeInfo ==
  /\ Running("destroy") /\ ToRelease(Top[2]) = {}
  /\ LET i == Top[2] IN
     /\ hNode' = hNode \ {i}
     /\ nRef' = [nRef EXCEPT ![i] = 0]
     /\ FreeInfo(i, Push("free", i, Tail(stack)))
  /\ UNCHANGED <<name, cells, mem, held, nodesMap, hPlayer, ctxVars, appVars>>

\* xnContextRelease by its holder; a count of 0 destroys the context.
ReleaseContext ==
  /\ ctxRef' = ctxRef - 1
  /\ ctx' = IF ctxRef = 1 THEN "gone" ELSE ctx

\* Mutant: the node stays in the player slot.
FreeProductionNodeKeepsSlot ==
  /\ Running("free")
  /\ mem' = mem \ {Top[2]}
  /\ ReleaseContext
  /\ stack' = Tail(stack)
  /\ UNCHANGED <<infoVars, hNode, nRef, held, nodesMap, hPlayer, appVars>>

\* xnFreeProductionNodeImpl: a player clears the player slot, whoever is in it.
FreeProductionNode ==
  /\ Running("free")
  /\ mem' = mem \ {Top[2]}
  /\ hPlayer' = IF IsPlayer(Top[2]) THEN NoNode ELSE hPlayer
  /\ ReleaseContext
  /\ stack' = Tail(stack)
  /\ UNCHANGED <<infoVars, hNode, nRef, held, nodesMap, appVars>>
-----------------------------------------------------------------------------
(* The context *)

ContextAddRef ==
  /\ CanCall /\ MayHold
  /\ ctxRef' = ctxRef + 1
  /\ userCtx' = userCtx + 1
  /\ UNCHANGED <<infoVars, nodeVars, ctx, stack, user, userInfo, lost>>

\* xnGetRefContextFromNodeHandle references the context of a held node.
GetRefContextFromNodeHandle(i) ==
  /\ CanUseNode(i) /\ MayHold
  /\ ctxRef' = ctxRef + 1
  /\ userCtx' = userCtx + 1
  /\ UNCHANGED <<infoVars, nodeVars, ctx, stack, user, userInfo, lost>>

ContextRelease ==
  /\ CanCall
  /\ userCtx' = userCtx - 1
  /\ ReleaseContext
  /\ UNCHANGED <<infoVars, nodeVars, stack, user, userInfo, lost>>

\* xnShutdown, xnForceShutdown: no other call may be made from now on.
Shutdown ==
  /\ CanCall
  /\ ctx' = "shutting"
  /\ UNCHANGED <<infoVars, nodeVars, ctxRef, stack, appVars>>

\* The loop of xnContextDestroy: destroy a node of the map nobody needs.
ShutdownNode ==
  /\ Idle /\ ctx = "shutting"
  /\ \E i \in nodesMap :
       /\ ~IsNeeded(i)
       /\ nodesMap' = Unmapped(i)
       /\ stack' = Push("destroy", i, <<>>)
  /\ UNCHANGED <<infoVars, hNode, nRef, mem, held, hPlayer, ctxVars, appVars>>

\* Then the list of owned nodes is freed ...
ShutdownOwned ==
  /\ Idle /\ ctx = "shutting" /\ nodesMap = {}
  /\ \E c \in {d \in cells : d[1] = Owned} :
       /\ cells' = cells \ {c}
       /\ held' = held \ {c}
       /\ FreeInfo(c[2], <<>>)
  /\ UNCHANGED <<name, hNode, nRef, mem, nodesMap, hPlayer, ctxVars, appVars>>

\* ... and the context itself.
ShutdownReturn ==
  /\ Idle /\ ctx = "shutting" /\ nodesMap = {} /\ Needs(Owned) = {}
  /\ ctx' = "gone"
  /\ UNCHANGED <<infoVars, nodeVars, ctxRef, stack, appVars>>
-----------------------------------------------------------------------------

\* The calls the application makes.
Call ==
  \/ \E i \in Infos, needed \in SUBSET Infos : NodeInfoAllocate(i, needed)
  \/ EnumerateExistingNodes \/ ContextAddRef \/ ContextRelease \/ Shutdown
  \/ \E i \in Infos :
       \/ NodeInfoFree(i)
       \/ \E nm \in UserNames[i] : NodeInfoSetInstanceName(i, nm)
       \/ CreateProductionTree(i)
       \/ ProductionNodeAddRef(i)
       \/ ProductionNodeRelease(i)
       \/ GetRefNodeHandleByName(i)
       \/ NodeInfoGetRefHandle(i)
       \/ PlayRecording(i)
       \/ MarkOwnedNode(i)
       \/ GetRefContextFromNodeHandle(i)
       \/ \E j \in Infos : AddNeededNode(i, j) \/ RemoveNeededNode(i, j)

\* The steps of a call in progress.
Internal ==
  \/ InfoFreeCell \/ InfoFreeReturn
  \/ CreateNeeded \/ CreateRootNode \/ CreateRootNodeFails
  \/ UndoRelease \/ UndoReturn
  \/ DestroyRelease \/ DestroyFreeInfo \/ FreeProductionNode
  \/ ShutdownNode \/ ShutdownOwned \/ ShutdownReturn

Next == Call \/ Internal

Spec == Init /\ [][Next]_vars

\* A thread that is inside a call keeps running; the application may stop calling.
FairSpec == Spec /\ WF_vars(Internal)
-----------------------------------------------------------------------------
(* Properties *)

TypeOK ==
  /\ infoRef \in [Infos -> Int]
  /\ name \in [Infos -> Names \cup {NoName}]
  /\ cells \subseteq Cells
  /\ hNode \subseteq Infos
  /\ nRef \in [Infos -> Nat]
  /\ mem \subseteq Infos
  /\ held \subseteq Cells
  /\ nodesMap \subseteq Infos
  /\ hPlayer \in Infos \cup {NoNode}
  /\ ctx \in {"up", "shutting", "gone"}
  /\ ctxRef \in Int
  /\ stack \in Seq(Frames)
  /\ user \in [Infos -> Nat]
  /\ userInfo \in [Infos -> Nat]
  /\ userCtx \in Nat
  /\ lost \in [Infos -> Nat]

InUse == ctx = "up"
Being(op) == {f[2] : f \in {stack[k] : k \in DOMAIN stack} \cap ({op} \X Infos)}

\* A node's count is exactly the references of the application, of the list
\* entries that need it and of the owned list, plus those xnPlayRecording lost,
\* also in the middle of a creation, its undoing or a cascade of releases.
NodesCounted == \A i \in Infos : nRef[i] = user[i] + Cardinality(HeldTo(i)) + lost[i]
NodeRefExact == InUse => NodesCounted

\* An info's count is exactly the references of the application, of the lists
\* it is in and of its node: xnNodeInfoFree never frees an info still in use.
InfoRefExact ==
  \A i \in Infos :
     infoRef[i] = userInfo[i] + Cardinality(CellsTo(i)) + (IF i \in hNode THEN 1 ELSE 0)

\* The context's count is exactly the application's references plus one for
\* each node still allocated, so the context outlives its nodes.
CtxRefExact == ctx # "gone" => ctxRef = userCtx + Cardinality(mem)

\* Through every call, failure and cascade, each count of a node, an info and
\* the context is exactly the references that exist.
RefsExact == NodeRefExact /\ InfoRefExact /\ CtxRefExact

\* A node the application holds is neither destroyed nor being destroyed.
HandlesValid == InUse => \A i \in Infos : user[i] > 0 => i \in hNode \ Being("destroy")

\* Every node in the needed list of a live node is alive and counted, and a
\* creation in progress only counts nodes that are alive.
NeededAlive ==
  InUse => /\ \A c \in held : c \in cells /\ c[2] \in hNode \ Being("destroy")
           /\ \A c \in cells : c[1] \in hNode \ Being("destroy") => c \in held

\* A call leaves no list entry of a freed info or pointing to one.
InfosAlive ==
  Idle => \A c \in cells : infoRef[c[2]] > 0 /\ (c[1] = Owned \/ infoRef[c[1]] > 0)

\* No handle, needed-list entry or list entry points to what was destroyed.
NothingDangles == HandlesValid /\ NeededAlive /\ InfosAlive

\* No info needs itself: xnAddNeededNode keeps loops out, also through the
\* lists of infos whose node is currently destroyed.
Acyclic == \A x \in Infos : ~IsNodeNeededBy(x, x)

\* Nodes are destroyed from top to bottom: when one goes down, no other node
\* counts a reference on it, not even in a forced shutdown.
DestroyedTopDown ==
  \A i \in Being("destroy") : \A c \in HeldTo(i) : c[1] = Owned

\* The needed nodes form no loop, and a node goes down after all that need it.
GraphOrdered == Acyclic /\ DestroyedTopDown

\* Once nobody holds or needs a node, it is destroyed.
UnreferencedDestroyed ==
  Idle /\ InUse => \A i \in hNode : user[i] > 0 \/ HeldTo(i) # {}

\* When no call is under way, a node that nobody holds or needs exists only because
\* xnPlayRecording lost a reference on it: no release, failed creation or cascade
\* forgets one.
OnlyLostStay ==
  Idle /\ InUse => \A i \in hNode : user[i] > 0 \/ HeldTo(i) # {} \/ lost[i] > 0

\* Every existing node can be found under its name.
ExistingNodesMapped == Idle /\ InUse => nodesMap = hNode

\* Destroying the context destroys all its nodes.
ContextGoneNodesGone == ctx = "gone" => hNode = {} /\ mem = {}

\* The player slot never points to a node that was freed.
PlayerSlotValid == hPlayer # NoNode => hPlayer \in mem

\* What the context knows agrees with what exists: xnGetRefNodeHandleByName,
\* the shutdown and the waits, which use nodesMap and hPlayerNode, miss no node
\* and meet no freed one. (The infos have different default names.)
ContextConsistent == ExistingNodesMapped /\ ContextGoneNodesGone /\ PlayerSlotValid

\* Every call returns: the recursion over the needed trees ends.
CallsReturn == ~Idle ~> Idle

\* The loop of xnContextDestroy always finds a node nobody needs.
ShutdownEnds == ctx = "shutting" ~> ctx = "gone"

\* Every API call and every forced shutdown comes to its end.
CallsEnd == CallsReturn /\ ShutdownEnds
-----------------------------------------------------------------------------
(* The inductive invariant behind the accounting, in named parts *)

Depth == 1..Len(stack)

\* A node that does not exist counts nothing; one that exists and counts
\* nothing is being destroyed.
DeadUncounted == \A i \in Infos : i \notin hNode => nRef[i] = 0
UncountedDying ==
  \A i \in hNode : nRef[i] = 0 => \E k \in Depth : stack[k] = <<"destroy", i>>

\* The call stack: a node is destroyed once, at count 0; nothing is created
\* while something is taken down, and what is being created does not exist.
DestroyFrames ==
  /\ \A k \in Depth : stack[k][1] = "destroy" => stack[k][2] \in hNode /\ nRef[stack[k][2]] = 0
  /\ \A k, l \in Depth : /\ stack[k][1] = "destroy" /\ stack[l][1] = "destroy"
                         /\ stack[k][2] = stack[l][2]
                         => k = l
CreateFrames ==
  /\ \A k \in Depth : stack[k][1] \in {"create", "undo"} => stack[k][2] \notin hNode
  /\ \A k, l \in Depth : k < l /\ stack[k][1] \in {"create", "undo"} => stack[l][1] = "create"
  /\ \A k \in Depth : stack[k][1] \in {"destroy", "free", "infofree"} /\ k + 1 \in Depth
                      => stack[k + 1][1] # "create"
  /\ Running("create") =>
       \A k, l \in Depth : k < l => IsNodeNeededBy(stack[l][2], stack[k][2])

\* Every entry in the list of a counted node is counted, and the map only
\* holds counted nodes.
ListsCounted == \A c \in cells : c[1] \in Infos /\ nRef[c[1]] > 0 => c \in held
MapCounted == \A i \in nodesMap : i \in hNode /\ nRef[i] > 0

GoodGraph ==
  /\ NodesCounted /\ InfoRefExact /\ Acyclic
  /\ DeadUncounted /\ UncountedDying
  /\ DestroyFrames /\ CreateFrames
  /\ ListsCounted /\ MapCounted

\* What a list entry stands for: a counted entry belongs to a node that exists
\* or whose creation is in progress or undone, only the list of an info being
\* freed outlives its count, and a node is created for the application or for
\* the creation that needs it.
Calls == {stack[k] : k \in Depth}
HeldListed ==
  \A c \in held : /\ c \in cells
                  /\ \/ c[1] \in hNode \cup {Owned}
                     \/ <<"create", c[1]>> \in Calls \/ <<"undo", c[1]>> \in Calls
FreedInfos ==
  /\ \A i \in Infos : <<"infofree", i>> \in Calls => infoRef[i] = 0
  /\ \A c \in cells : c[1] \in Infos => infoRef[c[1]] > 0 \/ <<"infofree", c[1]>> \in Calls
CreateWanted ==
  \A k \in Depth : stack[k][1] \in {"create", "undo"} =>
     IF k = Len(stack) THEN userInfo[stack[k][2]] > 0
     ELSE \E c \in cells : c[1] = stack[k + 1][2] /\ c[2] = stack[k][2]

GoodLists == HeldListed /\ FreedInfos /\ CreateWanted

GraphInv == InUse => GoodGraph /\ GoodLists
=============================================================================
