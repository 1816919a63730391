----------------------------- MODULE RecorderNode -----------------------------
(***************************************************************************)
(* The recorder of the recording format                                    *)
(* (Source/Modules/nimRecorder/RecorderNode.cpp): the records it writes    *)
(* for the notifications it gets, the records that undo them, the seek     *)
(* tables, and the header that is valid only when the file is complete.    *)
(*                                                                         *)
(* A file is a sequence of records, and the place of a record in it stands *)
(* for its offset; 0 is no place. A property value and a frame are named   *)
(* by the place of their record. Each node has one property. A node is its *)
(* ID: a name that is added again gets a new one.                          *)
(***************************************************************************)
EXTENDS Integers, Sequences, FiniteSets, FiniteSetsExt, Functions

CONSTANTS
  MaxNodes,     \* bound: nodes that are added to the recording
  Generators,   \* the IDs of those that are generators
  MaxEvents     \* bound: frames, property changes and removals that are recorded

ASSUME RecorderAssumption ==
  /\ MaxNodes \in Nat /\ MaxEvents \in Nat
  /\ Generators \subseteq 1..MaxNodes

VARIABLES
  file,        \* the records written
  header,      \* nMaxNodeID of the recording header
  recorded,    \* m_recordedNodesInfo: the node infos of the recorded nodes
  numNodes,    \* m_nNumNodes
  configID,    \* m_nConfigurationID
  announcing,  \* the node RecorderImpl::AddNode announces, or 0
  stage        \* "recording", "finalizing", "done" or "crashed"

recorderVars == <<file, header, recorded, numNodes, configID, announcing, stage>>

Ids == 1..MaxNodes

\* INVALID_NODE_ID, as the header of an unfinished file has it: all 32 bits are
\* set, so the number of nodes that a reader makes of it wraps to 0.
InvalidNodeID == -1

Rec(type, n, undo) ==
  [type |-> type, node |-> n, undo |-> undo, num |-> 0, table |-> 0, index |-> <<>>]

NewInfo(pos) == [addedPos |-> pos, gotData |-> FALSE, prop |-> 0, data |-> 0, index |-> <<>>]

\* TellStream, at the end of the file.
Tell == Len(file) + 1

\* The bound on what is recorded.
MoreEvents ==
  Cardinality({k \in DOMAIN file : file[k].type \in {"prop", "data", "removed"}}) < MaxEvents

RecorderInit ==
  /\ file = <<>> /\ header = InvalidNodeID
  /\ recorded = [n \in {} |-> NewInfo(0)]
  /\ numNodes = 0 /\ configID = 0 /\ announcing = 0
  /\ stage = "recording"

Write(recs) == file' = file \o recs
-----------------------------------------------------------------------------
OnNodeAdded ==
  /\ stage = "recording" /\ announcing = 0
  /\ numNodes < MaxNodes
  /\ numNodes' = numNodes + 1
  /\ configID' = configID + 1
  /\ Write(<<Rec("added", numNodes', 0)>>)
  /\ recorded' = [n \in DOMAIN recorded \cup {numNodes'} |->
                    IF n = numNodes' THEN NewInfo(Tell) ELSE recorded[n]]
  /\ announcing' = numNodes'
  /\ UNCHANGED <<header, stage>>

\* Mutant: the place of the record is not remembered.
PlaceForgotten(n) ==
  /\ stage = "recording" /\ announcing \in {0, n}
  /\ MoreEvents
  /\ announcing = n => recorded[n].prop = 0
  /\ configID' = configID + 1
  /\ Write(<<Rec("prop", n, recorded[n].prop)>>)
  /\ UNCHANGED <<header, recorded, numNodes, announcing, stage>>

\* OnNodeIntPropChanged and its three siblings. UpdateNodePropInfo returns the
\* place of the property's last record, which the new record undoes to.
OnNodePropChanged(n) ==
  /\ stage = "recording" /\ announcing \in {0, n}
  /\ MoreEvents
  /\ announcing = n => recorded[n].prop = 0
  /\ configID' = configID + 1
  /\ Write(<<Rec("prop", n, recorded[n].prop)>>)
  /\ recorded' = [recorded EXCEPT ![n].prop = Tell]
  /\ UNCHANGED <<header, numNodes, announcing, stage>>

OnNodeStateReady(n) ==
  /\ stage = "recording" /\ announcing = n
  /\ configID' = configID + 1
  /\ Write(<<Rec("ready", n, 0)>>)
  /\ announcing' = 0
  /\ UNCHANGED <<header, recorded, numNodes, stage>>

\* The first data of a node are preceded by a record that says so. The entry
\* of the seek table is made with the place of the data record itself.
OnNodeNewData(n) ==
  LET begin == IF recorded[n].gotData THEN <<>> ELSE <<Rec("begin", n, 0)>>
      pos == Tell + Len(begin)
      frame == Len(recorded[n].index) + 1
  IN
  /\ stage = "recording" /\ announcing = 0
  /\ n \in Generators /\ MoreEvents
  /\ Write(begin \o <<[Rec("data", n, recorded[n].data) EXCEPT !.num = frame]>>)
  /\ recorded' = [recorded EXCEPT ![n].gotData = TRUE, ![n].data = pos,
                    ![n].index = Append(@, [config |-> configID, pos |-> pos])]
  /\ UNCHANGED <<header, numNodes, configID, announcing, stage>>

\* RemoveNode with UpdateNodeSeekInfo: the record of the removal, the seek
\* table, and the record that added the node is rewritten with both numbers.
RemoveNode(n) ==
  LET info == recorded[n]
      removed == <<Rec("removed", n, info.addedPos)>>
      table == [Rec("table", n, 0) EXCEPT !.index = info.index]
  IN
  /\ file' = IF info.gotData
             THEN [file EXCEPT ![info.addedPos].num = Len(info.index),
                               ![info.addedPos].table = Tell + 1] \o removed \o <<table>>
             ELSE file \o removed
  /\ recorded' = Restrict(recorded, DOMAIN recorded \ {n})

\* Mutant: a node is removed that is still announced.
RemovedAnnounced(n) ==
  /\ stage = "recording" /\ MoreEvents
  /\ configID' = configID + 1
  /\ RemoveNode(n)
  /\ UNCHANGED <<header, numNodes, announcing, stage>>

OnNodeRemoved(n) ==
  /\ stage = "recording" /\ announcing = 0 /\ MoreEvents
  /\ configID' = configID + 1
  /\ RemoveNode(n)
  /\ UNCHANGED <<header, numNodes, announcing, stage>>

\* Mutant: the header is completed first.
HeaderFirst ==
  /\ stage = "recording" /\ announcing = 0
  /\ stage' = "finalizing"
  /\ header' = numNodes
  /\ Write(<<Rec("end", 0, 0)>>)
  /\ UNCHANGED <<recorded, numNodes, configID, announcing>>

\* CloseStream: FinalizeStream writes the end, removes the nodes one by one
\* (in the order of a hash table) and last of all rewrites the header.
FinalizeEnd ==
  /\ stage = "recording" /\ announcing = 0
  /\ stage' = "finalizing"
  /\ Write(<<Rec("end", 0, 0)>>)
  /\ UNCHANGED <<header, recorded, numNodes, configID, announcing>>

FinalizeNode(n) ==
  /\ stage = "finalizing"
  /\ RemoveNode(n)
  /\ UNCHANGED <<header, numNodes, configID, announcing, stage>>

FinalizeHeader ==
  /\ stage = "finalizing" /\ DOMAIN recorded = {}
  /\ header' = numNodes
  /\ stage' = "done"
  /\ UNCHANGED <<file, recorded, numNodes, configID, announcing>>

\* The recording process dies: what was written stays.
Crash ==
  /\ stage \in {"recording", "finalizing"}
  /\ stage' = "crashed"
  /\ UNCHANGED <<file, header, recorded, numNodes, configID, announcing>>

RecorderNext ==
  \/ OnNodeAdded
  \/ \E n \in DOMAIN recorded :
       \/ OnNodePropChanged(n) \/ OnNodeStateReady(n) \/ OnNodeNewData(n)
       \/ OnNodeRemoved(n) \/ FinalizeNode(n)
  \/ FinalizeEnd \/ FinalizeHeader \/ Crash

RecorderSpec == RecorderInit /\ [][RecorderNext]_recorderVars
-----------------------------------------------------------------------------
(* Properties of the file *)

LastRec(type, n, p) == Max({0} \cup {k \in 1..(p-1) : file[k].type = type /\ file[k].node = n})

\* The undo place of a record (UpdateNodePropInfo, nLastDataPos) is the last
\* record of the same kind and node before it, however the nodes' records mix:
\* a chain of undo places skips no value and no frame.
UndoExact ==
  \A k \in DOMAIN file : file[k].type \in {"prop", "data"} =>
    file[k].undo = LastRec(file[k].type, file[k].node, k)

Indexes == {recorded[n].index : n \in DOMAIN recorded} \cup {file[k].index : k \in DOMAIN file}
Entries == UNION {Range(x) : x \in Indexes}

\* Two frames, of any nodes, whose seek table entries have the same
\* configuration ID have no record between them that changes what exists or
\* what a property is: what the fast seek relies on.
SameConfigurationSameState ==
  \A d, e \in Entries : d.config = e.config =>
    \A k \in d.pos..e.pos : file[k].type \in {"data", "begin", "table"}

\* The index lists the frames of node n in the records f in their order, and
\* no other records.
IsIndexOf(f, index, n) ==
  /\ \A k \in DOMAIN index : LET r == f[index[k].pos]
                           IN  r.type = "data" /\ r.node = n /\ r.num = k
  /\ \A p \in DOMAIN f : f[p].type = "data" /\ f[p].node = n =>
       \E k \in DOMAIN index : index[k].pos = p
  /\ \A j, k \in DOMAIN index : j < k => index[j].pos < index[k].pos

\* A node's added record that has a seek table.
HasTable(r) == r.type = "added" /\ r.table # 0

\* The seek tables: the index of a node being recorded, and the table and the
\* number of frames its added record gets at the end, list exactly the node's
\* frames; and once the header is valid, every node with frames has its table.
TablesExact ==
  /\ \A n \in DOMAIN recorded : IsIndexOf(file, recorded[n].index, n)
  /\ \A p \in DOMAIN file : HasTable(file[p]) =>
       LET t == file[file[p].table]
       IN  t.type = "table" /\ IsIndexOf(file, t.index, file[p].node) /\ file[p].num = Len(t.index)
  /\ header # InvalidNodeID =>
       \A k \in DOMAIN file : file[k].type = "data" =>
         \E p \in DOMAIN file : HasTable(file[p]) /\ file[p].node = file[k].node

\* What the recorder tells the player of its file, for rewinding and for seeking,
\* is exact.
FileExact == UndoExact /\ SameConfigurationSameState /\ TablesExact
=============================================================================
