------------------------- MODULE PlayerNode_proofs -------------------------
(***************************************************************************)
(* Proofs about PlayerNode for every number of nodes, of events and of     *)
(* seeks.                                                                  *)
(***************************************************************************)
EXTENDS PlayerNode, RecorderNode_proofs, WellFoundedInduction

-----------------------------------------------------------------------------
(* The order of the records in a file *)

\* Every record but the end is of a node that was added, and once.
NodesAdded ==
  /\ numNodes <= MaxNodes
  /\ \A k \in 1..Len(file) : file[k].type # "end" => file[k].node \in 1..numNodes
  /\ \A k \in 1..Len(file) : file[k].type \notin {"added", "end"} =>
       \E a \in 1..(k - 1) : file[a].type = "added" /\ file[a].node = file[k].node
  /\ \A j, k \in 1..Len(file) :
       file[j].type = "added" /\ file[k].type = "added" /\ file[j].node = file[k].node => j = k

\* Behind the end are only the removals and tables of FinalizeStream.
EndLast ==
  /\ \A j, k \in 1..Len(file) :
       file[j].type = "end" /\ file[k].type \notin {"removed", "table"} => k <= j
  /\ stage = "recording" => \A k \in 1..Len(file) : file[k].type # "end"
  /\ stage \in {"finalizing", "done"} => \E k \in 1..Len(file) : file[k].type = "end"

\* Nothing but the table of a node comes behind its removal.
RemovedLast ==
  /\ \A j, k \in 1..Len(file) :
       /\ file[j].type = "removed" /\ file[k].type \notin {"table", "end"}
       /\ file[j].node = file[k].node
       => k <= j
  /\ \A k \in 1..Len(file) : file[k].type = "removed" => file[k].node \notin DOMAIN recorded

\* Frames are of generators, and behind the node's begin, which is directly
\* followed by one.
FramesBegin ==
  /\ \A k \in 1..Len(file) : file[k].type \in {"begin", "data"} => file[k].node \in Generators
  /\ \A k \in 1..Len(file) : file[k].type = "begin" =>
       k + 1 \in 1..Len(file) /\ file[k + 1].type = "data"
  /\ \A k \in 1..Len(file) : file[k].type = "data" =>
       \E b \in 1..(k - 1) : file[b].type = "begin" /\ file[b].node = file[k].node
  /\ \A n \in DOMAIN recorded : recorded[n].gotData =>
       \E b \in 1..Len(file) : file[b].type = "begin" /\ file[b].node = n

\* An added node is said to be ready, unless it is still announced, and until
\* then only properties are written.
ReadySaid ==
  \A k \in 1..Len(file) : file[k].type = "added" =>
    \/ announcing = file[k].node /\ \A j \in (k + 1)..Len(file) : file[j].type = "prop"
    \/ \E q \in (k + 1)..Len(file) : /\ file[q].type = "ready" /\ file[q].node = file[k].node
                                     /\ \A j \in (k + 1)..(q - 1) : file[j].type = "prop"

\* A valid header has the number of nodes.
HeaderRight == header \in {InvalidNodeID, numNodes}

FileShape == NodesAdded /\ EndLast /\ RemovedLast /\ FramesBegin /\ ReadySaid /\ HeaderRight

\* What a step of the recorder may write.
Written(recs) ==
  /\ Grown(recs) /\ Len(recs) \in {1, 2}
  /\ numNodes' \in {numNodes, numNodes + 1} /\ numNodes' <= MaxNodes
  /\ DOMAIN recorded' \subseteq DOMAIN recorded \cup {numNodes + 1}
  /\ \A q \in 1..Len(recs) :
       /\ recs[q].type \notin {"end", "added"} => recs[q].node \in DOMAIN recorded
       /\ recs[q].type = "added" => q = 1 /\ Len(recs) = 1 /\ recs[q].node = numNodes + 1
                                    /\ numNodes' = numNodes + 1 /\ announcing' = numNodes + 1
       /\ recs[q].type \in {"begin", "data"} => recs[q].node \in Generators
       /\ recs[q].type = "begin" => q = 1 /\ Len(recs) = 2 /\ recs[2].type = "data"
       /\ recs[q].type = "data" =>
            \/ recorded[recs[q].node].gotData
            \/ q = 2 /\ recs[1].type = "begin" /\ recs[1].node = recs[q].node
       /\ recs[q].type = "end" => q = 1 /\ Len(recs) = 1 /\ stage' = "finalizing"
       /\ recs[q].type = "removed" => /\ q = 1 /\ (Len(recs) = 2 => recs[2].type = "table")
                                      /\ recs[q].node \notin DOMAIN recorded'
       /\ recs[q].type \notin {"removed", "table"} => stage = "recording"
  /\ \A n \in DOMAIN recorded' : recorded'[n].gotData =>
       \/ n \in DOMAIN recorded /\ recorded[n].gotData
       \/ recs[1].type = "begin" /\ recs[1].node = n
  /\ stage' = stage \/ (recs[1].type = "end" /\ stage = "recording" /\ stage' = "finalizing")
  /\ header = InvalidNodeID /\ header' = header
  /\ \/ announcing = 0
     \/ announcing' = announcing /\ Len(recs) = 1 /\ recs[1].type = "prop"
     \/ recs[1].type = "ready" /\ recs[1].node = announcing

\* The records afterwards are those before, up to the numbers and tables of added
\* ones, and the new ones.
LEMMA RecordsAfter ==
  ASSUME RecorderInv, NEW recs, Written(recs)
  PROVE  /\ Len(file) \in Nat /\ Len(file') = Len(file) + Len(recs) /\ numNodes \in Nat
         /\ DOMAIN recorded \subseteq 1..numNodes /\ announcing \in Nat
         /\ \A k \in 1..Len(file) : file'[k].type = file[k].type /\ file'[k].node = file[k].node
         /\ \A k \in 1..Len(file') : \/ k \in 1..Len(file)
                                     \/ \E q \in 1..Len(recs) : k = Len(file) + q /\ file'[k] = recs[q]
         /\ \A k \in 1..Len(file) : file[k].node \in Nat
<1>1. /\ file \in Seq(RecType) /\ Len(file) \in Nat /\ numNodes \in Nat
      /\ DOMAIN recorded \subseteq 1..numNodes /\ announcing \in DOMAIN recorded \cup {0}
      /\ \A k \in 1..Len(file) : file[k].node \in Nat
  BY FieldTypes DEF RecorderInv, RecorderTypes
<1>2. Grown(recs) /\ (Len(recs) = 1 \/ Len(recs) = 2)
  BY DEF Written
<1>3. Len(file') = Len(file) + Len(recs)
  BY <1>2 DEF Grown
<1>4. ASSUME NEW k \in 1..Len(file'), k \notin 1..Len(file)
      PROVE  \E q \in 1..Len(recs) : k = Len(file) + q /\ file'[k] = recs[q]
  <2>1. k - Len(file) \in 1..Len(recs) /\ Len(file) + (k - Len(file)) = k
    BY <1>1, <1>2, <1>3, <1>4
  <2>2. file'[Len(file) + (k - Len(file))] = recs[k - Len(file)]
    BY <1>2, <2>1 DEF Grown
  <2> QED BY <2>1, <2>2
<1>5. \A k \in 1..Len(file) : file'[k].type = file[k].type /\ file'[k].node = file[k].node
  BY <1>2 DEF Grown
<1> QED BY <1>1, <1>2, <1>3, <1>4, <1>5

\* They keep the order.
LEMMA ShapeKept ==
  ASSUME RecorderInv, FileShape, NEW recs, Written(recs)
  PROVE  FileShape'
<1> DEFINE L == Len(file)
           New(k) == \E q \in 1..Len(recs) : k = L + q /\ file'[k] = recs[q]
<1>1. /\ L \in Nat /\ Len(file') = L + Len(recs) /\ numNodes \in Nat /\ Len(recs) \in {1, 2}
      /\ DOMAIN recorded \subseteq 1..numNodes /\ announcing \in Nat
      /\ \A k \in 1..L : file'[k].type = file[k].type /\ file'[k].node = file[k].node
      /\ \A k \in 1..Len(file') : k \in 1..L \/ New(k)
      /\ \A k \in 1..L : file[k].node \in Nat
  BY RecordsAfter DEF Written
<1>0. L + 1 \in 1..Len(file') /\ 1 \in 1..Len(recs)
  <2>1. L \in Nat /\ Len(file') = L + Len(recs) /\ Len(recs) \in {1, 2}
    BY <1>1
  <2>2. ASSUME NEW x \in Nat, NEW y \in {1, 2}, NEW z, z = x + y
        PROVE  x + 1 \in 1..z /\ 1 \in 1..y
    BY <2>2
  <2> HIDE DEF L
  <2> QED BY <2>1, <2>2
<1>2. \A k \in 1..L : k \in 1..Len(file')
  BY <1>1
<1>3. \A n \in DOMAIN recorded : \E a \in 1..L : file[a].type = "added" /\ file[a].node = n
  BY DEF RecorderInv, NodesKnown
<1>4. \A k \in 1..L : file[k].type # "end" => file[k].node \in 1..numNodes
  BY DEF FileShape, NodesAdded
<1>5. numNodes' \in {numNodes, numNodes + 1} /\ numNodes' <= MaxNodes
  BY DEF Written
<1> HIDE DEF L
<1>6. NodesAdded'
  <2>1. ASSUME NEW k \in 1..Len(file'), file'[k].type # "end"
        PROVE  file'[k].node \in 1..numNodes'
    <3>1. CASE k \in 1..L
      BY <1>1, <1>4, <1>5, <2>1, <3>1
    <3>2. CASE New(k)
      <4>1. PICK q \in 1..Len(recs) : file'[k] = recs[q]
        BY <3>2
      <4>2. CASE recs[q].type = "added"
        BY <1>1, <4>1, <4>2 DEF Written
      <4>3. CASE recs[q].type # "added"
        <5>1. recs[q].node \in 1..numNodes
          BY <1>1, <2>1, <4>1, <4>3 DEF Written
        <5> QED BY <1>1, <1>5, <4>1, <5>1
      <4> QED BY <4>2, <4>3
    <3> QED BY <1>1, <3>1, <3>2
  <2>2. ASSUME NEW k \in 1..Len(file'), file'[k].type \notin {"added", "end"}
        PROVE  \E a \in 1..(k - 1) : file'[a].type = "added" /\ file'[a].node = file'[k].node
    <3>1. CASE k \in 1..L
      <4>1. PICK a \in 1..(k - 1) : file[a].type = "added" /\ file[a].node = file[k].node
        BY <1>1, <2>2, <3>1 DEF FileShape, NodesAdded, L
      <4>2. a \in 1..L
        BY <1>1, <3>1
      <4> QED BY <1>1, <3>1, <4>1, <4>2
    <3>2. CASE New(k)
      <4>1. PICK q \in 1..Len(recs) : k = L + q /\ file'[k] = recs[q]
        BY <3>2
      <4>2. recs[q].node \in DOMAIN recorded
        BY <2>2, <4>1 DEF Written
      <4>3. PICK a \in 1..L : file[a].type = "added" /\ file[a].node = recs[q].node
        BY <1>3, <4>2
      <4>4. a \in 1..(k - 1)
        BY <1>1, <4>1
      <4> QED BY <1>1, <4>1, <4>3, <4>4
    <3> QED BY <1>1, <3>1, <3>2
  <2>3. ASSUME NEW j \in 1..Len(file'), NEW k \in 1..Len(file'), file'[j].type = "added",
               file'[k].type = "added", file'[j].node = file'[k].node
        PROVE  j = k
    <3>1. ASSUME NEW i \in 1..Len(file'), New(i), file'[i].type = "added"
          PROVE  i = L + 1 /\ file'[i].node = numNodes + 1
      BY <3>1 DEF Written
    <3>2. ASSUME NEW i \in 1..L, file'[i].type = "added" PROVE file'[i].node \in 1..numNodes
      BY <1>1, <1>4, <3>2
    <3>3. CASE j \in 1..L /\ k \in 1..L
      BY <1>1, <2>3, <3>3 DEF FileShape, NodesAdded, L
    <3> QED BY <1>1, <2>3, <3>1, <3>2, <3>3
  <2> QED BY <1>5, <2>1, <2>2, <2>3 DEF NodesAdded
<1>7. EndLast'
  <2>1. ASSUME NEW q \in 1..Len(recs), recs[q].type \notin {"removed", "table"}
        PROVE  stage = "recording"
    BY <2>1 DEF Written
  <2>2. ASSUME NEW q \in 1..Len(recs), recs[q].type = "end"
        PROVE  Len(recs) = 1 /\ stage' = "finalizing"
    BY <2>2 DEF Written
  <2>3. ASSUME NEW j \in 1..Len(file'), NEW k \in 1..Len(file'), file'[j].type = "end",
               file'[k].type \notin {"removed", "table"}
        PROVE  k <= j
    <3>1. CASE j \in 1..L /\ k \in 1..L
      BY <1>1, <2>3, <3>1 DEF FileShape, EndLast, L
    <3>2. CASE k \in 1..L /\ New(j)
      BY <1>1, <3>2
    <3>3. CASE New(j) /\ New(k)
      BY <1>1, <2>2, <2>3, <3>3
    <3>4. CASE j \in 1..L /\ New(k)
      <4>1. stage = "recording"
        BY <2>1, <2>3, <3>4
      <4> QED BY <1>1, <2>3, <3>4, <4>1 DEF FileShape, EndLast, L
    <3> QED BY <1>1, <3>1, <3>2, <3>3, <3>4
  <2>4. ASSUME stage' = "recording", NEW k \in 1..Len(file') PROVE file'[k].type # "end"
    <3>1. stage = "recording"
      BY <2>4 DEF Written
    <3>2. CASE k \in 1..L
      BY <1>1, <3>1, <3>2 DEF FileShape, EndLast, L
    <3>3. CASE New(k)
      BY <2>2, <2>4, <3>3
    <3> QED BY <1>1, <3>2, <3>3
  <2>5. ASSUME stage' \in {"finalizing", "done"} PROVE \E k \in 1..Len(file') : file'[k].type = "end"
    <3>1. CASE stage' = stage
      <4>1. PICK k \in 1..L : file[k].type = "end"
        BY <2>5, <3>1 DEF FileShape, EndLast, L
      <4> QED BY <1>1, <1>2, <4>1
    <3>2. CASE recs[1].type = "end"
      <4>1. L + 1 \in 1..Len(file') /\ 1 \in 1..Len(recs)
        BY <1>0
      <4>2. file'[L + 1] = recs[1]
        BY <4>1 DEF Written, Grown, L
      <4> QED BY <3>2, <4>1, <4>2
    <3> QED BY <3>1, <3>2 DEF Written
  <2> QED BY <2>3, <2>4, <2>5 DEF EndLast
<1>8. RemovedLast'
  <2>1. ASSUME NEW j \in 1..Len(file'), NEW k \in 1..Len(file'), file'[j].type = "removed",
               file'[k].type \notin {"table", "end"}, file'[j].node = file'[k].node
        PROVE  k <= j
    <3>1. CASE j \in 1..L /\ k \in 1..L
      BY <1>1, <2>1, <3>1 DEF FileShape, RemovedLast, L
    <3>2. CASE k \in 1..L /\ New(j)
      BY <1>1, <3>2
    <3>3. CASE New(j) /\ New(k)
      <4>1. PICK q \in 1..Len(recs) : j = L + q /\ file'[j] = recs[q]
        BY <3>3
      <4>2. PICK p \in 1..Len(recs) : k = L + p /\ file'[k] = recs[p]
        BY <3>3
      <4>3. q = 1 /\ (Len(recs) = 2 => recs[2].type = "table")
        BY <2>1, <4>1 DEF Written
      <4>4. p = 1
        BY <1>1, <2>1, <4>2, <4>3
      <4> QED BY <1>1, <4>1, <4>2, <4>3, <4>4
    <3>4. CASE j \in 1..L /\ New(k)
      <4>1. file[j].type = "removed" /\ file[j].node \notin DOMAIN recorded /\ file[j].node \in 1..numNodes
        BY <1>1, <1>4, <2>1, <3>4 DEF FileShape, RemovedLast, L
      <4>2. PICK q \in 1..Len(recs) : file'[k] = recs[q]
        BY <3>4
      <4>3. recs[q].node \in DOMAIN recorded \/ recs[q].node = numNodes + 1
        BY <2>1, <4>2 DEF Written
      <4>4. recs[q].node = file[j].node
        BY <1>1, <2>1, <3>4, <4>2
      <4> QED BY <1>1, <4>1, <4>3, <4>4
    <3> QED BY <1>1, <3>1, <3>2, <3>3, <3>4
  <2>2. ASSUME NEW k \in 1..Len(file'), file'[k].type = "removed"
        PROVE  file'[k].node \notin DOMAIN recorded'
    <3>1. CASE k \in 1..L
      <4>1. file[k].node \notin DOMAIN recorded /\ file[k].node \in 1..numNodes
        BY <1>1, <1>4, <2>2, <3>1 DEF FileShape, RemovedLast, L
      <4> QED BY <1>1, <3>1, <4>1 DEF Written
    <3>2. CASE New(k)
      BY <2>2, <3>2 DEF Written
    <3> QED BY <1>1, <3>1, <3>2
  <2> QED BY <2>1, <2>2 DEF RemovedLast
<1>9. FramesBegin'
  <2>1. ASSUME NEW k \in 1..Len(file'), file'[k].type \in {"begin", "data"}
        PROVE  file'[k].node \in Generators
    <3>1. CASE k \in 1..L
      BY <1>1, <2>1, <3>1 DEF FileShape, FramesBegin, L
    <3>2. CASE New(k)
      BY <2>1, <3>2 DEF Written
    <3> QED BY <1>1, <3>1, <3>2
  <2>2. ASSUME NEW k \in 1..Len(file'), file'[k].type = "begin"
        PROVE  k + 1 \in 1..Len(file') /\ file'[k + 1].type = "data"
    <3>1. CASE k \in 1..L
      <4>1. k + 1 \in 1..L /\ file[k + 1].type = "data"
        BY <1>1, <2>2, <3>1 DEF FileShape, FramesBegin, L
      <4> QED BY <1>1, <1>2, <4>1
    <3>2. CASE New(k)
      <4>1. PICK q \in 1..Len(recs) : k = L + q /\ file'[k] = recs[q]
        BY <3>2
      <4>2. q = 1 /\ Len(recs) = 2 /\ recs[2].type = "data"
        BY <2>2, <4>1 DEF Written
      <4>3. file'[L + 2] = recs[2] /\ k + 1 = L + 2 /\ k + 1 \in 1..Len(file')
        BY <1>1, <4>1, <4>2 DEF Written, Grown, L
      <4> QED BY <4>2, <4>3
    <3> QED BY <1>1, <3>1, <3>2
  <2>3. ASSUME NEW n, recs[1].type = "begin", recs[1].node = n
        PROVE  L + 1 \in 1..Len(file') /\ file'[L + 1].type = "begin" /\ file'[L + 1].node = n
    <3>1. L + 1 \in 1..Len(file') /\ 1 \in 1..Len(recs)
      BY <1>0
    <3>2. file'[L + 1] = recs[1]
      BY <3>1 DEF Written, Grown, L
    <3> QED BY <2>3, <3>1, <3>2
  <2>4. ASSUME NEW n \in DOMAIN recorded, recorded[n].gotData
        PROVE  \E b \in 1..L : b \in 1..Len(file') /\ file'[b].type = "begin" /\ file'[b].node = n
    <3>1. PICK b \in 1..L : file[b].type = "begin" /\ file[b].node = n
      BY <2>4 DEF FileShape, FramesBegin, L
    <3> QED BY <1>1, <1>2, <3>1
  <2>5. ASSUME NEW k \in 1..Len(file'), file'[k].type = "data"
        PROVE  \E b \in 1..(k - 1) : file'[b].type = "begin" /\ file'[b].node = file'[k].node
    <3>1. CASE k \in 1..L
      <4>1. PICK b \in 1..(k - 1) : file[b].type = "begin" /\ file[b].node = file[k].node
        BY <1>1, <2>5, <3>1 DEF FileShape, FramesBegin, L
      <4>2. b \in 1..L
        BY <1>1, <3>1
      <4> QED BY <1>1, <3>1, <4>1, <4>2
    <3>2. CASE New(k)
      <4>1. PICK q \in 1..Len(recs) : k = L + q /\ file'[k] = recs[q]
        BY <3>2
      <4>2. CASE recorded[recs[q].node].gotData
        <5>1. recs[q].node \in DOMAIN recorded
          BY <2>5, <4>1 DEF Written
        <5>2. PICK b \in 1..L : file'[b].type = "begin" /\ file'[b].node = recs[q].node
          BY <2>4, <4>2, <5>1
        <5>3. b \in 1..(k - 1)
          BY <1>1, <4>1
        <5> QED BY <4>1, <5>2, <5>3
      <4>3. CASE q = 2 /\ recs[1].type = "begin" /\ recs[1].node = recs[q].node
        <5>1. L + 1 \in 1..(k - 1)
          BY <1>1, <4>1, <4>3
        <5> QED BY <2>3, <4>1, <4>3, <5>1
      <4> QED BY <2>5, <4>1, <4>2, <4>3 DEF Written
    <3> QED BY <1>1, <3>1, <3>2
  <2>6. ASSUME NEW n \in DOMAIN recorded', recorded'[n].gotData
        PROVE  \E b \in 1..Len(file') : file'[b].type = "begin" /\ file'[b].node = n
    BY <2>3, <2>4, <2>6 DEF Written
  <2> QED BY <2>1, <2>2, <2>5, <2>6 DEF FramesBegin
<1>10. ReadySaid'
  <2> DEFINE Said(k) == \E q \in (k + 1)..Len(file') :
                          /\ file'[q].type = "ready" /\ file'[q].node = file'[k].node
                          /\ \A j \in (k + 1)..(q - 1) : file'[j].type = "prop"
             Open(k) == announcing' = file'[k].node
                        /\ \A j \in (k + 1)..Len(file') : file'[j].type = "prop"
  <2> SUFFICES ASSUME NEW k \in 1..Len(file'), file'[k].type = "added" PROVE Open(k) \/ Said(k)
    BY DEF ReadySaid
  <2>1. CASE k \in 1..L
    <3>1. CASE /\ announcing = file[k].node
               /\ \A j \in (k + 1)..L : file[j].type = "prop"
      <4>1. announcing # 0
        <5>1. file[k].type = "added"
          BY <1>1, <2>1
        <5>2. file[k].node \in 1..numNodes
          BY <1>4, <2>1, <5>1
        <5> QED BY <1>1, <3>1, <5>2
      <4>2. \A j \in (k + 1)..L : j \in 1..L /\ file'[j].type = "prop"
        BY <1>1, <2>1, <3>1
      <4>3. L + 1 \in (k + 1)..Len(file') /\ 1 \in 1..Len(recs)
        <5>1. L \in Nat /\ Len(file') = L + Len(recs) /\ (Len(recs) = 1 \/ Len(recs) = 2) /\ k \in 1..L
          BY <1>1, <2>1
        <5> QED BY <5>1
      <4>4. file'[L + 1] = recs[1]
        BY <4>3 DEF Written, Grown, L
      <4>5. CASE announcing' = announcing /\ Len(recs) = 1 /\ recs[1].type = "prop"
        <5>1. \A j \in (k + 1)..Len(file') : j \in (k + 1)..L \/ j = L + 1
          BY <1>1, <2>1, <4>5
        <5> QED BY <1>1, <2>1, <3>1, <4>2, <4>4, <4>5, <5>1
      <4>6. CASE recs[1].type = "ready" /\ recs[1].node = announcing
        <5>1. \A j \in (k + 1)..((L + 1) - 1) : j \in (k + 1)..L
          BY <1>1, <2>1
        <5> QED BY <1>1, <2>1, <3>1, <4>2, <4>3, <4>4, <4>6, <5>1
      <4> QED BY <4>1, <4>5, <4>6 DEF Written
    <3>2. CASE \E q \in (k + 1)..L : /\ file[q].type = "ready" /\ file[q].node = file[k].node
                                      /\ \A j \in (k + 1)..(q - 1) : file[j].type = "prop"
      <4>1. PICK q \in (k + 1)..L : /\ file[q].type = "ready" /\ file[q].node = file[k].node
                                      /\ \A j \in (k + 1)..(q - 1) : file[j].type = "prop"
        BY <3>2
      <4>2. /\ q \in 1..L /\ q \in (k + 1)..Len(file')
            /\ \A j \in (k + 1)..(q - 1) : j \in 1..L
        BY <1>1, <2>1
      <4> QED BY <1>1, <2>1, <4>1, <4>2
    <3> QED BY <1>1, <2>1, <3>1, <3>2 DEF FileShape, ReadySaid, L
  <2>2. CASE New(k)
    <3>1. PICK q \in 1..Len(recs) : k = L + q /\ file'[k] = recs[q]
      BY <2>2
    <3>2. q = 1 /\ Len(recs) = 1 /\ announcing' = recs[q].node
      BY <3>1 DEF Written
    <3>3. \A j \in (k + 1)..Len(file') : FALSE
      BY <1>1, <3>1, <3>2
    <3> QED BY <3>1, <3>2, <3>3
  <2> QED BY <1>1, <2>1, <2>2
<1>11. HeaderRight'
  BY DEF Written, HeaderRight
<1> QED BY <1>6, <1>7, <1>8, <1>9, <1>10, <1>11 DEF FileShape

\* So does every step of the recorder.
LEMMA ShapeStep ==
  RecorderInv /\ FileShape /\ [RecorderNext]_recorderVars => FileShape'
<1> SUFFICES ASSUME RecorderInv, FileShape, [RecorderNext]_recorderVars PROVE FileShape'
  OBVIOUS
<1>1. /\ file \in Seq(RecType) /\ Len(file) \in Nat /\ numNodes \in Nat /\ MaxNodes \in Nat
      /\ DOMAIN recorded \subseteq 1..numNodes
  BY FieldTypes, RecorderAssumption DEF RecorderInv, RecorderTypes
<1>2. \A n \in DOMAIN recorded : n \in Nat /\ recorded[n].prop \in Nat /\ numNodes + 1 \notin DOMAIN recorded
  BY <1>1, FieldTypes DEF RecorderInv
<1>3. numNodes <= MaxNodes /\ (stage # "done" => header = InvalidNodeID)
  BY DEF FileShape, NodesAdded, RecorderInv, TablesKept
<1>4. ASSUME NEW type \in {"added", "prop", "ready", "end"}, NEW n \in Nat, NEW undo \in Nat,
             Write(<<Rec(type, n, undo)>>)
      PROVE  LET recs == <<Rec(type, n, undo)>>
             IN  /\ Grown(recs) /\ Len(recs) = 1
                 /\ \A q \in 1..Len(recs) : q = 1 /\ recs[q].type = type /\ recs[q].node = n
  <2> DEFINE r == Rec(type, n, undo)
  <2>1. r \in RecType /\ r.type = type /\ r.node = n
    BY RecFacts
  <2>2. Write(<<r>>)
    BY <1>4
  <2> HIDE DEF r
  <2>3. <<r>> \in Seq(RecType) /\ Len(<<r>>) = 1 /\ <<r>>[1] = r
    BY <2>1, OneRecord
  <2>4. Grown(<<r>>)
    BY <1>1, <2>2, <2>3, WriteGrown
  <2>5. /\ Grown(<<r>>) /\ Len(<<r>>) = 1
        /\ \A q \in 1..Len(<<r>>) : q = 1 /\ <<r>>[q].type = type /\ <<r>>[q].node = n
    BY <2>1, <2>3, <2>4
  <2> QED BY <2>5 DEF r
<1>5. ASSUME NEW recs, Grown(recs), Len(recs) = 1, NEW type \in {"added", "prop", "ready", "end"},
             NEW n \in Nat,
             \A q \in 1..Len(recs) : q = 1 /\ recs[q].type = type /\ recs[q].node = n
      PROVE  1 \in 1..Len(recs) /\ recs[1].type = type /\ recs[1].node = n
  BY <1>5
<1>6. CASE OnNodeAdded
  <2> DEFINE recs == <<Rec("added", numNodes + 1, 0)>>
  <2>1. /\ stage = "recording" /\ stage' = stage /\ announcing = 0 /\ announcing' = numNodes + 1
        /\ numNodes' = numNodes + 1 /\ numNodes < MaxNodes /\ Write(recs)
        /\ DOMAIN recorded' = DOMAIN recorded \cup {numNodes + 1} /\ header' = header
        /\ \A n \in DOMAIN recorded' : recorded'[n].gotData => n \in DOMAIN recorded /\ recorded[n].gotData
    BY <1>6 DEF OnNodeAdded, NewInfo
  <2>2. /\ Grown(recs) /\ Len(recs) = 1
        /\ \A q \in 1..Len(recs) : q = 1 /\ recs[q].type = "added" /\ recs[q].node = numNodes + 1
    BY <1>1, <1>4, <2>1
  <2> HIDE DEF recs
  <2>3. Written(recs)
    BY <1>1, <1>3, <2>1, <2>2 DEF Written
  <2> QED BY <2>3, ShapeKept
<1>7. CASE FinalizeEnd
  <2> DEFINE recs == <<Rec("end", 0, 0)>>
  <2>1. /\ stage = "recording" /\ stage' = "finalizing" /\ announcing = 0 /\ Write(recs)
        /\ UNCHANGED <<recorded, numNodes, announcing, header>>
    BY <1>7 DEF FinalizeEnd
  <2>2. /\ Grown(recs) /\ Len(recs) = 1
        /\ \A q \in 1..Len(recs) : q = 1 /\ recs[q].type = "end" /\ recs[q].node = 0
    BY <1>1, <1>4, <2>1
  <2> HIDE DEF recs
  <2>3. 1 \in 1..Len(recs)
    BY <2>2
  <2>4. Written(recs)
    BY <1>1, <1>3, <2>1, <2>2, <2>3 DEF Written
  <2> QED BY <2>4, ShapeKept
<1>8. ASSUME NEW n \in DOMAIN recorded, OnNodePropChanged(n) PROVE FileShape'
  <2> DEFINE recs == <<Rec("prop", n, recorded[n].prop)>>
  <2>1. /\ stage = "recording" /\ stage' = stage /\ Write(recs) /\ DOMAIN recorded' = DOMAIN recorded
        /\ UNCHANGED <<numNodes, announcing, header>>
        /\ \A i \in DOMAIN recorded : recorded'[i].gotData = recorded[i].gotData
    BY <1>8 DEF OnNodePropChanged, RecorderInv, RecorderTypes, InfoType
  <2>2. /\ Grown(recs) /\ Len(recs) = 1
        /\ \A q \in 1..Len(recs) : q = 1 /\ recs[q].type = "prop" /\ recs[q].node = n
    BY <1>2, <1>4, <2>1
  <2> HIDE DEF recs
  <2>3. Written(recs)
    BY <1>1, <1>3, <2>1, <2>2 DEF Written
  <2> QED BY <2>3, ShapeKept
<1>9. ASSUME NEW n \in DOMAIN recorded, OnNodeStateReady(n) PROVE FileShape'
  <2> DEFINE recs == <<Rec("ready", n, 0)>>
  <2>1. /\ stage = "recording" /\ stage' = stage /\ Write(recs) /\ announcing = n
        /\ UNCHANGED <<recorded, numNodes, header>>
    BY <1>9 DEF OnNodeStateReady
  <2>2. /\ Grown(recs) /\ Len(recs) = 1
        /\ \A q \in 1..Len(recs) : q = 1 /\ recs[q].type = "ready" /\ recs[q].node = n
    BY <1>2, <1>4, <2>1
  <2> HIDE DEF recs
  <2>3. 1 \in 1..Len(recs) /\ recs[1].type = "ready" /\ recs[1].node = n
    BY <2>2
  <2>4. Written(recs)
    BY <1>1, <1>3, <2>1, <2>2, <2>3 DEF Written
  <2> QED BY <2>4, ShapeKept
<1>10. ASSUME NEW n \in DOMAIN recorded, OnNodeNewData(n) PROVE FileShape'
  <2>1. PICK recs : FrameStep(n, recs)
    BY <1>10, FrameAction
  <2>2. n \in Generators
    BY <1>10 DEF OnNodeNewData
  <2>3. Grown(recs)
    BY <2>1, FrameGrown
  <2>4. /\ stage = "recording" /\ Len(recs) \in {1, 2} /\ DOMAIN recorded' = DOMAIN recorded
        /\ \A q \in 1..Len(recs) : recs[q].node = n /\ recs[q].type = IF q = Len(recs) THEN "data" ELSE "begin"
        /\ UNCHANGED <<numNodes, announcing, stage, header>> /\ announcing = 0
        /\ \A i \in DOMAIN recorded \ {n} : recorded'[i] = recorded[i]
    BY <1>10, <2>1 DEF FrameStep, OnNodeNewData
  <2>5. \A q \in 1..Len(recs) : recs[q].type = "begin" => q = 1 /\ Len(recs) = 2 /\ recs[2].type = "data"
    BY <2>4
  <2>6. recorded[n].gotData \/ (Len(recs) = 2 /\ recs[1].type = "begin" /\ recs[1].node = n)
    BY <2>1, <2>4 DEF FrameStep
  <2>7. Written(recs)
    BY <1>1, <1>3, <2>2, <2>3, <2>4, <2>5, <2>6 DEF Written
  <2> QED BY <2>7, ShapeKept
<1>11. ASSUME NEW n \in DOMAIN recorded, OnNodeRemoved(n) \/ FinalizeNode(n) PROVE FileShape'
  <2>1. /\ RemoveNode(n) /\ UNCHANGED <<numNodes, announcing, stage, header>>
        /\ stage \in {"recording", "finalizing"} /\ announcing = 0
    BY <1>11 DEF OnNodeRemoved, FinalizeNode, RecorderInv, RecorderTypes
  <2>2. PICK recs : Removed(n, recs)
    BY <2>1, NodeRemoved
  <2>3. /\ Grown(recs) /\ Len(recs) \in {1, 2} /\ DOMAIN recorded' = DOMAIN recorded \ {n}
        /\ \A q \in 1..Len(recs) : recs[q].node = n /\ recs[q].type = IF q = 1 THEN "removed" ELSE "table"
        /\ \A i \in DOMAIN recorded \ {n} : recorded'[i] = recorded[i]
    BY <2>2 DEF Removed
  <2>4. Len(recs) = 2 => recs[2].type = "table"
    BY <2>3
  <2>5. Written(recs)
    BY <1>1, <1>3, <2>1, <2>3, <2>4 DEF Written
  <2> QED BY <2>5, ShapeKept
<1>12. CASE FinalizeHeader \/ Crash \/ UNCHANGED recorderVars
  <2>1. /\ UNCHANGED <<file, numNodes, announcing, recorded>>
        /\ stage' = "recording" => stage = "recording"
        /\ stage' \in {"finalizing", "done"} => stage \in {"finalizing", "done"}
        /\ header' \in {header, numNodes}
    BY <1>12 DEF FinalizeHeader, Crash, recorderVars
  <2> QED BY <2>1 DEF FileShape, NodesAdded, EndLast, RemovedLast, FramesBegin, ReadySaid, HeaderRight
<1> QED BY <1>6, <1>7, <1>8, <1>9, <1>10, <1>11, <1>12 DEF RecorderNext

-----------------------------------------------------------------------------
(* The state of the player, and what one call changes in it *)

WaitType == [until : {"ready", "first", "frame"}, node : Nat, num : Nat]
UndoType == [rec : Nat, undo : Nat]
NodeType ==
  [valid : BOOLEAN, ready : BOOLEAN, generator : BOOLEAN, frames : Nat, cur : Nat, last : Nat,
   data : UndoType, prop : UndoType, index : Seq(EntryType)]
ShownType == [data : Nat, prop : Nat]
PlayerType ==
  [status : {"ok", "eof", "corrupt", "wild", "endless"}, repeat : BOOLEAN, pos : Nat,
   maxID : Int, begun : BOOLEAN, waits : Seq(WaitType), info : [Ids -> NodeType],
   temp : [Ids -> Int], shown : [Ids -> ShownType]]

\* What t and s have in common: what is not of a node, the nodes but n, and of
\* one node what its added record and its frames set.
SameRest(t, s) ==
  /\ t.status = s.status /\ t.repeat = s.repeat /\ t.pos = s.pos /\ t.maxID = s.maxID
  /\ t.begun = s.begun /\ t.waits = s.waits
SameNode(t, s, i) ==
  t.info[i] = s.info[i] /\ t.temp[i] = s.temp[i] /\ t.shown[i] = s.shown[i]
SameBut(t, s, n) == \A i \in Ids \ {n} : SameNode(t, s, i)
SameNodes(t, s) == t.info = s.info /\ t.temp = s.temp /\ t.shown = s.shown
SameAdded(v, w) ==
  /\ v.valid = w.valid /\ v.ready = w.ready /\ v.generator = w.generator
  /\ v.frames = w.frames /\ v.index = w.index
SameData(v, w) == v.cur = w.cur /\ v.last = w.last /\ v.data = w.data

\* The fields of a state.
LEMMA PlayerFields ==
  ASSUME NEW s \in PlayerType
  PROVE  /\ s.status \in {"ok", "eof", "corrupt", "wild", "endless"} /\ s.repeat \in BOOLEAN
         /\ s.pos \in Nat /\ s.maxID \in Int /\ s.begun \in BOOLEAN /\ s.waits \in Seq(WaitType)
         /\ s.info \in [Ids -> NodeType] /\ s.temp \in [Ids -> Int] /\ s.shown \in [Ids -> ShownType]
         /\ \A i \in Ids :
              /\ s.info[i] \in NodeType /\ s.temp[i] \in Int /\ s.shown[i] \in ShownType
              /\ s.info[i].valid \in BOOLEAN /\ s.info[i].ready \in BOOLEAN
              /\ s.info[i].generator \in BOOLEAN /\ s.info[i].frames \in Nat /\ s.info[i].cur \in Nat
              /\ s.info[i].last \in Nat /\ s.info[i].data \in UndoType /\ s.info[i].prop \in UndoType
              /\ s.info[i].data.rec \in Nat /\ s.info[i].data.undo \in Nat
              /\ s.info[i].prop.rec \in Nat /\ s.info[i].prop.undo \in Nat
              /\ s.info[i].index \in Seq(EntryType)
              /\ s.shown[i].data \in Nat /\ s.shown[i].prop \in Nat
<1>1. /\ s.info \in [Ids -> NodeType] /\ s.temp \in [Ids -> Int] /\ s.shown \in [Ids -> ShownType]
      /\ s.status \in {"ok", "eof", "corrupt", "wild", "endless"} /\ s.repeat \in BOOLEAN
      /\ s.pos \in Nat /\ s.maxID \in Int /\ s.begun \in BOOLEAN /\ s.waits \in Seq(WaitType)
  BY DEF PlayerType
<1>2. \A v \in NodeType :
        /\ v.valid \in BOOLEAN /\ v.ready \in BOOLEAN /\ v.generator \in BOOLEAN /\ v.frames \in Nat
        /\ v.cur \in Nat /\ v.last \in Nat /\ v.data \in UndoType /\ v.prop \in UndoType
        /\ v.index \in Seq(EntryType)
  BY DEF NodeType
<1>3. \A u \in UndoType : u.rec \in Nat /\ u.undo \in Nat
  BY DEF UndoType
<1>4. \A x \in ShownType : x.data \in Nat /\ x.prop \in Nat
  BY DEF ShownType
<1> QED BY <1>1, <1>2, <1>3, <1>4

\* What is known of a node is replaced.
PutNode(s, n, v, w, x) == [s EXCEPT !.info[n] = v, !.temp[n] = w, !.shown[n] = x]

\* What replacing the parts of one node changes.
LEMMA NodeReplaced ==
  ASSUME NEW s \in PlayerType, NEW n \in Ids, NEW v \in NodeType, NEW w \in Int, NEW x \in ShownType
  PROVE  LET t == PutNode(s, n, v, w, x)
         IN  /\ t \in PlayerType /\ SameRest(t, s) /\ SameBut(t, s, n)
             /\ t.info[n] = v /\ t.temp[n] = w /\ t.shown[n] = x
<1> DEFINE t == PutNode(s, n, v, w, x)
<1>1. /\ t \in PlayerType /\ SameRest(t, s)
      /\ t.info = [s.info EXCEPT ![n] = v] /\ t.temp = [s.temp EXCEPT ![n] = w]
      /\ t.shown = [s.shown EXCEPT ![n] = x]
  BY DEF PlayerType, SameRest, PutNode
<1> HIDE DEF t
<1>2. s.info \in [Ids -> NodeType] /\ s.temp \in [Ids -> Int] /\ s.shown \in [Ids -> ShownType]
  BY PlayerFields
<1>3. t.info[n] = v /\ t.temp[n] = w /\ t.shown[n] = x
  BY <1>1, <1>2
<1>4. \A i \in Ids \ {n} : t.info[i] = s.info[i] /\ t.temp[i] = s.temp[i] /\ t.shown[i] = s.shown[i]
  BY <1>1, <1>2
<1> QED BY <1>1, <1>3, <1>4 DEF t, SameBut, SameNode

\* Of the rest, fields are replaced.
Placed(s, p) == [s EXCEPT !.pos = p]
Left(s) == [s EXCEPT !.waits = Tail(@)]
Begun(s) == [s EXCEPT !.begun = TRUE]
Ended(s) == [s EXCEPT !.status = "eof", !.pos = 0]

\* The place is replaced.
LEMMA PlaceReplaced ==
  ASSUME NEW s \in PlayerType, NEW p \in Nat
  PROVE  LET t == Placed(s, p) IN
         /\ t \in PlayerType /\ SameNodes(t, s) /\ t.pos = p /\ t.status = s.status
         /\ t.repeat = s.repeat /\ t.maxID = s.maxID /\ t.begun = s.begun /\ t.waits = s.waits
BY DEF PlayerType, SameNodes, Placed

\* The innermost loop is left.
LEMMA WaitLeft ==
  ASSUME NEW s \in PlayerType, s.waits # <<>>
  PROVE  LET t == Left(s) IN
         /\ t \in PlayerType /\ SameNodes(t, s) /\ t.pos = s.pos /\ t.status = s.status
         /\ t.repeat = s.repeat /\ t.maxID = s.maxID /\ t.begun = s.begun /\ t.waits = Tail(s.waits)
         /\ Len(t.waits) = Len(s.waits) - 1 /\ Len(s.waits) \in Nat \ {0} /\ Head(s.waits) = s.waits[1]
         /\ \A j \in 1..(Len(s.waits) - 1) : t.waits[j] = s.waits[j + 1]
<1>1. s.waits \in Seq(WaitType)
  BY PlayerFields
<1>2. /\ Tail(s.waits) \in Seq(WaitType) /\ Len(Tail(s.waits)) = Len(s.waits) - 1
      /\ Len(s.waits) \in Nat \ {0} /\ Head(s.waits) = s.waits[1]
      /\ \A j \in 1..(Len(s.waits) - 1) : Tail(s.waits)[j] = s.waits[j + 1]
  BY <1>1
<1> DEFINE v == Tail(s.waits)
<1> HIDE DEF v
<1>3. v \in Seq(WaitType) /\ Left(s) = [s EXCEPT !.waits = v]
  BY <1>2 DEF v, Left, PlayerType
<1>4. LET t == Left(s) IN
      /\ t \in PlayerType /\ SameNodes(t, s) /\ t.pos = s.pos /\ t.status = s.status
      /\ t.repeat = s.repeat /\ t.maxID = s.maxID /\ t.begun = s.begun /\ t.waits = v
  BY <1>3 DEF PlayerType, SameNodes
<1> QED BY <1>2, <1>4 DEF v

\* The first frame is reached.
LEMMA BeginReached ==
  ASSUME NEW s \in PlayerType
  PROVE  LET t == Begun(s) IN
         /\ t \in PlayerType /\ SameNodes(t, s) /\ t.pos = s.pos /\ t.status = s.status
         /\ t.repeat = s.repeat /\ t.maxID = s.maxID /\ t.begun = TRUE /\ t.waits = s.waits
BY DEF PlayerType, SameNodes, Begun

\* The end is reached.
LEMMA EndReached ==
  ASSUME NEW s \in PlayerType
  PROVE  LET t == Ended(s) IN
         /\ t \in PlayerType /\ SameNodes(t, s) /\ t.pos = 0 /\ t.status = "eof"
         /\ t.repeat = s.repeat /\ t.maxID = s.maxID /\ t.begun = s.begun /\ t.waits = s.waits
BY DEF PlayerType, SameNodes, Ended

\* A call failed.
LEMMA Failed ==
  ASSUME NEW s \in PlayerType
  PROVE  LET t == Fail(s) IN
         /\ t \in PlayerType /\ SameNodes(t, s) /\ t.pos = s.pos /\ t.status = "corrupt"
         /\ t.repeat = s.repeat /\ t.maxID = s.maxID /\ t.begun = s.begun /\ t.waits = s.waits
BY DEF PlayerType, SameNodes, Fail

\* A wait is put in front of the others.
LEMMA WaitAdded ==
  ASSUME NEW s \in PlayerType, NEW until \in {"ready", "first", "frame"}, NEW n \in Nat, NEW k \in Nat
  PROVE  LET t == Wait(s, until, n, k)
         IN  /\ t \in PlayerType /\ SameNodes(t, s) /\ t.pos = s.pos /\ t.status = s.status
             /\ t.repeat = s.repeat /\ t.maxID = s.maxID /\ t.begun = s.begun
             /\ t.waits = <<[until |-> until, node |-> n, num |-> k]>> \o s.waits
             /\ Len(t.waits) = Len(s.waits) + 1 /\ t.waits[1] = [until |-> until, node |-> n, num |-> k]
             /\ \A j \in 1..Len(s.waits) : t.waits[j + 1] = s.waits[j]
<1> DEFINE w == [until |-> until, node |-> n, num |-> k]
           v == <<w>> \o s.waits
<1>1. w \in WaitType
  BY DEF WaitType
<1>2. s.waits \in Seq(WaitType) /\ Len(s.waits) \in Nat
  BY PlayerFields, LenProperties
<1> HIDE DEF w
<1>3. <<w>> \in Seq(WaitType) /\ Len(<<w>>) = 1 /\ <<w>>[1] = w
  BY <1>1
<1>4. /\ v \in Seq(WaitType) /\ Len(v) = Len(s.waits) + 1 /\ v[1] = w
      /\ \A j \in 1..Len(s.waits) : v[j + 1] = s.waits[j]
  <2> DEFINE a == <<w>>
             b == s.waits
  <2>0. a \in Seq(WaitType) /\ Len(a) = 1 /\ a[1] = w /\ b \in Seq(WaitType) /\ Len(b) \in Nat
    BY <1>2, <1>3
  <2> HIDE DEF a, b
  <2>1. /\ a \o b \in Seq(WaitType) /\ Len(a \o b) = Len(a) + Len(b)
        /\ \A i \in 1..(Len(a) + Len(b)) : (a \o b)[i] = IF i <= Len(a) THEN a[i] ELSE b[i - Len(a)]
    BY <2>0, ConcatProperties
  <2>2. (a \o b)[1] = w
    BY <2>0, <2>1
  <2>3. ASSUME NEW j \in 1..Len(b) PROVE (a \o b)[j + 1] = b[j]
    <3>1. j + 1 \in 1..(Len(a) + Len(b)) /\ ~(j + 1 <= Len(a)) /\ (j + 1) - Len(a) = j
      BY <2>0
    <3> QED BY <2>1, <3>1
  <2> QED BY <2>0, <2>1, <2>2, <2>3 DEF a, b
<1>5. Wait(s, until, n, k) = [s EXCEPT !.waits = v]
  BY DEF Wait, w, PlayerType
<1> HIDE DEF v
<1>6. LET t == [s EXCEPT !.waits = v]
      IN  /\ t \in PlayerType /\ SameNodes(t, s) /\ t.pos = s.pos /\ t.status = s.status
          /\ t.repeat = s.repeat /\ t.maxID = s.maxID /\ t.begun = s.begun /\ t.waits = v
  BY <1>4 DEF PlayerType, SameNodes
<1> QED BY <1>4, <1>5, <1>6 DEF w, v

\* PlayerNodeInfo::Reset, and the record of a removal.
LEMMA BlankType == Blank \in NodeType /\ NoUndo \in UndoType /\ Nothing \in ShownType
<1>1. NoUndo \in UndoType /\ Nothing \in ShownType /\ <<>> \in Seq(EntryType)
  BY DEF NoUndo, UndoType, Nothing, ShownType
<1> HIDE DEF NoUndo
<1> QED BY <1>1 DEF Blank, NodeType

\* HandleNodeRemoved replaces the parts of its node.
LEMMA RemovedHandled ==
  ASSUME NEW s \in PlayerType, NEW n \in Ids
  PROVE  LET t == HandleNodeRemoved(s, n)
         IN  /\ t \in PlayerType /\ SameRest(t, s) /\ SameBut(t, s, n)
             /\ t.info[n] = Blank /\ t.temp[n] = TempAfterReset(s, n) /\ t.shown[n] = Nothing
<1> DEFINE w == TempAfterReset(s, n)
           a == [s EXCEPT !.shown[n] = Nothing]
<1>1. w \in Int
  BY PlayerFields DEF TempAfterReset, Freed
<1>2. TempAfterReset(a, n) = w /\ a \in PlayerType
  BY BlankType DEF TempAfterReset, PlayerType
<1>3. HandleNodeRemoved(s, n) = [a EXCEPT !.info[n] = Blank, !.temp[n] = TempAfterReset(a, n)]
  BY DEF HandleNodeRemoved, ResetInfo
<1> HIDE DEF w
<1>4. [a EXCEPT !.info[n] = Blank, !.temp[n] = w] = PutNode(s, n, Blank, w, Nothing)
  BY DEF PlayerType, PutNode
<1>5. HandleNodeRemoved(s, n) = PutNode(s, n, Blank, w, Nothing)
  BY <1>2, <1>3, <1>4
<1> HIDE DEF a
<1> QED BY <1>1, <1>5, BlankType, NodeReplaced DEF w

\* Rewind.
RewoundFrom(t, s) ==
  /\ t \in PlayerType /\ t.status = s.status /\ t.repeat = s.repeat /\ t.maxID = s.maxID
  /\ t.pos = 1 /\ t.begun = FALSE /\ t.shown = s.shown
  /\ \A i \in Ids : t.info[i] = Blank /\ t.temp[i] = TempAfterReset(s, i)
  /\ Len(t.waits) = Len(s.waits) + 1 /\ t.waits[1] = [until |-> "first", node |-> 0, num |-> 0]
  /\ \A j \in 1..Len(s.waits) : t.waits[j + 1] = s.waits[j]

\* Rewind blanks every node and waits for the first frame.
LEMMA Rewound ==
  ASSUME NEW s \in PlayerType
  PROVE  RewoundFrom(Rewind(s), s)
<1> DEFINE f == [n \in Ids |-> Blank]
           g == [n \in Ids |-> TempAfterReset(s, n)]
           a == [s EXCEPT !.info = f, !.temp = g, !.pos = 1, !.begun = FALSE]
<1>1. Rewind(s) = Wait(a, "first", 0, 0)
  BY DEF Rewind
<1>2. f \in [Ids -> NodeType] /\ \A n \in Ids : f[n] = Blank
  BY BlankType
<1>3. g \in [Ids -> Int] /\ \A n \in Ids : g[n] = TempAfterReset(s, n)
  BY PlayerFields DEF TempAfterReset, Freed
<1> HIDE DEF f, g
<1>4. /\ a \in PlayerType /\ a.info = f /\ a.temp = g
      /\ a.pos = 1 /\ a.begun = FALSE /\ a.status = s.status /\ a.repeat = s.repeat
      /\ a.maxID = s.maxID /\ a.shown = s.shown /\ a.waits = s.waits
  BY <1>2, <1>3 DEF PlayerType
<1> HIDE DEF a
<1>0. 0 \in Nat /\ "first" \in {"ready", "first", "frame"}
  OBVIOUS
<1>5. LET t == Wait(a, "first", 0, 0)
          w == [until |-> "first", node |-> 0, num |-> 0]
      IN  /\ t \in PlayerType /\ SameNodes(t, a) /\ t.pos = a.pos /\ t.status = a.status
          /\ t.repeat = a.repeat /\ t.maxID = a.maxID /\ t.begun = a.begun
          /\ t.waits = <<w>> \o a.waits /\ Len(t.waits) = Len(a.waits) + 1 /\ t.waits[1] = w
          /\ \A j \in 1..Len(a.waits) : t.waits[j + 1] = a.waits[j]
  BY <1>0, <1>4, WaitAdded, Zenon
<1> QED BY <1>1, <1>2, <1>3, <1>4, <1>5 DEF SameNodes, RewoundFrom

\* A property value, a frame, and the record that says that a node is ready.
LEMMA PropHandled ==
  ASSUME NEW s \in PlayerType, NEW r \in RecType, r.node \in Ids, NEW pos \in Nat
  PROVE  LET n == r.node
             t == HandleProp(s, r, pos)
         IN  /\ t \in PlayerType /\ SameRest(t, s) /\ SameBut(t, s, n) /\ t.temp[n] = s.temp[n]
             /\ SameAdded(t.info[n], s.info[n]) /\ SameData(t.info[n], s.info[n])
             /\ t.info[n].prop = [rec |-> pos, undo |-> r.undo]
             /\ t.shown[n].data = s.shown[n].data /\ t.shown[n].prop = pos
<1> DEFINE n == r.node
           u == [rec |-> pos, undo |-> r.undo]
           v == [s.info[n] EXCEPT !.prop = u]
           x == [s.shown[n] EXCEPT !.prop = pos]
<1>1. s.info[n] \in NodeType /\ s.shown[n] \in ShownType /\ u \in UndoType
  BY PlayerFields DEF RecType, UndoType
<1> HIDE DEF u
<1>2. /\ v \in NodeType /\ SameAdded(v, s.info[n]) /\ SameData(v, s.info[n]) /\ v.prop = u
  <2> DEFINE w == s.info[n]
  <2> HIDE DEF w
  <2>1. w \in NodeType
    BY <1>1 DEF w
  <2>2. LET z == [w EXCEPT !.prop = u] IN z \in NodeType /\ SameAdded(z, w) /\ SameData(z, w) /\ z.prop = u
    BY <1>1, <2>1 DEF NodeType, SameAdded, SameData
  <2> QED BY <2>2 DEF w
<1>3. x \in ShownType /\ x.data = s.shown[n].data /\ x.prop = pos
  BY <1>1 DEF ShownType
<1>4. HandleProp(s, r, pos) = PutNode(s, n, v, s.temp[n], x)
  BY DEF HandleProp, PlayerType, PutNode, u
<1>5. s.temp[n] \in Int
  BY PlayerFields
<1> HIDE DEF v, x
<1> QED BY <1>2, <1>3, <1>4, <1>5, NodeReplaced DEF u

\* HandleNewData sets the current frame of its node.
LEMMA DataHandled ==
  ASSUME NEW s \in PlayerType, NEW r \in RecType, r.node \in Ids, NEW pos \in Nat,
         NEW payload \in BOOLEAN, r.num <= s.info[r.node].frames
  PROVE  LET n == r.node
             t == HandleNewData(s, r, pos, payload)
         IN  /\ t \in PlayerType /\ SameRest(t, s) /\ SameBut(t, s, n) /\ t.temp[n] = s.temp[n]
             /\ SameAdded(t.info[n], s.info[n]) /\ t.info[n].prop = s.info[n].prop
             /\ t.info[n].last = pos /\ t.info[n].data = [rec |-> pos, undo |-> r.undo]
             /\ t.info[n].cur = r.num
             /\ t.shown[n].prop = s.shown[n].prop
             /\ t.shown[n].data = IF payload THEN pos ELSE s.shown[n].data
<1> DEFINE n == r.node
           u == [rec |-> pos, undo |-> r.undo]
           v == [s.info[n] EXCEPT !.last = pos, !.data = u, !.cur = r.num]
           x == [s.shown[n] EXCEPT !.data = IF payload THEN pos ELSE s.shown[n].data]
<1>1. s.info[n] \in NodeType /\ s.shown[n] \in ShownType /\ u \in UndoType /\ r.num \in Nat
  BY PlayerFields DEF RecType, UndoType
<1> HIDE DEF u
<1>2. /\ v \in NodeType /\ SameAdded(v, s.info[n]) /\ v.prop = s.info[n].prop
      /\ v.last = pos /\ v.data = u /\ v.cur = r.num
  <2> DEFINE w == s.info[n]
  <2> HIDE DEF w
  <2>1. w \in NodeType
    BY <1>1 DEF w
  <2>2. LET z == [w EXCEPT !.last = pos, !.data = u, !.cur = r.num]
        IN  /\ z \in NodeType /\ SameAdded(z, w) /\ z.prop = w.prop /\ z.last = pos /\ z.data = u
            /\ z.cur = r.num
    BY <1>1, <2>1 DEF NodeType, SameAdded
  <2> QED BY <2>2 DEF w
<1>3. x \in ShownType /\ x.prop = s.shown[n].prop /\ x.data = IF payload THEN pos ELSE s.shown[n].data
  BY <1>1 DEF ShownType
<1>4. HandleNewData(s, r, pos, payload) = PutNode(s, n, v, s.temp[n], x)
  <2>1. ~(r.num > s.info[n].frames)
    BY <1>1, PlayerFields
  <2>2. HandleNewData(s, r, pos, payload) =
          [s EXCEPT !.info[n].last = pos, !.info[n].data = u, !.info[n].cur = r.num,
                    !.shown[n].data = IF payload THEN pos ELSE s.shown[n].data]
    BY <2>1 DEF HandleNewData, u, PlayerType
  <2>3. n \in Ids /\ r.num \in Nat
    BY <1>1
  <2> DEFINE p == IF payload THEN pos ELSE s.shown[n].data
  <2> HIDE DEF n, p
  <2>4. [s EXCEPT !.info[n].last = pos, !.info[n].data = u, !.info[n].cur = r.num, !.shown[n].data = p]
          = [s EXCEPT !.info[n] = [s.info[n] EXCEPT !.last = pos, !.data = u, !.cur = r.num],
                      !.temp[n] = s.temp[n], !.shown[n] = [s.shown[n] EXCEPT !.data = p]]
    BY <2>3 DEF PlayerType
  <2> QED BY <2>2, <2>4 DEF PutNode, p
<1>5. s.temp[n] \in Int
  BY PlayerFields
<1> HIDE DEF v, x
<1> QED BY <1>2, <1>3, <1>4, <1>5, NodeReplaced DEF u

Readied(s, n) == [s EXCEPT !.info[n].ready = TRUE]

\* A ready record sets one field.
LEMMA ReadyHandled ==
  ASSUME NEW s \in PlayerType, NEW n \in Ids
  PROVE  LET t == Readied(s, n)
         IN  /\ t \in PlayerType /\ SameRest(t, s) /\ SameBut(t, s, n) /\ t.temp[n] = s.temp[n]
             /\ t.shown[n] = s.shown[n]
             /\ t.info[n].valid = s.info[n].valid /\ t.info[n].generator = s.info[n].generator
             /\ t.info[n].frames = s.info[n].frames /\ t.info[n].index = s.info[n].index
             /\ t.info[n].ready = TRUE /\ SameData(t.info[n], s.info[n])
             /\ t.info[n].prop = s.info[n].prop
<1> DEFINE t == Readied(s, n)
           v == [s.info[n] EXCEPT !.ready = TRUE]
<1>1. s.info[n] \in NodeType /\ s.shown[n] \in ShownType /\ s.temp[n] \in Int
  BY PlayerFields
<1>2. /\ v \in NodeType /\ v.valid = s.info[n].valid /\ v.generator = s.info[n].generator
      /\ v.frames = s.info[n].frames /\ v.index = s.info[n].index
      /\ v.ready = TRUE /\ SameData(v, s.info[n]) /\ v.prop = s.info[n].prop
  BY <1>1 DEF NodeType, SameData
<1>3. t = PutNode(s, n, v, s.temp[n], s.shown[n])
  BY DEF PlayerType, PutNode, Readied
<1> HIDE DEF v, t
<1>4. /\ t \in PlayerType /\ SameRest(t, s) /\ SameBut(t, s, n) /\ t.temp[n] = s.temp[n]
      /\ t.shown[n] = s.shown[n]
      /\ t.info[n].valid = s.info[n].valid /\ t.info[n].generator = s.info[n].generator
      /\ t.info[n].frames = s.info[n].frames /\ t.info[n].index = s.info[n].index
      /\ t.info[n].ready = TRUE /\ SameData(t.info[n], s.info[n])
      /\ t.info[n].prop = s.info[n].prop
  BY <1>1, <1>2, <1>3, NodeReplaced
<1> QED BY <1>4 DEF t

\* The record that adds a node, and its seek table.
AddedTo(t, s, r, pos) ==
  LET n == r.node
      w == [until |-> "ready", node |-> n, num |-> pos]
  IN  /\ t \in PlayerType /\ t.status = s.status /\ t.repeat = s.repeat /\ t.pos = s.pos
      /\ t.maxID = s.maxID /\ t.begun = s.begun
      /\ Len(t.waits) = Len(s.waits) + 1 /\ t.waits[1] = w
      /\ \A j \in 1..Len(s.waits) : t.waits[j + 1] = s.waits[j]
      /\ SameBut(t, s, n) /\ t.temp[n] = s.temp[n] /\ t.shown[n] = s.shown[n]
      /\ t.info[n].valid = TRUE /\ t.info[n].generator = (n \in Generators)
      /\ t.info[n].frames = (IF n \in Generators THEN r.num ELSE s.info[n].frames)
      /\ t.info[n].ready = s.info[n].ready /\ t.info[n].index = s.info[n].index
      /\ t.info[n].prop = s.info[n].prop /\ SameData(t.info[n], s.info[n])

\* HandleNodeAdded makes its node valid and waits until it is ready.
LEMMA AddedHandled ==
  ASSUME NEW s \in PlayerType, NEW r \in RecType, r.node \in Ids, NEW pos \in Nat
  PROVE  AddedTo(HandleNodeAdded(s, r, pos), s, r, pos)
<1> DEFINE n == r.node
           f == IF n \in Generators THEN r.num ELSE s.info[n].frames
           g == n \in Generators
           v == [s.info[n] EXCEPT !.valid = TRUE, !.generator = g, !.frames = f]
           a == [s EXCEPT !.info[n].valid = TRUE, !.info[n].generator = g, !.info[n].frames = f]
<1>1. /\ s.info[n] \in NodeType /\ s.shown[n] \in ShownType /\ s.temp[n] \in Int /\ f \in Nat /\ g \in BOOLEAN
      /\ n \in Nat
  BY PlayerFields DEF RecType
<1>0. HandleNodeAdded(s, r, pos) = Wait(a, "ready", n, pos)
  BY DEF HandleNodeAdded, PlayerType
<1> HIDE DEF f, g
<1>2. /\ v \in NodeType /\ v.valid = TRUE /\ v.generator = g /\ v.frames = f
      /\ v.ready = s.info[n].ready /\ v.index = s.info[n].index /\ v.prop = s.info[n].prop
      /\ SameData(v, s.info[n])
  <2> DEFINE w == s.info[n]
  <2> HIDE DEF w
  <2>1. w \in NodeType
    BY <1>1 DEF w
  <2>2. LET z == [w EXCEPT !.valid = TRUE, !.generator = g, !.frames = f]
        IN  /\ z \in NodeType /\ z.valid = TRUE /\ z.generator = g /\ z.frames = f /\ z.ready = w.ready
            /\ z.index = w.index /\ z.prop = w.prop /\ SameData(z, w)
    BY <1>1, <2>1 DEF NodeType, SameData
  <2> QED BY <2>2 DEF w
<1>3. a = PutNode(s, n, v, s.temp[n], s.shown[n])
  BY <1>1 DEF PlayerType, PutNode
<1> HIDE DEF v, a
<1>4. /\ a \in PlayerType /\ SameRest(a, s) /\ SameBut(a, s, n)
      /\ a.info[n] = v /\ a.temp[n] = s.temp[n] /\ a.shown[n] = s.shown[n]
  BY <1>1, <1>2, <1>3, NodeReplaced
<1>5. LET t == Wait(a, "ready", n, pos)
          w == [until |-> "ready", node |-> n, num |-> pos]
      IN  /\ t \in PlayerType /\ SameNodes(t, a) /\ t.pos = a.pos /\ t.status = a.status
          /\ t.repeat = a.repeat /\ t.maxID = a.maxID /\ t.begun = a.begun
          /\ t.waits = <<w>> \o a.waits
          /\ Len(t.waits) = Len(a.waits) + 1 /\ t.waits[1] = w
          /\ \A j \in 1..Len(a.waits) : t.waits[j + 1] = a.waits[j]
  BY <1>1, <1>4, WaitAdded
<1> QED BY <1>0, <1>2, <1>4, <1>5 DEF SameRest, SameNodes, SameBut, SameNode, f, g, AddedTo

\* A seek table is set.
LEMMA IndexSet ==
  ASSUME NEW s \in PlayerType, NEW n \in Ids, NEW ix \in Seq(EntryType)
  PROVE  LET t == [s EXCEPT !.info[n].index = ix]
         IN  /\ t \in PlayerType /\ SameRest(t, s) /\ SameBut(t, s, n) /\ t.temp[n] = s.temp[n]
             /\ t.shown[n] = s.shown[n]
             /\ t.info[n].valid = s.info[n].valid /\ t.info[n].generator = s.info[n].generator
             /\ t.info[n].frames = s.info[n].frames /\ t.info[n].ready = s.info[n].ready
             /\ t.info[n].index = ix /\ SameData(t.info[n], s.info[n])
             /\ t.info[n].prop = s.info[n].prop
<1> DEFINE t == [s EXCEPT !.info[n].index = ix]
           v == [s.info[n] EXCEPT !.index = ix]
<1>1. s.info[n] \in NodeType /\ s.shown[n] \in ShownType /\ s.temp[n] \in Int
  BY PlayerFields
<1>2. /\ v \in NodeType /\ v.valid = s.info[n].valid /\ v.generator = s.info[n].generator
      /\ v.frames = s.info[n].frames /\ v.ready = s.info[n].ready
      /\ v.index = ix /\ SameData(v, s.info[n]) /\ v.prop = s.info[n].prop
  BY <1>1 DEF NodeType, SameData
<1>3. t = PutNode(s, n, v, s.temp[n], s.shown[n])
  BY DEF PlayerType, PutNode
<1> HIDE DEF v, t
<1>4. /\ t \in PlayerType /\ SameRest(t, s) /\ SameBut(t, s, n) /\ t.temp[n] = s.temp[n]
      /\ t.shown[n] = s.shown[n]
      /\ t.info[n].valid = s.info[n].valid /\ t.info[n].generator = s.info[n].generator
      /\ t.info[n].frames = s.info[n].frames /\ t.info[n].ready = s.info[n].ready
      /\ t.info[n].index = ix /\ SameData(t.info[n], s.info[n])
      /\ t.info[n].prop = s.info[n].prop
  BY <1>1, <1>2, <1>3, NodeReplaced
<1> QED BY <1>4 DEF t

-----------------------------------------------------------------------------
(* What a state of the player has to do with the file *)

\* The file is as the recorder's steps make it.
FileOk == RecorderInv /\ FileShape

\* Place k is that of a record of a type and a node.
At(type, i, k) == k \in 1..Len(file) /\ file[k].type = type /\ file[k].node = i

\* Of node i, what its info v and its entry w of the temp array tell of the file.
DataKnown(i, v) ==
  /\ v.last = v.data.rec
  /\ v.data # NoUndo => /\ At("data", i, v.data.rec) /\ v.data.undo = file[v.data.rec].undo
                        /\ v.cur = file[v.data.rec].num
PropKnown(i, v) ==
  v.prop # NoUndo => At("prop", i, v.prop.rec) /\ v.prop.undo = file[v.prop.rec].undo
IndexKnown(i, v) ==
  v.index # <<>> => /\ IsIndexOf(file, v.index, i) /\ Len(v.index) = v.frames
                    /\ \A k \in 1..Len(v.index) : v.index[k].pos \in 1..Len(file)
AddedKnown(i, v) ==
  /\ v.frames # 0 => v.generator /\ \E a \in 1..Len(file) : At("added", i, a) /\ v.frames = file[a].num
  /\ v.cur <= v.frames
  /\ v.generator => v.valid /\ i \in Generators
  /\ v.valid /\ i \in Generators => v.generator
TempKnown(i, w) ==
  /\ w \in {Null, Freed, 0} \/ At("data", i, w)
  /\ w # Null => \E k \in 1..Len(file) : At("data", i, k)
Known(i, v, w) ==
  DataKnown(i, v) /\ PropKnown(i, v) /\ IndexKnown(i, v) /\ AddedKnown(i, v) /\ TempKnown(i, w)

WaitKnown(w) ==
  /\ w.until = "ready" => w.node \in Ids /\ At("added", w.node, w.num)
  /\ w.until = "frame" => w.node \in Ids

Sound(s) ==
  /\ s \in PlayerType /\ s.maxID = header /\ s.pos \in 0..(Len(file) + 1)
  /\ \A i \in Ids : Known(i, s.info[i], s.temp[i])
  /\ \A i \in Ids : s.shown[i].data \in 0..Len(file) /\ s.shown[i].prop \in 0..Len(file)
  /\ \A j \in 1..Len(s.waits) : WaitKnown(s.waits[j])

\* Before the end, unless nothing is played.
BeforeEnd(s) == Ok(s) => \A e \in 1..Len(file) : file[e].type = "end" => s.pos <= e

States == {s \in PlayerType : Sound(s) /\ BeforeEnd(s)}

\* What of a record is used.
LEMMA FileFacts ==
  ASSUME FileOk
  PROVE  /\ Len(file) \in Nat /\ DOMAIN file = 1..Len(file)
         /\ \A k \in 1..Len(file) :
              /\ file[k] \in RecType /\ file[k].undo \in Nat /\ file[k].num \in Nat /\ file[k].node \in Nat
              /\ file[k].table \in Nat /\ file[k].index \in Seq(EntryType)
              /\ file[k].type \in {"added", "prop", "ready", "begin", "data", "removed", "table", "end"}
              /\ file[k].type # "end" => file[k].node \in Ids
              /\ file[k].type \in {"prop", "data"} =>
                   IsLastRec(file, file[k].type, file[k].node, k, file[k].undo)
<1>1. /\ Len(file) \in Nat /\ DOMAIN file = 1..Len(file)
      /\ \A k \in 1..Len(file) : file[k] \in RecType
  BY FieldTypes DEF FileOk, RecorderInv
<1>2. \A r \in RecType :
        /\ r.undo \in Nat /\ r.num \in Nat /\ r.node \in Nat /\ r.table \in Nat /\ r.index \in Seq(EntryType)
        /\ r.type \in {"added", "prop", "ready", "begin", "data", "removed", "table", "end"}
  BY DEF RecType
<1>3. numNodes \in Nat /\ numNodes <= MaxNodes /\ MaxNodes \in Nat
  BY RecorderAssumption DEF FileOk, RecorderInv, RecorderTypes, FileShape, NodesAdded
<1>4. \A k \in 1..Len(file) : file[k].type # "end" => file[k].node \in 1..numNodes
  BY DEF FileOk, FileShape, NodesAdded
<1>5. \A k \in 1..Len(file) : file[k].type # "end" => file[k].node \in Ids
  BY <1>3, <1>4 DEF Ids
<1>6. \A k \in 1..Len(file) : file[k].type \in {"prop", "data"} =>
         IsLastRec(file, file[k].type, file[k].node, k, file[k].undo)
  BY DEF FileOk, RecorderInv, UndosExact
<1> QED BY <1>1, <1>2, <1>5, <1>6

\* The header is not the place of a record, and the records of a node are not
\* of another.
LEMMA BlankKnown ==
  ASSUME NEW i
  PROVE  /\ Known(i, Blank, Null) /\ DataKnown(i, Blank) /\ PropKnown(i, Blank)
         /\ IndexKnown(i, Blank) /\ AddedKnown(i, Blank)
<1>1. /\ Blank.valid = FALSE /\ Blank.generator = FALSE /\ Blank.frames = 0 /\ Blank.cur = 0
      /\ Blank.last = 0 /\ Blank.data = NoUndo /\ Blank.prop = NoUndo /\ Blank.index = <<>>
      /\ NoUndo.rec = 0
  BY DEF Blank, NoUndo
<1> QED BY <1>1 DEF Known, DataKnown, PropKnown, IndexKnown, AddedKnown, TempKnown

\* A reset leaves the entry of the temp array, or makes it point to what was freed.
LEMMA ResetKnown ==
  ASSUME NEW s, NEW i, TempKnown(i, s.temp[i])
  PROVE  Known(i, Blank, TempAfterReset(s, i))
<1>1. TempKnown(i, TempAfterReset(s, i))
  BY DEF TempKnown, TempAfterReset
<1> QED BY <1>1, BlankKnown DEF Known

\* Only what is known of node n, and the waits, may have changed.
LEMMA SoundBut ==
  ASSUME NEW s, Sound(s), NEW t \in PlayerType, NEW n \in Ids, SameBut(t, s, n),
         t.maxID = s.maxID, t.pos = s.pos, t.waits = s.waits, Known(n, t.info[n], t.temp[n]),
         t.shown[n].data \in 0..Len(file), t.shown[n].prop \in 0..Len(file)
  PROVE  Sound(t)
<1>1. \A i \in Ids : Known(i, t.info[i], t.temp[i])
  BY DEF Sound, SameBut, SameNode
<1>2. \A i \in Ids : t.shown[i].data \in 0..Len(file) /\ t.shown[i].prop \in 0..Len(file)
  BY DEF Sound, SameBut, SameNode
<1> QED BY <1>1, <1>2 DEF Sound

\* Only the rest changed.
LEMMA SoundRest ==
  ASSUME NEW s, Sound(s), NEW t \in PlayerType, SameNodes(t, s), t.maxID = s.maxID,
         t.pos \in 0..(Len(file) + 1), t.waits = s.waits
  PROVE  Sound(t)
BY DEF Sound, SameNodes

\* A failure changes nothing that the file is compared with.
LEMMA FailSound ==
  ASSUME NEW s, Sound(s)
  PROVE  Sound(Fail(s)) /\ ~Ok(Fail(s))
BY Failed, SoundRest DEF Sound, Ok

\* A wait in front is known as well.
LEMMA WaitsKnown ==
  ASSUME NEW s, \A j \in 1..Len(s.waits) : WaitKnown(s.waits[j]), s.waits \in Seq(WaitType),
         NEW v \in Seq(WaitType), Len(v) = Len(s.waits) + 1, WaitKnown(v[1]),
         \A j \in 1..Len(s.waits) : v[j + 1] = s.waits[j]
  PROVE  \A j \in 1..Len(v) : WaitKnown(v[j])
<1>1. Len(s.waits) \in Nat
  BY LenProperties
<1>2. ASSUME NEW j \in 1..Len(v), j # 1 PROVE WaitKnown(v[j])
  <2>1. j - 1 \in 1..Len(s.waits) /\ (j - 1) + 1 = j
    BY <1>1, <1>2
  <2>2. v[(j - 1) + 1] = s.waits[j - 1]
    BY <2>1
  <2> QED BY <2>1, <2>2
<1> QED BY <1>2

-----------------------------------------------------------------------------
(* Handling one record *)

\* A property record keeps the state sound.
LEMMA PropSound ==
  ASSUME FileOk, NEW s, Sound(s), NEW k \in 1..Len(file), file[k].type = "prop"
  PROVE  Sound(HandleProp(s, file[k], k))
<1> DEFINE r == file[k]
           n == file[k].node
           t == HandleProp(s, file[k], k)
<1>1. r \in RecType /\ n \in Ids /\ k \in Nat /\ s \in PlayerType
  BY FileFacts DEF Sound
<1>2. /\ t \in PlayerType /\ SameRest(t, s) /\ SameBut(t, s, n) /\ t.temp[n] = s.temp[n]
      /\ SameAdded(t.info[n], s.info[n]) /\ SameData(t.info[n], s.info[n])
      /\ t.info[n].prop = [rec |-> k, undo |-> r.undo]
      /\ t.shown[n].data = s.shown[n].data /\ t.shown[n].prop = k
  BY <1>1, PropHandled
<1> HIDE DEF t
<1>3. Known(n, s.info[n], s.temp[n]) /\ s.shown[n].data \in 0..Len(file) /\ k \in 0..Len(file)
  BY <1>1, FileFacts DEF Sound
<1>4. PropKnown(n, t.info[n])
  BY <1>2 DEF PropKnown, At
<1>5. Known(n, t.info[n], t.temp[n])
  BY <1>2, <1>3, <1>4 DEF Known, DataKnown, IndexKnown, AddedKnown, SameAdded, SameData
<1> QED BY <1>1, <1>2, <1>3, <1>5, SoundBut DEF SameRest, t

\* A data record does.
LEMMA DataSound ==
  ASSUME FileOk, NEW s, Sound(s), NEW k \in 1..Len(file), file[k].type = "data",
         NEW payload \in BOOLEAN
  PROVE  Sound(HandleNewData(s, file[k], k, payload))
<1> DEFINE r == file[k]
           n == file[k].node
           t == HandleNewData(s, file[k], k, payload)
<1>1. r \in RecType /\ n \in Ids /\ k \in Nat /\ s \in PlayerType /\ r.num \in Nat /\ s.info[n].frames \in Nat
  BY FileFacts, PlayerFields DEF Sound
<1>2. CASE r.num > s.info[n].frames
  <2>1. t = Fail(s)
    BY <1>2 DEF HandleNewData
  <2> QED BY <2>1, FailSound
<1>3. CASE r.num <= s.info[n].frames
  <2>2. /\ t \in PlayerType /\ SameRest(t, s) /\ SameBut(t, s, n) /\ t.temp[n] = s.temp[n]
        /\ SameAdded(t.info[n], s.info[n]) /\ t.info[n].prop = s.info[n].prop
        /\ t.info[n].last = k /\ t.info[n].data = [rec |-> k, undo |-> r.undo]
        /\ t.info[n].cur = r.num
        /\ t.shown[n].prop = s.shown[n].prop
        /\ t.shown[n].data = IF payload THEN k ELSE s.shown[n].data
    BY <1>1, <1>3, DataHandled
  <2> HIDE DEF t
  <2>3. /\ Known(n, s.info[n], s.temp[n]) /\ s.shown[n].data \in 0..Len(file) /\ k \in 0..Len(file)
        /\ s.shown[n].prop \in 0..Len(file)
    BY <1>1, FileFacts DEF Sound
  <2>4. DataKnown(n, t.info[n])
    BY <2>2 DEF DataKnown, At
  <2>5. Known(n, t.info[n], t.temp[n])
    BY <1>3, <2>2, <2>3, <2>4 DEF Known, PropKnown, IndexKnown, AddedKnown, SameAdded
  <2> QED BY <1>1, <2>2, <2>3, <2>5, SoundBut DEF SameRest, t
<1> QED BY <1>1, <1>2, <1>3

\* An added record does.
LEMMA AddedSound ==
  ASSUME FileOk, NEW s, Sound(s), NEW k \in 1..Len(file), file[k].type = "added"
  PROVE  Sound(HandleNodeAdded(s, file[k], k))
<1> DEFINE r == file[k]
           n == file[k].node
           t == HandleNodeAdded(s, file[k], k)
           w == [until |-> "ready", node |-> n, num |-> k]
<1>1. r \in RecType /\ n \in Ids /\ k \in Nat /\ s \in PlayerType /\ s.waits \in Seq(WaitType)
  BY FileFacts, PlayerFields DEF Sound
<1>2. /\ t \in PlayerType /\ t.pos = s.pos /\ t.maxID = s.maxID
      /\ Len(t.waits) = Len(s.waits) + 1 /\ t.waits[1] = w
      /\ \A j \in 1..Len(s.waits) : t.waits[j + 1] = s.waits[j]
      /\ SameBut(t, s, n) /\ t.temp[n] = s.temp[n] /\ t.shown[n] = s.shown[n]
      /\ t.info[n].valid = TRUE /\ t.info[n].generator = (n \in Generators)
      /\ t.info[n].frames = (IF n \in Generators THEN r.num ELSE s.info[n].frames)
      /\ t.info[n].ready = s.info[n].ready /\ t.info[n].index = s.info[n].index
      /\ t.info[n].prop = s.info[n].prop /\ SameData(t.info[n], s.info[n])
  <2>1. AddedTo(t, s, r, k)
    BY <1>1, AddedHandled
  <2> HIDE DEF t
  <2> QED BY <2>1 DEF AddedTo
<1> HIDE DEF t
<1>3. t.waits \in Seq(WaitType)
  BY <1>2, PlayerFields
<1>4. WaitKnown(t.waits[1])
  BY <1>1, <1>2 DEF WaitKnown, At
<1>5. \A j \in 1..Len(t.waits) : WaitKnown(t.waits[j])
  BY <1>1, <1>2, <1>3, <1>4, WaitsKnown DEF Sound
<1>6. Known(n, s.info[n], s.temp[n])
  BY <1>1 DEF Sound
<1>7. /\ s.info[n].frames \in Nat /\ s.info[n].cur \in Nat /\ r.num \in Nat
      /\ s.info[n].index \in Seq(EntryType)
  BY <1>1, PlayerFields, FileFacts
<1>8. s.info[n].frames # 0 => s.info[n].frames = r.num /\ n \in Generators
  <2> SUFFICES ASSUME s.info[n].frames # 0 PROVE s.info[n].frames = r.num /\ n \in Generators
    OBVIOUS
  <2>1. n \in Generators /\ \E a \in 1..Len(file) : At("added", n, a) /\ s.info[n].frames = file[a].num
    BY <1>6 DEF Known, AddedKnown
  <2>2. PICK a \in 1..Len(file) : At("added", n, a) /\ s.info[n].frames = file[a].num
    BY <2>1
  <2>3. a = k
    BY <2>2 DEF FileOk, FileShape, NodesAdded, At
  <2> QED BY <2>1, <2>2, <2>3
<1>9. AddedKnown(n, t.info[n])
  <2>1. At("added", n, k)
    BY DEF At
  <2> DEFINE v == s.info[n]
             z == t.info[n]
  <2>2. /\ z.valid = TRUE /\ z.generator = (n \in Generators) /\ z.cur = v.cur
        /\ z.frames = (IF n \in Generators THEN r.num ELSE v.frames)
    BY <1>2 DEF SameData
  <2>3. v.cur <= v.frames
    BY <1>6 DEF Known, AddedKnown
  <2>4. z.cur <= z.frames
    <3>1. CASE v.frames = 0
      BY <1>7, <2>2, <2>3, <3>1
    <3>2. CASE v.frames # 0
      BY <1>8, <2>2, <2>3, <3>2
    <3> QED BY <3>1, <3>2
  <2>5. z.frames # 0 => n \in Generators /\ z.frames = r.num
    BY <1>8, <2>2
  <2> QED BY <2>1, <2>2, <2>4, <2>5 DEF AddedKnown
<1>10. IndexKnown(n, t.info[n])
  <2> SUFFICES ASSUME t.info[n].index # <<>> PROVE IndexKnown(n, t.info[n])
    BY DEF IndexKnown
  <2>1. Len(s.info[n].index) = s.info[n].frames /\ Len(s.info[n].index) # 0
    BY <1>2, <1>6, <1>7, EmptySeq DEF Known, IndexKnown
  <2> QED BY <1>2, <1>6, <1>8, <2>1 DEF Known, IndexKnown
<1>11. Known(n, t.info[n], t.temp[n])
  BY <1>2, <1>6, <1>9, <1>10 DEF Known, DataKnown, PropKnown, SameData
<1>12. \A i \in Ids : Known(i, t.info[i], t.temp[i])
  BY <1>2, <1>11 DEF Sound, SameBut, SameNode
<1>13. \A i \in Ids : t.shown[i].data \in 0..Len(file) /\ t.shown[i].prop \in 0..Len(file)
  BY <1>2 DEF Sound, SameBut, SameNode
<1> QED BY <1>2, <1>5, <1>12, <1>13 DEF Sound, t

\* A seek table that is loaded does.
LEMMA IndexSound ==
  ASSUME FileOk, NEW s, Sound(s), NEW n \in Ids, NEW k, At("added", n, k)
  PROVE  Sound(LoadIndex(s, file[k]))
<1> DEFINE r == file[k]
           ix == file[r.table].index
           t == [s EXCEPT !.info[n].index = ix]
<1>1. k \in 1..Len(file) /\ r.node = n /\ r.type = "added" /\ s \in PlayerType
  BY DEF At, Sound
<1>2. CASE r.num = 0 \/ r.table = 0
  BY <1>2 DEF LoadIndex
<1>3. CASE ~(r.num = 0 \/ r.table = 0) /\ Len(ix) # s.info[n].frames
  <2>1. LoadIndex(s, r) = Fail(s)
    BY <1>1, <1>3 DEF LoadIndex
  <2> QED BY <2>1, FailSound
<1>4. CASE ~(r.num = 0 \/ r.table = 0) /\ Len(ix) = s.info[n].frames
  <2>1. LoadIndex(s, r) = t
    BY <1>1, <1>4 DEF LoadIndex
  <2>2. HasTable(r)
    BY <1>1, <1>4 DEF HasTable
  <2>3. r.table \in 1..Len(file)
    BY <1>1, <2>2 DEF FileOk, RecorderInv, TablesKept
  <2>4. IsIndexOf(file, ix, n)
    BY <1>1, <2>2, FileFacts DEF FileOk, RecorderInv, TablesExact
  <2>5. ix \in Seq(EntryType) /\ \A j \in DOMAIN ix : ix[j].pos \in 1..Len(file)
    BY <2>3, IndexPlaces DEF FileOk, RecorderInv
  <2>6. DOMAIN ix = 1..Len(ix)
    BY <2>5, LenProperties
  <2> HIDE DEF ix
  <2>7. /\ t \in PlayerType /\ SameRest(t, s) /\ SameBut(t, s, n) /\ t.temp[n] = s.temp[n]
        /\ t.shown[n] = s.shown[n]
        /\ t.info[n].valid = s.info[n].valid /\ t.info[n].generator = s.info[n].generator
        /\ t.info[n].frames = s.info[n].frames /\ t.info[n].ready = s.info[n].ready
        /\ t.info[n].index = ix /\ SameData(t.info[n], s.info[n])
        /\ t.info[n].prop = s.info[n].prop
    BY <1>1, <2>5, IndexSet
  <2> HIDE DEF t
  <2>8. IndexKnown(n, t.info[n])
    BY <1>4, <2>4, <2>5, <2>6, <2>7 DEF IndexKnown
  <2>9. Known(n, t.info[n], t.temp[n])
    BY <2>7, <2>8 DEF Sound, Known, DataKnown, PropKnown, AddedKnown, SameData
  <2>10. t.shown[n].data \in 0..Len(file) /\ t.shown[n].prop \in 0..Len(file)
    BY <2>7 DEF Sound
  <2> QED BY <2>1, <2>7, <2>9, <2>10, SoundBut DEF SameRest
<1> QED BY <1>2, <1>3, <1>4

\* Going back to the start does.
LEMMA RewindSound ==
  ASSUME FileOk, NEW s, Sound(s)
  PROVE  Sound(Rewind(s))
<1> DEFINE t == Rewind(s)
<1>1. s \in PlayerType /\ s.waits \in Seq(WaitType) /\ Len(file) \in Nat
  BY FileFacts, PlayerFields DEF Sound
<1>2. /\ t \in PlayerType /\ t.status = s.status /\ t.repeat = s.repeat /\ t.maxID = s.maxID
      /\ t.pos = 1 /\ t.begun = FALSE /\ t.shown = s.shown
      /\ \A i \in Ids : t.info[i] = Blank /\ t.temp[i] = TempAfterReset(s, i)
      /\ Len(t.waits) = Len(s.waits) + 1 /\ t.waits[1] = [until |-> "first", node |-> 0, num |-> 0]
      /\ \A j \in 1..Len(s.waits) : t.waits[j + 1] = s.waits[j]
  BY <1>1, Rewound DEF RewoundFrom
<1> HIDE DEF t
<1>3. WaitKnown(t.waits[1]) /\ t.waits \in Seq(WaitType)
  BY <1>2, PlayerFields DEF WaitKnown
<1>4. \A j \in 1..Len(t.waits) : WaitKnown(t.waits[j])
  BY <1>1, <1>2, <1>3, WaitsKnown DEF Sound
<1>5. \A i \in Ids : Known(i, t.info[i], t.temp[i])
  <2> TAKE i \in Ids
  <2>1. TempKnown(i, s.temp[i])
    BY DEF Sound, Known
  <2> QED BY <1>2, <2>1, ResetKnown
<1>6. \A i \in Ids : t.shown[i].data \in 0..Len(file) /\ t.shown[i].prop \in 0..Len(file)
  BY <1>2 DEF Sound
<1>7. 1 \in 0..(Len(file) + 1)
  BY <1>1
<1> QED BY <1>2, <1>4, <1>5, <1>6, <1>7 DEF Sound, t

\* A removed record does.
LEMMA RemovedSound ==
  ASSUME FileOk, NEW s, Sound(s), NEW n \in Ids
  PROVE  Sound(HandleNodeRemoved(s, n))
<1> DEFINE t == HandleNodeRemoved(s, n)
<1>1. s \in PlayerType /\ Len(file) \in Nat
  BY FileFacts DEF Sound
<1>2. /\ t \in PlayerType /\ SameRest(t, s) /\ SameBut(t, s, n)
      /\ t.info[n] = Blank /\ t.temp[n] = TempAfterReset(s, n) /\ t.shown[n] = Nothing
  BY <1>1, RemovedHandled
<1> HIDE DEF t
<1>3. Nothing.data = 0 /\ Nothing.prop = 0 /\ 0 \in 0..Len(file)
  BY <1>1 DEF Nothing
<1>4. Known(n, t.info[n], t.temp[n])
  <2>1. TempKnown(n, s.temp[n])
    BY DEF Sound, Known
  <2> QED BY <1>2, <2>1, ResetKnown
<1> QED BY <1>2, <1>3, <1>4, SoundBut DEF SameRest, t

\* Handling any record leaves a sound state.
LEMMA HandledSound ==
  ASSUME FileOk, NEW s, Sound(s), NEW k \in 1..Len(file), NEW payload \in BOOLEAN
  PROVE  Sound(HandleRecord(s, file[k], k, payload))
<1> DEFINE r == file[k]
           t == HandleRecord(s, r, k, payload)
<1>1. /\ s \in PlayerType /\ Len(file) \in Nat
      /\ r.type # "end" => r.node \in Ids
      /\ r.type \in {"added", "prop", "ready", "begin", "data", "removed", "table", "end"}
  BY FileFacts DEF Sound
<1>2. Sound(Fail(s))
  BY FailSound
<1>3. CASE r.type = "end"
  <2>1. t = HandleEnd(s)
    BY <1>3 DEF HandleRecord
  <2> DEFINE e == Ended(s)
  <2>2. e \in PlayerType /\ SameNodes(e, s) /\ e.maxID = s.maxID /\ e.pos = 0 /\ e.waits = s.waits
    BY <1>1, EndReached
  <2>3. 0 \in 0..(Len(file) + 1)
    BY <1>1
  <2>4. Sound(e)
    BY <2>2, <2>3, SoundRest
  <2> QED BY <1>2, <2>1, <2>4, RewindSound DEF HandleEnd, Ended
<1>4. CASE r.type = "table"
  BY <1>4 DEF HandleRecord
<1>5. CASE r.type = "added"
  <2>1. t = Fail(s) \/ t = HandleNodeAdded(s, r, k)
    BY <1>5 DEF HandleRecord
  <2> QED BY <1>2, <1>5, <2>1, AddedSound
<1>6. CASE r.type \in {"prop", "ready", "begin", "data", "removed"}
  <2>0. CASE r.node > s.maxID \/ ~s.info[r.node].valid
    BY <1>2, <1>6, <2>0 DEF HandleRecord
  <2> SUFFICES ASSUME ~(r.node > s.maxID \/ ~s.info[r.node].valid) PROVE Sound(t)
    BY <2>0
  <2>1. CASE r.type = "prop"
    <3>1. t = HandleProp(s, r, k)
      BY <2>1 DEF HandleRecord
    <3> QED BY <2>1, <3>1, PropSound
  <2>2. CASE r.type = "ready"
    <3> DEFINE n == r.node
               u == Readied(s, n)
    <3>1. t = u
      BY <2>2 DEF HandleRecord, Readied
    <3>2. /\ u \in PlayerType /\ SameRest(u, s) /\ SameBut(u, s, n) /\ u.temp[n] = s.temp[n]
          /\ u.shown[n] = s.shown[n]
          /\ u.info[n].valid = s.info[n].valid /\ u.info[n].generator = s.info[n].generator
          /\ u.info[n].frames = s.info[n].frames /\ u.info[n].index = s.info[n].index
          /\ u.info[n].ready = TRUE /\ SameData(u.info[n], s.info[n])
          /\ u.info[n].prop = s.info[n].prop
      BY <1>1, <1>6, ReadyHandled
    <3> HIDE DEF u
    <3>3. n \in Ids /\ Known(n, s.info[n], s.temp[n]) /\ s.shown[n].data \in 0..Len(file)
          /\ s.shown[n].prop \in 0..Len(file)
      BY <1>1, <1>6 DEF Sound
    <3>4. Known(n, u.info[n], u.temp[n])
      BY <3>2, <3>3 DEF Known, DataKnown, PropKnown, IndexKnown, AddedKnown, SameData
    <3>5. Sound(u)
      BY <3>2, <3>3, <3>4, SoundBut DEF SameRest
    <3> QED BY <3>1, <3>5
  <2>3. CASE r.type = "begin"
    <3> DEFINE u == Begun(s)
    <3>1. t = u
      BY <2>3 DEF HandleRecord, Begun
    <3>2. u \in PlayerType /\ SameNodes(u, s) /\ u.maxID = s.maxID /\ u.pos = s.pos /\ u.waits = s.waits
      BY <1>1, BeginReached
    <3> QED BY <3>1, <3>2, SoundRest DEF Sound
  <2>4. CASE r.type = "data"
    <3>1. t = HandleNewData(s, r, k, payload)
      BY <2>4 DEF HandleRecord
    <3> QED BY <2>4, <3>1, DataSound
  <2>5. CASE r.type = "removed"
    <3>1. t = HandleNodeRemoved(s, r.node)
      BY <2>5 DEF HandleRecord
    <3>2. r.node \in Ids
      BY <1>1, <1>6
    <3> QED BY <3>1, <3>2, RemovedSound
  <2> QED BY <1>6, <2>1, <2>2, <2>3, <2>4, <2>5
<1> QED BY <1>1, <1>3, <1>4, <1>5, <1>6

-----------------------------------------------------------------------------
(* Handling one record after the other *)

\* What handling the record at place k may come to.
EndCase(s, t, r) ==
  /\ r.type = "end" /\ s.begun
  /\ t = Ended(s) \/ (s.repeat /\ t = Rewind(s))
AddedCase(s, t, r, k) ==
  r.type = "added" /\ r.node \in Ids /\ r.node <= s.maxID /\ t = HandleNodeAdded(s, r, k)
NodeCase(s, t, r, k, payload) ==
  /\ r.node \in Ids /\ r.node <= s.maxID /\ s.info[r.node].valid
  /\ \/ r.type = "prop" /\ t = HandleProp(s, r, k)
     \/ r.type = "ready" /\ t = Readied(s, r.node)
     \/ r.type = "begin" /\ t = Begun(s)
     \/ r.type = "data" /\ r.num <= s.info[r.node].frames /\ t = HandleNewData(s, r, k, payload)
     \/ r.type = "removed" /\ t = HandleNodeRemoved(s, r.node)

\* The cases of HandleRecord.
LEMMA HandledCases ==
  ASSUME NEW s \in PlayerType, NEW r \in RecType, r.type # "end" => r.node \in Ids, NEW k, NEW payload
  PROVE  LET t == HandleRecord(s, r, k, payload)
         IN  \/ t = Fail(s)
             \/ r.type = "table" /\ t = s
             \/ EndCase(s, t, r)
             \/ AddedCase(s, t, r, k)
             \/ NodeCase(s, t, r, k, payload)
<1> DEFINE t == HandleRecord(s, r, k, payload)
<1>1. /\ r.type \in {"added", "prop", "ready", "begin", "data", "removed", "table", "end"}
      /\ r.node \in Nat /\ r.num \in Nat
  BY DEF RecType
<1>2. CASE r.type = "end"
  <2>1. t = HandleEnd(s)
    BY <1>2 DEF HandleRecord
  <2>2. \/ HandleEnd(s) = Fail(s)
        \/ s.begun /\ (HandleEnd(s) = Ended(s) \/ (s.repeat /\ HandleEnd(s) = Rewind(s)))
    BY DEF HandleEnd, Ended
  <2> QED BY <1>2, <2>1, <2>2 DEF EndCase
<1>3. CASE r.type = "table"
  BY <1>3 DEF HandleRecord
<1>4. CASE r.type = "added"
  <2>1. t = IF r.node > s.maxID THEN Fail(s) ELSE HandleNodeAdded(s, r, k)
    BY <1>4 DEF HandleRecord
  <2>2. r.node > s.maxID \/ r.node <= s.maxID
    BY <1>1, PlayerFields
  <2> HIDE DEF t
  <2> QED BY <1>4, <2>1, <2>2 DEF AddedCase, t
<1>5. CASE r.type \in {"prop", "ready", "begin", "data", "removed"}
  <2>0. CASE r.node > s.maxID \/ ~s.info[r.node].valid
    <3>1. t = Fail(s)
      BY <1>5, <2>0 DEF HandleRecord
    <3> QED BY <3>1
  <2>1. CASE ~(r.node > s.maxID \/ ~s.info[r.node].valid)
    <3>1. r.node \in Ids /\ r.node <= s.maxID /\ s.info[r.node].valid
      BY <1>1, <1>5, <2>1, PlayerFields
    <3>2. CASE r.type = "data"
      <4>1. t = HandleNewData(s, r, k, payload)
        BY <2>1, <3>2 DEF HandleRecord
      <4>2. CASE r.num > s.info[r.node].frames
        <5>1. t = Fail(s)
          BY <4>1, <4>2 DEF HandleNewData
        <5> QED BY <5>1
      <4>3. CASE r.num <= s.info[r.node].frames
        <5> HIDE DEF t
        <5> QED BY <3>1, <3>2, <4>1, <4>3 DEF NodeCase, t
      <4> QED BY <1>1, <3>1, <4>2, <4>3, PlayerFields
    <3>3. CASE r.type = "prop"
      <4>1. t = HandleProp(s, r, k)
        BY <2>1, <3>3 DEF HandleRecord
      <4> QED BY <3>1, <3>3, <4>1 DEF NodeCase
    <3>4. CASE r.type = "ready"
      <4>1. t = Readied(s, r.node)
        BY <2>1, <3>4 DEF HandleRecord, Readied
      <4> QED BY <3>1, <3>4, <4>1 DEF NodeCase
    <3>5. CASE r.type = "begin"
      <4>1. t = Begun(s)
        BY <2>1, <3>5 DEF HandleRecord, Begun
      <4> QED BY <3>1, <3>5, <4>1 DEF NodeCase
    <3>6. CASE r.type = "removed"
      <4>1. t = HandleNodeRemoved(s, r.node)
        BY <2>1, <3>6 DEF HandleRecord
      <4> QED BY <3>1, <3>6, <4>1 DEF NodeCase
    <3> QED BY <1>5, <3>2, <3>3, <3>4, <3>5, <3>6
  <2> QED BY <2>0, <2>1
<1> QED BY <1>1, <1>2, <1>3, <1>4, <1>5

\* Handling a record moves the place only at the end, and never makes a state one
\* in which a freed index was read, or a call did not return.
LEMMA HandledRest ==
  ASSUME FileOk, NEW s \in PlayerType, NEW k \in 1..Len(file), NEW payload \in BOOLEAN
  PROVE  LET t == HandleRecord(s, file[k], k, payload)
         IN  /\ t \in PlayerType /\ t.maxID = s.maxID /\ t.repeat = s.repeat
             /\ t.status \in {s.status, "corrupt", "eof"}
             /\ t.pos = s.pos \/ file[k].type = "end"
             /\ file[k].type = "end" /\ Ok(t) => t.pos = 1 \/ ~Ok(s)
<1> DEFINE r == file[k]
           t == HandleRecord(s, r, k, payload)
           n == r.node
<1>1. r \in RecType /\ k \in Nat
  BY FileFacts
<1>2. CASE t = Fail(s)
  BY <1>2, Failed DEF Ok
<1>3. CASE r.type = "table" /\ t = s
  BY <1>3
<1>4. CASE EndCase(s, t, r)
  <2>1. r.type = "end" /\ (t = Ended(s) \/ t = Rewind(s))
    BY <1>4 DEF EndCase
  <2> HIDE DEF t
  <2>2. CASE t = Ended(s)
    <3>1. /\ Ended(s) \in PlayerType /\ Ended(s).status = "eof" /\ Ended(s).maxID = s.maxID
          /\ Ended(s).repeat = s.repeat
      BY EndReached
    <3> QED BY <2>1, <2>2, <3>1 DEF Ok, t
  <2>3. CASE t = Rewind(s)
    <3>1. RewoundFrom(Rewind(s), s)
      BY Rewound
    <3> QED BY <2>1, <2>3, <3>1 DEF RewoundFrom, t
  <2> QED BY <2>1, <2>2, <2>3
<1>5. CASE AddedCase(s, t, r, k)
  <2>1. r.type = "added" /\ n \in Ids /\ t = HandleNodeAdded(s, r, k)
    BY <1>5 DEF AddedCase
  <2>2. AddedTo(HandleNodeAdded(s, r, k), s, r, k)
    BY <1>1, <2>1, AddedHandled
  <2>3. AddedTo(t, s, r, k)
    BY <2>1, <2>2
  <2> HIDE DEF t
  <2>4. t \in PlayerType /\ t.status = s.status /\ t.repeat = s.repeat /\ t.pos = s.pos /\ t.maxID = s.maxID
    BY <2>3 DEF AddedTo
  <2> QED BY <2>1, <2>4 DEF t
<1>6. CASE NodeCase(s, t, r, k, payload)
  <2>0. n \in Ids /\ r.type # "end"
    BY <1>6 DEF NodeCase
  <2>1. CASE t = HandleProp(s, r, k)
    <3>1. LET u == HandleProp(s, r, k) IN u \in PlayerType /\ SameRest(u, s)
      BY <1>1, <2>0, PropHandled
    <3> QED BY <2>0, <2>1, <3>1 DEF SameRest
  <2>2. CASE t = Readied(s, n)
    <3>1. LET u == Readied(s, n) IN u \in PlayerType /\ SameRest(u, s)
      BY <2>0, ReadyHandled
    <3> QED BY <2>0, <2>2, <3>1 DEF SameRest
  <2>3. CASE t = Begun(s)
    BY <2>0, <2>3, BeginReached
  <2>4. CASE r.num <= s.info[n].frames /\ t = HandleNewData(s, r, k, payload)
    <3>1. LET u == HandleNewData(s, r, k, payload) IN u \in PlayerType /\ SameRest(u, s)
      BY <1>1, <2>0, <2>4, DataHandled
    <3> QED BY <2>0, <2>4, <3>1 DEF SameRest
  <2>5. CASE t = HandleNodeRemoved(s, n)
    <3>1. LET u == HandleNodeRemoved(s, n) IN u \in PlayerType /\ SameRest(u, s)
      BY <2>0, RemovedHandled
    <3> QED BY <2>0, <2>5, <3>1 DEF SameRest
  <2> QED BY <1>6, <2>1, <2>2, <2>3, <2>4, <2>5 DEF NodeCase
<1>7. \/ t = Fail(s)
      \/ r.type = "table" /\ t = s
      \/ EndCase(s, t, r)
      \/ AddedCase(s, t, r, k)
      \/ NodeCase(s, t, r, k, payload)
  BY FileFacts, HandledCases
<1> HIDE DEF t
<1> QED BY <1>2, <1>3, <1>4, <1>5, <1>6, <1>7 DEF t

\* What ProcessRecord handles: the record at the place, which is the next one then.
LEMMA ProcessCases ==
  ASSUME FileOk, NEW s \in PlayerType, Ok(s), NEW payload
  PROVE  \/ s.pos \notin 1..Len(file) /\ ProcessOne(s, payload) = Fail(s)
         \/ /\ s.pos \in 1..Len(file) /\ Placed(s, s.pos + 1) \in PlayerType
            /\ ProcessOne(s, payload) = HandleRecord(Placed(s, s.pos + 1), file[s.pos], s.pos, payload)
<1>1. DOMAIN file = 1..Len(file) /\ s.pos \in Nat
  BY FileFacts, PlayerFields
<1>2. [s EXCEPT !.pos = @ + 1] = Placed(s, s.pos + 1)
  BY DEF PlayerType, Placed
<1>3. Placed(s, s.pos + 1) \in PlayerType
  BY <1>1, PlaceReplaced
<1> QED BY <1>1, <1>2, <1>3 DEF ProcessOne

\* Handling a record leads from a state to a state.
LEMMA ProcessStays ==
  ASSUME FileOk, NEW s \in States, NEW payload \in BOOLEAN
  PROVE  ProcessOne(s, payload) \in States
<1> DEFINE t == ProcessOne(s, payload)
<1>1. s \in PlayerType /\ Sound(s) /\ BeforeEnd(s) /\ Len(file) \in Nat
  BY FileFacts DEF States
<1>2. CASE ~Ok(s)
  BY <1>2 DEF ProcessOne
<1>3. CASE Ok(s) /\ s.pos \notin 1..Len(file) /\ t = Fail(s)
  BY <1>1, <1>3, FailSound DEF States, BeforeEnd, Sound
<1>4. CASE /\ Ok(s) /\ s.pos \in 1..Len(file)
           /\ t = HandleRecord(Placed(s, s.pos + 1), file[s.pos], s.pos, payload)
  <2> DEFINE k == s.pos
             a == Placed(s, k + 1)
  <2>2. k \in 1..Len(file) /\ k + 1 \in 0..(Len(file) + 1) /\ k + 1 \in Nat
    BY <1>1, <1>4
  <2>1. /\ a \in PlayerType /\ SameNodes(a, s) /\ a.pos = k + 1 /\ a.status = s.status
        /\ a.maxID = s.maxID /\ a.waits = s.waits
    BY <1>1, <2>2, PlaceReplaced
  <2> HIDE DEF a
  <2>3. Sound(a)
    BY <1>1, <2>1, <2>2, SoundRest
  <2>4. t = HandleRecord(a, file[k], k, payload)
    BY <1>4 DEF a
  <2>5. Sound(t)
    BY <2>2, <2>3, <2>4, HandledSound
  <2>6. /\ t.pos = a.pos \/ file[k].type = "end"
        /\ file[k].type = "end" /\ Ok(t) => t.pos = 1 \/ ~Ok(a)
    BY <2>1, <2>2, <2>4, HandledRest
  <2>7. Ok(a)
    BY <1>4, <2>1 DEF Ok
  <2>8. ASSUME Ok(t), NEW e \in 1..Len(file), file[e].type = "end" PROVE t.pos <= e
    <3>1. k <= e
      BY <1>1, <1>4, <2>8 DEF BeforeEnd
    <3>2. CASE file[k].type = "end"
      BY <2>6, <2>7, <2>8, <3>2
    <3>3. CASE file[k].type # "end"
      <4>1. t.pos = k + 1 /\ k # e
        BY <2>1, <2>6, <2>8, <3>3
      <4> QED BY <2>2, <3>1, <4>1
    <3> QED BY <3>2, <3>3
  <2> HIDE DEF t
  <2> QED BY <2>5, <2>8 DEF States, BeforeEnd, Sound, t
<1> HIDE DEF t
<1>5. Ok(s) => \/ s.pos \notin 1..Len(file) /\ t = Fail(s)
               \/ /\ s.pos \in 1..Len(file)
                  /\ t = HandleRecord(Placed(s, s.pos + 1), file[s.pos], s.pos, payload)
  BY <1>1, ProcessCases DEF t
<1> QED BY <1>2, <1>3, <1>4, <1>5 DEF t

\* A turn of the innermost loop handles a record, or is the last and leaves it,
\* with the seek table of a node that became ready.
LEMMA TurnCases ==
  ASSUME NEW s \in PlayerType, Ok(s), s.waits # <<>>
  PROVE  LET w == Head(s.waits)
         IN  \/ ~Over(s, w) /\ Turn(s) = ProcessOne(s, w.until # "frame")
             \/ Over(s, w) /\ w.until = "ready" /\ Turn(s) = LoadIndex(Left(s), file[w.num])
             \/ Over(s, w) /\ w.until # "ready" /\ Turn(s) = Left(s)
BY DEF Turn, Left

\* The seek table changes nothing else, or cannot be loaded.
LEMMA LoadCases ==
  ASSUME NEW s \in PlayerType, NEW r, r.node \in Ids
  PROVE  \/ LoadIndex(s, r) = Fail(s) /\ r.num # 0 /\ r.table # 0
         \/ LoadIndex(s, r) = s /\ (r.num = 0 \/ r.table = 0)
         \/ /\ LoadIndex(s, r) = [s EXCEPT !.info[r.node].index = file[r.table].index]
            /\ r.num # 0 /\ r.table # 0 /\ Len(file[r.table].index) = s.info[r.node].frames
BY DEF LoadIndex

\* The waits that are left.
LEMMA LeftSound ==
  ASSUME NEW s, Sound(s), s.waits # <<>>
  PROVE  Sound(Left(s))
<1> DEFINE t == Left(s)
<1>1. /\ s \in PlayerType /\ t \in PlayerType /\ SameNodes(t, s) /\ t.pos = s.pos /\ t.maxID = s.maxID
      /\ Len(t.waits) = Len(s.waits) - 1 /\ Len(s.waits) \in Nat \ {0}
      /\ \A j \in 1..(Len(s.waits) - 1) : t.waits[j] = s.waits[j + 1]
  BY WaitLeft DEF Sound
<1> HIDE DEF t
<1>2. ASSUME NEW j \in 1..Len(t.waits) PROVE WaitKnown(t.waits[j])
  <2>1. j \in 1..(Len(s.waits) - 1) /\ j + 1 \in 1..Len(s.waits)
    BY <1>1
  <2> QED BY <1>1, <2>1 DEF Sound
<1> QED BY <1>1, <1>2 DEF Sound, SameNodes, t

\* So does a turn of a loop.
LEMMA TurnStays ==
  ASSUME FileOk, NEW s \in States
  PROVE  Turn(s) \in States
<1>1. s \in PlayerType /\ Sound(s) /\ BeforeEnd(s)
  BY DEF States
<1>2. CASE ~Ok(s) \/ s.waits = <<>>
  BY <1>2 DEF Turn
<1>3. CASE Ok(s) /\ s.waits # <<>>
  <2> DEFINE w == Head(s.waits)
             a == Left(s)
  <2>1. /\ a \in PlayerType /\ SameNodes(a, s) /\ a.pos = s.pos /\ a.status = s.status
        /\ a.maxID = s.maxID /\ w = s.waits[1] /\ Len(s.waits) \in Nat \ {0}
    BY <1>1, <1>3, WaitLeft
  <2>2. Sound(a) /\ BeforeEnd(a)
    BY <1>1, <1>3, <2>1, LeftSound DEF BeforeEnd, Ok
  <2>3. WaitKnown(w)
    <3>1. 1 \in 1..Len(s.waits)
      BY <2>1
    <3> QED BY <1>1, <2>1, <3>1 DEF Sound
  <2>4. CASE Turn(s) = ProcessOne(s, w.until # "frame")
    BY <2>4, ProcessStays
  <2>5. CASE Turn(s) = a
    BY <2>1, <2>2, <2>5 DEF States
  <2>6. CASE w.until = "ready" /\ Turn(s) = LoadIndex(a, file[w.num])
    <3> DEFINE r == file[w.num]
               t == LoadIndex(a, r)
    <3>1. w.node \in Ids /\ At("added", w.node, w.num) /\ r.node \in Ids
      BY <2>3, <2>6 DEF WaitKnown, At
    <3>2. Sound(t)
      BY <2>2, <3>1, IndexSound
    <3>3. t.pos = a.pos /\ t.status \in {a.status, "corrupt"}
      <4>1. CASE t = Fail(a)
        BY <2>1, <4>1, Failed
      <4>2. CASE t = [a EXCEPT !.info[r.node].index = file[r.table].index]
        BY <2>1, <4>2 DEF PlayerType
      <4> QED BY <2>1, <3>1, <4>1, <4>2, LoadCases
    <3> HIDE DEF t
    <3>4. t \in States
      BY <2>2, <3>2, <3>3 DEF States, Sound, BeforeEnd, Ok
    <3> QED BY <2>6, <3>4 DEF t
  <2> QED BY <1>1, <1>3, <2>4, <2>5, <2>6, TurnCases
<1> QED BY <1>2, <1>3

-----------------------------------------------------------------------------
(* Loops *)

\* The least of some numbers.
LEMMA LeastNat ==
  ASSUME NEW S \in SUBSET Nat, S # {}
  PROVE  \E x \in S : \A y \in S : x <= y
<1>1. PICK x \in S : \A y \in S : <<y, x>> \notin OpToRel(<, Nat)
  BY NatLessThanWellFounded, WFMin
<1>2. OpToRel(<, Nat) = {ss \in Nat \X Nat : ss[1] < ss[2]}
  BY Zenon DEF OpToRel
<1>3. \A y \in S : ~ y < x
  BY <1>1, <1>2
<1> QED BY <1>3

\* Induction over the naturals, for a set.
LEMMA NatInductionSet ==
  ASSUME NEW S, 0 \in S, \A k \in Nat : k \in S => k + 1 \in S
  PROVE  \A k \in Nat : k \in S
<1> SUFFICES ASSUME Nat \ S # {} PROVE FALSE
  OBVIOUS
<1>1. PICK x \in Nat \ S : \A y \in Nat \ S : x <= y
  BY LeastNat
<1>2. x # 0
  OBVIOUS
<1>3. x - 1 \in Nat /\ (x - 1) + 1 = x /\ ~(x <= x - 1)
  BY <1>2
<1>4. x - 1 \in S
  BY <1>1, <1>3
<1> QED BY <1>3, <1>4

\* h has the states of a loop from s over its first n turns F.
FirstTurns(h, n, s, F) == h[0] = s /\ \A k \in 1..n : h[k] = F[k][h[k - 1]]


\* Every number of turns can be taken.
LEMMA LoopPart ==
  ASSUME NEW Sts, NEW s \in Sts, NEW F \in [Nat -> [Sts -> Sts]]
  PROVE  \A n \in Nat : \E h \in [0..n -> Sts] : FirstTurns(h, n, s, F)
<1> USE DEF FirstTurns
<1> DEFINE Good(n, h) == FirstTurns(h, n, s, F)
           S == {n \in Nat : \E h \in [0..n -> Sts] : Good(n, h)}
<1>1. 0 \in S
  <2> DEFINE h == [k \in 0..0 |-> s]
  <2>1. h \in [0..0 -> Sts] /\ Good(0, h)
    OBVIOUS
  <2> QED BY <2>1
<1>2. ASSUME NEW n \in Nat, n \in S PROVE n + 1 \in S
  <2>1. PICK h \in [0..n -> Sts] : Good(n, h)
    BY <1>2
  <2> DEFINE g == [k \in 0..(n + 1) |-> IF k \in 0..n THEN h[k] ELSE F[n + 1][h[n]]]
  <2>2. F[n + 1][h[n]] \in Sts
    OBVIOUS
  <2>3. g \in [0..(n + 1) -> Sts]
    BY <2>2
  <2>4. g[0] = s
    BY <2>1
  <2>5. ASSUME NEW k \in 1..(n + 1) PROVE g[k] = F[k][g[k - 1]]
    <3>1. k - 1 \in 0..n /\ k \in 0..(n + 1) /\ k - 1 \in 0..(n + 1)
      OBVIOUS
    <3>2. g[k - 1] = h[k - 1]
      BY <3>1
    <3>3. CASE k \in 1..n
      <4>1. k \in 0..n /\ g[k] = h[k]
        BY <3>1, <3>3
      <4> QED BY <2>1, <3>2, <3>3, <4>1
    <3>4. CASE k = n + 1
      <4>1. ~(k \in 0..n) /\ k - 1 = n
        BY <3>4
      <4> QED BY <3>1, <3>2, <3>4, <4>1
    <3> QED BY <3>3, <3>4
  <2> HIDE DEF g
  <2>6. Good(n + 1, g)
    BY <2>4, <2>5
  <2> QED BY <2>3, <2>6
<1> HIDE DEF S
<1>3. \A n \in Nat : n \in S
  BY <1>1, <1>2, NatInductionSet
<1> QED BY <1>3 DEF S


\* What Run makes of the state after its turns.
Stopped(e) == [e EXCEPT !.waits = <<>>, !.status = IF e.waits # <<>> /\ Ok(e) THEN "endless" ELSE @]

\* The state in which the loops stopped.
LEMMA StoppedIs ==
  ASSUME NEW e \in PlayerType
  PROVE  LET t == Stopped(e)
         IN  /\ t \in PlayerType /\ SameNodes(t, e) /\ t.pos = e.pos /\ t.maxID = e.maxID
             /\ t.repeat = e.repeat /\ t.begun = e.begun /\ t.waits = <<>>
             /\ t.status \in {e.status, "endless"}
             /\ Ok(t) => Ok(e) /\ e.waits = <<>>
<1>1. <<>> \in Seq(WaitType)
  OBVIOUS
<1> DEFINE x == IF e.waits # <<>> /\ Ok(e) THEN "endless" ELSE e.status
           w == <<>>
<1>2. /\ x \in {"ok", "eof", "corrupt", "wild", "endless"} /\ x \in {e.status, "endless"}
      /\ x = "ok" => Ok(e) /\ e.waits = <<>>
  BY PlayerFields DEF Ok
<1>3. Stopped(e) = [e EXCEPT !.waits = w, !.status = x]
  BY DEF Stopped, PlayerType
<1> HIDE DEF x, w
<1>4. LET t == [e EXCEPT !.waits = w, !.status = x]
      IN  /\ t \in PlayerType /\ SameNodes(t, e) /\ t.pos = e.pos /\ t.maxID = e.maxID
          /\ t.repeat = e.repeat /\ t.begun = e.begun /\ t.waits = w /\ t.status = x
  BY <1>1, <1>2 DEF PlayerType, SameNodes, w
<1> QED BY <1>2, <1>3, <1>4 DEF Ok, w

\* The turns of Run, from a state of a set that they do not leave.
LEMMA RunTurns ==
  ASSUME NEW Sts, NEW s \in Sts, \A t \in Sts : Turn(t) \in Sts, FileOk, s.waits # <<>>
  PROVE  \E f \in [0..Enough -> Sts] :
           /\ f[0] = s /\ \A i \in 1..Enough : f[i] = Turn(f[i - 1])
           /\ Run(s) = Stopped(f[Enough])
<1> DEFINE n0 == Enough
           Step(t, i) == Turn(t)
           Eq(g) == g = [i \in 0..n0 |-> IF i = 0 THEN s ELSE Step(g[i - 1], i)]
           F == [k \in Nat |-> [t \in Sts |-> IF k \in 1..n0 THEN Step(t, k) ELSE t]]
           f == CHOOSE g : Eq(g)
<1>1. n0 \in Nat
  BY FileFacts DEF Enough
<1>2. \A k \in 1..n0, t \in Sts : Step(t, k) \in Sts
  OBVIOUS
<1>3. f = CHOOSE g : Eq(g)
  OBVIOUS
<1>4. Run(s) = Stopped(f[n0])
  BY DEF Run, Stopped
<1> HIDE DEF n0, Step, f
<1>5. F \in [Nat -> [Sts -> Sts]]
  BY <1>2
<1>6. PICK h \in [0..n0 -> Sts] : FirstTurns(h, n0, s, F)
  BY <1>1, <1>5, LoopPart
<1>7. Eq(h)
  <2>1. \A i \in 0..n0 : i # 0 => i \in 1..n0 /\ i \in Nat /\ i - 1 \in 0..n0
    BY <1>1
  <2>2. \A i \in 0..n0 : h[i] = IF i = 0 THEN s ELSE Step(h[i - 1], i)
    BY <1>6, <2>1 DEF FirstTurns
  <2> QED BY <1>6, <2>2
<1>8. Eq(f)
  BY <1>3, <1>7
<1>9. \A k \in Nat : k \in 0..n0 => f[k] \in Sts
  <2> DEFINE S == {k \in Nat : k \in 0..n0 => f[k] \in Sts}
  <2>1. 0 \in S
    BY <1>1, <1>8
  <2>2. ASSUME NEW k \in Nat, k \in S PROVE k + 1 \in S
    <3>1. SUFFICES ASSUME k + 1 \in 0..n0 PROVE f[k + 1] \in Sts
      OBVIOUS
    <3>2. k \in 0..n0 /\ k + 1 \in 1..n0 /\ k + 1 # 0 /\ (k + 1) - 1 = k
      BY <1>1, <3>1
    <3>3. f[k + 1] = Step(f[k], k + 1)
      BY <1>8, <3>1, <3>2
    <3> QED BY <1>2, <2>2, <3>2, <3>3
  <2> HIDE DEF S
  <2>3. \A k \in Nat : k \in S
    BY <2>1, <2>2, NatInductionSet
  <2> QED BY <2>3 DEF S
<1>10. f \in [0..n0 -> Sts] /\ f[0] = s /\ \A i \in 1..n0 : f[i] = Step(f[i - 1], i)
  <2>1. \A i \in 0..n0 : i \in Nat
    BY <1>1
  <2>2. 0 \in 0..n0 /\ \A i \in 1..n0 : i \in 0..n0 /\ i # 0
    BY <1>1
  <2> QED BY <1>8, <1>9, <2>1, <2>2
<1> QED BY <1>4, <1>10 DEF n0, Step

\* The entries ReadEntries reads one by one.
LEMMA EntriesRead ==
  ASSUME NEW Sts, NEW s \in Sts, \A t \in Sts, i \in Ids : ReadEntry(t, i) \in Sts
  PROVE  \E f \in [0..MaxNodes -> Sts] :
           /\ f[0] = s /\ \A i \in 1..MaxNodes : f[i] = ReadEntry(f[i - 1], i)
           /\ ReadEntries(s) = f[MaxNodes]
<1> DEFINE n0 == MaxNodes
           Step(t, i) == ReadEntry(t, i)
           Eq(g) == g = [i \in 0..n0 |-> IF i = 0 THEN s ELSE Step(g[i - 1], i)]
           F == [k \in Nat |-> [t \in Sts |-> IF k \in 1..n0 THEN Step(t, k) ELSE t]]
           f == CHOOSE g : Eq(g)
<1>1. n0 \in Nat
  BY RecorderAssumption
<1>2. \A k \in 1..n0, t \in Sts : Step(t, k) \in Sts
  BY DEF Ids
<1>3. f = CHOOSE g : Eq(g)
  OBVIOUS
<1>4. ReadEntries(s) = f[n0]
  BY DEF ReadEntries
<1> HIDE DEF n0, Step, f
<1>5. F \in [Nat -> [Sts -> Sts]]
  BY <1>2
<1>6. PICK h \in [0..n0 -> Sts] : FirstTurns(h, n0, s, F)
  BY <1>1, <1>5, LoopPart
<1>7. Eq(h)
  <2>1. \A i \in 0..n0 : i # 0 => i \in 1..n0 /\ i \in Nat /\ i - 1 \in 0..n0
    BY <1>1
  <2>2. \A i \in 0..n0 : h[i] = IF i = 0 THEN s ELSE Step(h[i - 1], i)
    BY <1>6, <2>1 DEF FirstTurns
  <2> QED BY <1>6, <2>2
<1>8. Eq(f)
  BY <1>3, <1>7
<1>9. \A k \in Nat : k \in 0..n0 => f[k] \in Sts
  <2> DEFINE S == {k \in Nat : k \in 0..n0 => f[k] \in Sts}
  <2>1. 0 \in S
    BY <1>1, <1>8
  <2>2. ASSUME NEW k \in Nat, k \in S PROVE k + 1 \in S
    <3>1. SUFFICES ASSUME k + 1 \in 0..n0 PROVE f[k + 1] \in Sts
      OBVIOUS
    <3>2. k \in 0..n0 /\ k + 1 \in 1..n0 /\ k + 1 # 0 /\ (k + 1) - 1 = k
      BY <1>1, <3>1
    <3>3. f[k + 1] = Step(f[k], k + 1)
      BY <1>8, <3>1, <3>2
    <3> QED BY <1>2, <2>2, <3>2, <3>3
  <2> HIDE DEF S
  <2>3. \A k \in Nat : k \in S
    BY <2>1, <2>2, NatInductionSet
  <2> QED BY <2>3 DEF S
<1>10. f \in [0..n0 -> Sts] /\ f[0] = s /\ \A i \in 1..n0 : f[i] = Step(f[i - 1], i)
  <2>1. \A i \in 0..n0 : i \in Nat
    BY <1>1
  <2>2. 0 \in 0..n0 /\ \A i \in 1..n0 : i \in 0..n0 /\ i # 0
    BY <1>1
  <2> QED BY <1>8, <1>9, <2>1, <2>2
<1> QED BY <1>4, <1>10 DEF n0, Step

\* The nodes ProcessEachNodeLastData shows one by one.
LEMMA LastsShown ==
  ASSUME NEW Sts, NEW s \in Sts, NEW n, \A t \in Sts, i \in Ids : ShowLast(t, i) \in Sts
  PROVE  \E f \in [0..MaxNodes -> Sts] :
           /\ f[0] = s /\ \A i \in 1..MaxNodes :
                f[i] = IF i \in Others(s, n) THEN ShowLast(f[i - 1], i) ELSE f[i - 1]
           /\ ProcessEachNodeLastData(s, n) = ShowLast(f[MaxNodes], n)
<1> DEFINE n0 == MaxNodes
           Step(t, i) == IF i \in Others(s, n) THEN ShowLast(t, i) ELSE t
           Eq(g) == g = [i \in 0..n0 |-> IF i = 0 THEN s ELSE Step(g[i - 1], i)]
           F == [k \in Nat |-> [t \in Sts |-> IF k \in 1..n0 THEN Step(t, k) ELSE t]]
           f == CHOOSE g : Eq(g)
<1>1. n0 \in Nat
  BY RecorderAssumption
<1>2. \A k \in 1..n0, t \in Sts : Step(t, k) \in Sts
  BY DEF Ids
<1>3. f = CHOOSE g : Eq(g)
  OBVIOUS
<1>4. ProcessEachNodeLastData(s, n) = ShowLast(f[n0], n)
  BY DEF ProcessEachNodeLastData
<1> HIDE DEF n0, Step, f
<1>5. F \in [Nat -> [Sts -> Sts]]
  BY <1>2
<1>6. PICK h \in [0..n0 -> Sts] : FirstTurns(h, n0, s, F)
  BY <1>1, <1>5, LoopPart
<1>7. Eq(h)
  <2>1. \A i \in 0..n0 : i # 0 => i \in 1..n0 /\ i \in Nat /\ i - 1 \in 0..n0
    BY <1>1
  <2>2. \A i \in 0..n0 : h[i] = IF i = 0 THEN s ELSE Step(h[i - 1], i)
    BY <1>6, <2>1 DEF FirstTurns
  <2> QED BY <1>6, <2>2
<1>8. Eq(f)
  BY <1>3, <1>7
<1>9. \A k \in Nat : k \in 0..n0 => f[k] \in Sts
  <2> DEFINE S == {k \in Nat : k \in 0..n0 => f[k] \in Sts}
  <2>1. 0 \in S
    BY <1>1, <1>8
  <2>2. ASSUME NEW k \in Nat, k \in S PROVE k + 1 \in S
    <3>1. SUFFICES ASSUME k + 1 \in 0..n0 PROVE f[k + 1] \in Sts
      OBVIOUS
    <3>2. k \in 0..n0 /\ k + 1 \in 1..n0 /\ k + 1 # 0 /\ (k + 1) - 1 = k
      BY <1>1, <3>1
    <3>3. f[k + 1] = Step(f[k], k + 1)
      BY <1>8, <3>1, <3>2
    <3> QED BY <1>2, <2>2, <3>2, <3>3
  <2> HIDE DEF S
  <2>3. \A k \in Nat : k \in S
    BY <2>1, <2>2, NatInductionSet
  <2> QED BY <2>3 DEF S
<1>10. f \in [0..n0 -> Sts] /\ f[0] = s /\ \A i \in 1..n0 : f[i] = Step(f[i - 1], i)
  <2>1. \A i \in 0..n0 : i \in Nat
    BY <1>1
  <2>2. 0 \in 0..n0 /\ \A i \in 1..n0 : i \in 0..n0 /\ i # 0
    BY <1>1
  <2> QED BY <1>8, <1>9, <2>1, <2>2
<1> QED BY <1>4, <1>10 DEF n0, Step

\* What holds along an undo chain holds for the record that UndoTo finds.
LEMMA ChainFollowed ==
  ASSUME NEW Sts, NEW u \in Sts, NEW dest, \A v \in Sts : UndoOnce(v, dest) \in Sts, FileOk
  PROVE  UndoTo(u, dest) \in Sts
<1> DEFINE n0 == Len(file)
           Step(t, i) == UndoOnce(t, dest)
           Eq(g) == g = [i \in 0..n0 |-> IF i = 0 THEN u ELSE Step(g[i - 1], i)]
           F == [k \in Nat |-> [t \in Sts |-> IF k \in 1..n0 THEN Step(t, k) ELSE t]]
           f == CHOOSE g : Eq(g)
<1>1. n0 \in Nat
  BY FileFacts
<1>2. \A k \in 1..n0, t \in Sts : Step(t, k) \in Sts
  OBVIOUS
<1>3. f = CHOOSE g : Eq(g)
  OBVIOUS
<1>4. UndoTo(u, dest) = f[n0]
  BY DEF UndoTo
<1> HIDE DEF n0, Step, f
<1>5. F \in [Nat -> [Sts -> Sts]]
  BY <1>2
<1>6. PICK h \in [0..n0 -> Sts] : FirstTurns(h, n0, u, F)
  BY <1>1, <1>5, LoopPart
<1>7. Eq(h)
  <2>1. \A i \in 0..n0 : i # 0 => i \in 1..n0 /\ i \in Nat /\ i - 1 \in 0..n0
    BY <1>1
  <2>2. \A i \in 0..n0 : h[i] = IF i = 0 THEN u ELSE Step(h[i - 1], i)
    BY <1>6, <2>1 DEF FirstTurns
  <2> QED BY <1>6, <2>2
<1>8. Eq(f)
  BY <1>3, <1>7
<1>9. \A k \in Nat : k \in 0..n0 => f[k] \in Sts
  <2> DEFINE S == {k \in Nat : k \in 0..n0 => f[k] \in Sts}
  <2>1. 0 \in S
    BY <1>1, <1>8
  <2>2. ASSUME NEW k \in Nat, k \in S PROVE k + 1 \in S
    <3>1. SUFFICES ASSUME k + 1 \in 0..n0 PROVE f[k + 1] \in Sts
      OBVIOUS
    <3>2. k \in 0..n0 /\ k + 1 \in 1..n0 /\ k + 1 # 0 /\ (k + 1) - 1 = k
      BY <1>1, <3>1
    <3>3. f[k + 1] = Step(f[k], k + 1)
      BY <1>8, <3>1, <3>2
    <3> QED BY <1>2, <2>2, <3>2, <3>3
  <2> HIDE DEF S
  <2>3. \A k \in Nat : k \in S
    BY <2>1, <2>2, NatInductionSet
  <2> QED BY <2>3 DEF S
<1>10. n0 \in 0..n0
  BY <1>1
<1> QED BY <1>1, <1>4, <1>9, <1>10

\* FindFrame goes from one frame of an undo chain to the one before.
FrameChain(Sts, p, q) ==
  \E f \in [0..Len(file) -> Sts] :
    /\ f[0] = p /\ \A i \in 1..Len(file) : f[i] = FrameBefore(f[i - 1], q)
    /\ FindFrame(p, q) = f[Len(file)]

\* The frames that it goes through.
LEMMA FramesFollowed ==
  ASSUME NEW Sts, NEW p \in Sts, NEW q, \A v \in Sts : FrameBefore(v, q) \in Sts, FileOk
  PROVE  FrameChain(Sts, p, q)
<1> DEFINE n0 == Len(file)
           Step(t, i) == FrameBefore(t, q)
           Eq(g) == g = [i \in 0..n0 |-> IF i = 0 THEN p ELSE Step(g[i - 1], i)]
           F == [k \in Nat |-> [t \in Sts |-> IF k \in 1..n0 THEN Step(t, k) ELSE t]]
           f == CHOOSE g : Eq(g)
<1>1. n0 \in Nat
  BY FileFacts
<1>2. \A k \in 1..n0, t \in Sts : Step(t, k) \in Sts
  OBVIOUS
<1>3. f = CHOOSE g : Eq(g)
  OBVIOUS
<1>4. FindFrame(p, q) = f[n0]
  BY DEF FindFrame
<1> HIDE DEF n0, Step, f
<1>5. F \in [Nat -> [Sts -> Sts]]
  BY <1>2
<1>6. PICK h \in [0..n0 -> Sts] : FirstTurns(h, n0, p, F)
  BY <1>1, <1>5, LoopPart
<1>7. Eq(h)
  <2>1. \A i \in 0..n0 : i # 0 => i \in 1..n0 /\ i \in Nat /\ i - 1 \in 0..n0
    BY <1>1
  <2>2. \A i \in 0..n0 : h[i] = IF i = 0 THEN p ELSE Step(h[i - 1], i)
    BY <1>6, <2>1 DEF FirstTurns
  <2> QED BY <1>6, <2>2
<1>8. Eq(f)
  BY <1>3, <1>7
<1>9. \A k \in Nat : k \in 0..n0 => f[k] \in Sts
  <2> DEFINE S == {k \in Nat : k \in 0..n0 => f[k] \in Sts}
  <2>1. 0 \in S
    BY <1>1, <1>8
  <2>2. ASSUME NEW k \in Nat, k \in S PROVE k + 1 \in S
    <3>1. SUFFICES ASSUME k + 1 \in 0..n0 PROVE f[k + 1] \in Sts
      OBVIOUS
    <3>2. k \in 0..n0 /\ k + 1 \in 1..n0 /\ k + 1 # 0 /\ (k + 1) - 1 = k
      BY <1>1, <3>1
    <3>3. f[k + 1] = Step(f[k], k + 1)
      BY <1>8, <3>1, <3>2
    <3> QED BY <1>2, <2>2, <3>2, <3>3
  <2> HIDE DEF S
  <2>3. \A k \in Nat : k \in S
    BY <2>1, <2>2, NatInductionSet
  <2> QED BY <2>3 DEF S
<1>10. f \in [0..n0 -> Sts] /\ f[0] = p /\ \A i \in 1..n0 : f[i] = Step(f[i - 1], i)
  <2>1. \A i \in 0..n0 : i \in Nat
    BY <1>1
  <2>2. 0 \in 0..n0 /\ \A i \in 1..n0 : i \in 0..n0 /\ i # 0
    BY <1>1
  <2> QED BY <1>8, <1>9, <2>1, <2>2
<1> QED BY <1>4, <1>10 DEF n0, Step, FrameChain

\* The frame is handled, and the nodes undone, within some states.
UndoingStays(Sts, s, n, dest) ==
  /\ HandleNewData(s, file[dest], dest, FALSE) \in Sts
  /\ \A t \in Sts, i \in Ids : UndoNode(t, n, i, dest, s.pos) \in Sts

\* The states of a seek back: the frame is handled, and one node after the other undone.
UndoneInTurn(h, s, n, dest) ==
  /\ h[0] = HandleNewData(s, file[dest], dest, FALSE)
  /\ \A i \in 1..MaxNodes : h[i] = UndoNode(h[i - 1], n, i, dest, s.pos)

\* A seek back goes through such states, and shows the frames of the last.
GoesBack(Sts, s, n, q, dest) ==
  \E h \in [0..MaxNodes -> Sts] :
    UndoneInTurn(h, s, n, dest) /\ SeekBack(s, n, q) = ProcessEachNodeLastData(h[MaxNodes], n)

\* It stays with the states its steps stay with.
LEMMA NodesUndone ==
  ASSUME NEW Sts, NEW s, NEW n, NEW q, FindFrame(s.info[n].data.undo, q) # 0,
         UndoingStays(Sts, s, n, FindFrame(s.info[n].data.undo, q))
  PROVE  GoesBack(Sts, s, n, q, FindFrame(s.info[n].data.undo, q))
<1> DEFINE dest == FindFrame(s.info[n].data.undo, q)
<1>0. /\ HandleNewData(s, file[dest], dest, FALSE) \in Sts
      /\ \A t \in Sts, i \in Ids : UndoNode(t, n, i, dest, s.pos) \in Sts
      /\ dest # 0
  BY DEF UndoingStays
<1> DEFINE n0 == MaxNodes
           Step(t, i) == UndoNode(t, n, i, dest, s.pos)
           Eq(g) == g = [i \in 0..n0 |-> IF i = 0 THEN HandleNewData(s, file[dest], dest, FALSE)
                                      ELSE Step(g[i - 1], i)]
           F == [k \in Nat |-> [t \in Sts |-> IF k \in 1..n0 THEN Step(t, k) ELSE t]]
           f == CHOOSE g : Eq(g)
<1>1. n0 \in Nat
  BY RecorderAssumption
<1>2. \A k \in 1..n0, t \in Sts : Step(t, k) \in Sts
  BY <1>0 DEF Ids
<1>3. f = CHOOSE g : Eq(g)
  OBVIOUS
<1>4. SeekBack(s, n, q) = ProcessEachNodeLastData(f[n0], n)
  BY DEF SeekBack
<1> HIDE DEF n0, Step, f
<1>5. F \in [Nat -> [Sts -> Sts]]
  BY <1>2
<1>6. PICK h \in [0..n0 -> Sts] : FirstTurns(h, n0, HandleNewData(s, file[dest], dest, FALSE), F)
  BY <1>0, <1>1, <1>5, LoopPart
<1>7. Eq(h)
  <2>1. \A i \in 0..n0 : i # 0 => i \in 1..n0 /\ i \in Nat /\ i - 1 \in 0..n0
    BY <1>1
  <2>2. \A i \in 0..n0 : h[i] = IF i = 0 THEN HandleNewData(s, file[dest], dest, FALSE) ELSE Step(h[i - 1], i)
    BY <1>6, <2>1 DEF FirstTurns
  <2> QED BY <1>6, <2>2
<1>8. Eq(f)
  BY <1>3, <1>7
<1>9. \A k \in Nat : k \in 0..n0 => f[k] \in Sts
  <2> DEFINE S == {k \in Nat : k \in 0..n0 => f[k] \in Sts}
  <2>1. 0 \in S
    BY <1>0, <1>1, <1>8
  <2>2. ASSUME NEW k \in Nat, k \in S PROVE k + 1 \in S
    <3>1. SUFFICES ASSUME k + 1 \in 0..n0 PROVE f[k + 1] \in Sts
      OBVIOUS
    <3>2. k \in 0..n0 /\ k + 1 \in 1..n0 /\ k + 1 # 0 /\ (k + 1) - 1 = k
      BY <1>1, <3>1
    <3>3. f[k + 1] = Step(f[k], k + 1)
      BY <1>8, <3>1, <3>2
    <3> QED BY <1>2, <2>2, <3>2, <3>3
  <2> HIDE DEF S
  <2>3. \A k \in Nat : k \in S
    BY <2>1, <2>2, NatInductionSet
  <2> QED BY <2>3 DEF S
<1>10. \A k \in 0..n0 : k \in Nat
  BY <1>1
<1>11. f \in [0..n0 -> Sts]
  <2>1. \A k \in 0..n0 : f[k] \in Sts
    BY <1>9, <1>10
  <2>2. DOMAIN f = 0..n0 /\ f = [k \in 0..n0 |-> f[k]]
    BY <1>8
  <2> HIDE DEF Eq
  <2> QED BY <2>1, <2>2
<1>12. f[0] = HandleNewData(s, file[dest], dest, FALSE) /\ \A i \in 1..n0 : f[i] = Step(f[i - 1], i)
  <2>1. 0 \in 0..n0 /\ \A i \in 1..n0 : i \in 0..n0 /\ i # 0
    BY <1>1
  <2>2. \A i \in 0..n0 : f[i] = IF i = 0 THEN HandleNewData(s, file[dest], dest, FALSE) ELSE Step(f[i - 1], i)
    BY <1>8
  <2> HIDE DEF Eq, dest
  <2> QED BY <2>1, <2>2
<1>13. UndoneInTurn(f, s, n, dest)
  BY <1>12 DEF UndoneInTurn, n0, Step
<1> QED BY <1>4, <1>11, <1>13 DEF n0, GoesBack

-----------------------------------------------------------------------------
(* Calls that run to their end *)

\* The states between the calls of the application: no loop is in progress.
Resting == {s \in States : s.waits = <<>>}

\* A run of the loops comes to rest, where it stopped.
LEMMA RunRests ==
  ASSUME FileOk, NEW s \in States
  PROVE  Run(s) \in Resting
<1>1. CASE s.waits = <<>>
  BY <1>1 DEF Run, Resting
<1>2. CASE s.waits # <<>>
  <2>1. \A t \in States : Turn(t) \in States
    BY TurnStays
  <2>2. PICK f \in [0..Enough -> States] : Run(s) = Stopped(f[Enough])
    BY <1>2, <2>1, RunTurns
  <2> DEFINE e == f[Enough]
             t == Stopped(e)
  <2>3. e \in States /\ e \in PlayerType /\ Sound(e) /\ BeforeEnd(e)
    <3>1. Enough \in 0..Enough
      BY FileFacts DEF Enough
    <3> QED BY <3>1 DEF States
  <2> HIDE DEF e
  <2>4. /\ t \in PlayerType /\ SameNodes(t, e) /\ t.pos = e.pos /\ t.maxID = e.maxID
        /\ t.waits = <<>>
    BY <2>3, StoppedIs
  <2>5. Ok(t) => Ok(e)
    BY <2>3, StoppedIs
  <2>6. Run(s) = t
    BY <2>2 DEF e
  <2> HIDE DEF t
  <2>7. Len(t.waits) = 0
    BY <2>4
  <2>8. t.pos \in 0..(Len(file) + 1)
    BY <2>3, <2>4 DEF Sound
  <2>9. Sound(t)
    BY <2>3, <2>4, <2>7, <2>8 DEF Sound, SameNodes
  <2>10. BeforeEnd(t)
    BY <2>3, <2>4, <2>5 DEF BeforeEnd
  <2> QED BY <2>4, <2>6, <2>9, <2>10 DEF Resting, States
<1> QED BY <1>1, <1>2

\* A place before the end to go on from.
Playable(p) ==
  p \in 0..(Len(file) + 1) /\ \A e \in 1..Len(file) : file[e].type = "end" => p <= e

\* A state is one at another place before the end, too.
LEMMA PlacedStays ==
  ASSUME FileOk, NEW s \in States, NEW p, Playable(p)
  PROVE  Placed(s, p) \in States
<1>1. s \in PlayerType /\ Sound(s) /\ p \in Nat
  BY FileFacts DEF States, Playable
<1>2. LET t == Placed(s, p) IN
      /\ t \in PlayerType /\ SameNodes(t, s) /\ t.pos = p /\ t.status = s.status
      /\ t.maxID = s.maxID /\ t.waits = s.waits
  BY <1>1, PlaceReplaced
<1>3. Sound(Placed(s, p))
  BY <1>1, <1>2, SoundRest DEF Playable
<1> QED BY <1>2, <1>3 DEF States, BeforeEnd, Playable

\* The places of frames are.
LEMMA FramePlayable ==
  ASSUME FileOk, NEW i, NEW p, At("data", i, p)
  PROVE  /\ i \in Ids /\ p \in 1..Len(file) /\ Playable(p) /\ Playable(p + 1) /\ Playable(0)
         /\ p \in Nat
<1>1. Len(file) \in Nat /\ i \in Ids /\ p \in 1..Len(file)
  BY FileFacts DEF At
<1>2. ASSUME NEW e \in 1..Len(file), file[e].type = "end" PROVE p <= e /\ p # e
  BY <1>1, <1>2 DEF At, FileOk, FileShape, EndLast
<1>3. p \in 0..(Len(file) + 1) /\ p + 1 \in 0..(Len(file) + 1) /\ 0 \in 0..(Len(file) + 1)
  BY <1>1
<1>4. ASSUME NEW e \in 1..Len(file), file[e].type = "end" PROVE p <= e /\ p + 1 <= e /\ 0 <= e
  <2>1. p <= e /\ p # e
    BY <1>2, <1>4
  <2> QED BY <1>1, <2>1
<1> QED BY <1>1, <1>3, <1>4 DEF Playable

\* ProcessRecord comes to rest.
LEMMA ReadRests ==
  ASSUME FileOk, NEW s \in States
  PROVE  ProcessRecord(s) \in Resting
BY RunRests, ProcessStays DEF ProcessRecord

\* What reading the frame of node i at place p makes of a state at rest.
FrameRead(t, s, i, p) ==
  /\ t \in PlayerType /\ Ok(t) /\ t.pos = p + 1 /\ t.repeat = s.repeat /\ t.maxID = s.maxID
  /\ t.begun = s.begun /\ SameBut(t, s, i) /\ t.temp[i] = s.temp[i]
  /\ SameAdded(t.info[i], s.info[i]) /\ t.info[i].prop = s.info[i].prop
  /\ t.info[i].last = p /\ t.info[i].data = [rec |-> p, undo |-> file[p].undo]
  /\ t.info[i].cur = file[p].num /\ t.shown[i].data = p /\ t.shown[i].prop = s.shown[i].prop
  /\ s.info[i].valid /\ i <= s.maxID

\* Reading a frame of a valid node sets its current frame.
LEMMA ReadFrame ==
  ASSUME FileOk, NEW s \in Resting, Ok(s), NEW i, NEW p, At("data", i, p)
  PROVE  LET t == ProcessRecord(Placed(s, p))
         IN  /\ t \in Resting
             /\ \/ ~Ok(t) /\ t.status = "corrupt"
                \/ FrameRead(t, s, i, p)
<1> DEFINE a == Placed(s, p)
           b == Placed(a, p + 1)
           r == file[p]
           t == HandleRecord(b, r, p, TRUE)
<1>1. /\ s \in PlayerType /\ s.waits = <<>> /\ i \in Ids /\ p \in 1..Len(file) /\ p \in Nat /\ p + 1 \in Nat
      /\ Playable(p)
  BY FramePlayable DEF Resting, States
<1>2. /\ a \in States /\ a \in PlayerType /\ SameNodes(a, s) /\ a.pos = p /\ a.status = s.status
      /\ a.repeat = s.repeat /\ a.maxID = s.maxID /\ a.begun = s.begun /\ a.waits = <<>>
  <2>1. a \in States
    BY <1>1, PlacedStays DEF Resting
  <2>2. /\ a \in PlayerType /\ SameNodes(a, s) /\ a.pos = p /\ a.status = s.status
        /\ a.repeat = s.repeat /\ a.maxID = s.maxID /\ a.begun = s.begun /\ a.waits = s.waits
    BY <1>1, PlaceReplaced
  <2> QED BY <1>1, <2>1, <2>2
<1> HIDE DEF a
<1>3. /\ b \in PlayerType /\ SameNodes(b, a) /\ b.pos = p + 1 /\ b.status = a.status
      /\ b.repeat = a.repeat /\ b.maxID = a.maxID /\ b.begun = a.begun /\ b.waits = a.waits
  BY <1>1, <1>2, PlaceReplaced
<1>4. ProcessOne(a, TRUE) = t
  <2>1. Ok(a)
    BY <1>2 DEF Ok
  <2>2. a.pos \in 1..Len(file) /\ Placed(a, a.pos + 1) = b
    BY <1>1, <1>2
  <2>3. ProcessOne(a, TRUE) = HandleRecord(Placed(a, a.pos + 1), file[a.pos], a.pos, TRUE)
    BY <1>2, <2>1, <2>2, ProcessCases
  <2> QED BY <1>2, <2>2, <2>3
<1> HIDE DEF b
<1>5. r \in RecType /\ r.type = "data" /\ r.node = i
  BY <1>1, FileFacts DEF At
<1>6. \/ t = Fail(b)
      \/ /\ i <= b.maxID /\ b.info[i].valid
         /\ r.num <= b.info[i].frames /\ t = HandleNewData(b, r, p, TRUE)
  <2>1. \/ t = Fail(b)
        \/ r.type = "table" /\ t = b
        \/ EndCase(b, t, r)
        \/ AddedCase(b, t, r, p)
        \/ NodeCase(b, t, r, p, TRUE)
    BY <1>1, <1>3, <1>5, HandledCases
  <2> HIDE DEF t, r
  <2> QED BY <1>5, <2>1 DEF EndCase, AddedCase, NodeCase
<1>7. ProcessRecord(a) = Run(t)
  BY <1>4 DEF ProcessRecord
<1>8. Run(t) \in Resting
  BY <1>2, <1>7, ReadRests
<1>9. CASE t = Fail(b)
  <2>1. Fail(b).waits = <<>> /\ Fail(b).status = "corrupt"
    BY <1>2, <1>3, Failed
  <2>2. Run(t) = t
    BY <1>9, <2>1 DEF Run
  <2> QED BY <1>7, <1>8, <1>9, <2>1, <2>2 DEF Ok, a
<1>10. CASE /\ i <= b.maxID /\ b.info[i].valid
            /\ r.num <= b.info[i].frames /\ t = HandleNewData(b, r, p, TRUE)
  <2>1. r \in RecType /\ r.node \in Ids /\ r.num <= b.info[r.node].frames
    BY <1>1, <1>5, <1>10
  <2>0. PICK q \in BOOLEAN : q = TRUE
    OBVIOUS
  <2> DEFINE h == HandleNewData(b, r, p, q)
  <2>2. /\ h \in PlayerType /\ SameRest(h, b) /\ SameBut(h, b, r.node)
        /\ h.temp[r.node] = b.temp[r.node]
        /\ SameAdded(h.info[r.node], b.info[r.node])
        /\ h.info[r.node].prop = b.info[r.node].prop
        /\ h.info[r.node].last = p /\ h.info[r.node].data = [rec |-> p, undo |-> r.undo]
        /\ h.info[r.node].cur = r.num
        /\ h.shown[r.node].prop = b.shown[r.node].prop
        /\ h.shown[r.node].data = IF q THEN p ELSE b.shown[r.node].data
    <3> HIDE DEF r, t
    <3> QED BY <1>1, <1>3, <2>1, DataHandled
  <2> HIDE DEF h
  <2>3. t = h
    BY <1>10, <2>0 DEF h
  <2> HIDE DEF t
  <2>4. t.waits = <<>>
    BY <1>2, <1>3, <2>2, <2>3 DEF SameRest
  <2>5. Run(t) = t
    BY <2>4 DEF Run
  <2>6. SameBut(t, s, i)
    BY <1>2, <1>3, <1>5, <2>2, <2>3 DEF SameBut, SameNode, SameNodes
  <2>7. /\ t.status = s.status /\ t.pos = p + 1 /\ t.repeat = s.repeat /\ t.maxID = s.maxID
        /\ t.begun = s.begun
    BY <1>2, <1>3, <2>2, <2>3 DEF SameRest
  <2>8. /\ t.temp[i] = s.temp[i] /\ SameAdded(t.info[i], s.info[i])
        /\ t.info[i].prop = s.info[i].prop /\ t.info[i].last = p
        /\ t.info[i].data = [rec |-> p, undo |-> r.undo] /\ t.info[i].cur = r.num
        /\ t.shown[i].data = p /\ t.shown[i].prop = s.shown[i].prop
        /\ s.info[i].valid /\ i <= s.maxID
    <3>1. b.temp[i] = s.temp[i] /\ b.info[i] = s.info[i] /\ b.shown[i] = s.shown[i] /\ b.maxID = s.maxID
      BY <1>2, <1>3 DEF SameNodes
    <3>2. /\ t.temp[i] = b.temp[i] /\ SameAdded(t.info[i], b.info[i])
          /\ t.info[i].prop = b.info[i].prop /\ t.info[i].last = p
          /\ t.info[i].data = [rec |-> p, undo |-> r.undo] /\ t.info[i].cur = r.num
          /\ t.shown[i].data = p /\ t.shown[i].prop = b.shown[i].prop
      <4> HIDE DEF r
      <4> QED BY <1>5, <2>0, <2>2, <2>3
    <3> HIDE DEF r
    <3> QED BY <1>10, <3>1, <3>2
  <2>9. FrameRead(t, s, i, p)
    BY <2>2, <2>3, <2>6, <2>7, <2>8 DEF FrameRead, Ok, r
  <2> QED BY <1>7, <1>8, <2>5, <2>9 DEF a
<1> HIDE DEF t
<1> QED BY <1>6, <1>9, <1>10

\* There is no record at the place of the header.
LEMMA ReadHeader ==
  ASSUME FileOk, NEW s \in Resting, Ok(s)
  PROVE  ProcessRecord(Placed(s, 0)) \in Resting /\ ProcessRecord(Placed(s, 0)).status = "corrupt"
<1> DEFINE a == Placed(s, 0)
<1>1. s \in PlayerType /\ s.waits = <<>> /\ 0 \in Nat /\ ~(0 \in 1..Len(file))
  BY DEF Resting, States
<1>2. Playable(0)
  BY FileFacts DEF Playable
<1>3. a \in States /\ a \in PlayerType /\ a.pos = 0 /\ a.waits = <<>> /\ Ok(a)
  <2>1. a \in States
    BY <1>2, PlacedStays DEF Resting
  <2> QED BY <1>1, <2>1, PlaceReplaced DEF Ok
<1> HIDE DEF a
<1>4. ProcessRecord(a) \in Resting
  BY <1>3, ReadRests
<1>5. ProcessOne(a, TRUE) = Fail(a)
  BY <1>1, <1>3, ProcessCases
<1>6. Fail(a).status = "corrupt" /\ Fail(a).waits = <<>>
  BY <1>3, Failed
<1>7. ProcessRecord(a) = Fail(a)
  BY <1>5, <1>6 DEF ProcessRecord, Run
<1> QED BY <1>4, <1>6, <1>7 DEF a

-----------------------------------------------------------------------------
(* Reading entries and showing the last frames *)

\* A freed data index is read.
Wilded(s) == [s EXCEPT !.status = "wild"]

\* A freed table that is read changes the status only.
LEMMA WildRests ==
  ASSUME NEW s \in Resting
  PROVE  Wilded(s) \in Resting /\ Wilded(s).status = "wild"
<1> DEFINE t == Wilded(s)
<1>1. s \in PlayerType /\ Sound(s) /\ s.waits = <<>>
  BY DEF Resting, States
<1>2. /\ t \in PlayerType /\ SameNodes(t, s) /\ t.pos = s.pos /\ t.status = "wild"
      /\ t.maxID = s.maxID /\ t.waits = s.waits
  BY <1>1 DEF PlayerType, SameNodes, Wilded
<1> HIDE DEF t
<1>3. Sound(t)
  BY <1>1, <1>2, SoundRest DEF Sound
<1> QED BY <1>1, <1>2, <1>3 DEF Resting, States, BeforeEnd, Ok, t

\* What reading the entry of a node comes to.
LEMMA EntryRead ==
  ASSUME FileOk, NEW s \in Resting, NEW i \in Ids
  PROVE  LET t == ReadEntry(s, i)
         IN  /\ t \in Resting
             /\ \/ t = s /\ (s.temp[i] = Null \/ ~Ok(s) \/ i > s.maxID)
                \/ Ok(s) /\ t.status = "wild" /\ s.temp[i] = Freed
                \/ Ok(s) /\ t.status = "corrupt"
                \/ Ok(s) /\ At("data", i, s.temp[i]) /\ FrameRead(t, s, i, s.temp[i])
<1> DEFINE t == ReadEntry(s, i)
<1>1. s \in PlayerType /\ Sound(s) /\ TempKnown(i, s.temp[i])
  BY DEF Resting, States, Sound, Known
<1>2. CASE s.temp[i] = Null \/ ~Ok(s) \/ i > s.maxID
  <2>1. t = s
    BY <1>2 DEF ReadEntry
  <2> QED BY <1>2, <2>1
<1>3. CASE ~(s.temp[i] = Null \/ ~Ok(s) \/ i > s.maxID) /\ s.temp[i] = Freed
  <2>1. t = Wilded(s)
    BY <1>3 DEF ReadEntry, Wilded
  <2> QED BY <1>3, <2>1, WildRests
<1>4. CASE ~(s.temp[i] = Null \/ ~Ok(s) \/ i > s.maxID) /\ s.temp[i] # Freed
  <2>1. t = ProcessRecord(Placed(s, s.temp[i]))
    BY <1>4 DEF ReadEntry, Placed
  <2>2. Ok(s)
    BY <1>4
  <2>3. s.temp[i] = 0 \/ At("data", i, s.temp[i])
    BY <1>1, <1>4 DEF TempKnown
  <2> HIDE DEF t
  <2>4. CASE s.temp[i] = 0
    <3>1. t \in Resting /\ t.status = "corrupt"
      BY <2>1, <2>2, <2>4, ReadHeader
    <3> QED BY <2>2, <3>1 DEF t
  <2>5. CASE At("data", i, s.temp[i])
    <3> DEFINE p == s.temp[i]
    <3>1. At("data", i, p) /\ t = ProcessRecord(Placed(s, p))
      BY <2>1, <2>5
    <3> HIDE DEF p
    <3>2. t \in Resting /\ (t.status = "corrupt" \/ FrameRead(t, s, i, p))
      BY <2>2, <3>1, ReadFrame
    <3> QED BY <2>2, <2>5, <3>2 DEF p, t
  <2> QED BY <2>3, <2>4, <2>5
<1> QED BY <1>2, <1>3, <1>4

\* What reading the entries of all nodes comes to, if no call fails.
AllRead(t, s, m) ==
  /\ Ok(s) /\ t.maxID = s.maxID /\ t.begun = s.begun /\ t.repeat = s.repeat
  /\ \A i \in Ids : t.temp[i] = s.temp[i] /\ SameAdded(t.info[i], s.info[i])
                    /\ t.info[i].prop = s.info[i].prop /\ t.shown[i].prop = s.shown[i].prop
  /\ \A i \in Ids : i <= m /\ s.temp[i] # Null /\ i <= s.maxID =>
       /\ At("data", i, s.temp[i]) /\ s.info[i].valid
       /\ t.shown[i].data = s.temp[i] /\ t.info[i].last = s.temp[i]
       /\ t.info[i].cur = file[s.temp[i]].num
  /\ \A i \in Ids : ~(i <= m /\ s.temp[i] # Null /\ i <= s.maxID) =>
       t.info[i] = s.info[i] /\ t.shown[i] = s.shown[i]

\* One more entry is read.
LEMMA EntryAdded ==
  ASSUME FileOk, NEW s \in Resting, NEW t \in Resting, NEW i \in Ids, NEW u,
         u = ReadEntry(t, i), Ok(t) => AllRead(t, s, i - 1), Ok(u)
  PROVE  AllRead(u, s, i)
<1>1. Ok(t)
  BY EntryRead DEF Ok
<1>2. AllRead(t, s, i - 1)
  BY <1>1
<1>3. i \in Nat /\ \A j \in Ids : j \in Nat /\ ((j <= i <=> j <= i - 1 \/ j = i) /\ ~(i <= i - 1))
  BY DEF Ids
<1>4. CASE u = t /\ (t.temp[i] = Null \/ i > t.maxID)
  <2>1. s.temp[i] = Null \/ ~(i <= s.maxID)
    <3>1. s.maxID \in Int
      BY PlayerFields DEF Resting, States
    <3> QED BY <1>2, <1>3, <1>4, <3>1 DEF AllRead
  <2> QED BY <1>2, <1>3, <1>4, <2>1 DEF AllRead
<1>5. CASE At("data", i, t.temp[i]) /\ FrameRead(u, t, i, t.temp[i])
  <2>1. t.temp[i] = s.temp[i] /\ t.maxID = s.maxID /\ t.info[i].valid = s.info[i].valid
    BY <1>2 DEF AllRead, SameAdded
  <2>2. s.temp[i] # Null /\ i <= s.maxID
    <3>1. t.temp[i] \in Nat /\ ~(-1 \in Nat)
      BY <1>5, FramePlayable
    <3> QED BY <1>5, <2>1, <3>1 DEF FrameRead, Null
  <2>3. \A j \in Ids \ {i} : SameNode(u, t, j)
    BY <1>5 DEF FrameRead, SameBut
  <2>4. /\ u.maxID = s.maxID /\ u.begun = s.begun /\ u.repeat = s.repeat
    BY <1>2, <1>5 DEF FrameRead, AllRead
  <2>5. /\ u.temp[i] = s.temp[i] /\ SameAdded(u.info[i], s.info[i])
        /\ u.info[i].prop = s.info[i].prop /\ u.shown[i].prop = s.shown[i].prop
        /\ At("data", i, s.temp[i]) /\ s.info[i].valid
        /\ u.shown[i].data = s.temp[i] /\ u.info[i].last = s.temp[i]
        /\ u.info[i].cur = file[s.temp[i]].num
    BY <1>2, <1>5, <2>1 DEF FrameRead, AllRead, SameAdded
  <2>6. ASSUME NEW j \in Ids \ {i}
        PROVE  u.info[j] = t.info[j] /\ u.temp[j] = t.temp[j] /\ u.shown[j] = t.shown[j]
    BY <2>3 DEF SameNode
  <2> QED BY <1>2, <1>3, <2>2, <2>4, <2>5, <2>6 DEF AllRead
<1> QED BY <1>1, <1>4, <1>5, EntryRead DEF Ok

\* All entries are read, in the order of the IDs.
LEMMA ReadAll ==
  ASSUME FileOk, NEW s \in Resting
  PROVE  LET t == ReadEntries(s)
         IN  /\ t \in Resting
             /\ Ok(t) => AllRead(t, s, MaxNodes)
             /\ t.status = "wild" => s.status = "wild" \/ \E i \in Ids : s.temp[i] = Freed
<1> DEFINE Good(t, m) ==
             /\ Ok(t) => AllRead(t, s, m)
             /\ t.status = "wild" => s.status = "wild" \/ \E i \in Ids : s.temp[i] = Freed
<1>1. \A t \in Resting, i \in Ids : ReadEntry(t, i) \in Resting
  BY EntryRead
<1>2. PICK h \in [0..MaxNodes -> Resting] :
        /\ h[0] = s /\ \A i \in 1..MaxNodes : h[i] = ReadEntry(h[i - 1], i)
        /\ ReadEntries(s) = h[MaxNodes]
  BY <1>1, EntriesRead
<1>3. Good(s, 0)
  BY DEF AllRead, SameAdded, Ids
<1>4. ASSUME NEW t \in Resting, NEW i \in Ids, Good(t, i - 1)
      PROVE  Good(ReadEntry(t, i), i)
  <2> DEFINE u == ReadEntry(t, i)
  <2>1. Ok(u) => AllRead(u, s, i)
    BY <1>4, EntryAdded
  <2>2. ASSUME u.status = "wild" PROVE s.status = "wild" \/ \E j \in Ids : s.temp[j] = Freed
    <3>1. \/ u = t
          \/ Ok(t) /\ t.temp[i] = Freed
      BY <2>2, EntryRead DEF FrameRead, Ok
    <3>2. CASE u = t
      BY <1>4, <2>2, <3>2
    <3>3. CASE Ok(t) /\ t.temp[i] = Freed
      BY <1>4, <3>3 DEF AllRead
    <3> QED BY <3>1, <3>2, <3>3
  <2> QED BY <2>1, <2>2
<1> DEFINE S == {k \in Nat : k \in 0..MaxNodes => Good(h[k], k)}
<1>5. 0 \in S
  BY <1>2, <1>3
<1>6. ASSUME NEW k \in Nat, k \in S PROVE k + 1 \in S
  <2>1. ASSUME k + 1 \in 0..MaxNodes PROVE Good(h[k + 1], k + 1)
    <3>1. k \in 0..MaxNodes /\ k + 1 \in Ids /\ k + 1 \in 1..MaxNodes /\ (k + 1) - 1 = k
      BY <2>1, RecorderAssumption DEF Ids
    <3>2. h[k] \in Resting /\ Good(h[k], (k + 1) - 1)
      BY <1>2, <1>6, <3>1
    <3>3. h[k + 1] = ReadEntry(h[k], k + 1)
      BY <1>2, <3>1
    <3> HIDE DEF Good
    <3> QED BY <1>4, <3>1, <3>2, <3>3
  <2> HIDE DEF Good
  <2> QED BY <2>1
<1>7. \A k \in Nat : k \in S
  <2> HIDE DEF S
  <2> QED BY <1>5, <1>6, NatInductionSet
<1>8. MaxNodes \in Nat /\ MaxNodes \in 0..MaxNodes
  BY RecorderAssumption
<1>9. Good(h[MaxNodes], MaxNodes) /\ h[MaxNodes] \in Resting
  BY <1>2, <1>7, <1>8
<1> QED BY <1>2, <1>9

-----------------------------------------------------------------------------
(* Showing the last frames *)

\* The blank frame is shown.
Blanked(s, i) == [s EXCEPT !.shown[i].data = 0]

\* Showing the blank frame changes one node only.
LEMMA BlankRests ==
  ASSUME FileOk, NEW s \in Resting, NEW i \in Ids
  PROVE  LET t == Blanked(s, i)
         IN  /\ t \in Resting /\ SameRest(t, s) /\ SameBut(t, s, i) /\ t.info[i] = s.info[i]
             /\ t.temp[i] = s.temp[i] /\ t.shown[i].data = 0 /\ t.shown[i].prop = s.shown[i].prop
<1> DEFINE t == Blanked(s, i)
           x == [s.shown[i] EXCEPT !.data = 0]
<1>1. s \in PlayerType /\ Sound(s) /\ s.waits = <<>> /\ BeforeEnd(s)
  BY DEF Resting, States
<1>2. x \in ShownType /\ x.data = 0 /\ x.prop = s.shown[i].prop
  <2>1. s.shown[i] \in ShownType
    BY <1>1, PlayerFields
  <2> HIDE DEF x
  <2> QED BY <2>1 DEF ShownType, x
<1> HIDE DEF x
<1>3. t = PutNode(s, i, s.info[i], s.temp[i], x)
  BY <1>1 DEF PlayerType, PutNode, Blanked, x
<1>4. s.info[i] \in NodeType /\ s.temp[i] \in Int
  BY <1>1, PlayerFields
<1>5. /\ t \in PlayerType /\ SameRest(t, s) /\ SameBut(t, s, i)
      /\ t.info[i] = s.info[i] /\ t.temp[i] = s.temp[i] /\ t.shown[i] = x
  BY <1>1, <1>2, <1>3, <1>4, NodeReplaced
<1> HIDE DEF t
<1>6. Sound(t)
  <2>1. Known(i, t.info[i], t.temp[i]) /\ s.shown[i].prop \in 0..Len(file)
    BY <1>1, <1>5 DEF Sound
  <2>2. t.shown[i].data \in 0..Len(file) /\ t.shown[i].prop \in 0..Len(file)
    BY <1>2, <1>5, <2>1, FileFacts
  <2>3. t.maxID = s.maxID /\ t.pos = s.pos /\ t.waits = s.waits
    BY <1>5 DEF SameRest
  <2> QED BY <1>1, <1>5, <2>1, <2>2, <2>3, SoundBut
<1>7. BeforeEnd(t)
  BY <1>1, <1>5 DEF BeforeEnd, SameRest, Ok
<1>8. t \in Resting
  BY <1>1, <1>5, <1>6, <1>7 DEF Resting, States, SameRest
<1> QED BY <1>2, <1>5, <1>8 DEF t

\* What handling the last frame of a node again comes to.
LEMMA LastShown ==
  ASSUME FileOk, NEW s \in Resting, NEW i \in Ids
  PROVE  LET t == ShowLast(s, i)
         IN  /\ t \in Resting
             /\ \/ ~Ok(s) /\ t = s
                \/ Ok(s) /\ t.status = "corrupt"
                \/ Ok(s) /\ s.info[i].last = 0 /\ t = Blanked(s, i)
                \/ /\ Ok(s) /\ s.info[i].last # 0 /\ At("data", i, s.info[i].last)
                   /\ FrameRead(t, s, i, s.info[i].last)
<1> DEFINE t == ShowLast(s, i)
<1>1. s \in PlayerType /\ Sound(s) /\ DataKnown(i, s.info[i])
  BY DEF Resting, States, Sound, Known
<1>2. CASE ~Ok(s)
  BY <1>2 DEF ShowLast
<1>3. CASE Ok(s) /\ s.info[i].last = 0
  <2>1. t = Blanked(s, i)
    BY <1>3 DEF ShowLast, Blanked
  <2> QED BY <1>3, <2>1, BlankRests
<1>4. CASE Ok(s) /\ s.info[i].last # 0
  <2> DEFINE p == s.info[i].last
  <2>1. t = ProcessRecord(Placed(s, p))
    BY <1>4 DEF ShowLast, Placed
  <2>2. At("data", i, p)
    BY <1>1, <1>4 DEF DataKnown, NoUndo
  <2> HIDE DEF p, t
  <2>3. t \in Resting /\ (t.status = "corrupt" \/ FrameRead(t, s, i, p))
    BY <1>4, <2>1, <2>2, ReadFrame
  <2> QED BY <1>4, <2>2, <2>3 DEF p, t
<1> QED BY <1>2, <1>3, <1>4

\* The nodes are as they were, but for the frames that are shown.
LastsKept(t, s) ==
  /\ Ok(s) /\ t.maxID = s.maxID /\ t.begun = s.begun /\ t.repeat = s.repeat
  /\ \A i \in Ids : /\ t.temp[i] = s.temp[i] /\ SameAdded(t.info[i], s.info[i])
                    /\ SameData(t.info[i], s.info[i])
                    /\ t.info[i].prop = s.info[i].prop /\ t.shown[i].prop = s.shown[i].prop

\* ShowLast keeps what a node knows of its frames.
LEMMA LastKept ==
  ASSUME FileOk, NEW s, NEW t \in Resting, NEW i \in Ids,
         Ok(t) => LastsKept(t, s), t.status = "wild" => s.status = "wild"
  PROVE  LET u == ShowLast(t, i)
         IN  (Ok(u) => LastsKept(u, s)) /\ (u.status = "wild" => s.status = "wild")
<1> DEFINE u == ShowLast(t, i)
<1>1. \/ ~Ok(t) /\ u = t
      \/ Ok(t) /\ u.status = "corrupt"
      \/ Ok(t) /\ t.info[i].last = 0 /\ u = Blanked(t, i)
      \/ /\ Ok(t) /\ t.info[i].last # 0 /\ At("data", i, t.info[i].last)
         /\ FrameRead(u, t, i, t.info[i].last)
  BY LastShown
<1> HIDE DEF u
<1>2. CASE Ok(t) /\ t.info[i].last = 0 /\ u = Blanked(t, i)
  <2>1. /\ SameRest(u, t) /\ SameBut(u, t, i) /\ u.info[i] = t.info[i]
        /\ u.temp[i] = t.temp[i] /\ u.shown[i].prop = t.shown[i].prop
    BY <1>2, BlankRests
  <2>2. \A j \in Ids : /\ u.info[j] = t.info[j] /\ u.temp[j] = t.temp[j]
                       /\ u.shown[j].prop = t.shown[j].prop
    BY <2>1 DEF SameBut, SameNode
  <2> QED BY <1>2, <2>1, <2>2 DEF LastsKept, SameRest, Ok, u
<1>3. CASE /\ Ok(t) /\ t.info[i].last # 0 /\ At("data", i, t.info[i].last)
           /\ FrameRead(u, t, i, t.info[i].last)
  <2>1. DataKnown(i, t.info[i]) /\ t.info[i].data # NoUndo /\ t.info[i].data \in UndoType
    <3>1. t \in PlayerType /\ DataKnown(i, t.info[i])
      BY DEF Resting, States, Sound, Known
    <3> QED BY <1>3, <3>1, PlayerFields DEF DataKnown, NoUndo
  <2>2. SameData(u.info[i], t.info[i])
    <3>1. t.info[i].data = [rec |-> t.info[i].last, undo |-> file[t.info[i].last].undo]
      BY <2>1 DEF DataKnown, UndoType
    <3> QED BY <1>3, <2>1, <3>1 DEF FrameRead, SameData, DataKnown
  <2>3. ASSUME NEW j \in Ids \ {i}
        PROVE  u.info[j] = t.info[j] /\ u.temp[j] = t.temp[j] /\ u.shown[j] = t.shown[j]
    BY <1>3 DEF FrameRead, SameBut, SameNode
  <2>4. /\ u.maxID = t.maxID /\ u.begun = t.begun /\ u.repeat = t.repeat /\ u.temp[i] = t.temp[i]
        /\ SameAdded(u.info[i], t.info[i]) /\ u.info[i].prop = t.info[i].prop
        /\ u.shown[i].prop = t.shown[i].prop /\ Ok(u)
    BY <1>3 DEF FrameRead
  <2>5. LastsKept(u, s)
    BY <1>3, <2>2, <2>3, <2>4 DEF LastsKept, SameAdded, SameData
  <2> QED BY <2>4, <2>5 DEF Ok, u
<1> QED BY <1>1, <1>2, <1>3 DEF Ok, u

\* ProcessEachNodeLastData does, and shows the frame of the node the seek is for.
LEMMA AllShown ==
  ASSUME FileOk, NEW s \in Resting, NEW n \in Ids
  PROVE  LET t == ProcessEachNodeLastData(s, n)
         IN  /\ t \in Resting
             /\ Ok(t) => LastsKept(t, s)
             /\ t.status = "wild" => s.status = "wild"
             /\ Ok(t) /\ s.info[n].last # 0 =>
                  /\ At("data", n, s.info[n].last)
                  /\ t.shown[n].data = s.info[n].last /\ t.pos = s.info[n].last + 1
<1> DEFINE Sts == {t \in Resting : /\ Ok(t) => LastsKept(t, s)
                                   /\ t.status = "wild" => s.status = "wild"}
<1>1. s \in Sts
  BY DEF LastsKept, SameAdded, SameData
<1>2. ASSUME NEW t \in Sts, NEW i \in Ids PROVE ShowLast(t, i) \in Sts
  <2>1. ShowLast(t, i) \in Resting
    BY LastShown
  <2> QED BY <2>1, LastKept
<1>3. PICK h \in [0..MaxNodes -> Sts] : ProcessEachNodeLastData(s, n) = ShowLast(h[MaxNodes], n)
  <2> HIDE DEF Sts
  <2>1. \A t \in Sts, i \in Ids : ShowLast(t, i) \in Sts
    BY <1>2
  <2> QED BY <1>1, <2>1, LastsShown
<1> DEFINE a == h[MaxNodes]
           t == ShowLast(a, n)
<1>4. a \in Sts /\ t \in Sts
  <2>1. MaxNodes \in 0..MaxNodes
    BY RecorderAssumption
  <2> HIDE DEF Sts
  <2> QED BY <1>2, <1>3, <2>1
<1>5. ASSUME Ok(t), s.info[n].last # 0
      PROVE  /\ At("data", n, s.info[n].last)
             /\ t.shown[n].data = s.info[n].last /\ t.pos = s.info[n].last + 1
  <2>0. a \in Resting
    BY <1>4
  <2> HIDE DEF a
  <2>1. \/ Ok(a) /\ a.info[n].last = 0 /\ t = Blanked(a, n)
        \/ /\ Ok(a) /\ a.info[n].last # 0 /\ At("data", n, a.info[n].last)
           /\ FrameRead(t, a, n, a.info[n].last)
    BY <1>5, <2>0, LastShown DEF Ok
  <2>2. a.info[n].last = s.info[n].last
    <3>1. LastsKept(a, s)
      BY <1>4, <2>1
    <3> QED BY <3>1 DEF LastsKept, SameData
  <2> QED BY <1>5, <2>1, <2>2 DEF FrameRead
<1> QED BY <1>3, <1>4, <1>5

-----------------------------------------------------------------------------
(* The fast seek *)

\* The greatest of some numbers that are bounded.
LEMMA MaxIs ==
  ASSUME NEW a \in Int, NEW b \in Int, NEW S \in SUBSET (a..b), S # {}
  PROVE  Max(S) \in S /\ \A y \in S : y <= Max(S)
<1> DEFINE D == {b - y : y \in S}
<1>1. D \in SUBSET Nat /\ D # {}
  OBVIOUS
<1>2. PICK d \in D : \A e \in D : d <= e
  <2> HIDE DEF D
  <2> QED BY <1>1, LeastNat
<1>3. PICK x \in S : d = b - x
  BY <1>2
<1>4. ASSUME NEW y \in S PROVE x >= y
  <2>1. b - y \in D
    OBVIOUS
  <2>2. b - x <= b - y
    BY <1>2, <1>3, <2>1
  <2> QED BY <2>2
<1>5. \E x0 \in S : \A y \in S : x0 >= y
  BY <1>4
<1> HIDE DEF D
<1>6. Max(S) \in S /\ \A y \in S : Max(S) >= y
  BY <1>5, Zenon DEF Max
<1> DEFINE m == Max(S)
<1>7. m \in S /\ \A y \in S : m >= y
  BY <1>6
<1> HIDE DEF m
<1>8. m \in Int /\ \A y \in S : y \in Int
  BY <1>7
<1>9. \A y \in S : y <= m
  BY <1>7, <1>8
<1> QED BY <1>7, <1>9 DEF m

\* What SeekToFrame asks for.
Asked(s, n, f) ==
  /\ n \in Ids /\ f \in Nat /\ s.info[n].valid
  /\ IF s.info[n].frames = 0 THEN f = 0 ELSE f \in 1..s.info[n].frames

\* The frame up to a place is one of the data index, or none.
LEMMA FrameUpTo ==
  ASSUME FileOk, NEW s, Sound(s), NEW i \in Ids, NEW p
  PROVE  LET k == FrameAt(s, i, p)
         IN  \/ k = 0
             \/ k \in 1..Len(s.info[i].index) /\ s.info[i].index[k].pos <= p
<1> DEFINE ix == s.info[i].index
           K == {0} \cup {k \in DOMAIN ix : ix[k].pos <= p}
<1>1. ix \in Seq(EntryType)
  BY PlayerFields DEF Sound
<1>2. Len(ix) \in Nat /\ DOMAIN ix = 1..Len(ix)
  BY <1>1
<1> HIDE DEF ix
<1>3. K \in SUBSET (0..Len(ix)) /\ K # {}
  BY <1>2
<1>4. Max(K) \in K
  <2>1. 0 \in Int /\ Len(ix) \in Int
    BY <1>2
  <2> HIDE DEF K
  <2> QED BY <1>3, <2>1, MaxIs
<1>5. FrameAt(s, i, p) = Max(K)
  BY DEF FrameAt, ix
<1> QED BY <1>2, <1>4, <1>5 DEF ix

\* An entry of a data index is the place of a frame.
LEMMA EntryPlace ==
  ASSUME FileOk, NEW s, Sound(s), NEW i \in Ids, NEW k \in 1..Len(s.info[i].index)
  PROVE  At("data", i, s.info[i].index[k].pos) /\ file[s.info[i].index[k].pos].num = k
<1> DEFINE ix == s.info[i].index
<1>1. ix \in Seq(EntryType) /\ IndexKnown(i, s.info[i])
  BY PlayerFields DEF Sound, Known
<1>2. ix # <<>> /\ DOMAIN ix = 1..Len(ix)
  BY <1>1
<1>3. IsIndexOf(file, ix, i) /\ ix[k].pos \in 1..Len(file)
  BY <1>1, <1>2 DEF IndexKnown
<1> HIDE DEF ix
<1>4. k \in DOMAIN ix
  BY <1>2 DEF ix
<1> QED BY <1>3, <1>4 DEF IsIndexOf, At, ix

\* The places that a seek reads: of node n and of the others.
Destination(s, n, f) == s.info[n].index[f].pos
Seen(s, n, f, i) ==
  \A j \in Others(s, n) : j < i => SameConfig(s, n, j, FrameAt(s, j, Destination(s, n, f)))
PlaceFor(s, n, f, i) ==
  CASE i = n -> Destination(s, n, f)
    [] i \in Others(s, n) /\ Seen(s, n, f, i) ->
         IF s.info[i].index = <<>> THEN Null
         ELSE Entry(s, i, FrameAt(s, i, Destination(s, n, f))).pos
    [] OTHER -> s.temp[i]

\* Whether there are such places.
Locates(s, n, f) == s.info[n].index # <<>> /\ SameConfig(s, n, n, f)

\* The place of a node is that of its frame, or was there before.
LEMMA PlaceForKnown ==
  ASSUME FileOk, NEW s, Sound(s), NEW n, NEW f, Asked(s, n, f), Locates(s, n, f), NEW i \in Ids
  PROVE  /\ TempKnown(i, PlaceFor(s, n, f, i)) /\ PlaceFor(s, n, f, i) \in Int
         /\ At("data", n, Destination(s, n, f)) /\ file[Destination(s, n, f)].num = f
         /\ i = n => PlaceFor(s, n, f, i) = Destination(s, n, f)
         /\ i \in Others(s, n) /\ Seen(s, n, f, i) =>
              PlaceFor(s, n, f, i) # Freed /\ PlaceFor(s, n, f, i) <= Destination(s, n, f)
         /\ PlaceFor(s, n, f, i) = Freed => i # n /\ s.temp[i] = Freed
         /\ i # n /\ i \notin Others(s, n) => PlaceFor(s, n, f, i) = s.temp[i]
<1> DEFINE dest == Destination(s, n, f)
           k == FrameAt(s, i, dest)
           w == PlaceFor(s, n, f, i)
<1>1. n \in Ids /\ s.info[n].index \in Seq(EntryType) /\ IndexKnown(n, s.info[n])
      /\ s.info[i].index \in Seq(EntryType) /\ TempKnown(i, s.temp[i]) /\ s.temp[i] \in Int
  BY PlayerFields DEF Sound, Known, Asked
<1>2. f \in 1..Len(s.info[n].index)
  <2>1. s.info[n].index # <<>> /\ Len(s.info[n].index) = s.info[n].frames
    BY <1>1 DEF Locates, IndexKnown
  <2>2. Len(s.info[n].index) # 0
    BY <1>1, <2>1
  <2> QED BY <2>1, <2>2 DEF Asked
<1>3. At("data", n, dest) /\ file[dest].num = f
  BY <1>1, <1>2, EntryPlace DEF Destination
<1>4. dest \in Nat \ {0} /\ n \in Ids
  <2> HIDE DEF dest
  <2> QED BY <1>3, FramePlayable
<1>5. CASE i = n
  <2>0. i \notin Others(s, n)
    BY <1>5 DEF Others
  <2>1. w = dest
    BY <1>5, <2>0 DEF PlaceFor
  <2>2. TempKnown(i, dest)
    BY <1>3, <1>5 DEF TempKnown, At
  <2>3. dest # Freed /\ i \notin Others(s, n)
    BY <1>4, <1>5 DEF Freed, Others
  <2> HIDE DEF dest, w
  <2> QED BY <1>3, <1>4, <1>5, <2>1, <2>2, <2>3 DEF dest, w
<1>6. CASE i # n /\ i \in Others(s, n) /\ Seen(s, n, f, i)
  <2>1. w = IF s.info[i].index = <<>> THEN Null ELSE Entry(s, i, k).pos
    BY <1>6 DEF PlaceFor
  <2>2. k = 0 \/ (k \in 1..Len(s.info[i].index) /\ s.info[i].index[k].pos <= dest)
    BY <1>1, FrameUpTo
  <2>3. CASE s.info[i].index = <<>>
    <3>1. w = Null /\ TempKnown(i, Null) /\ Null <= dest /\ Null \in Int /\ Null # Freed
      BY <1>4, <2>1, <2>3 DEF Null, Freed, TempKnown
    <3> HIDE DEF dest, w
    <3> QED BY <1>3, <1>6, <3>1 DEF dest, w
  <2>4. CASE s.info[i].index # <<>>
    <3>1. w = Entry(s, i, k).pos
      BY <2>1, <2>4
    <3>2. 1 \in 1..Len(s.info[i].index)
      BY <1>1, <2>4
    <3>3. \E q \in 1..Len(file) : At("data", i, q)
      BY <3>2, EntryPlace DEF At
    <3>4. w = 0 \/ (At("data", i, w) /\ w <= dest)
      <4>1. CASE k = 0
        BY <3>1, <4>1 DEF Entry
      <4>2. CASE k # 0
        <5>1. k \in 1..Len(s.info[i].index) /\ s.info[i].index[k].pos <= dest
          BY <2>2, <4>2
        <5>2. w = s.info[i].index[k].pos
          BY <3>1, <4>2 DEF Entry
        <5> HIDE DEF k, w, dest
        <5> QED BY <5>1, <5>2, EntryPlace
      <4> QED BY <4>1, <4>2
    <3> HIDE DEF dest, w
    <3>5. w \in Nat /\ w <= dest
      BY <1>4, <3>4, FramePlayable
    <3>6. TempKnown(i, w) /\ w # Freed
      BY <3>3, <3>4, <3>5 DEF TempKnown, Freed
    <3> QED BY <1>3, <1>6, <3>5, <3>6 DEF dest, w
  <2> QED BY <2>3, <2>4
<1>7. CASE i # n /\ ~(i \in Others(s, n) /\ Seen(s, n, f, i))
  <2>1. w = s.temp[i]
    BY <1>7 DEF PlaceFor
  <2> HIDE DEF dest, w
  <2> QED BY <1>1, <1>3, <1>7, <2>1 DEF dest, w
<1> QED BY <1>5, <1>6, <1>7

\* What SeekLocations does to a state at rest.
LEMMA Located ==
  ASSUME FileOk, NEW s \in Resting, NEW n, NEW f, Asked(s, n, f)
  PROVE  LET t == SeekLocations(s, n, f)
         IN  /\ t \in Resting /\ SameRest(t, s) /\ t.info = s.info /\ t.shown = s.shown
             /\ \/ t = s
                \/ Locates(s, n, f) /\ \A i \in Ids : t.temp[i] = PlaceFor(s, n, f, i)
             /\ Locates(s, n, f) => \A i \in Ids : t.temp[i] = PlaceFor(s, n, f, i)
<1> DEFINE t == SeekLocations(s, n, f)
           g == [i \in Ids |-> PlaceFor(s, n, f, i)]
           u == [s EXCEPT !.temp = g]
<1>1. s \in PlayerType /\ Sound(s) /\ s.waits = <<>> /\ BeforeEnd(s)
  BY DEF Resting, States
<1>2. CASE ~Locates(s, n, f)
  <2>1. t = s
    BY <1>2 DEF Locates, SeekLocations
  <2> QED BY <1>2, <2>1 DEF SameRest
<1>3. CASE Locates(s, n, f)
  <2>1. t = u
    <3>1. ~(s.info[n].index = <<>> \/ ~SameConfig(s, n, n, f))
      BY <1>3 DEF Locates
    <3> QED BY <3>1 DEF SeekLocations, PlaceFor, Seen, Destination
  <2>2. \A i \in Ids : TempKnown(i, PlaceFor(s, n, f, i)) /\ PlaceFor(s, n, f, i) \in Int
    BY <1>1, <1>3, PlaceForKnown
  <2>3. g \in [Ids -> Int] /\ \A i \in Ids : g[i] = PlaceFor(s, n, f, i)
    BY <2>2
  <2> HIDE DEF g
  <2>4. /\ u \in PlayerType /\ SameRest(u, s) /\ u.info = s.info /\ u.shown = s.shown /\ u.temp = g
    BY <1>1, <2>3 DEF PlayerType, SameRest
  <2> HIDE DEF u, t
  <2>5. \A i \in Ids : Known(i, u.info[i], u.temp[i])
    BY <1>1, <2>2, <2>3, <2>4 DEF Sound, Known
  <2>6. Sound(u)
    BY <1>1, <2>4, <2>5 DEF Sound, SameRest
  <2>7. BeforeEnd(u)
    BY <1>1, <2>4 DEF BeforeEnd, SameRest, Ok
  <2>8. u \in Resting
    BY <1>1, <2>4, <2>6, <2>7 DEF Resting, States, SameRest
  <2> QED BY <1>3, <2>1, <2>3, <2>4, <2>8 DEF t
<1> QED BY <1>2, <1>3

\* A complete file has data of nodes that its header counts.
LEMMA DataCounted ==
  ASSUME FileOk, header # InvalidNodeID, NEW s, Sound(s), NEW i \in Ids, TempKnown(i, s.temp[i]),
         s.temp[i] # Null
  PROVE  i <= s.maxID /\ i \in Generators
<1>1. PICK k \in 1..Len(file) : At("data", i, k)
  BY DEF TempKnown
<1>2. file[k].type = "data" /\ file[k].node = i
  BY <1>1 DEF At
<1>3. i \in 1..numNodes /\ i \in Generators
  BY <1>2 DEF FileOk, FileShape, NodesAdded, FramesBegin
<1>4. s.maxID = numNodes
  BY DEF FileOk, FileShape, HeaderRight, Sound
<1> QED BY <1>3, <1>4

\* Node n shows its frame f, and playing goes on behind it.
Sought(t, n, f) ==
  /\ At("data", n, t.shown[n].data) /\ file[t.shown[n].data].num = f
  /\ t.pos = t.shown[n].data + 1

\* The nodes that have a frame up to the destination are read, and no other.
FastRead(t, s, n, f) ==
  /\ t.pos = Destination(s, n, f) + 1
  /\ \A i \in Ids :
       LET w == PlaceFor(s, n, f, i)
       IN  IF w = Null THEN t.info[i] = s.info[i]
           ELSE /\ At("data", i, w) /\ w <= Destination(s, n, f) /\ s.info[i].valid
                /\ t.info[i].last = w /\ t.info[i].cur = file[w].num

\* A fast seek that succeeds shows the frame that was asked for.
LEMMA FastSought ==
  ASSUME FileOk, header # InvalidNodeID, NEW s \in Resting, Ok(s), NEW n, NEW f, Asked(s, n, f),
         CanSeekFast(s, n, f)
  PROVE  LET t == SeekFast(s, n, f)
         IN  /\ t \in Resting
             /\ Ok(t) => Sought(t, n, f) /\ FastRead(t, s, n, f)
             /\ t.status = "wild" => \E i \in Ids : s.temp[i] = Freed /\ ~s.info[i].generator
             /\ Ok(t) => /\ t.begun = s.begun
                         /\ \A i \in Ids : /\ SameAdded(t.info[i], s.info[i])
                                           /\ t.temp[i] = Freed => s.temp[i] = Freed
<1> DEFINE a == SeekLocations(s, n, f)
           d == ReadEntries(a)
           t == SeekFast(s, n, f)
           dest == Destination(s, n, f)
           P == {d.temp[i] : i \in Ids} \ {Null}
<1>1. n \in Ids /\ s \in PlayerType /\ Sound(s)
  BY DEF Asked, Resting, States
<1>2. Locates(s, n, f) /\ \A i \in Others(s, n) : Seen(s, n, f, i)
  <2>1. \A i \in Others(s, n) : SameConfig(s, n, i, FrameAt(s, i, dest))
    BY DEF CanSeekFast, Destination
  <2> QED BY <2>1 DEF CanSeekFast, Locates, Seen, Destination
<1>3. /\ a \in Resting /\ SameRest(a, s) /\ a.info = s.info
      /\ \A i \in Ids : a.temp[i] = PlaceFor(s, n, f, i)
  BY <1>2, Located
<1>4. /\ At("data", n, dest) /\ file[dest].num = f /\ a.temp[n] = dest
      /\ \A i \in Ids :
           /\ i \in Others(s, n) => a.temp[i] # Freed /\ a.temp[i] <= dest
           /\ a.temp[i] = Freed => s.temp[i] = Freed /\ i # n
           /\ i # n /\ i \notin Others(s, n) => a.temp[i] = s.temp[i]
  <2> HIDE DEF a, dest
  <2>1. \A i \in Ids : a.temp[i] = PlaceFor(s, n, f, i)
    BY <1>3
  <2>2. At("data", n, dest) /\ file[dest].num = f /\ PlaceFor(s, n, f, n) = dest
    BY <1>1, <1>2, PlaceForKnown DEF dest
  <2>3. ASSUME NEW i \in Ids
        PROVE  /\ i \in Others(s, n) => PlaceFor(s, n, f, i) # Freed /\ PlaceFor(s, n, f, i) <= dest
               /\ PlaceFor(s, n, f, i) = Freed => s.temp[i] = Freed /\ i # n
               /\ i # n /\ i \notin Others(s, n) => PlaceFor(s, n, f, i) = s.temp[i]
    BY <1>1, <1>2, PlaceForKnown DEF dest
  <2> QED BY <1>1, <2>1, <2>2, <2>3
<1>5. d \in Resting /\ (Ok(d) => AllRead(d, a, MaxNodes))
      /\ (d.status = "wild" => a.status = "wild" \/ \E i \in Ids : a.temp[i] = Freed)
  BY <1>3, ReadAll
<1>6. t = IF Ok(d) THEN Placed(d, Max(P) + 1) ELSE d
  BY DEF SeekFast, Placed
<1> HIDE DEF a, d, P, t, dest
<1>7. ASSUME d.status = "wild"
      PROVE  \E i \in Ids : s.temp[i] = Freed /\ ~s.info[i].generator
  <2>1. a.status = "ok"
    BY <1>3 DEF SameRest, Ok
  <2>2. PICK i \in Ids : a.temp[i] = Freed
    BY <1>5, <1>7, <2>1
  <2>3. s.temp[i] = Freed /\ i # n /\ i \notin Others(s, n)
    BY <1>4, <2>2
  <2> QED BY <2>3 DEF Others
<1>8. CASE ~Ok(d)
  <2>1. t = d
    BY <1>6, <1>8
  <2> QED BY <1>5, <1>7, <1>8, <2>1 DEF t
<1>9. CASE Ok(d)
  <2>1. AllRead(d, a, MaxNodes) /\ d \in PlayerType /\ Sound(a) /\ dest \in Nat \ {0}
        /\ dest \in 1..Len(file) /\ Playable(dest + 1)
    BY <1>3, <1>4, <1>5, <1>9, FramePlayable DEF Resting, States
  <2>2. ASSUME NEW i \in Ids, a.temp[i] # Null
        PROVE  a.temp[i] \in Nat /\ a.temp[i] <= dest /\ d.temp[i] = a.temp[i]
               /\ (i = n => d.shown[n].data = dest)
               /\ At("data", i, a.temp[i]) /\ s.info[i].valid
               /\ d.info[i].last = a.temp[i] /\ d.info[i].cur = file[a.temp[i]].num
    <3>1. TempKnown(i, a.temp[i])
      BY <2>1 DEF Sound, Known
    <3>2. i <= a.maxID /\ i \in Generators
      BY <2>1, <2>2, <3>1, DataCounted
    <3>3. i <= MaxNodes
      BY RecorderAssumption DEF Ids
    <3>4. At("data", i, a.temp[i]) /\ a.info[i].valid /\ d.shown[i].data = a.temp[i]
          /\ d.temp[i] = a.temp[i]
          /\ d.info[i].last = a.temp[i] /\ d.info[i].cur = file[a.temp[i]].num
      BY <2>1, <2>2, <3>2, <3>3 DEF AllRead
    <3>5. a.info[i].generator
      BY <2>1, <3>2, <3>4 DEF Sound, Known, AddedKnown
    <3>6. i = n \/ i \in Others(s, n)
      BY <1>3, <3>5 DEF Others
    <3>7. a.temp[i] \in Nat
      BY <3>4, FramePlayable
    <3>8. a.temp[i] <= dest
      <4>1. CASE i = n
        BY <1>4, <2>1, <4>1
      <4>2. CASE i \in Others(s, n)
        BY <1>4, <4>2
      <4> QED BY <3>6, <4>1, <4>2
    <3> QED BY <1>3, <1>4, <3>4, <3>7, <3>8
  <2>3. \A i \in Ids : d.temp[i] = a.temp[i] /\ SameAdded(d.info[i], s.info[i])
    BY <1>3, <2>1 DEF AllRead
  <2>4. dest # Null /\ a.temp[n] = dest
    BY <1>4, <2>1 DEF Null
  <2>5. P \in SUBSET (0..dest) /\ dest \in P
    BY <1>1, <2>2, <2>3, <2>4 DEF P
  <2>6. Max(P) = dest
    <3>1. 0 \in Int /\ dest \in Int /\ P # {}
      BY <2>1, <2>5
    <3>2. Max(P) \in P /\ \A y \in P : y <= Max(P)
      BY <2>5, <3>1, MaxIs
    <3>3. Max(P) \in 0..dest /\ dest <= Max(P)
      BY <2>5, <3>2
    <3> QED BY <2>1, <3>3
  <2>7. t = Placed(d, dest + 1)
    BY <1>6, <1>9, <2>6
  <2>8. dest + 1 \in Nat
    BY <2>1
  <2>9. /\ SameNodes(t, d) /\ t.pos = dest + 1 /\ t.status = d.status
        /\ t.begun = d.begun /\ t.waits = d.waits
    BY <2>1, <2>7, <2>8, PlaceReplaced
  <2>10. t \in Resting
    <3>1. t \in States
      BY <1>5, <2>1, <2>7, PlacedStays DEF Resting
    <3> QED BY <1>5, <2>9, <3>1 DEF Resting
  <2>11. Sought(t, n, f)
    BY <1>1, <1>4, <2>2, <2>4, <2>9 DEF Sought, SameNodes
  <2>12. t.begun = s.begun
    BY <1>3, <2>1, <2>9 DEF AllRead, SameRest
  <2>13. \A i \in Ids : /\ SameAdded(t.info[i], s.info[i])
                        /\ t.temp[i] = Freed => s.temp[i] = Freed
    BY <1>4, <2>3, <2>9 DEF SameNodes
  <2>14. t.status # "wild"
    BY <1>9, <2>9 DEF Ok
  <2>15. FastRead(t, s, n, f)
    <3>1. ASSUME NEW i \in Ids, a.temp[i] = Null PROVE t.info[i] = s.info[i]
      BY <1>3, <2>1, <2>9, <3>1 DEF AllRead, SameNodes
    <3>2. ASSUME NEW i \in Ids, a.temp[i] # Null
          PROVE  /\ At("data", i, a.temp[i]) /\ a.temp[i] <= dest /\ s.info[i].valid
                 /\ t.info[i].last = a.temp[i] /\ t.info[i].cur = file[a.temp[i]].num
      BY <2>2, <2>9, <3>2 DEF SameNodes
    <3>3. dest = Destination(s, n, f) /\ \A i \in Ids : a.temp[i] = PlaceFor(s, n, f, i)
      BY <1>3 DEF dest
    <3> QED BY <2>9, <3>1, <3>2, <3>3 DEF FastRead
  <2> QED BY <2>10, <2>11, <2>12, <2>13, <2>14, <2>15 DEF t
<1> QED BY <1>8, <1>9

-----------------------------------------------------------------------------
(* The seek back *)

\* In a complete file the frames of a node are numbered in their order.
LEMMA FramesNumbered ==
  ASSUME FileOk, header # InvalidNodeID, NEW i
  PROVE  /\ \A k \in 1..Len(file) : At("data", i, k) => file[k].num \in Nat \ {0}
         /\ \A j, k \in 1..Len(file) :
              At("data", i, j) /\ At("data", i, k) => (j < k <=> file[j].num < file[k].num)
         /\ \A k \in 1..Len(file) : At("data", i, k) =>
              \/ file[k].undo = 0 /\ file[k].num = 1
              \/ /\ At("data", i, file[k].undo) /\ file[k].undo < k
                 /\ file[file[k].undo].num = file[k].num - 1
<1> SUFFICES ASSUME NEW k0 \in 1..Len(file), At("data", i, k0)
             PROVE  /\ \A k \in 1..Len(file) : At("data", i, k) => file[k].num \in Nat \ {0}
                    /\ \A j, k \in 1..Len(file) :
                         At("data", i, j) /\ At("data", i, k) => (j < k <=> file[j].num < file[k].num)
                    /\ \A k \in 1..Len(file) : At("data", i, k) =>
                         \/ file[k].undo = 0 /\ file[k].num = 1
                         \/ /\ At("data", i, file[k].undo) /\ file[k].undo < k
                            /\ file[file[k].undo].num = file[k].num - 1
  OBVIOUS
<1>1. /\ Len(file) \in Nat /\ DOMAIN file = 1..Len(file)
      /\ \A k \in 1..Len(file) : file[k].undo \in Nat
  BY FileFacts
<1>2. PICK a \in 1..Len(file) : HasTable(file[a]) /\ file[a].node = i
  <2>1. k0 \in DOMAIN file /\ file[k0].type = "data" /\ file[k0].node = i
    BY <1>1 DEF At
  <2> QED BY <1>1, <2>1 DEF FileOk, RecorderInv, TablesExact
<1> DEFINE ix == file[file[a].table].index
<1>3. IsIndexOf(file, ix, i) /\ ix \in Seq(EntryType)
  <2>1. IsIndexOf(file, ix, i)
    BY <1>1, <1>2 DEF FileOk, RecorderInv, TablesExact
  <2>2. file[a].table \in 1..Len(file)
    BY <1>2 DEF FileOk, RecorderInv, TablesKept
  <2> QED BY <2>1, <2>2, FileFacts
<1> HIDE DEF ix
<1>4. /\ DOMAIN ix = 1..Len(ix) /\ Len(ix) \in Nat
      /\ \A k \in 1..Len(ix) : file[ix[k].pos].type = "data" /\ file[ix[k].pos].node = i
                               /\ file[ix[k].pos].num = k /\ ix[k].pos \in Nat
      /\ \A p \in 1..Len(file) : At("data", i, p) => \E k \in 1..Len(ix) : ix[k].pos = p
      /\ \A j, k \in 1..Len(ix) : j < k => ix[j].pos < ix[k].pos
  <2>1. DOMAIN ix = 1..Len(ix) /\ Len(ix) \in Nat /\ \A k \in 1..Len(ix) : ix[k] \in EntryType
    BY <1>3, LenProperties, ElementOfSeq
  <2> QED BY <1>1, <1>3, <2>1 DEF IsIndexOf, At, EntryType
<1>5. ASSUME NEW k \in 1..Len(file), At("data", i, k)
      PROVE  file[k].num \in 1..Len(ix) /\ ix[file[k].num].pos = k
  BY <1>4, <1>5
<1>6. ASSUME NEW j \in 1..Len(file), NEW k \in 1..Len(file), At("data", i, j), At("data", i, k)
      PROVE  j < k <=> file[j].num < file[k].num
  <2>1. /\ file[j].num \in 1..Len(ix) /\ ix[file[j].num].pos = j
        /\ file[k].num \in 1..Len(ix) /\ ix[file[k].num].pos = k
    BY <1>5, <1>6
  <2>2. \/ file[j].num < file[k].num
        \/ file[j].num = file[k].num
        \/ file[k].num < file[j].num
    BY <1>4, <2>1
  <2>3. file[j].num < file[k].num => j < k
    BY <1>4, <2>1
  <2>4. file[k].num < file[j].num => k < j
    BY <1>4, <2>1
  <2> QED BY <2>1, <2>2, <2>3, <2>4
<1>7. ASSUME NEW k \in 1..Len(file), At("data", i, k)
      PROVE  \/ file[k].undo = 0 /\ file[k].num = 1
             \/ /\ At("data", i, file[k].undo) /\ file[k].undo < k
                /\ file[file[k].undo].num = file[k].num - 1
  <2> DEFINE u == file[k].undo
             m == file[k].num
  <2>1. m \in 1..Len(ix) /\ ix[m].pos = k /\ u \in Nat
    BY <1>1, <1>5, <1>7
  <2>2. IsLastRec(file, "data", i, k, u)
    BY <1>7, FileFacts DEF At
  <2> HIDE DEF u, m
  <2>3. u = 0 \/ (At("data", i, u) /\ u < k /\ u \in 1..Len(file))
    BY <1>1, <2>2 DEF IsLastRec, At
  <2>4. CASE m = 1
    <3>1. u = 0
      <4>1. SUFFICES ASSUME u # 0 PROVE FALSE
        OBVIOUS
      <4>2. file[u].num \in 1..Len(ix) /\ file[u].num < 1
        BY <1>5, <1>6, <1>7, <2>3, <2>4, <4>1 DEF m
      <4> QED BY <1>4, <4>2
    <3> QED BY <2>4, <3>1 DEF u, m
  <2>5. CASE m # 1
    <3> DEFINE q == ix[m - 1].pos
    <3>1. m - 1 \in 1..Len(ix) /\ m - 1 < m
      BY <1>4, <2>1, <2>5
    <3>2. q < k /\ q \in Nat /\ file[q].type = "data" /\ file[q].node = i /\ file[q].num = m - 1
      BY <1>4, <2>1, <3>1
    <3> HIDE DEF q
    <3>3. q # 0
      <4>1. CASE m - 1 = 1
        \* The first entry is of a place in the file.
        <5>1. \A e \in Entries : e.pos \in 1..Len(file)
          BY DEF FileOk, RecorderInv, EntriesPlaced
        <5>2. file[a].table \in 1..Len(file)
          BY <1>2 DEF FileOk, RecorderInv, TablesKept
        <5>3. ix[m - 1] \in Entries
          <6>1. ix[m - 1] \in Range(ix)
            BY <1>4, <3>1 DEF Range
          <6> QED BY <1>1, <5>2, <6>1, EntryIn DEF ix
        <5> QED BY <5>1, <5>3 DEF q
      <4>2. CASE m - 1 # 1
        <5>1. m - 2 \in 1..Len(ix) /\ m - 2 < m - 1
          BY <1>4, <2>1, <3>1, <4>2
        <5>2. ix[m - 2].pos \in Nat /\ ix[m - 2].pos < q
          BY <1>4, <3>1, <5>1 DEF q
        <5> QED BY <3>2, <5>2
      <4> QED BY <4>1, <4>2
    <3>4. q \in 1..(k - 1) /\ q \in 1..Len(file)
      BY <1>1, <3>2, <3>3
    <3>5. q <= u
      BY <2>2, <3>2, <3>4 DEF IsLastRec
    <3>6. At("data", i, u) /\ u < k /\ u \in 1..Len(file)
      BY <2>1, <2>3, <3>4, <3>5
    <3>7. file[u].num < m /\ file[u].num \in 1..Len(ix)
      BY <1>5, <1>6, <1>7, <3>6 DEF m
    <3>8. ~(file[u].num < m - 1)
      <4>1. At("data", i, q)
        BY <3>2, <3>4 DEF At
      <4>2. ~(u < q)
        BY <2>1, <3>4, <3>5
      <4> QED BY <1>6, <3>2, <3>4, <3>6, <4>1, <4>2
    <3>9. file[u].num = m - 1
      <4> DEFINE v == file[u].num
      <4>1. v \in Int /\ m \in Int /\ v < m /\ ~(v < m - 1)
        BY <1>4, <2>1, <3>7, <3>8
      <4> HIDE DEF v
      <4> QED BY <4>1 DEF v
    <3> QED BY <3>6, <3>9 DEF u, m
  <2> QED BY <2>4, <2>5
<1>8. \A k \in 1..Len(file) : At("data", i, k) => file[k].num \in Nat \ {0}
  BY <1>4, <1>5
<1>9. \A j, k \in 1..Len(file) :
        At("data", i, j) /\ At("data", i, k) => (j < k <=> file[j].num < file[k].num)
  BY <1>6
<1>10. \A k \in 1..Len(file) : At("data", i, k) =>
         \/ file[k].undo = 0 /\ file[k].num = 1
         \/ /\ At("data", i, file[k].undo) /\ file[k].undo < k
            /\ file[file[k].undo].num = file[k].num - 1
  BY <1>7
<1> QED BY <1>8, <1>9, <1>10

\* Going back from a frame with a larger number, the one that is asked for is
\* found, if any.
LEMMA FrameFound ==
  ASSUME FileOk, header # InvalidNodeID, NEW i, NEW p, NEW f \in Nat \ {0},
         \/ p = 0
         \/ At("data", i, p) /\ f <= file[p].num
  PROVE  LET d == FindFrame(p, f)
         IN  d = 0 \/ (At("data", i, d) /\ file[d].num = f)
<1> DEFINE Sts == {0} \cup {q \in 1..Len(file) : At("data", i, q)}
           N == Len(file)
           Near(q, k) == \/ q = 0
                         \/ /\ At("data", i, q) /\ f <= file[q].num
                            /\ file[q].num = f \/ q <= N - k
<1>1. N \in Nat /\ p \in Sts
  BY FileFacts DEF At
<1>2. \A q \in Sts : FrameBefore(q, f) \in Sts
  <2> TAKE q \in Sts
  <2>1. CASE q = 0 \/ file[q].num <= f
    BY <2>1 DEF FrameBefore
  <2>2. CASE ~(q = 0 \/ file[q].num <= f)
    <3>1. q \in 1..Len(file) /\ At("data", i, q)
      BY <2>2
    <3>2. file[q].undo = 0 \/ At("data", i, file[q].undo)
      BY <3>1, FramesNumbered
    <3>3. FrameBefore(q, f) = file[q].undo
      BY <2>2 DEF FrameBefore
    <3> QED BY <3>2, <3>3 DEF At
  <2> QED BY <2>1, <2>2
<1>3. PICK h \in [0..Len(file) -> Sts] :
        /\ h[0] = p /\ \A k \in 1..Len(file) : h[k] = FrameBefore(h[k - 1], f)
        /\ FindFrame(p, f) = h[Len(file)]
  <2> HIDE DEF Sts, N
  <2>1. p \in Sts /\ \A q \in Sts : FrameBefore(q, f) \in Sts
    BY <1>1, <1>2
  <2>2. FrameChain(Sts, p, f)
    BY <2>1, FramesFollowed
  <2> QED BY <2>2 DEF FrameChain
<1>4. ASSUME NEW q, NEW k \in 1..N, Near(q, k - 1)
      PROVE  Near(FrameBefore(q, f), k)
  <2> DEFINE r == FrameBefore(q, f)
  <2>1. CASE q = 0 \/ file[q].num <= f
    <3>1. r = q
      BY <2>1 DEF FrameBefore
    <3>2. q = 0 \/ (At("data", i, q) /\ file[q].num = f /\ f <= file[q].num)
      <4>1. At("data", i, q) => file[q].num \in Nat
        BY FileFacts DEF At
      <4> QED BY <1>4, <2>1, <4>1
    <3> HIDE DEF r
    <3> QED BY <3>1, <3>2 DEF r
  <2>2. CASE ~(q = 0 \/ file[q].num <= f)
    <3>1. r = file[q].undo
      BY <2>2 DEF FrameBefore
    <3>2. At("data", i, q) /\ q \in 1..N /\ file[q].num \in Nat /\ ~(file[q].num <= f)
      BY <1>4, <2>2, FileFacts DEF At
    <3>3. q <= N - (k - 1)
      BY <1>4, <2>2, <3>2
    <3>4. \/ r = 0
          \/ At("data", i, r) /\ r < q /\ file[r].num = file[q].num - 1
      BY <3>1, <3>2, FramesNumbered
    <3> HIDE DEF r, N
    <3>5. CASE At("data", i, r) /\ r < q /\ file[r].num = file[q].num - 1
      <4>1. f <= file[r].num
        BY <3>2, <3>5
      <4>2. r \in Nat
        BY <3>5, FileFacts DEF At
      <4>3. r <= N - k
        BY <1>1, <3>2, <3>3, <3>5, <4>2 DEF N
      <4> QED BY <3>5, <4>1, <4>3 DEF r
    <3> QED BY <3>4, <3>5 DEF r
  <2> QED BY <2>1, <2>2
<1>5. Near(p, 0)
  <2>1. At("data", i, p) => p <= N - 0
    BY <1>1 DEF At
  <2> QED BY <2>1
<1> DEFINE S == {k \in Nat : k \in 0..N => Near(h[k], k)}
<1>6. 0 \in S
  BY <1>3, <1>5
<1>7. ASSUME NEW k \in Nat, k \in S PROVE k + 1 \in S
  <2>1. ASSUME k + 1 \in 0..N PROVE Near(h[k + 1], k + 1)
    <3>1. k \in 0..N /\ k + 1 \in 1..N /\ (k + 1) - 1 = k
      BY <1>1, <2>1
    <3>2. Near(h[k], (k + 1) - 1)
      BY <1>7, <3>1
    <3>3. h[k + 1] = FrameBefore(h[k], f)
      BY <1>3, <3>1
    <3> HIDE DEF Near
    <3> QED BY <1>4, <3>1, <3>2, <3>3
  <2> HIDE DEF Near
  <2> QED BY <2>1
<1>8. \A k \in Nat : k \in S
  <2> HIDE DEF S
  <2> QED BY <1>6, <1>7, NatInductionSet
<1>9. Near(h[N], N)
  BY <1>1, <1>8
<1>10. At("data", i, h[N]) => ~(h[N] <= N - N)
  BY <1>1 DEF At
<1> QED BY <1>3, <1>9, <1>10

\* An undo chain stays with the records of its kind and node.
Chain(type, i) == {u \in UndoType : At(type, i, u.rec) /\ u.undo = file[u.rec].undo}

\* Following the undo places stays in the chain.
LEMMA ChainEnds ==
  ASSUME FileOk, NEW type \in {"prop", "data"}, NEW i, NEW u \in Chain(type, i), NEW dest
  PROVE  UndoTo(u, dest) \in Chain(type, i)
<1>1. ASSUME NEW v \in Chain(type, i) PROVE UndoOnce(v, dest) \in Chain(type, i)
  <2> DEFINE w == file[v.rec].undo
  <2>1. CASE v.rec <= dest \/ v.undo = 0
    BY <2>1 DEF UndoOnce
  <2>2. CASE ~(v.rec <= dest \/ v.undo = 0)
    <3>1. At(type, i, v.rec) /\ v.undo = w /\ v.rec \in 1..Len(file) /\ w # 0
      BY <2>2 DEF Chain, At
    <3>2. IsLastRec(file, type, i, v.rec, w) /\ Len(file) \in Nat
      BY <3>1, FileFacts DEF At
    <3>3. UndoOnce(v, dest) = [rec |-> w, undo |-> file[w].undo]
      BY <2>2, <3>1 DEF UndoOnce
    <3> HIDE DEF w
    <3>4. At(type, i, w) /\ w \in 1..Len(file)
      BY <3>1, <3>2 DEF IsLastRec, At
    <3>5. w \in Nat /\ file[w].undo \in Nat
      BY <3>2, <3>4, FileFacts
    <3> QED BY <3>3, <3>4, <3>5 DEF Chain, UndoType
  <2> QED BY <2>1, <2>2
<1> DEFINE Sts == Chain(type, i)
<1> HIDE DEF Sts
<1>2. u \in Sts /\ \A v \in Sts : UndoOnce(v, dest) \in Sts
  BY <1>1 DEF Sts
<1>5. UndoTo(u, dest) \in Sts
  BY <1>2, ChainFollowed
<1> QED BY <1>5 DEF Sts

\* What undoing may change of node i.
Undone(t, s, i) ==
  /\ t.status \in {s.status, "corrupt"} /\ t.repeat = s.repeat /\ t.pos = s.pos
  /\ t.maxID = s.maxID /\ t.begun = s.begun /\ t.waits = s.waits
  /\ SameBut(t, s, i) /\ t.temp[i] = s.temp[i] /\ SameAdded(t.info[i], s.info[i])

\* Only the undo entry of the property changes.
Chained(s, i, u) == [s EXCEPT !.info[i].prop = u]

\* The current record of a node replaced by one of its chain.
LEMMA ChainedRests ==
  ASSUME FileOk, NEW s \in Resting, NEW i \in Ids, NEW u \in Chain("prop", i)
  PROVE  LET t == Chained(s, i, u)
         IN  t \in Resting /\ Undone(t, s, i) /\ SameData(t.info[i], s.info[i])
<1> DEFINE t == Chained(s, i, u)
           v == [s.info[i] EXCEPT !.prop = u]
<1>1. s \in PlayerType /\ Sound(s) /\ s.waits = <<>> /\ BeforeEnd(s) /\ s.info[i] \in NodeType
      /\ s.temp[i] \in Int /\ s.shown[i] \in ShownType
  BY PlayerFields DEF Resting, States
<1>2. u \in UndoType
  BY DEF Chain
<1>3. /\ v \in NodeType /\ SameAdded(v, s.info[i]) /\ SameData(v, s.info[i]) /\ v.prop = u
  BY <1>1, <1>2 DEF NodeType, SameAdded, SameData
<1> HIDE DEF v
<1>4. t = PutNode(s, i, v, s.temp[i], s.shown[i])
  BY <1>1 DEF PlayerType, PutNode, Chained, v
<1>5. /\ t \in PlayerType /\ SameRest(t, s) /\ SameBut(t, s, i)
      /\ t.info[i] = v /\ t.temp[i] = s.temp[i] /\ t.shown[i] = s.shown[i]
  BY <1>1, <1>3, <1>4, NodeReplaced
<1> HIDE DEF t
<1>6. Sound(t)
  <2>1. Known(i, s.info[i], s.temp[i]) /\ s.shown[i].data \in 0..Len(file)
        /\ s.shown[i].prop \in 0..Len(file)
    BY <1>1 DEF Sound
  <2>2. DataKnown(i, v) /\ IndexKnown(i, v) /\ AddedKnown(i, v)
    BY <1>3, <2>1 DEF Known, DataKnown, IndexKnown, AddedKnown, SameAdded, SameData
  <2>3. PropKnown(i, v)
    BY <1>3 DEF PropKnown, Chain
  <2>4. Known(i, t.info[i], t.temp[i])
    BY <1>5, <2>1, <2>2, <2>3 DEF Known
  <2>5. t.maxID = s.maxID /\ t.pos = s.pos /\ t.waits = s.waits
    BY <1>5 DEF SameRest
  <2> QED BY <1>1, <1>5, <2>1, <2>4, <2>5, SoundBut
<1>7. BeforeEnd(t)
  BY <1>1, <1>5 DEF BeforeEnd, SameRest, Ok
<1>8. t \in Resting
  BY <1>1, <1>5, <1>6, <1>7 DEF Resting, States, SameRest
<1>9. Undone(t, s, i)
  BY <1>3, <1>5 DEF Undone, SameRest
<1> QED BY <1>3, <1>5, <1>8, <1>9 DEF t

\* UndoProp comes to rest.
LEMMA PropUndone ==
  ASSUME FileOk, NEW s \in Resting, NEW i \in Ids, s.info[i].prop # NoUndo, NEW dest
  PROVE  LET t == UndoProp(s, i, dest)
         IN  t \in Resting /\ Undone(t, s, i) /\ SameData(t.info[i], s.info[i])
<1> DEFINE t == UndoProp(s, i, dest)
           u == UndoTo(s.info[i].prop, dest)
<1>1. s \in PlayerType /\ Sound(s) /\ s.waits = <<>> /\ BeforeEnd(s) /\ PropKnown(i, s.info[i])
      /\ s.info[i].prop \in UndoType
  BY PlayerFields DEF Resting, States, Sound, Known
<1>2. u \in Chain("prop", i)
  <2>1. s.info[i].prop \in Chain("prop", i)
    BY <1>1 DEF PropKnown, Chain
  <2> QED BY <2>1, ChainEnds
<1>3. t = IF u.rec <= dest THEN HandleProp(s, file[u.rec], u.rec) ELSE Chained(s, i, u)
  BY DEF UndoProp, Chained
<1> HIDE DEF u, t
<1>4. CASE u.rec <= dest
  <2> DEFINE k == u.rec
             r == file[k]
  <2>1. At("prop", i, k)
    BY <1>2 DEF Chain
  <2>2. k \in 1..Len(file) /\ r.type = "prop" /\ r.node = i /\ k \in Nat /\ r \in RecType
    BY <2>1, FileFacts DEF At
  <2>3. t = HandleProp(s, r, k)
    BY <1>3, <1>4
  <2> HIDE DEF k
  <2>4. Sound(HandleProp(s, r, k))
    BY <1>1, <2>2, PropSound
  <2> HIDE DEF r
  <2>5. r.node \in Ids
    BY <2>2
  <2> DEFINE h == HandleProp(s, r, k)
  <2>6. /\ h \in PlayerType /\ SameRest(h, s) /\ SameBut(h, s, r.node)
        /\ h.temp[r.node] = s.temp[r.node]
        /\ SameAdded(h.info[r.node], s.info[r.node]) /\ SameData(h.info[r.node], s.info[r.node])
        /\ h.info[r.node].prop = [rec |-> k, undo |-> r.undo]
        /\ h.shown[r.node].data = s.shown[r.node].data /\ h.shown[r.node].prop = k
    <3>1. s \in PlayerType /\ r \in RecType /\ r.node \in Ids /\ k \in Nat
      BY <1>1, <2>2, <2>5
    <3> QED BY <3>1, PropHandled
  <2> HIDE DEF h
  <2>9. t = h
    BY <2>3 DEF h
  <2>7. BeforeEnd(t)
    BY <1>1, <2>6, <2>9 DEF BeforeEnd, SameRest, Ok
  <2>8. t \in Resting
    BY <1>1, <2>3, <2>4, <2>6, <2>7, <2>9 DEF Resting, States, SameRest
  <2> QED BY <2>2, <2>6, <2>8, <2>9 DEF Undone, SameRest, t
<1>5. CASE ~(u.rec <= dest)
  BY <1>2, <1>3, <1>5, ChainedRests DEF t
<1> QED BY <1>4, <1>5

\* The node has no frame.
Emptied(s, i) == [s EXCEPT !.info[i].last = 0, !.info[i].data = NoUndo]

\* A node that is left without frames.
LEMMA EmptiedRests ==
  ASSUME FileOk, NEW s \in Resting, NEW i \in Ids
  PROVE  LET t == Emptied(s, i)
         IN  t \in Resting /\ Undone(t, s, i) /\ t.info[i].last = 0 /\ t.info[i].cur = s.info[i].cur
<1> DEFINE t == Emptied(s, i)
           v == [s.info[i] EXCEPT !.last = 0, !.data = NoUndo]
<1>1. s \in PlayerType /\ Sound(s) /\ s.waits = <<>> /\ BeforeEnd(s) /\ s.info[i] \in NodeType
      /\ s.temp[i] \in Int /\ s.shown[i] \in ShownType
  BY PlayerFields DEF Resting, States
<1>2. NoUndo \in UndoType /\ NoUndo.rec = 0
  BY BlankType DEF NoUndo
<1>3. /\ v \in NodeType /\ SameAdded(v, s.info[i]) /\ v.prop = s.info[i].prop
      /\ v.last = 0 /\ v.data = NoUndo /\ v.cur = s.info[i].cur
  <2> HIDE DEF NoUndo
  <2> QED BY <1>1, <1>2 DEF NodeType, SameAdded
<1> HIDE DEF v
<1>4. t = PutNode(s, i, v, s.temp[i], s.shown[i])
  BY <1>1 DEF PlayerType, PutNode, Emptied, v
<1>5. /\ t \in PlayerType /\ SameRest(t, s) /\ SameBut(t, s, i)
      /\ t.info[i] = v /\ t.temp[i] = s.temp[i] /\ t.shown[i] = s.shown[i]
  BY <1>1, <1>3, <1>4, NodeReplaced
<1> HIDE DEF t
<1>6. Sound(t)
  <2>1. Known(i, s.info[i], s.temp[i]) /\ s.shown[i].data \in 0..Len(file)
        /\ s.shown[i].prop \in 0..Len(file)
    BY <1>1 DEF Sound
  <2>2. PropKnown(i, v) /\ IndexKnown(i, v) /\ AddedKnown(i, v)
    BY <1>3, <2>1 DEF Known, PropKnown, IndexKnown, AddedKnown, SameAdded
  <2>3. DataKnown(i, v)
    BY <1>2, <1>3 DEF DataKnown
  <2>4. Known(i, t.info[i], t.temp[i])
    BY <1>5, <2>1, <2>2, <2>3 DEF Known
  <2>5. t.maxID = s.maxID /\ t.pos = s.pos /\ t.waits = s.waits
    BY <1>5 DEF SameRest
  <2> QED BY <1>1, <1>5, <2>1, <2>4, <2>5, SoundBut
<1>7. BeforeEnd(t)
  BY <1>1, <1>5 DEF BeforeEnd, SameRest, Ok
<1>8. t \in Resting
  BY <1>1, <1>5, <1>6, <1>7 DEF Resting, States, SameRest
<1> QED BY <1>3, <1>5, <1>8 DEF t, Undone, SameRest

\* Handling the frame of a node at place k, without its payload.
LEMMA FrameHandled ==
  ASSUME FileOk, NEW s \in Resting, NEW i \in Ids, NEW k, At("data", i, k)
  PROVE  LET t == HandleNewData(s, file[k], k, FALSE)
         IN  /\ t \in Resting /\ Undone(t, s, i)
             /\ file[k].num <= s.info[i].frames =>
                  t.status = s.status /\ t.info[i].last = k /\ t.info[i].cur = file[k].num
<1> DEFINE r == file[k]
           t == HandleNewData(s, r, k, FALSE)
<1>1. s \in PlayerType /\ Sound(s) /\ s.waits = <<>> /\ BeforeEnd(s) /\ s.info[i].frames \in Nat
  BY PlayerFields DEF Resting, States
<1>2. k \in 1..Len(file) /\ r.type = "data" /\ r.node = i /\ k \in Nat /\ r \in RecType /\ r.num \in Nat
  BY FileFacts DEF At
<1>3. PICK q \in BOOLEAN : q = FALSE
  OBVIOUS
<1>4. t = HandleNewData(s, r, k, q)
  BY <1>3
<1>5. Sound(HandleNewData(s, r, k, q))
  BY <1>1, <1>2, DataSound
<1> HIDE DEF t, r
<1>6. CASE r.num > s.info[i].frames
  <2>1. t = Fail(s)
    BY <1>2, <1>6 DEF HandleNewData, t
  <2>2. /\ t \in PlayerType /\ SameNodes(t, s) /\ t.pos = s.pos /\ t.status = "corrupt"
        /\ t.repeat = s.repeat /\ t.maxID = s.maxID /\ t.begun = s.begun /\ t.waits = s.waits
    BY <1>1, <2>1, Failed
  <2>3. t \in Resting
    BY <1>1, <1>4, <1>5, <2>2 DEF Resting, States, BeforeEnd, Ok
  <2>4. Undone(t, s, i)
    BY <2>2 DEF Undone, SameNodes, SameBut, SameNode, SameAdded
  <2>5. ~(r.num <= s.info[i].frames)
    BY <1>1, <1>2, <1>6
  <2> QED BY <2>3, <2>4, <2>5 DEF t, r
<1>7. CASE r.num <= s.info[i].frames
  <2>1. r.node \in Ids /\ r.num <= s.info[r.node].frames
    BY <1>2, <1>7
  <2> DEFINE h == HandleNewData(s, r, k, q)
  <2>2. /\ h \in PlayerType /\ SameRest(h, s) /\ SameBut(h, s, r.node)
        /\ h.temp[r.node] = s.temp[r.node]
        /\ SameAdded(h.info[r.node], s.info[r.node]) /\ h.info[r.node].prop = s.info[r.node].prop
        /\ h.info[r.node].last = k /\ h.info[r.node].data = [rec |-> k, undo |-> r.undo]
        /\ h.info[r.node].cur = r.num
        /\ h.shown[r.node].prop = s.shown[r.node].prop
        /\ h.shown[r.node].data = IF q THEN k ELSE s.shown[r.node].data
    <3>1. s \in PlayerType /\ r \in RecType /\ r.node \in Ids /\ k \in Nat
          /\ r.num <= s.info[r.node].frames
      BY <1>1, <1>2, <2>1
    <3> QED BY <3>1, DataHandled
  <2> HIDE DEF h
  <2>5. t = h
    BY <1>4 DEF h
  <2>3. t \in Resting
    BY <1>1, <1>4, <1>5, <2>2, <2>5 DEF Resting, States, BeforeEnd, Ok, SameRest
  <2>4. Undone(t, s, i)
    BY <1>2, <2>2, <2>5 DEF Undone, SameRest
  <2> QED BY <1>2, <2>2, <2>3, <2>4, <2>5 DEF t, r, SameRest
<1>8. r.num > s.info[i].frames \/ r.num <= s.info[i].frames
  BY <1>1, <1>2
<1> QED BY <1>6, <1>7, <1>8

\* UndoData comes to rest.
LEMMA DataUndone ==
  ASSUME FileOk, NEW s \in Resting, NEW i \in Ids, s.info[i].data # NoUndo, NEW dest
  PROVE  LET t == UndoData(s, i, dest)
         IN  t \in Resting /\ Undone(t, s, i)
<1> DEFINE t == UndoData(s, i, dest)
           u == UndoTo(s.info[i].data, dest)
<1>1. u \in Chain("data", i)
  <2>1. DataKnown(i, s.info[i]) /\ s.info[i].data \in UndoType
    BY PlayerFields DEF Resting, States, Sound, Known
  <2>2. s.info[i].data \in Chain("data", i)
    BY <2>1 DEF DataKnown, Chain
  <2> QED BY <2>2, ChainEnds
<1>2. t = IF u.rec <= dest THEN HandleNewData(s, file[u.rec], u.rec, FALSE) ELSE Emptied(s, i)
  BY DEF UndoData, Emptied
<1> DEFINE k == u.rec
<1>3. At("data", i, k)
  BY <1>1 DEF Chain
<1>4. t = HandleNewData(s, file[k], k, FALSE) \/ t = Emptied(s, i)
  BY <1>2
<1> HIDE DEF k, t
<1>5. CASE t = HandleNewData(s, file[k], k, FALSE)
  <2>1. LET h == HandleNewData(s, file[k], k, FALSE)
        IN  h \in Resting /\ Undone(h, s, i)
    BY <1>3, FrameHandled
  <2> QED BY <1>5, <2>1 DEF t
<1>6. CASE t = Emptied(s, i)
  <2>1. LET h == Emptied(s, i)
        IN  h \in Resting /\ Undone(h, s, i) /\ h.info[i].last = 0 /\ h.info[i].cur = s.info[i].cur
    BY EmptiedRests
  <2> QED BY <1>6, <2>1 DEF t
<1> QED BY <1>4, <1>5, <1>6

\* What undoing changes of the nodes.
AllUndone(t, s) ==
  /\ t.status \in {s.status, "corrupt"} /\ t.repeat = s.repeat /\ t.pos = s.pos
  /\ t.maxID = s.maxID /\ t.begun = s.begun /\ t.waits = s.waits
  /\ \A j \in Ids : t.temp[j] = s.temp[j] /\ SameAdded(t.info[j], s.info[j])

\* No node is undone yet.
LEMMA UndoneAll ==
  ASSUME NEW s, NEW t, NEW i \in Ids, Undone(t, s, i)
  PROVE  AllUndone(t, s)
BY DEF Undone, AllUndone, SameBut, SameNode, SameAdded

\* One more node is undone.
LEMMA UndoneMore ==
  ASSUME NEW s, NEW t, NEW u, AllUndone(t, s), AllUndone(u, t)
  PROVE  AllUndone(u, s)
BY DEF AllUndone, SameAdded

\* UndoNode comes to rest, and keeps the last frame of node n.
LEMMA NodeUndone ==
  ASSUME FileOk, NEW s \in Resting, NEW n \in Ids, NEW i \in Ids, NEW dest \in Nat, NEW start
  PROVE  LET t == UndoNode(s, n, i, dest, start)
         IN  /\ t \in Resting /\ AllUndone(t, s)
             /\ t.info[n].last = s.info[n].last
<1> DEFINE p == IF InBetween(s.info[i].prop, dest, start) THEN UndoProp(s, i, dest) ELSE s
           t == UndoNode(s, n, i, dest, start)
<1>1. t = IF i \in Others(s, n) /\ InBetween(p.info[i].data, dest, start)
          THEN UndoData(p, i, dest) ELSE p
  BY DEF UndoNode
<1>2. p \in Resting /\ AllUndone(p, s) /\ p.info[n].last = s.info[n].last
  <2>1. CASE InBetween(s.info[i].prop, dest, start)
    <3>1. s.info[i].prop # NoUndo
      BY <2>1 DEF InBetween, NoUndo
    <3>2. LET q == UndoProp(s, i, dest)
          IN  q \in Resting /\ Undone(q, s, i) /\ SameData(q.info[i], s.info[i])
      BY <3>1, PropUndone
    <3>3. p = UndoProp(s, i, dest)
      BY <2>1
    <3> HIDE DEF p
    <3>4. p \in Resting /\ Undone(p, s, i) /\ SameData(p.info[i], s.info[i])
      BY <3>2, <3>3
    <3>5. p.info[n].last = s.info[n].last
      BY <3>4 DEF Undone, SameBut, SameNode, SameData
    <3> QED BY <3>4, <3>5, UndoneAll
  <2>2. CASE ~InBetween(s.info[i].prop, dest, start)
    <3>1. p = s
      BY <2>2
    <3> HIDE DEF p
    <3> QED BY <3>1 DEF AllUndone, SameAdded
  <2> QED BY <2>1, <2>2
<1> HIDE DEF p, t
<1>3. CASE i \in Others(s, n) /\ InBetween(p.info[i].data, dest, start)
  <2>1. p.info[i].data # NoUndo
    BY <1>3 DEF InBetween, NoUndo
  <2>2. LET q == UndoData(p, i, dest)
        IN  q \in Resting /\ Undone(q, p, i)
    BY <1>2, <2>1, DataUndone
  <2>3. t \in Resting /\ Undone(t, p, i)
    BY <1>1, <1>3, <2>2
  <2>4. i # n
    BY <1>3 DEF Others
  <2>5. t.info[n].last = p.info[n].last
    BY <2>3, <2>4 DEF Undone, SameBut, SameNode
  <2>6. AllUndone(t, s)
    BY <1>2, <2>3, UndoneAll, UndoneMore
  <2> QED BY <1>2, <2>3, <2>5, <2>6 DEF t
<1>4. CASE ~(i \in Others(s, n) /\ InBetween(p.info[i].data, dest, start))
  <2>1. t = p
    BY <1>1, <1>4
  <2> QED BY <1>2, <2>1 DEF t
<1> QED BY <1>3, <1>4

\* The frame to go back to is found, if there is one.
LEMMA BackFound ==
  ASSUME FileOk, header # InvalidNodeID, NEW s \in Resting, NEW n, NEW f, Asked(s, n, f),
         f < s.info[n].cur
  PROVE  LET d == FindFrame(s.info[n].data.undo, f)
         IN  d = 0 \/ (At("data", n, d) /\ file[d].num = f /\ f <= s.info[n].frames)
<1> DEFINE p == s.info[n].data.undo
           dest == FindFrame(p, f)
<1>1. /\ n \in Ids /\ f \in Nat /\ s \in PlayerType /\ Sound(s) /\ DataKnown(n, s.info[n])
      /\ AddedKnown(n, s.info[n]) /\ s.info[n].cur \in Nat /\ s.info[n].frames \in Nat
      /\ s.info[n].data \in UndoType
  BY PlayerFields DEF Asked, Resting, States, Sound, Known
<1>2. f \in Nat \ {0} /\ f <= s.info[n].frames
  BY <1>1 DEF Asked, AddedKnown
<1>3. p = 0 \/ (At("data", n, p) /\ f <= file[p].num)
  <2>1. CASE s.info[n].data = NoUndo
    BY <2>1 DEF NoUndo
  <2>2. CASE s.info[n].data # NoUndo
    <3> DEFINE k == s.info[n].data.rec
    <3>1. At("data", n, k) /\ k \in 1..Len(file) /\ p = file[k].undo /\ s.info[n].cur = file[k].num
      BY <1>1, <2>2 DEF DataKnown, At
    <3> HIDE DEF k, p
    <3>2. p = 0 \/ (At("data", n, p) /\ file[p].num = s.info[n].cur - 1)
      BY <3>1, FramesNumbered
    <3> QED BY <1>1, <3>2
  <2> QED BY <2>1, <2>2
<1>4. dest = 0 \/ (At("data", n, dest) /\ file[dest].num = f)
  <2> HIDE DEF p
  <2> QED BY <1>2, <1>3, FrameFound
<1> QED BY <1>2, <1>4

\* The states of a seek back to place dest.
BackStates(s, n, dest) == {u \in Resting : AllUndone(u, s) /\ u.info[n].last = dest}

\* Its steps stay with them.
LEMMA BackStays ==
  ASSUME FileOk, NEW s \in Resting, NEW n \in Ids, NEW dest, At("data", n, dest),
         file[dest].num <= s.info[n].frames
  PROVE  UndoingStays(BackStates(s, n, dest), s, n, dest)
<1> DEFINE a == HandleNewData(s, file[dest], dest, FALSE)
           Sts == BackStates(s, n, dest)
<1>1. dest \in Nat
  BY FramePlayable
<1>2. /\ a \in Resting /\ Undone(a, s, n)
      /\ file[dest].num <= s.info[n].frames =>
           a.status = s.status /\ a.info[n].last = dest /\ a.info[n].cur = file[dest].num
  BY FrameHandled
<1> HIDE DEF a
<1>3. a \in Sts
  BY <1>2, UndoneAll DEF BackStates
<1>4. ASSUME NEW u \in Sts, NEW i \in Ids PROVE UndoNode(u, n, i, dest, s.pos) \in Sts
  <2> DEFINE q == UndoNode(u, n, i, dest, s.pos)
  <2>1. u \in Resting /\ AllUndone(u, s) /\ u.info[n].last = dest
    BY DEF BackStates
  <2>2. q \in Resting /\ AllUndone(q, u) /\ q.info[n].last = u.info[n].last
    BY <1>1, <2>1, NodeUndone
  <2> HIDE DEF q
  <2>3. AllUndone(q, s)
    BY <2>1, <2>2, UndoneMore
  <2>4. q \in Sts
    BY <2>1, <2>2, <2>3 DEF BackStates
  <2> QED BY <2>4 DEF q
<1> HIDE DEF Sts
<1>5. /\ HandleNewData(s, file[dest], dest, FALSE) \in Sts
      /\ \A u \in Sts, i \in Ids : UndoNode(u, n, i, dest, s.pos) \in Sts
  BY <1>3, <1>4 DEF a
<1> QED BY <1>5 DEF UndoingStays, Sts

\* A seek back that has no frame to go to fails.
LEMMA BackFails ==
  ASSUME FileOk, NEW s \in Resting, NEW n, NEW f, FindFrame(s.info[n].data.undo, f) = 0
  PROVE  SeekBack(s, n, f) \in Resting /\ SeekBack(s, n, f).status = "corrupt"
<1>1. s \in PlayerType /\ Sound(s)
  BY DEF Resting, States
<1>2. SeekBack(s, n, f) = Fail(s)
  BY DEF SeekBack
<1>3. /\ Fail(s) \in PlayerType /\ Fail(s).status = "corrupt" /\ Fail(s).waits = s.waits
  BY <1>1, Failed
<1>4. Sound(Fail(s)) /\ ~Ok(Fail(s))
  BY <1>1, FailSound
<1> QED BY <1>2, <1>3, <1>4 DEF Resting, States, BeforeEnd

\* A seek back that succeeds shows the frame that was asked for.
LEMMA BackSought ==
  ASSUME FileOk, header # InvalidNodeID, NEW s \in Resting, Ok(s), NEW n, NEW f, Asked(s, n, f),
         f < s.info[n].cur
  PROVE  LET t == SeekBack(s, n, f)
         IN  /\ t \in Resting /\ t.status # "wild"
             /\ Ok(t) => Sought(t, n, f)
             /\ Ok(t) => /\ t.begun = s.begun
                         /\ \A i \in Ids : SameAdded(t.info[i], s.info[i]) /\ t.temp[i] = s.temp[i]
<1> DEFINE dest == FindFrame(s.info[n].data.undo, f)
           t == SeekBack(s, n, f)
<1>1. n \in Ids
  BY DEF Asked
<1>2. dest = 0 \/ (At("data", n, dest) /\ file[dest].num = f /\ f <= s.info[n].frames)
  BY BackFound
<1>3. CASE dest = 0
  BY <1>3, BackFails DEF Ok
<1>4. CASE dest # 0
  <2>1. At("data", n, dest) /\ file[dest].num = f /\ f <= s.info[n].frames
    BY <1>2, <1>4
  <2>2. PICK h \in [0..MaxNodes -> BackStates(s, n, dest)] :
          /\ UndoneInTurn(h, s, n, dest)
          /\ SeekBack(s, n, f) = ProcessEachNodeLastData(h[MaxNodes], n)
    <3>1. UndoingStays(BackStates(s, n, dest), s, n, dest)
      <4> HIDE DEF dest
      <4> QED BY <1>1, <2>1, BackStays
    <3>2. GoesBack(BackStates(s, n, dest), s, n, f, dest)
      BY <1>4, <3>1, NodesUndone
    <3> QED BY <3>2 DEF GoesBack
  <2> DEFINE e == h[MaxNodes]
  <2>3. e \in BackStates(s, n, dest)
    <3>1. MaxNodes \in 0..MaxNodes
      BY RecorderAssumption
    <3> HIDE DEF dest
    <3> QED BY <2>2, <3>1
  <2>4. t = ProcessEachNodeLastData(e, n) /\ dest # 0
    BY <1>4, <2>2
  <2> HIDE DEF dest, e, t
  <2>5. e \in Resting /\ AllUndone(e, s) /\ e.info[n].last = dest
    BY <2>3 DEF BackStates
  <2>6. /\ t \in Resting
        /\ Ok(t) => LastsKept(t, e)
        /\ t.status = "wild" => e.status = "wild"
        /\ Ok(t) /\ e.info[n].last # 0 =>
             /\ At("data", n, e.info[n].last)
             /\ t.shown[n].data = e.info[n].last /\ t.pos = e.info[n].last + 1
    BY <1>1, <2>4, <2>5, AllShown
  <2>7. t.status # "wild"
    BY <2>5, <2>6 DEF AllUndone, Ok
  <2>8. Ok(t) => Sought(t, n, f)
    BY <2>1, <2>4, <2>5, <2>6 DEF Sought
  <2>9. ASSUME Ok(t)
        PROVE  /\ t.begun = s.begun
               /\ \A i \in Ids : SameAdded(t.info[i], s.info[i]) /\ t.temp[i] = s.temp[i]
    BY <2>5, <2>6, <2>9 DEF LastsKept, AllUndone, SameAdded
  <2> QED BY <2>6, <2>7, <2>8, <2>9 DEF t
<1> QED BY <1>3, <1>4

-----------------------------------------------------------------------------
(* What a turn of a loop does *)

\* Record r at the place of s is handled, which is not the end.
Passed(t, s, type) ==
  /\ s.pos \in 1..Len(file) /\ file[s.pos].type = type
  /\ t \in PlayerType /\ Ok(t) /\ Ok(s) /\ t.repeat = s.repeat /\ t.maxID = s.maxID /\ t.pos = s.pos + 1

\* The record is of node n, and only this node changes.
PassedOf(t, s, type, n) ==
  /\ Passed(t, s, type) /\ n \in Ids /\ file[s.pos].node = n /\ s.info[n].valid
  /\ t.begun = s.begun /\ t.waits = s.waits /\ SameBut(t, s, n)

TablePassed(t, s) == Passed(t, s, "table") /\ SameNodes(t, s) /\ t.begun = s.begun /\ t.waits = s.waits
BeginPassed(t, s) == Passed(t, s, "begin") /\ SameNodes(t, s) /\ t.begun = TRUE /\ t.waits = s.waits
PropPassed(t, s, n) ==
  PassedOf(t, s, "prop", n) /\ t.temp[n] = s.temp[n] /\ SameAdded(t.info[n], s.info[n])
                            /\ SameData(t.info[n], s.info[n])
ReadyPassed(t, s, n) ==
  /\ PassedOf(t, s, "ready", n) /\ t.temp[n] = s.temp[n] /\ t.info[n].ready = TRUE
  /\ t.info[n].valid = s.info[n].valid /\ t.info[n].generator = s.info[n].generator
  /\ t.info[n].frames = s.info[n].frames /\ t.info[n].index = s.info[n].index
  /\ SameData(t.info[n], s.info[n])
DataPassed(t, s, n) ==
  /\ PassedOf(t, s, "data", n) /\ t.temp[n] = s.temp[n] /\ SameAdded(t.info[n], s.info[n])
  /\ t.info[n].last = s.pos /\ t.info[n].cur = file[s.pos].num
RemovedPassed(t, s, n) ==
  PassedOf(t, s, "removed", n) /\ t.temp[n] = TempAfterReset(s, n) /\ t.info[n] = Blank
AddedPassed(t, s, n) ==
  /\ Passed(t, s, "added") /\ n \in Ids /\ file[s.pos].node = n /\ SameBut(t, s, n)
  /\ t.begun = s.begun /\ t.temp[n] = s.temp[n] /\ SameData(t.info[n], s.info[n])
  /\ t.info[n].valid = TRUE /\ t.info[n].generator = (n \in Generators)
  /\ t.info[n].ready = s.info[n].ready /\ t.info[n].index = s.info[n].index
  /\ Len(t.waits) = Len(s.waits) + 1 /\ t.waits[1] = [until |-> "ready", node |-> n, num |-> s.pos]
  /\ \A j \in 1..Len(s.waits) : t.waits[j + 1] = s.waits[j]
GoneBack(t, s) ==
  /\ s.pos \in 1..Len(file) /\ file[s.pos].type = "end" /\ s.begun /\ Ok(t) /\ Ok(s)
  /\ t.maxID = s.maxID /\ t.pos = 1 /\ t.begun = FALSE /\ t.repeat = s.repeat
  /\ \A i \in Ids : t.info[i] = Blank /\ t.temp[i] = TempAfterReset(s, i)
  /\ Len(t.waits) = Len(s.waits) + 1 /\ t.waits[1] = [until |-> "first", node |-> 0, num |-> 0]
  /\ \A j \in 1..Len(s.waits) : t.waits[j + 1] = s.waits[j]

\* A record is handled with success.
Played(t, s) ==
  \/ TablePassed(t, s) \/ BeginPassed(t, s) \/ GoneBack(t, s)
  \/ \E n \in Ids : \/ PropPassed(t, s, n) \/ ReadyPassed(t, s, n) \/ DataPassed(t, s, n)
                    \/ RemovedPassed(t, s, n) \/ AddedPassed(t, s, n)

\* What handling a record changes.
LEMMA ProcessPlays ==
  ASSUME FileOk, NEW s \in States, NEW payload \in BOOLEAN, NEW t, t = ProcessOne(s, payload), Ok(t)
  PROVE  Played(t, s)
<1> DEFINE p == s.pos
           b == Placed(s, p + 1)
           r == file[p]
           n == r.node
<1>1. s \in PlayerType /\ Ok(s)
  BY DEF States, ProcessOne
<1>2. /\ p \in 1..Len(file) /\ b \in PlayerType /\ t = HandleRecord(b, r, p, payload)
  <2>1. Fail(s).status = "corrupt"
    BY <1>1, Failed
  <2> QED BY <1>1, <2>1, ProcessCases DEF Ok
<1>3. p + 1 \in Nat /\ p \in Nat
  BY <1>1, PlayerFields
<1>4. /\ SameNodes(b, s) /\ b.pos = p + 1 /\ b.status = s.status
      /\ b.repeat = s.repeat /\ b.maxID = s.maxID /\ b.begun = s.begun /\ b.waits = s.waits
  BY <1>1, <1>3, PlaceReplaced
<1> HIDE DEF b
<1>5. r \in RecType /\ (r.type # "end" => n \in Ids)
  BY <1>2, FileFacts
<1>6. ~(t = Fail(b))
  BY <1>2, Failed DEF Ok
<1>7. \A i \in Ids : b.info[i] = s.info[i] /\ b.temp[i] = s.temp[i] /\ b.shown[i] = s.shown[i]
  BY <1>4 DEF SameNodes
<1>8. \A u, i : SameBut(u, b, i) => SameBut(u, s, i)
  BY <1>7 DEF SameBut, SameNode
<1>9. \A i \in Ids : TempAfterReset(b, i) = TempAfterReset(s, i)
  BY <1>7 DEF TempAfterReset
<1>10. ASSUME NEW u \in PlayerType, u = t, SameRest(u, b)
       PROVE  Passed(u, s, r.type) /\ u.begun = s.begun /\ u.waits = s.waits
  BY <1>1, <1>2, <1>4, <1>10 DEF SameRest, Passed
<1>11. CASE r.type = "table" /\ t = b
  <2>1. SameRest(b, b) /\ b \in PlayerType /\ SameNodes(b, s)
    BY <1>2, <1>4 DEF SameRest
  <2>2. TablePassed(t, s)
    BY <1>10, <1>11, <2>1 DEF TablePassed
  <2> QED BY <2>2 DEF Played
<1>12. CASE EndCase(b, t, r)
  <2>1. r.type = "end" /\ b.begun /\ (t = Ended(b) \/ t = Rewind(b))
    BY <1>12 DEF EndCase
  <2>2. Ended(b).status = "eof"
    BY <1>2, EndReached
  <2>3. t = Rewind(b)
    BY <2>1, <2>2 DEF Ok
  <2>4. RewoundFrom(t, b)
    BY <1>2, <2>3, Rewound
  <2>5. GoneBack(t, s)
    BY <1>1, <1>2, <1>4, <1>9, <2>1, <2>4 DEF RewoundFrom, GoneBack
  <2> QED BY <2>5 DEF Played
<1>13. CASE AddedCase(b, t, r, p)
  <2>1. r.type = "added" /\ n \in Ids /\ t = HandleNodeAdded(b, r, p)
    BY <1>13 DEF AddedCase
  <2>2. AddedTo(HandleNodeAdded(b, r, p), b, r, p)
    BY <1>2, <1>3, <1>5, <2>1, AddedHandled
  <2>3. AddedTo(t, b, r, p)
    BY <2>1, <2>2
  <2>4. AddedPassed(t, s, n)
    <3>1. SameBut(t, s, n)
      BY <1>8, <2>3 DEF AddedTo
    <3>2. b.info[n] = s.info[n] /\ b.temp[n] = s.temp[n]
      BY <1>7, <2>1
    <3> QED BY <1>1, <1>2, <1>4, <2>1, <2>3, <3>1, <3>2 DEF AddedTo, AddedPassed, Passed
  <2> QED BY <2>1, <2>4 DEF Played
<1>14. CASE NodeCase(b, t, r, p, payload)
  <2>0. n \in Ids /\ s.info[n].valid /\ r.type # "end"
    BY <1>7, <1>14 DEF NodeCase
  <2>1. b.info[n] = s.info[n] /\ b.temp[n] = s.temp[n]
    BY <1>7, <2>0
  <2>2. CASE r.type = "prop" /\ t = HandleProp(b, r, p)
    <3> DEFINE u == HandleProp(b, r, p)
    <3>1. /\ u \in PlayerType /\ SameRest(u, b) /\ SameBut(u, b, n) /\ u.temp[n] = b.temp[n]
          /\ SameAdded(u.info[n], b.info[n]) /\ SameData(u.info[n], b.info[n])
          /\ u.info[n].prop = [rec |-> p, undo |-> r.undo]
          /\ u.shown[n].data = b.shown[n].data /\ u.shown[n].prop = p
      <4> HIDE DEF r
      <4> QED BY <1>2, <1>3, <1>5, <2>0, PropHandled
    <3>2. t = u
      BY <2>2
    <3> HIDE DEF u
    <3>3. PropPassed(t, s, n)
      BY <1>8, <1>10, <2>0, <2>1, <2>2, <3>1, <3>2 DEF PropPassed, PassedOf
    <3> QED BY <2>0, <3>3 DEF Played
  <2>3. CASE r.type = "ready" /\ t = Readied(b, n)
    <3> DEFINE u == Readied(b, n)
    <3>1. /\ u \in PlayerType /\ SameRest(u, b) /\ SameBut(u, b, n) /\ u.temp[n] = b.temp[n]
          /\ u.shown[n] = b.shown[n]
          /\ u.info[n].valid = b.info[n].valid /\ u.info[n].generator = b.info[n].generator
          /\ u.info[n].frames = b.info[n].frames /\ u.info[n].index = b.info[n].index
          /\ u.info[n].ready = TRUE /\ SameData(u.info[n], b.info[n])
          /\ u.info[n].prop = b.info[n].prop
      BY <1>2, <2>0, ReadyHandled
    <3>2. t = u
      BY <2>3
    <3> HIDE DEF u
    <3>3. ReadyPassed(t, s, n)
      BY <1>8, <1>10, <2>0, <2>1, <2>3, <3>1, <3>2 DEF ReadyPassed, PassedOf
    <3> QED BY <2>0, <3>3 DEF Played
  <2>4. CASE r.type = "begin" /\ t = Begun(b)
    <3>1. /\ t \in PlayerType /\ SameNodes(t, b) /\ t.pos = b.pos /\ t.status = b.status
          /\ t.repeat = b.repeat /\ t.maxID = b.maxID /\ t.begun = TRUE /\ t.waits = b.waits
      BY <1>2, <2>4, BeginReached
    <3>2. BeginPassed(t, s)
      BY <1>1, <1>2, <1>4, <2>4, <3>1 DEF BeginPassed, Passed, SameNodes
    <3> QED BY <3>2 DEF Played
  <2>5. CASE r.type = "data" /\ r.num <= b.info[n].frames /\ t = HandleNewData(b, r, p, payload)
    <3> DEFINE u == HandleNewData(b, r, p, payload)
    <3>1. /\ u \in PlayerType /\ SameRest(u, b) /\ SameBut(u, b, n) /\ u.temp[n] = b.temp[n]
          /\ SameAdded(u.info[n], b.info[n]) /\ u.info[n].prop = b.info[n].prop
          /\ u.info[n].last = p /\ u.info[n].data = [rec |-> p, undo |-> r.undo]
          /\ u.info[n].cur = r.num
          /\ u.shown[n].prop = b.shown[n].prop
          /\ u.shown[n].data = IF payload THEN p ELSE b.shown[n].data
      <4> HIDE DEF r
      <4> QED BY <1>2, <1>3, <1>5, <2>0, <2>5, DataHandled
    <3>2. t = u
      BY <2>5
    <3> HIDE DEF u
    <3>3. DataPassed(t, s, n)
      BY <1>8, <1>10, <2>0, <2>1, <2>5, <3>1, <3>2 DEF DataPassed, PassedOf
    <3> QED BY <2>0, <3>3 DEF Played
  <2>6. CASE r.type = "removed" /\ t = HandleNodeRemoved(b, n)
    <3> DEFINE u == HandleNodeRemoved(b, n)
    <3>1. /\ u \in PlayerType /\ SameRest(u, b) /\ SameBut(u, b, n)
          /\ u.info[n] = Blank /\ u.temp[n] = TempAfterReset(b, n) /\ u.shown[n] = Nothing
      BY <1>2, <2>0, RemovedHandled
    <3>2. t = u
      BY <2>6
    <3> HIDE DEF u
    <3>3. RemovedPassed(t, s, n)
      BY <1>8, <1>9, <1>10, <2>0, <2>6, <3>1, <3>2 DEF RemovedPassed, PassedOf
    <3> QED BY <2>0, <3>3 DEF Played
  <2> QED BY <1>14, <2>2, <2>3, <2>4, <2>5, <2>6 DEF NodeCase
<1> HIDE DEF r
<1>15. \/ t = Fail(b)
       \/ r.type = "table" /\ t = b
       \/ EndCase(b, t, r)
       \/ AddedCase(b, t, r, p)
       \/ NodeCase(b, t, r, p, payload)
  BY <1>2, <1>5, HandledCases
<1> QED BY <1>6, <1>11, <1>12, <1>13, <1>14, <1>15

\* A loop is left; when a node became ready its seek table, if it has one, is loaded.
LoopLeft(t, s) ==
  LET w == s.waits[1]
  IN  /\ t \in PlayerType /\ Ok(t) /\ Ok(s) /\ s.waits # <<>> /\ Over(s, w)
      /\ t.pos = s.pos /\ t.maxID = s.maxID /\ t.begun = s.begun /\ t.repeat = s.repeat
      /\ Len(s.waits) \in Nat \ {0} /\ Len(t.waits) = Len(s.waits) - 1
      /\ \A j \in 1..(Len(s.waits) - 1) : t.waits[j] = s.waits[j + 1]
      /\ t.temp = s.temp /\ t.shown = s.shown
      /\ \A i \in Ids :
           \/ t.info[i] = s.info[i] /\ ~(w.until = "ready" /\ i = w.node /\ HasTable(file[w.num])
                                          /\ file[w.num].num # 0)
           \/ /\ w.until = "ready" /\ i = w.node /\ file[w.num].num # 0 /\ file[w.num].table # 0
              /\ t.info[i].index = file[file[w.num].table].index
              /\ t.info[i].valid = s.info[i].valid /\ t.info[i].generator = s.info[i].generator
              /\ t.info[i].ready = s.info[i].ready /\ SameData(t.info[i], s.info[i])

\* The innermost loop handles a record.
Turned(t, s) ==
  Played(t, s) /\ s.waits # <<>> /\ ~Over(s, s.waits[1])

\* A turn leaves the innermost loop or handles a record.
LEMMA TurnPlays ==
  ASSUME FileOk, NEW s \in States, NEW t, t = Turn(s), Ok(t), s.waits # <<>>
  PROVE  LoopLeft(t, s) \/ Turned(t, s)
<1> DEFINE w == s.waits[1]
           a == Left(s)
<1>1. s \in PlayerType /\ Ok(s) /\ Sound(s)
  BY DEF States, Turn
<1>2. /\ a \in PlayerType /\ SameNodes(a, s) /\ a.pos = s.pos /\ a.status = s.status
      /\ a.repeat = s.repeat /\ a.maxID = s.maxID /\ a.begun = s.begun /\ a.waits = Tail(s.waits)
      /\ Len(a.waits) = Len(s.waits) - 1 /\ Len(s.waits) \in Nat \ {0} /\ Head(s.waits) = s.waits[1]
      /\ \A j \in 1..(Len(s.waits) - 1) : a.waits[j] = s.waits[j + 1]
  BY <1>1, WaitLeft
<1>3. WaitKnown(w)
  <2>1. 1 \in 1..Len(s.waits)
    BY <1>2
  <2> QED BY <1>1, <2>1 DEF Sound
<1> HIDE DEF a
<1>4. CASE ~Over(s, w) /\ t = ProcessOne(s, w.until # "frame")
  <2>1. PICK q \in BOOLEAN : q = (w.until # "frame")
    OBVIOUS
  <2>2. t = ProcessOne(s, q)
    BY <1>4, <2>1
  <2>3. Played(t, s)
    BY <2>2, ProcessPlays
  <2> QED BY <1>4, <2>3 DEF Turned
<1>5. CASE Over(s, w) /\ w.until # "ready" /\ t = a
  <2>1. \A i \in Ids : t.info[i] = s.info[i]
    BY <1>2, <1>5 DEF SameNodes
  <2> QED BY <1>1, <1>2, <1>5, <2>1 DEF LoopLeft, SameNodes, Ok
<1>6. CASE Over(s, w) /\ w.until = "ready" /\ t = LoadIndex(a, file[w.num])
  <2> DEFINE r == file[w.num]
             n == w.node
             x == file[r.table].index
             u == [a EXCEPT !.info[n].index = x]
  <2>1. n \in Ids /\ At("added", n, w.num) /\ r.node = n
    BY <1>3, <1>6 DEF WaitKnown, At
  <2>2. CASE t = a /\ (r.num = 0 \/ r.table = 0)
    <3>1. \A i \in Ids : t.info[i] = s.info[i] /\ ~(HasTable(r) /\ r.num # 0)
      BY <1>2, <2>2 DEF SameNodes, HasTable
    <3> QED BY <1>1, <1>2, <1>6, <2>2, <3>1 DEF LoopLeft, SameNodes, Ok
  <2>3. CASE t = u /\ r.num # 0 /\ r.table # 0
    <3>1. x \in Seq(EntryType)
      <4>1. HasTable(r)
        BY <2>1, <2>3 DEF HasTable, At
      <4>2. r.table \in 1..Len(file)
        BY <2>1, <4>1 DEF At, FileOk, RecorderInv, TablesKept
      <4> QED BY <4>2, FileFacts
    <3> HIDE DEF x
    <3>2. /\ u \in PlayerType /\ SameRest(u, a) /\ SameBut(u, a, n) /\ u.temp[n] = a.temp[n]
          /\ u.shown[n] = a.shown[n]
          /\ u.info[n].valid = a.info[n].valid /\ u.info[n].generator = a.info[n].generator
          /\ u.info[n].frames = a.info[n].frames /\ u.info[n].ready = a.info[n].ready
          /\ u.info[n].index = x /\ SameData(u.info[n], a.info[n])
          /\ u.info[n].prop = a.info[n].prop
      BY <1>2, <2>1, <3>1, IndexSet
    <3>5. u.temp = a.temp /\ u.shown = a.shown
      BY <1>2 DEF PlayerType
    <3> HIDE DEF u
    <3>3. \A i \in Ids \ {n} : t.info[i] = s.info[i]
      BY <1>2, <2>3, <3>2 DEF SameBut, SameNode, SameNodes
    <3>4. /\ t.info[n].index = x /\ t.info[n].valid = s.info[n].valid
          /\ t.info[n].generator = s.info[n].generator /\ t.info[n].ready = s.info[n].ready
          /\ SameData(t.info[n], s.info[n])
      BY <1>2, <2>3, <3>2 DEF SameNodes
    <3>6. /\ t.status = s.status /\ t.pos = s.pos /\ t.maxID = s.maxID /\ t.begun = s.begun
          /\ t.repeat = s.repeat /\ t.waits = a.waits /\ t.temp = s.temp /\ t.shown = s.shown
          /\ t \in PlayerType
      BY <1>2, <2>3, <3>2, <3>5 DEF SameNodes, SameRest
    <3>7. \A i \in Ids :
           \/ t.info[i] = s.info[i] /\ ~(w.until = "ready" /\ i = w.node /\ HasTable(file[w.num])
                                          /\ file[w.num].num # 0)
           \/ /\ w.until = "ready" /\ i = w.node /\ file[w.num].num # 0 /\ file[w.num].table # 0
              /\ t.info[i].index = file[file[w.num].table].index
              /\ t.info[i].valid = s.info[i].valid /\ t.info[i].generator = s.info[i].generator
              /\ t.info[i].ready = s.info[i].ready /\ SameData(t.info[i], s.info[i])
      BY <1>6, <2>3, <3>3, <3>4 DEF x
    <3> HIDE DEF w, r
    <3> QED BY <1>1, <1>2, <1>6, <3>6, <3>7 DEF LoopLeft, Ok, w
  <2>4. t # Fail(a)
    BY <1>2, Failed DEF Ok
  <2>5. \/ t = Fail(a) /\ r.num # 0 /\ r.table # 0
        \/ t = a /\ (r.num = 0 \/ r.table = 0)
        \/ t = [a EXCEPT !.info[r.node].index = x] /\ r.num # 0 /\ r.table # 0
    BY <1>2, <1>6, <2>1, LoadCases
  <2> QED BY <2>1, <2>2, <2>3, <2>4, <2>5
<1> QED BY <1>1, <1>2, <1>4, <1>5, <1>6, TurnCases DEF a

-----------------------------------------------------------------------------
(* The loops in progress *)

\* Only the innermost loop waits for a node to be ready, and handles nothing but its
\* properties; before a frame is reached a loop waits for the first.
Waiting(s) ==
  /\ \A j \in 2..Len(s.waits) : s.waits[j].until # "ready"
  /\ s.waits # <<>> /\ s.waits[1].until = "ready" /\ ~s.info[s.waits[1].node].ready =>
       /\ s.waits[1].num < s.pos
       /\ \A j \in (s.waits[1].num + 1)..(s.pos - 1) : file[j].type = "prop"
  /\ ~s.begun => /\ \E j \in 1..Len(s.waits) : s.waits[j].until = "first"
                 /\ \A j \in 1..(s.pos - 1) : file[j].type # "begin"

\* The loops do not have what they wait for.
NotOver(s) == s.waits # <<>> => ~Over(s, s.waits[1])

\* The place of a record that is handled.
LEMMA PlayedPlace ==
  ASSUME FileOk, NEW s, NEW t, Played(t, s)
  PROVE  /\ s.pos \in 1..Len(file) /\ s.pos \in Nat /\ Ok(t) /\ Ok(s) /\ t.maxID = s.maxID
         /\ file[s.pos].type # "end" => t.pos = s.pos + 1
         /\ file[s.pos].type = "end" => GoneBack(t, s)
<1>1. Len(file) \in Nat
  BY FileFacts
<1>2. ASSUME NEW type, type # "end", Passed(t, s, type)
      PROVE  /\ s.pos \in 1..Len(file) /\ s.pos \in Nat /\ Ok(t) /\ Ok(s) /\ t.maxID = s.maxID
             /\ t.pos = s.pos + 1 /\ file[s.pos].type # "end"
  BY <1>1, <1>2 DEF Passed
<1>3. CASE GoneBack(t, s)
  BY <1>1, <1>3 DEF GoneBack
<1>4. CASE TablePassed(t, s)
  BY <1>2, <1>4 DEF TablePassed
<1>5. CASE BeginPassed(t, s)
  BY <1>2, <1>5 DEF BeginPassed
<1>6. ASSUME NEW n \in Ids, PropPassed(t, s, n) PROVE Passed(t, s, "prop")
  BY <1>6 DEF PropPassed, PassedOf
<1>7. ASSUME NEW n \in Ids, ReadyPassed(t, s, n) PROVE Passed(t, s, "ready")
  BY <1>7 DEF ReadyPassed, PassedOf
<1>8. ASSUME NEW n \in Ids, DataPassed(t, s, n) PROVE Passed(t, s, "data")
  BY <1>8 DEF DataPassed, PassedOf
<1>9. ASSUME NEW n \in Ids, RemovedPassed(t, s, n) PROVE Passed(t, s, "removed")
  BY <1>9 DEF RemovedPassed, PassedOf
<1>10. ASSUME NEW n \in Ids, AddedPassed(t, s, n) PROVE Passed(t, s, "added")
  BY <1>10 DEF AddedPassed
<1> QED BY <1>2, <1>3, <1>4, <1>5, <1>6, <1>7, <1>8, <1>9, <1>10 DEF Played

\* A node that becomes ready does so before anything but its properties is handled.
LEMMA ReadyNext ==
  ASSUME FileOk, header # InvalidNodeID, NEW s \in States, NEW t, Played(t, s), NotOver(s),
         Waiting(s), s.waits # <<>>, s.waits[1].until = "ready"
  PROVE  \E n \in Ids : PropPassed(t, s, n) \/ (ReadyPassed(t, s, n) /\ n = s.waits[1].node)
<1> DEFINE w == s.waits[1]
           m == s.waits[1].node
           a == s.waits[1].num
<1>1. s \in PlayerType /\ Sound(s) /\ Len(file) \in Nat
  BY FileFacts DEF States
<1>2. 1 \in 1..Len(s.waits)
  <2>1. s.waits \in Seq(WaitType)
    BY <1>1, PlayerFields
  <2>2. Len(s.waits) \in Nat /\ Len(s.waits) # 0
    BY <2>1, EmptySeq
  <2> QED BY <2>2
<1>3. m \in Ids /\ At("added", m, a)
  BY <1>1, <1>2 DEF Sound, WaitKnown
<1>4. ~s.info[m].ready
  BY DEF NotOver, Over
<1>5. a < s.pos /\ \A j \in (a + 1)..(s.pos - 1) : file[j].type = "prop"
  BY <1>4 DEF Waiting
<1>6. announcing = 0
  BY DEF FileOk, RecorderInv, RecorderTypes, TablesKept
<1>7. PICK q \in (a + 1)..Len(file) : /\ file[q].type = "ready" /\ file[q].node = m
                                      /\ \A j \in (a + 1)..(q - 1) : file[j].type = "prop"
  <2>1. announcing # file[a].node /\ a \in 1..Len(file)
    <3>1. m # 0
      BY <1>3 DEF Ids
    <3> QED BY <1>3, <1>6, <3>1 DEF At
  <2> QED BY <1>3, <2>1 DEF FileOk, FileShape, ReadySaid, At
<1>8. s.pos \in 1..Len(file) /\ a \in Nat
  BY <1>3, PlayedPlace DEF At
<1>9. s.pos <= q
  <2> SUFFICES ASSUME q < s.pos PROVE FALSE
    BY <1>1, <1>7, <1>8
  <2>1. q \in (a + 1)..(s.pos - 1)
    BY <1>1, <1>7, <1>8
  <2> QED BY <1>5, <1>7, <2>1
<1>10. file[s.pos].type = "prop" \/ (file[s.pos].type = "ready" /\ file[s.pos].node = m)
  <2>1. CASE s.pos = q
    BY <1>7, <2>1
  <2>2. CASE s.pos # q
    <3>1. s.pos \in (a + 1)..(q - 1)
      BY <1>1, <1>5, <1>7, <1>8, <1>9, <2>2
    <3> QED BY <1>7, <3>1
  <2> QED BY <2>1, <2>2
<1> QED BY <1>10 DEF At, Played, TablePassed, BeginPassed, GoneBack, PropPassed, ReadyPassed, DataPassed,
     RemovedPassed, AddedPassed, Passed, PassedOf

\* The lengths of the waits.
LEMMA WaitsLen ==
  ASSUME NEW s \in States
  PROVE  /\ s.waits \in Seq(WaitType) /\ Len(s.waits) \in Nat
         /\ s.waits # <<>> <=> 1 \in 1..Len(s.waits)
         /\ s.waits = <<>> <=> Len(s.waits) = 0
<1>1. s.waits \in Seq(WaitType)
  BY PlayerFields DEF States
<1>2. Len(s.waits) \in Nat /\ (s.waits = <<>> <=> Len(s.waits) = 0)
  BY <1>1, EmptySeq
<1> QED BY <1>1, <1>2

\* The loops wait for what is still ahead, after a record is handled.
LEMMA WaitingPlays ==
  ASSUME FileOk, header # InvalidNodeID, NEW s \in States, NEW t, Played(t, s), NotOver(s), Waiting(s)
  PROVE  Waiting(t)
<1> DEFINE p == s.pos
           Ready == s.waits # <<>> /\ s.waits[1].until = "ready"
<1>1. p \in 1..Len(file) /\ p \in Nat /\ Len(file) \in Nat
  BY PlayedPlace, FileFacts
<1>2. Len(s.waits) \in Nat /\ (s.waits # <<>> <=> 1 \in 1..Len(s.waits))
  BY WaitsLen
<1>3. ASSUME t.waits = s.waits, t.begun = s.begun, ~Ready, t.pos = p + 1, file[p].type # "begin"
      PROVE  Waiting(t)
  <2>1. \A j \in 1..(t.pos - 1) : j \in 1..(s.pos - 1) \/ j = p
    BY <1>1, <1>3
  <2> QED BY <1>3, <2>1 DEF Waiting
<1>4. CASE Ready
  <2>1. PICK n \in Ids : PropPassed(t, s, n) \/ (ReadyPassed(t, s, n) /\ n = s.waits[1].node)
    BY <1>4, ReadyNext
  <2>2. t.waits = s.waits /\ t.begun = s.begun /\ t.pos = p + 1 /\ file[p].type \in {"prop", "ready"}
    BY <2>1 DEF PropPassed, ReadyPassed, PassedOf, Passed
  <2>3. \A j \in 1..(t.pos - 1) : j \in 1..(s.pos - 1) \/ j = p
    BY <1>1, <2>2
  <2>4. s.waits[1].node \in Ids /\ s.waits[1].num \in Nat
    BY <1>2, <1>4, FileFacts DEF States, Sound, WaitKnown, At
  <2> DEFINE m == s.waits[1].node
             a == s.waits[1].num
  <2>5. ASSUME ~t.info[m].ready
        PROVE  a < t.pos /\ \A j \in (a + 1)..(t.pos - 1) : file[j].type = "prop"
    <3>1. PropPassed(t, s, n)
      BY <2>1, <2>5 DEF ReadyPassed
    <3>2. t.info[m].ready = s.info[m].ready
      BY <2>4, <3>1 DEF PropPassed, PassedOf, SameBut, SameNode, SameAdded
    <3>3. a < s.pos /\ \A j \in (a + 1)..(s.pos - 1) : file[j].type = "prop"
      BY <1>4, <2>5, <3>2 DEF Waiting
    <3>4. \A j \in (a + 1)..(t.pos - 1) : j \in (a + 1)..(s.pos - 1) \/ j = p
      BY <1>1, <2>2, <2>4
    <3>5. file[p].type = "prop"
      BY <3>1 DEF PropPassed, PassedOf, Passed
    <3> QED BY <1>1, <2>2, <2>4, <3>3, <3>4, <3>5
  <2> QED BY <2>2, <2>3, <2>5 DEF Waiting
<1>5. CASE ~Ready
  <2>1. CASE \/ TablePassed(t, s)
             \/ \E n \in Ids : PropPassed(t, s, n) \/ ReadyPassed(t, s, n) \/ DataPassed(t, s, n)
                                                 \/ RemovedPassed(t, s, n)
    BY <1>3, <1>5, <2>1 DEF TablePassed, PropPassed, ReadyPassed, DataPassed, RemovedPassed, Passed, PassedOf
  <2>2. CASE BeginPassed(t, s)
    BY <1>5, <2>2 DEF BeginPassed, Passed, Waiting
  <2>3. ASSUME NEW w, Len(t.waits) = Len(s.waits) + 1, t.waits[1] = w,
               \A j \in 1..Len(s.waits) : t.waits[j + 1] = s.waits[j]
        PROVE  /\ \A j \in 2..Len(t.waits) : t.waits[j].until # "ready"
               /\ \A j \in 1..Len(s.waits) : j + 1 \in 1..Len(t.waits)
               /\ t.waits # <<>> /\ 1 \in 1..Len(t.waits)
    <3>1. ASSUME NEW j \in 2..Len(t.waits) PROVE t.waits[j].until # "ready"
      <4>1. j - 1 \in 1..Len(s.waits) /\ (j - 1) + 1 = j
        BY <1>2, <2>3
      <4>2. t.waits[j] = s.waits[j - 1]
        BY <2>3, <4>1
      <4>3. CASE j = 2
        BY <1>2, <1>5, <4>1, <4>2, <4>3
      <4>4. CASE j # 2
        <5>1. j - 1 \in 2..Len(s.waits)
          BY <4>1, <4>4
        <5> QED BY <4>2, <5>1 DEF Waiting
      <4> QED BY <4>3, <4>4
    <3>2. t.waits # <<>>
      BY <1>2, <2>3, EmptySeq
    <3> QED BY <1>2, <2>3, <3>1, <3>2
  <2>4. ASSUME NEW n \in Ids, AddedPassed(t, s, n) PROVE Waiting(t)
    <3>1. /\ Len(t.waits) = Len(s.waits) + 1 /\ t.waits[1] = [until |-> "ready", node |-> n, num |-> p]
          /\ \A j \in 1..Len(s.waits) : t.waits[j + 1] = s.waits[j]
          /\ t.begun = s.begun /\ t.pos = p + 1 /\ file[p].type = "added"
      BY <2>4 DEF AddedPassed, Passed
    <3>2. /\ \A j \in 2..Len(t.waits) : t.waits[j].until # "ready"
          /\ \A j \in 1..Len(s.waits) : j + 1 \in 1..Len(t.waits)
      BY <2>3, <3>1
    <3>3. p < t.pos /\ \A j \in (p + 1)..(t.pos - 1) : FALSE
      BY <1>1, <3>1
    <3>4. \A j \in 1..(t.pos - 1) : j \in 1..(s.pos - 1) \/ j = p
      BY <1>1, <3>1
    <3>5. ASSUME ~t.begun PROVE \E j \in 1..Len(t.waits) : t.waits[j].until = "first"
      <4>1. PICK j \in 1..Len(s.waits) : s.waits[j].until = "first"
        BY <3>1, <3>5 DEF Waiting
      <4> QED BY <3>1, <3>2, <4>1
    <3>6. ASSUME ~t.begun PROVE \A j \in 1..(t.pos - 1) : file[j].type # "begin"
      BY <3>1, <3>4, <3>6 DEF Waiting
    <3>7. t.waits[1].num = p
      BY <3>1
    <3> QED BY <3>2, <3>3, <3>5, <3>6, <3>7 DEF Waiting
  <2>5. CASE GoneBack(t, s)
    <3>1. /\ Len(t.waits) = Len(s.waits) + 1 /\ t.waits[1] = [until |-> "first", node |-> 0, num |-> 0]
          /\ \A j \in 1..Len(s.waits) : t.waits[j + 1] = s.waits[j]
          /\ t.pos = 1
      BY <2>5 DEF GoneBack
    <3>2. /\ \A j \in 2..Len(t.waits) : t.waits[j].until # "ready" 
          /\ 1 \in 1..Len(t.waits)
      BY <2>3, <3>1
    <3>3. \A j \in 1..(t.pos - 1) : FALSE
      BY <3>1
    <3>4. t.waits[1].until = "first"
      BY <3>1
    <3> QED BY <3>2, <3>3, <3>4 DEF Waiting
  <2> QED BY <2>1, <2>2, <2>4, <2>5 DEF Played
<1> QED BY <1>4, <1>5

\* And after a loop is left.
LEMMA WaitingLeaves ==
  ASSUME NEW s \in States, NEW t, LoopLeft(t, s), Waiting(s)
  PROVE  Waiting(t)
<1>1. /\ Len(s.waits) \in Nat \ {0} /\ Len(t.waits) = Len(s.waits) - 1 /\ s.waits # <<>>
      /\ \A j \in 1..(Len(s.waits) - 1) : t.waits[j] = s.waits[j + 1]
      /\ t.pos = s.pos /\ t.begun = s.begun /\ Over(s, s.waits[1]) /\ t \in PlayerType
  BY DEF LoopLeft
<1>2. ASSUME NEW j \in 1..Len(t.waits) PROVE t.waits[j].until # "ready"
  <2>1. j + 1 \in 2..Len(s.waits) /\ j \in 1..(Len(s.waits) - 1)
    BY <1>1
  <2> QED BY <1>1, <2>1 DEF Waiting
<1>3. t.waits # <<>> => 1 \in 1..Len(t.waits)
  <2>1. t.waits \in Seq(WaitType)
    BY <1>1, PlayerFields
  <2> QED BY <2>1, EmptySeq
<1>4. ASSUME ~t.begun PROVE \E j \in 1..Len(t.waits) : t.waits[j].until = "first"
  <2>1. PICK j \in 1..Len(s.waits) : s.waits[j].until = "first"
    BY <1>1, <1>4 DEF Waiting
  <2>2. j # 1
    BY <1>1, <1>4, <2>1 DEF Over
  <2>3. j - 1 \in 1..Len(t.waits) /\ j - 1 \in 1..(Len(s.waits) - 1) /\ (j - 1) + 1 = j
    BY <1>1, <2>2
  <2>4. t.waits[j - 1] = s.waits[j]
    BY <1>1, <2>3
  <2> QED BY <2>1, <2>3, <2>4
<1> QED BY <1>1, <1>2, <1>3, <1>4 DEF Waiting

-----------------------------------------------------------------------------
(* The nodes while records are handled *)

\* A generator with frames has its seek table, once it is ready.
Indexed(s) ==
  \A i \in Ids : s.info[i].generator /\ s.info[i].index = <<>> /\ (\E k \in 1..Len(file) : At("data", i, k)) =>
    s.waits # <<>> /\ s.waits[1].until = "ready" /\ s.waits[1].node = i

\* The node that is not, in any order of steps, behind the place.
NodeKept(i, v, p) ==
  /\ v.last < p /\ (~v.valid => v.last = 0)
  /\ v.valid => \A k \in 1..Len(file) : At("data", i, k) /\ k < p => file[k].num <= v.cur
Kept(s) == \A i \in Ids : NodeKept(i, s.info[i], s.pos)

\* No node is added or removed between the first frame and the end.
Quiet ==
  ~ \E j, k \in DOMAIN file : j < k /\ file[j].type = "data" /\ file[k].type \in {"added", "removed"}
                              /\ \E e \in DOMAIN file : k < e /\ file[e].type = "end"

\* The nodes whose tables are freed are about to be added again.
Alive(s) ==
  \A i \in Ids : s.temp[i] = Freed =>
    \/ s.info[i].generator
    \/ ~s.begun /\ \E k \in 1..Len(file) : At("added", i, k) /\ s.pos <= k

\* A complete file has an end, and the added record of a node with frames has a table.
LEMMA CompleteFile ==
  ASSUME FileOk, header # InvalidNodeID
  PROVE  /\ \E e \in 1..Len(file) : file[e].type = "end"
         /\ \A i, k : At("data", i, k) =>
              /\ i \in Generators /\ i \in Ids
              /\ \E a \in 1..(k - 1) : At("added", i, a)
              /\ \A a : At("added", i, a) =>
                   /\ HasTable(file[a]) /\ file[a].num # 0
                   /\ file[file[a].table].index # <<>>
<1>1. stage = "done" /\ \E e \in 1..Len(file) : file[e].type = "end"
  BY DEF FileOk, RecorderInv, TablesKept, FileShape, EndLast
<1>2. ASSUME NEW i, NEW k, At("data", i, k)
      PROVE  /\ i \in Generators /\ i \in Ids
             /\ \E a \in 1..(k - 1) : At("added", i, a)
             /\ \A a : At("added", i, a) =>
                  /\ HasTable(file[a]) /\ file[a].num # 0
                  /\ file[file[a].table].index # <<>>
  <2>1. /\ k \in 1..Len(file) /\ file[k].type = "data" /\ file[k].node = i
        /\ Len(file) \in Nat /\ DOMAIN file = 1..Len(file)
    BY <1>2, FileFacts DEF At
  <2>2. i \in Generators /\ i \in Ids
    BY <2>1, FileFacts DEF FileOk, FileShape, FramesBegin
  <2>3. PICK a \in 1..(k - 1) : file[a].type = "added" /\ file[a].node = i
    BY <2>1 DEF FileOk, FileShape, NodesAdded
  <2>4. a \in 1..Len(file)
    BY <2>1
  <2>5. At("added", i, a)
    BY <2>3, <2>4 DEF At
  <2>6. PICK p \in 1..Len(file) : HasTable(file[p]) /\ file[p].node = i
    BY <2>1 DEF FileOk, RecorderInv, TablesExact
  <2>7. \A x : At("added", i, x) => x = p
    BY <2>6 DEF At, HasTable, FileOk, FileShape, NodesAdded
  <2>8. IsIndexOf(file, file[file[p].table].index, i) /\ file[p].num = Len(file[file[p].table].index)
    BY <2>1, <2>6 DEF FileOk, RecorderInv, TablesExact
  <2> DEFINE x == file[file[p].table].index
  <2>9. x \in Seq(EntryType)
    BY <2>6, FileFacts DEF FileOk, RecorderInv, TablesKept
  <2>10. \E q \in DOMAIN x : TRUE
    BY <2>1, <2>8 DEF IsIndexOf
  <2> HIDE DEF x
  <2>11. x # <<>> /\ Len(x) # 0
    BY <2>9, <2>10, EmptySeq
  <2> QED BY <2>2, <2>5, <2>6, <2>7, <2>8, <2>11 DEF x
<1> QED BY <1>1, <1>2

\* The step of one node leaves the others.
LEMMA IndexedPlays ==
  ASSUME FileOk, header # InvalidNodeID, NEW s \in States, NEW t, Played(t, s), NotOver(s), Waiting(s),
         Indexed(s)
  PROVE  Indexed(t)
<1> DEFINE Framed(i) == \E k \in 1..Len(file) : At("data", i, k)
           Bare(u, i) == u.info[i].generator /\ u.info[i].index = <<>>
<1>1. CASE s.waits # <<>> /\ s.waits[1].until = "ready"
  <2>1. PICK n \in Ids : PropPassed(t, s, n) \/ ReadyPassed(t, s, n)
    BY <1>1, ReadyNext
  <2>2. t.waits = s.waits
    BY <2>1 DEF PropPassed, ReadyPassed, PassedOf
  <2>3. \A i \in Ids : t.info[i].generator = s.info[i].generator /\ t.info[i].index = s.info[i].index
    BY <2>1 DEF PropPassed, ReadyPassed, PassedOf, SameBut, SameNode, SameAdded
  <2> QED BY <2>2, <2>3 DEF Indexed
<1>2. CASE ~(s.waits # <<>> /\ s.waits[1].until = "ready")
  <2>1. \A i \in Ids : Bare(s, i) => ~Framed(i)
    BY <1>2 DEF Indexed
  <2>2. ASSUME NEW n \in Ids, SameBut(t, s, n), Bare(t, n) => Bare(s, n)
        PROVE  Indexed(t)
    <3>1. \A i \in Ids : Bare(t, i) => Bare(s, i)
      BY <2>2 DEF SameBut, SameNode
    <3> QED BY <2>1, <3>1 DEF Indexed
  <2>3. CASE TablePassed(t, s) \/ BeginPassed(t, s)
    <3>1. t.info = s.info
      BY <2>3 DEF TablePassed, BeginPassed, SameNodes
    <3> QED BY <2>1, <3>1 DEF Indexed
  <2>4. CASE GoneBack(t, s)
    <3>1. \A i \in Ids : ~t.info[i].generator
      BY <2>4 DEF GoneBack, Blank
    <3> QED BY <3>1 DEF Indexed
  <2>5. ASSUME NEW n \in Ids, PropPassed(t, s, n) \/ ReadyPassed(t, s, n) \/ DataPassed(t, s, n)
        PROVE  Indexed(t)
    <3>1. SameBut(t, s, n) /\ (Bare(t, n) => Bare(s, n))
      BY <2>5 DEF PropPassed, ReadyPassed, DataPassed, PassedOf, SameAdded
    <3> QED BY <2>2, <3>1
  <2>6. ASSUME NEW n \in Ids, RemovedPassed(t, s, n) PROVE Indexed(t)
    <3>1. SameBut(t, s, n) /\ ~Bare(t, n)
      BY <2>6 DEF RemovedPassed, PassedOf, Blank
    <3> QED BY <2>2, <3>1
  <2>7. ASSUME NEW n \in Ids, AddedPassed(t, s, n) PROVE Indexed(t)
    <3>1. SameBut(t, s, n) /\ Len(t.waits) = Len(s.waits) + 1
          /\ t.waits[1] = [until |-> "ready", node |-> n, num |-> s.pos]
      BY <2>7 DEF AddedPassed
    <3>2. t.waits # <<>>
      BY <3>1, WaitsLen, EmptySeq DEF AddedPassed
    <3>3. \A i \in Ids \ {n} : Bare(t, i) => Bare(s, i)
      BY <3>1 DEF SameBut, SameNode
    <3>4. t.waits[1].until = "ready" /\ t.waits[1].node = n
      BY <3>1
    <3> QED BY <2>1, <3>2, <3>3, <3>4 DEF Indexed
  <2> QED BY <2>3, <2>4, <2>5, <2>6, <2>7 DEF Played
<1> QED BY <1>1, <1>2

\* The table is loaded when the loop that waits for the node is left.
LEMMA IndexedLeaves ==
  ASSUME FileOk, header # InvalidNodeID, NEW s \in States, NEW t, LoopLeft(t, s), Indexed(s)
  PROVE  Indexed(t)
<1> DEFINE w == s.waits[1]
<1> SUFFICES ASSUME NEW i \in Ids, t.info[i].generator, t.info[i].index = <<>>,
                    NEW k \in 1..Len(file), At("data", i, k)
             PROVE  FALSE
  BY DEF Indexed
<1>1. CASE /\ t.info[i] = s.info[i]
           /\ ~(w.until = "ready" /\ i = w.node /\ HasTable(file[w.num]) /\ file[w.num].num # 0)
  <2>1. s.waits # <<>> /\ w.until = "ready" /\ w.node = i
    BY <1>1 DEF Indexed
  <2>2. At("added", i, w.num)
    BY <2>1, WaitsLen DEF States, Sound, WaitKnown
  <2> QED BY <1>1, <2>1, <2>2, CompleteFile
<1>2. CASE /\ w.until = "ready" /\ i = w.node
           /\ t.info[i].index = file[file[w.num].table].index
  <2>1. At("added", i, w.num)
    BY <1>2, WaitsLen DEF States, Sound, WaitKnown, LoopLeft
  <2> QED BY <1>2, <2>1, CompleteFile
<1> QED BY <1>1, <1>2 DEF LoopLeft

\* A record that is handled in its order keeps the nodes up to date.
LEMMA KeptPlays ==
  ASSUME FileOk, header # InvalidNodeID, NEW s \in States, NEW t, Played(t, s), Kept(s)
  PROVE  Kept(t)
<1> DEFINE p == s.pos
<1>1. p \in 1..Len(file) /\ p \in Nat /\ Len(file) \in Nat
  BY PlayedPlace, FileFacts
<1>0. s \in PlayerType /\ \A i \in Ids : s.info[i].last \in Nat /\ s.info[i].cur \in Nat
  BY PlayerFields DEF States
<1>2. ASSUME NEW i \in Ids, t.pos = p + 1, SameData(t.info[i], s.info[i]), ~At("data", i, p),
             t.info[i].valid = s.info[i].valid
      PROVE  NodeKept(i, t.info[i], t.pos)
  <2>1. NodeKept(i, s.info[i], p)
    BY DEF Kept
  <2>2. \A k \in 1..Len(file) : At("data", i, k) /\ k < p + 1 => k < p
    BY <1>1, <1>2
  <2>3. s.info[i].last < p + 1
    BY <1>0, <1>1, <2>1 DEF NodeKept
  <2> QED BY <1>2, <2>1, <2>2, <2>3 DEF NodeKept, SameData
<1>3. \A i \in Ids : NodeKept(i, Blank, 1) /\ NodeKept(i, Blank, p + 1)
  BY <1>1 DEF NodeKept, Blank
<1>4. CASE TablePassed(t, s) \/ BeginPassed(t, s)
  <2>1. t.info = s.info /\ t.pos = p + 1 /\ file[p].type # "data"
    BY <1>4 DEF TablePassed, BeginPassed, SameNodes, Passed
  <2> QED BY <1>2, <2>1 DEF Kept, SameData, At
<1>5. CASE GoneBack(t, s)
  BY <1>3, <1>5 DEF GoneBack, Kept
<1>6. ASSUME NEW n \in Ids, t.pos = p + 1, SameBut(t, s, n), file[p].node = n, NodeKept(n, t.info[n], t.pos)
      PROVE  Kept(t)
  <2>1. ASSUME NEW i \in Ids \ {n} PROVE NodeKept(i, t.info[i], t.pos)
    BY <1>2, <1>6, <2>1 DEF SameBut, SameNode, SameData, At
  <2> QED BY <1>6, <2>1 DEF Kept
<1>7. ASSUME NEW n \in Ids, PropPassed(t, s, n) \/ ReadyPassed(t, s, n) PROVE Kept(t)
  <2>1. /\ t.pos = p + 1 /\ SameBut(t, s, n) /\ file[p].node = n /\ file[p].type # "data"
        /\ SameData(t.info[n], s.info[n]) /\ t.info[n].valid = s.info[n].valid
    BY <1>7 DEF PropPassed, ReadyPassed, PassedOf, Passed, SameAdded
  <2>2. NodeKept(n, t.info[n], t.pos)
    BY <1>2, <2>1 DEF At
  <2> QED BY <1>6, <2>1, <2>2
<1>8. ASSUME NEW n \in Ids, RemovedPassed(t, s, n) PROVE Kept(t)
  <2>1. t.pos = p + 1 /\ SameBut(t, s, n) /\ file[p].node = n /\ t.info[n] = Blank
    BY <1>8 DEF RemovedPassed, PassedOf, Passed
  <2> QED BY <1>3, <1>6, <2>1
<1>9. ASSUME NEW n \in Ids, DataPassed(t, s, n) PROVE Kept(t)
  <2>1. /\ t.pos = p + 1 /\ SameBut(t, s, n) /\ file[p].node = n /\ file[p].type = "data"
        /\ s.info[n].valid /\ t.info[n].valid = s.info[n].valid
        /\ t.info[n].last = p /\ t.info[n].cur = file[p].num
    BY <1>9 DEF DataPassed, PassedOf, Passed, SameAdded
  <2>2. At("data", n, p)
    BY <1>1, <2>1 DEF At
  <2>3. ASSUME NEW k \in 1..Len(file), At("data", n, k), k < p + 1 PROVE file[k].num <= file[p].num
    <3>1. k = p \/ k < p
      BY <1>1, <2>3
    <3>2. k < p => file[k].num < file[p].num
      BY <1>1, <2>2, <2>3, FramesNumbered
    <3>3. file[k].num \in Nat /\ file[p].num \in Nat
      BY <1>1, FileFacts
    <3> QED BY <3>1, <3>2, <3>3
  <2>4. NodeKept(n, t.info[n], t.pos)
    BY <1>1, <2>1, <2>3 DEF NodeKept
  <2> QED BY <1>6, <2>1, <2>4
<1>10. ASSUME NEW n \in Ids, AddedPassed(t, s, n) PROVE Kept(t)
  <2>1. /\ t.pos = p + 1 /\ SameBut(t, s, n) /\ file[p].node = n /\ file[p].type = "added"
        /\ t.info[n].valid = TRUE /\ SameData(t.info[n], s.info[n])
    BY <1>10 DEF AddedPassed, Passed
  <2>2. ASSUME NEW k \in 1..Len(file), At("data", n, k), k < p + 1 PROVE FALSE
    <3>1. PICK a \in 1..(k - 1) : At("added", n, a)
      BY <2>2, CompleteFile
    <3>2. a = p
      BY <1>1, <2>1, <3>1 DEF At, FileOk, FileShape, NodesAdded
    <3> QED BY <1>1, <2>2, <3>2
  <2>3. s.info[n].last < p + 1
    BY <1>0, <1>1 DEF Kept, NodeKept
  <2>4. NodeKept(n, t.info[n], t.pos)
    BY <2>1, <2>2, <2>3 DEF NodeKept, SameData
  <2> QED BY <1>6, <2>1, <2>4
<1> QED BY <1>4, <1>5, <1>7, <1>8, <1>9, <1>10 DEF Played

\* Leaving a loop does.
LEMMA KeptLeaves ==
  ASSUME NEW s \in States, NEW t, LoopLeft(t, s), Kept(s)
  PROVE  Kept(t)
<1>1. ASSUME NEW i \in Ids
      PROVE  t.pos = s.pos /\ t.info[i].valid = s.info[i].valid /\ SameData(t.info[i], s.info[i])
  BY <1>1 DEF LoopLeft, SameData
<1> QED BY <1>1 DEF Kept, NodeKept, SameData

\* Nothing is added or removed where it is asked not to be.
LEMMA QuietThere ==
  ASSUME FileOk, header # InvalidNodeID, Quiet, NEW i, NEW j, At("data", i, j), NEW k \in 1..Len(file), j < k,
         file[k].type \in {"added", "removed"}, \A e \in 1..Len(file) : file[e].type = "end" => k <= e
  PROVE  FALSE
<1>1. PICK e \in 1..Len(file) : file[e].type = "end"
  BY CompleteFile
<1>2. k <= e /\ k # e /\ k \in Int /\ e \in Int
  BY <1>1
<1> QED BY <1>1, <1>2, FileFacts DEF Quiet, At

\* While nothing is added or removed on the way, handling a record frees no table for good.
LEMMA AlivePlays ==
  ASSUME FileOk, header # InvalidNodeID, Quiet, NEW s \in States, NEW t, Played(t, s), Alive(s)
  PROVE  Alive(t)
<1> DEFINE p == s.pos
           Again(u, i) == ~u.begun /\ \E k \in 1..Len(file) : At("added", i, k) /\ u.pos <= k
           Good(u, i) == u.temp[i] = Freed => u.info[i].generator \/ Again(u, i)
<1>1. p \in 1..Len(file) /\ p \in Nat /\ Len(file) \in Nat /\ Ok(s)
  BY PlayedPlace, FileFacts
<1>2. Sound(s) /\ BeforeEnd(s) /\ \A i \in Ids : Good(s, i)
  BY DEF States, Alive
<1>3. ASSUME NEW i \in Ids, s.temp[i] # Null PROVE \E k \in 1..Len(file) : At("data", i, k)
  BY <1>2, <1>3 DEF Sound, Known, TempKnown
<1>4. ASSUME NEW i \in Ids, t.pos = p + 1, t.begun = s.begun, ~At("added", i, p), Again(s, i)
      PROVE  Again(t, i)
  <2>1. PICK k \in 1..Len(file) : At("added", i, k) /\ p <= k
    BY <1>4
  <2>2. p + 1 <= k
    BY <1>1, <1>4, <2>1
  <2> QED BY <1>4, <2>1, <2>2
<1>5. ASSUME NEW i \in Ids, t.pos = p + 1, t.begun = s.begun, ~At("added", i, p),
             t.temp[i] = s.temp[i], t.info[i].generator = s.info[i].generator
      PROVE  Good(t, i)
  BY <1>2, <1>4, <1>5
<1>6. CASE TablePassed(t, s)
  <2>1. /\ t.info = s.info /\ t.temp = s.temp /\ t.pos = p + 1 /\ t.begun = s.begun
        /\ file[p].type = "table"
    BY <1>6 DEF TablePassed, SameNodes, Passed
  <2>2. \A i \in Ids : Good(t, i)
    BY <1>5, <2>1 DEF At
  <2> QED BY <2>2 DEF Alive
<1>7. CASE BeginPassed(t, s)
  <2>1. /\ t.info = s.info /\ t.temp = s.temp /\ t.pos = p + 1 /\ file[p].type = "begin"
    BY <1>7 DEF BeginPassed, SameNodes, Passed
  <2>2. p + 1 \in 1..Len(file) /\ file[p + 1].type = "data"
    BY <1>1, <2>1 DEF FileOk, FileShape, FramesBegin
  <2>3. ASSUME NEW i \in Ids, NEW k \in 1..Len(file), At("added", i, k), p <= k PROVE FALSE
    <3>1. file[k].type = "added"
      BY <2>3 DEF At
    <3>2. k # p /\ k # p + 1
      BY <2>1, <2>2, <3>1
    <3>3. p + 1 < k
      BY <1>1, <2>3, <3>2
    <3>4. \A e \in 1..Len(file) : file[e].type = "end" => k <= e
      BY <3>1 DEF FileOk, FileShape, EndLast
    <3>5. At("data", file[p + 1].node, p + 1)
      BY <2>2 DEF At
    <3> QED BY <3>1, <3>3, <3>4, <3>5, QuietThere
  <2>4. \A i \in Ids : Good(t, i)
    BY <1>2, <2>1, <2>3
  <2> QED BY <2>4 DEF Alive
<1>8. CASE GoneBack(t, s)
  <2>1. /\ t.pos = 1 /\ t.begun = FALSE
        /\ \A i \in Ids : t.temp[i] = TempAfterReset(s, i)
    BY <1>8 DEF GoneBack
  <2>2. ASSUME NEW i \in Ids, t.temp[i] = Freed PROVE Again(t, i)
    <3>1. s.temp[i] # Null
      BY <2>1, <2>2 DEF TempAfterReset, Freed, Null
    <3>2. PICK k \in 1..Len(file) : At("data", i, k)
      BY <1>3, <3>1
    <3>3. PICK a \in 1..(k - 1) : At("added", i, a)
      BY <3>2, CompleteFile
    <3>4. a \in 1..Len(file) /\ 1 <= a
      BY <1>1
    <3> QED BY <2>1, <3>3, <3>4
  <2> QED BY <2>2 DEF Alive
<1>9. ASSUME NEW n \in Ids, t.pos = p + 1, t.begun = s.begun, SameBut(t, s, n), file[p].node = n, Good(t, n)
      PROVE  Alive(t)
  <2>1. ASSUME NEW i \in Ids \ {n} PROVE Good(t, i)
    <3>1. t.temp[i] = s.temp[i] /\ t.info[i] = s.info[i] /\ ~At("added", i, p)
      BY <1>9, <2>1 DEF SameBut, SameNode, At
    <3> QED BY <1>5, <1>9, <3>1
  <2>2. \A i \in Ids : Good(t, i)
    BY <1>9, <2>1
  <2> QED BY <2>2 DEF Alive
<1>10. ASSUME NEW n \in Ids, PropPassed(t, s, n) \/ ReadyPassed(t, s, n) \/ DataPassed(t, s, n) PROVE Alive(t)
  <2>1. /\ t.pos = p + 1 /\ t.begun = s.begun /\ SameBut(t, s, n) /\ file[p].node = n /\ file[p].type # "added"
        /\ t.temp[n] = s.temp[n] /\ t.info[n].generator = s.info[n].generator
    BY <1>10 DEF PropPassed, ReadyPassed, DataPassed, PassedOf, Passed, SameAdded
  <2>2. Good(t, n)
    BY <1>5, <2>1 DEF At
  <2> QED BY <1>9, <2>1, <2>2
<1>11. ASSUME NEW n \in Ids, RemovedPassed(t, s, n) PROVE Alive(t)
  <2>1. /\ t.pos = p + 1 /\ t.begun = s.begun /\ SameBut(t, s, n)
        /\ file[p].node = n /\ file[p].type = "removed"
        /\ t.temp[n] = TempAfterReset(s, n)
    BY <1>11 DEF RemovedPassed, PassedOf, Passed
  <2>2. t.temp[n] # Freed
    <3> SUFFICES ASSUME t.temp[n] = Freed PROVE FALSE
      OBVIOUS
    <3>1. s.temp[n] # Null
      BY <2>1 DEF TempAfterReset, Freed, Null
    <3>2. PICK k \in 1..Len(file) : At("data", n, k)
      BY <1>3, <3>1
    <3>3. k <= p /\ k # p
      BY <1>1, <2>1, <3>2 DEF At, FileOk, FileShape, RemovedLast
    <3>4. k < p
      BY <1>1, <3>3
    <3>5. \A e \in 1..Len(file) : file[e].type = "end" => p <= e
      BY <1>1, <1>2 DEF BeforeEnd
    <3> QED BY <1>1, <2>1, <3>2, <3>4, <3>5, QuietThere
  <2> QED BY <1>9, <2>1, <2>2
<1>12. ASSUME NEW n \in Ids, AddedPassed(t, s, n) PROVE Alive(t)
  <2>1. /\ t.pos = p + 1 /\ t.begun = s.begun /\ SameBut(t, s, n) /\ file[p].node = n
        /\ t.temp[n] = s.temp[n] /\ t.info[n].generator = (n \in Generators)
    BY <1>12 DEF AddedPassed, Passed
  <2>2. t.temp[n] = Freed => n \in Generators
    <3> SUFFICES ASSUME t.temp[n] = Freed PROVE n \in Generators
      OBVIOUS
    <3>1. s.temp[n] # Null
      BY <2>1 DEF Freed, Null
    <3> QED BY <1>3, <3>1, CompleteFile
  <2> QED BY <1>9, <2>1, <2>2
<1> QED BY <1>6, <1>7, <1>8, <1>10, <1>11, <1>12 DEF Played

\* Nor does leaving a loop.
LEMMA AliveLeaves ==
  ASSUME NEW s \in States, NEW t, LoopLeft(t, s), Alive(s)
  PROVE  Alive(t)
<1>1. /\ t.pos = s.pos /\ t.begun = s.begun /\ t.temp = s.temp
      /\ \A i \in Ids : t.info[i].generator = s.info[i].generator
  BY DEF LoopLeft
<1> QED BY <1>1 DEF Alive

-----------------------------------------------------------------------------
(* Runs of the loops *)

\* What holds while records are handled, in a complete file.
Walk(s) == Waiting(s) /\ Indexed(s) /\ (Quiet => Alive(s))
Walks == {s \in States : s.status # "wild" /\ (Ok(s) => Walk(s))}
Keeps == {s \in Walks : Ok(s) => Kept(s)}

\* Handling records never reads a table.
LEMMA Tame ==
  ASSUME FileOk, NEW s \in States, s.status # "wild"
  PROVE  /\ \A payload \in BOOLEAN : ProcessOne(s, payload).status # "wild"
         /\ Turn(s).status # "wild"
<1>1. s \in PlayerType
  BY DEF States
<1>2. ASSUME NEW payload \in BOOLEAN PROVE ProcessOne(s, payload).status # "wild"
  <2>1. CASE ~Ok(s)
    BY <2>1 DEF ProcessOne
  <2>2. CASE Ok(s)
    <3> DEFINE b == Placed(s, s.pos + 1)
               t == ProcessOne(s, payload)
    <3>1. CASE s.pos \notin 1..Len(file) /\ t = Fail(s)
      BY <1>1, <3>1, Failed
    <3>2. CASE /\ s.pos \in 1..Len(file) /\ b \in PlayerType
               /\ t = HandleRecord(b, file[s.pos], s.pos, payload)
      <4>1. s.pos + 1 \in Nat
        BY <1>1, PlayerFields
      <4>2. /\ SameNodes(b, s) /\ b.pos = s.pos + 1 /\ b.status = s.status
            /\ b.repeat = s.repeat /\ b.maxID = s.maxID /\ b.begun = s.begun /\ b.waits = s.waits
        BY <1>1, <4>1, PlaceReplaced
      <4> DEFINE h == HandleRecord(b, file[s.pos], s.pos, payload)
      <4> HIDE DEF b
      <4>3. /\ h \in PlayerType /\ h.maxID = b.maxID /\ h.repeat = b.repeat
            /\ h.status \in {b.status, "corrupt", "eof"}
            /\ h.pos = b.pos \/ file[s.pos].type = "end"
            /\ file[s.pos].type = "end" /\ Ok(h) => h.pos = 1 \/ ~Ok(b)
        BY <3>2, HandledRest
      <4> QED BY <3>2, <4>2, <4>3
    <3> QED BY <1>1, <2>2, <3>1, <3>2, ProcessCases
  <2> QED BY <2>1, <2>2
<1>3. Turn(s).status # "wild"
  <2>1. CASE ~Ok(s) \/ s.waits = <<>>
    BY <2>1 DEF Turn
  <2>2. CASE Ok(s) /\ s.waits # <<>>
    <3> DEFINE w == Head(s.waits)
               a == Left(s)
    <3>1. CASE Turn(s) = ProcessOne(s, w.until # "frame")
      <4>1. (w.until # "frame") \in BOOLEAN
        OBVIOUS
      <4> QED BY <1>2, <3>1, <4>1
    <3>2. a \in PlayerType /\ a.status = s.status
      BY <1>1, <2>2, WaitLeft
    <3> HIDE DEF a
    <3>3. CASE Turn(s) = a
      BY <3>2, <3>3
    <3>4. CASE Turn(s) = LoadIndex(a, file[w.num])
      BY <3>2, <3>4, Failed DEF LoadIndex, PlayerType
    <3> QED BY <1>1, <2>2, <3>1, <3>3, <3>4, TurnCases DEF a
  <2> QED BY <2>1, <2>2
<1> QED BY <1>2, <1>3

\* Handling a record keeps all of this.
LEMMA PlayWalks ==
  ASSUME FileOk, header # InvalidNodeID, NEW s \in Walks, NotOver(s), NEW payload \in BOOLEAN
  PROVE  ProcessOne(s, payload) \in Walks /\ (s \in Keeps => ProcessOne(s, payload) \in Keeps)
<1> DEFINE t == ProcessOne(s, payload)
<1>1. s \in States /\ s.status # "wild" /\ (Ok(s) => Walk(s))
  BY DEF Walks
<1>2. t \in States /\ t.status # "wild"
  BY <1>1, ProcessStays, Tame
<1>3. ASSUME NEW u, u = t, Ok(u) PROVE Walk(u) /\ (s \in Keeps => Kept(u))
  <2>1. Played(u, s)
    BY <1>1, <1>3, ProcessPlays
  <2>2. Walk(s)
    BY <1>1, <2>1, PlayedPlace
  <2>3. Waiting(u) /\ Indexed(u) /\ (Quiet => Alive(u))
    BY <1>1, <2>1, <2>2, WaitingPlays, IndexedPlays, AlivePlays DEF Walk
  <2>4. ASSUME s \in Keeps PROVE Kept(u)
    <3>1. Kept(s)
      BY <2>1, <2>4, PlayedPlace DEF Keeps
    <3> QED BY <1>1, <2>1, <3>1, KeptPlays
  <2> QED BY <2>3, <2>4 DEF Walk
<1> QED BY <1>2, <1>3 DEF Walks, Keeps

\* A turn of the innermost loop keeps it.
LEMMA TurnWalks ==
  ASSUME FileOk, header # InvalidNodeID, NEW s \in Walks
  PROVE  Turn(s) \in Walks /\ (s \in Keeps => Turn(s) \in Keeps)
<1>1. s \in States /\ s.status # "wild" /\ (Ok(s) => Walk(s))
  BY DEF Walks
<1>2. CASE ~Ok(s) \/ s.waits = <<>>
  BY <1>2 DEF Turn
<1>3. CASE Ok(s) /\ s.waits # <<>>
  <2> DEFINE t == Turn(s)
  <2>1. t \in States /\ t.status # "wild"
    BY <1>1, TurnStays, Tame
  <2>2. ASSUME NEW u, u = t, Ok(u) PROVE Walk(u) /\ (s \in Keeps => Kept(u))
    <3>1. LoopLeft(u, s) \/ Turned(u, s)
      BY <1>1, <1>3, <2>2, TurnPlays
    <3>2. CASE LoopLeft(u, s)
      <4>1. Waiting(u) /\ Indexed(u) /\ (Quiet => Alive(u))
        BY <1>1, <1>3, <3>2, WaitingLeaves, IndexedLeaves, AliveLeaves DEF Walk
      <4>2. s \in Keeps => Kept(u)
        BY <1>1, <1>3, <3>2, KeptLeaves DEF Keeps
      <4> QED BY <4>1, <4>2 DEF Walk
    <3>3. CASE Turned(u, s)
      <4>1. Played(u, s) /\ NotOver(s)
        BY <3>3 DEF Turned, NotOver
      <4>2. Waiting(u) /\ Indexed(u) /\ (Quiet => Alive(u))
        BY <1>1, <1>3, <4>1, WaitingPlays, IndexedPlays, AlivePlays DEF Walk
      <4>3. s \in Keeps => Kept(u)
        BY <1>1, <1>3, <4>1, KeptPlays DEF Keeps
      <4> QED BY <4>2, <4>3 DEF Walk
    <3> QED BY <3>1, <3>2, <3>3
  <2> QED BY <2>1, <2>2 DEF Walks, Keeps
<1> QED BY <1>2, <1>3

\* The state at rest has the same nodes.
LEMMA WalkStops ==
  ASSUME NEW e \in PlayerType, NEW t, Ok(t), t = Stopped(e)
  PROVE  Ok(e) /\ (Walk(e) => Walk(t)) /\ (Kept(e) => Kept(t))
<1>1. /\ SameNodes(t, e) /\ t.pos = e.pos /\ t.begun = e.begun /\ t.waits = e.waits /\ Ok(e)
  BY StoppedIs
<1> QED BY <1>1 DEF Walk, Waiting, Indexed, Alive, Kept, SameNodes

\* A run of the loops comes to rest with it.
LEMMA RunWalks ==
  ASSUME FileOk, header # InvalidNodeID, NEW s \in Walks
  PROVE  /\ Run(s) \in Walks /\ Run(s) \in Resting
         /\ s \in Keeps => Run(s) \in Keeps
<1>0. s \in States
  BY DEF Walks
<1>1. Run(s) \in Resting
  BY <1>0, RunRests
<1>2. CASE s.waits = <<>>
  BY <1>1, <1>2 DEF Run
<1>3. ASSUME NEW Sts, s \in Sts, s.waits # <<>>, \A t \in Sts : Turn(t) \in Sts, Sts \subseteq Walks
      PROVE  \E e \in Sts : Run(s) = Stopped(e) /\ e \in PlayerType
  <2>1. PICK f \in [0..Enough -> Sts] : Run(s) = Stopped(f[Enough])
    BY <1>3, RunTurns
  <2>2. Enough \in 0..Enough
    BY FileFacts DEF Enough
  <2>3. f[Enough] \in Sts
    BY <2>1, <2>2
  <2> QED BY <1>3, <2>1, <2>3 DEF Walks, States
<1>4. ASSUME NEW e \in Walks, NEW u, u = Stopped(e), e \in PlayerType, u \in Resting
      PROVE  u \in Walks /\ (e \in Keeps => u \in Keeps)
  <2>1. u.status \in {e.status, "endless"}
    BY <1>4, StoppedIs
  <2>2. Ok(u) => Ok(e) /\ (Walk(e) => Walk(u)) /\ (Kept(e) => Kept(u))
    BY <1>4, WalkStops
  <2> QED BY <1>4, <2>1, <2>2 DEF Walks, Keeps, Resting
<1>5. CASE s.waits # <<>>
  <2>1. \A t \in Walks : Turn(t) \in Walks
    BY TurnWalks
  <2>2. PICK e \in Walks : Run(s) = Stopped(e) /\ e \in PlayerType
    BY <1>3, <1>5, <2>1
  <2>3. ASSUME s \in Keeps PROVE Run(s) \in Keeps
    <3>1. \A t \in Keeps : Turn(t) \in Keeps
      BY TurnWalks DEF Keeps
    <3>2. Keeps \subseteq Walks
      BY DEF Keeps
    <3>3. PICK x \in Keeps : Run(s) = Stopped(x) /\ x \in PlayerType
      BY <1>3, <1>5, <2>3, <3>1, <3>2
    <3> QED BY <1>1, <1>4, <3>2, <3>3
  <2> QED BY <1>1, <1>4, <2>2, <2>3
<1> QED BY <1>2, <1>5

\* ProcessRecord keeps it.
LEMMA ReadWalks ==
  ASSUME FileOk, header # InvalidNodeID, NEW s \in Walks, s.waits = <<>>
  PROVE  /\ ProcessRecord(s) \in Walks /\ ProcessRecord(s) \in Resting
         /\ s \in Keeps => ProcessRecord(s) \in Keeps
<1>1. NotOver(s)
  BY DEF NotOver
<1>2. PICK q \in BOOLEAN : q = TRUE
  OBVIOUS
<1>3. ProcessOne(s, q) \in Walks /\ (s \in Keeps => ProcessOne(s, q) \in Keeps)
  BY <1>1, PlayWalks
<1> QED BY <1>2, <1>3, RunWalks DEF ProcessRecord

-----------------------------------------------------------------------------
(* Opening the file *)

\* The state in which a file is opened.
Opened(r) == [NewPlayer EXCEPT !.status = "ok", !.repeat = r, !.pos = 1, !.maxID = header]

\* A loop is entered.
Entered(t, s, w) ==
  /\ t \in PlayerType /\ SameNodes(t, s) /\ t.pos = s.pos /\ t.status = s.status
  /\ t.repeat = s.repeat /\ t.maxID = s.maxID /\ t.begun = s.begun
  /\ Len(t.waits) = Len(s.waits) + 1 /\ t.waits[1] = w
  /\ \A j \in 1..Len(s.waits) : t.waits[j + 1] = s.waits[j]

\* Wait enters a loop.
LEMMA WaitEntered ==
  ASSUME NEW s \in PlayerType, NEW until \in {"ready", "first", "frame"}, NEW n \in Nat, NEW k \in Nat
  PROVE  Entered(Wait(s, until, n, k), s, [until |-> until, node |-> n, num |-> k])
<1> DEFINE t == Wait(s, until, n, k)
<1>1. /\ t \in PlayerType /\ SameNodes(t, s) /\ t.pos = s.pos /\ t.status = s.status
      /\ t.repeat = s.repeat /\ t.maxID = s.maxID /\ t.begun = s.begun
      /\ t.waits = <<[until |-> until, node |-> n, num |-> k]>> \o s.waits
      /\ Len(t.waits) = Len(s.waits) + 1 /\ t.waits[1] = [until |-> until, node |-> n, num |-> k]
      /\ \A j \in 1..Len(s.waits) : t.waits[j + 1] = s.waits[j]
  BY WaitAdded
<1> QED BY <1>1 DEF Entered

\* The state in which OpenStream starts.
LEMMA OpenedKnown ==
  ASSUME FileOk, header \in Int, NEW r \in BOOLEAN
  PROVE  LET t == Wait(Opened(r), "first", 0, 0)
         IN  /\ t \in States /\ Ok(t) /\ t.begun = FALSE /\ t.pos = 1
             /\ Len(t.waits) = 1 /\ t.waits[1] = [until |-> "first", node |-> 0, num |-> 0]
             /\ \A i \in Ids : t.info[i] = Blank /\ t.temp[i] = Null
             /\ t.maxID = header
<1> DEFINE a == Opened(r)
           t == Wait(a, "first", 0, 0)
<1>1. /\ a \in PlayerType /\ a.pos = 1 /\ Ok(a) /\ a.maxID = header /\ a.begun = FALSE
      /\ a.waits = <<>> /\ \A i \in Ids : a.info[i] = Blank /\ a.temp[i] = Null /\ a.shown[i] = Nothing
  <2>1. Blank \in NodeType /\ Null \in Int /\ Nothing \in ShownType
    BY DEF Blank, NodeType, UndoType, NoUndo, Null, Nothing, ShownType
  <2>2. /\ [n \in Ids |-> Blank] \in [Ids -> NodeType] /\ [n \in Ids |-> Null] \in [Ids -> Int]
        /\ [n \in Ids |-> Nothing] \in [Ids -> ShownType]
    BY <2>1
  <2> DEFINE Wide == [status : {"new", "ok"}, repeat : BOOLEAN, pos : Nat, maxID : Int, begun : BOOLEAN,
                      waits : Seq(WaitType), info : [Ids -> NodeType], temp : [Ids -> Int],
                      shown : [Ids -> ShownType]]
  <2>3. ASSUME NEW V \in [Ids -> NodeType], NEW W \in [Ids -> Int], NEW X \in [Ids -> ShownType]
        PROVE  [status |-> "new", repeat |-> FALSE, pos |-> 0, maxID |-> 0, begun |-> FALSE,
                waits |-> <<>>, info |-> V, temp |-> W, shown |-> X] \in Wide
    OBVIOUS
  <2>6. ASSUME NEW s \in Wide
        PROVE  [s EXCEPT !.status = "ok", !.repeat = r, !.pos = 1, !.maxID = header] \in PlayerType
    BY <2>6 DEF PlayerType
  <2>7. a \in PlayerType
    <3>1. NewPlayer \in Wide
      BY <2>2, <2>3 DEF NewPlayer
    <3> HIDE DEF Wide
    <3> QED BY <2>6, <3>1 DEF Opened
  <2>4. /\ a.pos = 1 /\ a.status = "ok" /\ a.maxID = header /\ a.begun = FALSE /\ a.waits = <<>>
    BY DEF Opened, NewPlayer
  <2>5. a.info = [n \in Ids |-> Blank] /\ a.temp = [n \in Ids |-> Null] /\ a.shown = [n \in Ids |-> Nothing]
    BY DEF Opened, NewPlayer
  <2> HIDE DEF a
  <2> QED BY <2>4, <2>5, <2>7 DEF Ok
<1> HIDE DEF a
<1>0. a \in PlayerType /\ 0 \in Nat /\ "first" \in {"ready", "first", "frame"}
  BY <1>1
<1> HIDE DEF t
<1>5. Entered(t, a, [until |-> "first", node |-> 0, num |-> 0])
  BY <1>0, WaitEntered DEF t
<1>3. Len(a.waits) = 0
  BY <1>1
<1>6. /\ t \in PlayerType /\ t.pos = 1 /\ Ok(t) /\ t.begun = FALSE /\ t.maxID = header
      /\ Len(t.waits) = 1 /\ t.waits[1] = [until |-> "first", node |-> 0, num |-> 0]
  BY <1>1, <1>3, <1>5 DEF Ok, Entered
<1>7. \A i \in Ids : t.info[i] = Blank /\ t.temp[i] = Null /\ t.shown[i] = Nothing
  BY <1>1, <1>5 DEF SameNodes, Entered
<1>8. Len(file) \in Nat
  BY FileFacts
<1>9. Sound(t)
  <2>1. \A i \in Ids : Known(i, t.info[i], t.temp[i])
    BY <1>7, BlankKnown
  <2>2. \A i \in Ids : t.shown[i].data \in 0..Len(file) /\ t.shown[i].prop \in 0..Len(file)
    BY <1>7, <1>8 DEF Nothing
  <2>3. \A j \in 1..Len(t.waits) : WaitKnown(t.waits[j])
    BY <1>6 DEF WaitKnown
  <2> QED BY <1>6, <1>8, <2>1, <2>2, <2>3 DEF Sound
<1>10. BeforeEnd(t)
  BY <1>6, <1>8 DEF BeforeEnd
<1> QED BY <1>6, <1>7, <1>9, <1>10 DEF States, t, a

\* A complete file is opened.
LEMMA OpenWalks ==
  ASSUME FileOk, header # InvalidNodeID, header \in Int, NEW r \in BOOLEAN
  PROVE  LET t == ProcessUntilFirstData(Opened(r))
         IN  t \in Resting /\ t \in Keeps
<1> DEFINE t == Wait(Opened(r), "first", 0, 0)
<1>1. /\ t \in States /\ Ok(t) /\ t.begun = FALSE /\ t.pos = 1
      /\ Len(t.waits) = 1 /\ t.waits[1] = [until |-> "first", node |-> 0, num |-> 0]
      /\ \A i \in Ids : t.info[i] = Blank /\ t.temp[i] = Null
      /\ t.maxID = header
  BY OpenedKnown
<1>2. ProcessUntilFirstData(Opened(r)) = Run(t)
  BY DEF ProcessUntilFirstData
<1> HIDE DEF t
<1>3. Waiting(t)
  <2>1. t.waits[1].until = "first" /\ 1 \in 1..Len(t.waits)
    BY <1>1
  <2>2. \A j \in 2..Len(t.waits) : FALSE
    BY <1>1
  <2>3. \A j \in 1..(t.pos - 1) : FALSE
    BY <1>1
  <2> QED BY <2>1, <2>2, <2>3 DEF Waiting
<1>4. Indexed(t) /\ Alive(t) /\ Kept(t)
  BY <1>1 DEF Indexed, Alive, Kept, NodeKept, Blank, Null, Freed
<1>5. t \in Keeps
  BY <1>1, <1>3, <1>4 DEF Keeps, Walks, Walk, Ok
<1> QED BY <1>2, <1>5, RunWalks DEF Keeps, t

\* An unfinished file is not: every record that is handled is of a node that its
\* header does not have, or is the end.
Refusing ==
  {s \in States : Ok(s) => /\ s.begun = FALSE /\ s.waits # <<>> /\ s.waits[1].until = "first"}

\* A turn in an unfinished file is refused, or changes nothing.
LEMMA TurnRefuses ==
  ASSUME FileOk, header = InvalidNodeID, NEW s \in Refusing
  PROVE  Turn(s) \in Refusing
<1> DEFINE t == Turn(s)
<1>1. s \in States /\ t \in States /\ Sound(s)
  BY TurnStays DEF Refusing, States
<1>2. ASSUME Ok(t) PROVE t.begun = FALSE /\ t.waits # <<>> /\ t.waits[1].until = "first"
  <2>1. Ok(s)
    BY <1>2 DEF Turn
  <2>2. s.begun = FALSE /\ s.waits # <<>> /\ s.waits[1].until = "first" /\ s.maxID = -1
    BY <1>1, <2>1 DEF Refusing, Sound, InvalidNodeID
  <2>3. ~Over(s, s.waits[1])
    BY <2>2 DEF Over
  <2>4. Turn(s) = ProcessOne(s, TRUE)
    <3>1. Head(s.waits) = s.waits[1]
      BY <1>1, <2>2, WaitLeft DEF States
    <3> QED BY <1>1, <2>1, <2>2, <2>3, <3>1, TurnCases DEF States
  <2> DEFINE b == Placed(s, s.pos + 1)
             r == file[s.pos]
  <2>5. PICK q \in BOOLEAN : q = TRUE
    OBVIOUS
  <2>6. s.pos \in 1..Len(file) /\ b \in PlayerType /\ t = HandleRecord(b, r, s.pos, q)
    <3>1. Fail(s).status = "corrupt"
      BY <1>1, Failed DEF States
    <3>2. t = ProcessOne(s, q) /\ t # Fail(s)
      BY <1>2, <2>4, <2>5, <3>1 DEF Ok
    <3> HIDE DEF t
    <3> QED BY <1>1, <2>1, <3>2, ProcessCases DEF States
  <2>7. b.status = s.status /\ b.maxID = -1 /\ b.begun = FALSE /\ b.waits = s.waits
    <3>1. s.pos + 1 \in Nat /\ s \in PlayerType
      BY <1>1, PlayerFields DEF States
    <3>2. /\ SameNodes(b, s) /\ b.pos = s.pos + 1 /\ b.status = s.status
          /\ b.repeat = s.repeat /\ b.maxID = s.maxID /\ b.begun = s.begun /\ b.waits = s.waits
      BY <3>1, PlaceReplaced
    <3> QED BY <2>2, <3>2
  <2>8. r \in RecType /\ (r.type # "end" => r.node \in Ids)
    BY <2>6, FileFacts
  <2>9. \/ t = Fail(b)
        \/ r.type = "table" /\ t = b
        \/ EndCase(b, t, r)
        \/ AddedCase(b, t, r, s.pos)
        \/ NodeCase(b, t, r, s.pos, q)
    <3> DEFINE h == HandleRecord(b, r, s.pos, q)
    <3>1. \/ h = Fail(b)
          \/ r.type = "table" /\ h = b
          \/ EndCase(b, h, r)
          \/ AddedCase(b, h, r, s.pos)
          \/ NodeCase(b, h, r, s.pos, q)
      <4> HIDE DEF b, r, t
      <4> QED BY <2>6, <2>8, HandledCases
    <3> HIDE DEF h
    <3>2. t = h
      BY <2>6 DEF h
    <3> HIDE DEF t
    <3> QED BY <3>1, <3>2
  <2> HIDE DEF b, t, r
  <2>10. t # Fail(b)
    BY <1>2, <2>6, Failed DEF Ok
  <2>11. \A n \in Ids : ~(n <= -1)
    BY DEF Ids
  <2>12. t = b
    BY <2>7, <2>9, <2>10, <2>11 DEF EndCase, AddedCase, NodeCase
  <2> QED BY <2>2, <2>7, <2>12
<1> QED BY <1>1, <1>2 DEF Refusing

\* An unfinished file is not opened.
LEMMA OpenRefuses ==
  ASSUME FileOk, header = InvalidNodeID, NEW r \in BOOLEAN
  PROVE  LET t == ProcessUntilFirstData(Opened(r))
         IN  t \in Resting /\ ~Ok(t) /\ t.status # "wild"
<1> DEFINE t == Wait(Opened(r), "first", 0, 0)
<1>0. header \in Int
  BY DEF InvalidNodeID
<1>1. /\ t \in States /\ Ok(t) /\ t.begun = FALSE /\ t.pos = 1
      /\ Len(t.waits) = 1 /\ t.waits[1] = [until |-> "first", node |-> 0, num |-> 0]
      /\ \A i \in Ids : t.info[i] = Blank /\ t.temp[i] = Null
      /\ t.maxID = header
  BY <1>0, OpenedKnown
<1>2. ProcessUntilFirstData(Opened(r)) = Run(t)
  BY DEF ProcessUntilFirstData
<1> HIDE DEF t
<1>3. t.waits # <<>>
  BY <1>1, WaitsLen
<1> DEFINE Sts == {u \in Refusing : u.status # "wild"}
<1>4. t \in Sts
  BY <1>1, <1>3 DEF Refusing, Ok
<1>5. \A u \in Sts : Turn(u) \in Sts
  BY TurnRefuses, Tame DEF Refusing
<1>6. PICK f \in [0..Enough -> Sts] : Run(t) = Stopped(f[Enough])
  <2> HIDE DEF Sts
  <2> QED BY <1>3, <1>4, <1>5, RunTurns
<1> DEFINE e == f[Enough]
<1>7. e \in Sts /\ e \in PlayerType
  <2>1. Enough \in 0..Enough
    BY FileFacts DEF Enough
  <2> QED BY <1>6, <2>1 DEF Refusing, States
<1> HIDE DEF e
<1> DEFINE z == Stopped(e)
<1>8. z.status \in {e.status, "endless"} /\ (Ok(z) => Ok(e) /\ e.waits = <<>>)
  BY <1>7, StoppedIs
<1> HIDE DEF z
<1>9. ~Ok(z) /\ z.status # "wild"
  BY <1>7, <1>8 DEF Refusing
<1>10. Run(t) = z /\ Run(t) \in Resting
  BY <1>1, <1>6, RunRests DEF z, e
<1> QED BY <1>2, <1>9, <1>10 DEF t

-----------------------------------------------------------------------------
(* Seeks *)

\* Between two calls only these parts of a state matter.
LEMMA RestWalks ==
  ASSUME NEW s \in Resting, Walk(s), NEW t \in Resting, Ok(t), t.begun = s.begun,
         \A i \in Ids : SameAdded(t.info[i], s.info[i]) /\ (t.temp[i] = Freed => s.temp[i] = Freed)
  PROVE  Walk(t)
<1>1. s.waits = <<>> /\ t.waits = <<>> /\ Len(t.waits) = 0 /\ s.begun \in BOOLEAN
  BY PlayerFields DEF Resting, States
<1>2. s.begun
  BY <1>1 DEF Walk, Waiting
<1>3. Waiting(t)
  BY <1>1, <1>2 DEF Waiting
<1>4. Indexed(t)
  BY <1>1 DEF Walk, Indexed, SameAdded
<1>5. Quiet => Alive(t)
  BY <1>2 DEF Walk, Alive, SameAdded
<1> QED BY <1>3, <1>4, <1>5 DEF Walk

\* The loop that looks for a frame.
Sent(s, n, f) == Wait(SeekLocations(s, n, f), "frame", n, f)

\* The loop is entered with what holds between two calls.
LEMMA FrameSent ==
  ASSUME FileOk, NEW s \in Resting, Ok(s), Walk(s), NEW n, NEW f, Asked(s, n, f)
  PROVE  LET t == Sent(s, n, f)
         IN  /\ t \in Walks /\ Ok(t) /\ (Kept(s) => t \in Keeps)
             /\ t.pos = s.pos /\ t.info = s.info /\ Len(t.waits) = 1
             /\ t.waits[1] = [until |-> "frame", node |-> n, num |-> f]
<1> DEFINE a == SeekLocations(s, n, f)
           t == Sent(s, n, f)
<1>1. /\ a \in Resting /\ SameRest(a, s) /\ a.info = s.info /\ a.shown = s.shown
      /\ \/ a = s
         \/ Locates(s, n, f) /\ \A i \in Ids : a.temp[i] = PlaceFor(s, n, f, i)
      /\ Locates(s, n, f) => \A i \in Ids : a.temp[i] = PlaceFor(s, n, f, i)
  BY Located
<1>2. Entered(t, a, [until |-> "frame", node |-> n, num |-> f])
  <2>1. n \in Nat /\ f \in Nat /\ "frame" \in {"ready", "first", "frame"} /\ a \in PlayerType
    BY <1>1 DEF Asked, Ids, Resting, States
  <2> HIDE DEF a
  <2> QED BY <2>1, WaitEntered DEF Sent, a
<1>3. \A i \in Ids : a.temp[i] = Freed => s.temp[i] = Freed
  <2>1. s \in PlayerType /\ Sound(s)
    BY DEF Resting, States
  <2>2. ASSUME NEW i \in Ids, Locates(s, n, f), PlaceFor(s, n, f, i) = Freed PROVE s.temp[i] = Freed
    <3>1. /\ TempKnown(i, PlaceFor(s, n, f, i)) /\ PlaceFor(s, n, f, i) \in Int
          /\ At("data", n, Destination(s, n, f)) /\ file[Destination(s, n, f)].num = f
          /\ i = n => PlaceFor(s, n, f, i) = Destination(s, n, f)
          /\ i \in Others(s, n) /\ Seen(s, n, f, i) =>
               PlaceFor(s, n, f, i) # Freed /\ PlaceFor(s, n, f, i) <= Destination(s, n, f)
          /\ PlaceFor(s, n, f, i) = Freed => i # n /\ s.temp[i] = Freed
          /\ i # n /\ i \notin Others(s, n) => PlaceFor(s, n, f, i) = s.temp[i]
      BY <2>1, <2>2, PlaceForKnown
    <3> QED BY <2>2, <3>1
  <2> QED BY <1>1, <2>2
<1>4. Ok(a) /\ a.begun = s.begun /\ a.waits = <<>> /\ a.pos = s.pos /\ Sound(a) /\ BeforeEnd(a)
  BY <1>1 DEF SameRest, Ok, Resting, States
<1> HIDE DEF a, t
<1>5. Walk(a)
  BY <1>1, <1>3, <1>4, RestWalks DEF SameAdded
<1>6. /\ t \in PlayerType /\ SameNodes(t, a) /\ t.pos = s.pos /\ Ok(t) /\ t.begun = a.begun
      /\ t.maxID = a.maxID /\ Len(t.waits) = 1
      /\ t.waits[1] = [until |-> "frame", node |-> n, num |-> f]
  BY <1>2, <1>4 DEF Entered, Ok
<1>7. t \in States
  <2>1. WaitKnown(t.waits[1])
    BY <1>6 DEF WaitKnown, Asked
  <2>2. \A j \in 1..Len(t.waits) : WaitKnown(t.waits[j])
    BY <1>6, <2>1
  <2> QED BY <1>4, <1>6, <2>2 DEF States, Sound, BeforeEnd, SameNodes
<1>8. Walk(t)
  <2>1. a.begun
    <3>1. Len(a.waits) = 0 /\ a.begun \in BOOLEAN
      BY <1>1, <1>4, PlayerFields DEF Resting, States
    <3> QED BY <1>5, <3>1 DEF Walk, Waiting
  <2>2. Waiting(t)
    BY <1>6, <2>1 DEF Waiting
  <2>3. Indexed(t)
    BY <1>4, <1>5, <1>6 DEF Walk, Indexed, SameNodes
  <2>4. Quiet => Alive(t)
    BY <1>5, <1>6, <2>1 DEF Walk, Alive, SameNodes
  <2> QED BY <2>2, <2>3, <2>4 DEF Walk
<1>9. t.info = s.info
  BY <1>1, <1>6 DEF SameNodes
<1>10. Kept(s) => Kept(t)
  BY <1>6, <1>9 DEF Kept
<1> QED BY <1>6, <1>7, <1>8, <1>9, <1>10 DEF Walks, Keeps, Ok, t

\* How a seek goes.
LEMMA SeekCases ==
  ASSUME NEW s, NEW n, NEW f
  PROVE  LET t == SeekTo(s, n, f)
             cur == s.info[n].cur
         IN  \/ f = cur /\ t = ProcessRecord(Placed(s, s.info[n].last))
             \/ f # cur /\ CanSeekFast(s, n, f) /\ t = SeekFast(s, n, f)
             \/ f < cur /\ t = SeekBack(SeekLocations(s, n, f), n, f)
             \/ f # cur /\ ~(f < cur) /\ t = ProcessEachNodeLastData(Run(Sent(s, n, f)), n)
BY DEF SeekTo, Placed, Sent

\* Reading the current frame again.
LEMMA RereadSought ==
  ASSUME FileOk, NEW s \in Resting, Ok(s), NEW n, NEW f, Asked(s, n, f), f = s.info[n].cur
  PROVE  LET t == ProcessRecord(Placed(s, s.info[n].last))
         IN  /\ t \in Resting /\ t.status # "wild"
             /\ Ok(t) => /\ Sought(t, n, f) /\ FrameRead(t, s, n, s.info[n].last)
                         /\ At("data", n, s.info[n].last) /\ file[s.info[n].last].num = f
<1> DEFINE p == s.info[n].last
           t == ProcessRecord(Placed(s, s.info[n].last))
<1>1. n \in Ids /\ DataKnown(n, s.info[n]) /\ NoUndo.rec = 0
  BY DEF Asked, Resting, States, Sound, Known, NoUndo
<1>2. CASE s.info[n].data = NoUndo
  <2>1. p = 0
    BY <1>1, <1>2 DEF DataKnown
  <2>2. t \in Resting /\ t.status = "corrupt"
    BY <2>1, ReadHeader
  <2> QED BY <2>2 DEF Ok
<1>3. CASE s.info[n].data # NoUndo
  <2>1. At("data", n, p) /\ file[p].num = f
    BY <1>1, <1>3 DEF DataKnown
  <2> HIDE DEF p
  <2>2. LET u == ProcessRecord(Placed(s, p))
        IN  /\ u \in Resting
            /\ \/ ~Ok(u) /\ u.status = "corrupt"
               \/ FrameRead(u, s, n, p)
    BY <2>1, ReadFrame
  <2>3. t = ProcessRecord(Placed(s, p))
    BY DEF p
  <2> HIDE DEF t
  <2>4. t \in Resting /\ ((~Ok(t) /\ t.status = "corrupt") \/ FrameRead(t, s, n, p))
    BY <2>2, <2>3
  <2>5. FrameRead(t, s, n, p) => Sought(t, n, f) /\ Ok(t) /\ t.status # "wild"
    BY <2>1 DEF FrameRead, Sought, Ok
  <2> QED BY <2>1, <2>4, <2>5 DEF p, t
<1> QED BY <1>2, <1>3

\* A seek in a complete file follows a pointer into a freed table only if a node is
\* added or removed between the first frame and the end.
LEMMA SeekWalks ==
  ASSUME FileOk, header # InvalidNodeID, NEW s \in Resting, Ok(s), Walk(s), NEW n, NEW f, Asked(s, n, f)
  PROVE  LET t == SeekTo(s, n, f)
         IN  t \in Resting /\ (t.status = "wild" => ~Quiet) /\ (Ok(t) => Walk(t))
<1> DEFINE t == SeekTo(s, n, f)
           cur == s.info[n].cur
<1>1. n \in Ids /\ f \in Nat /\ cur \in Nat
  BY PlayerFields DEF Asked, Resting, States
<1>2. CASE f = cur /\ t = ProcessRecord(Placed(s, s.info[n].last))
  <2> DEFINE u == ProcessRecord(Placed(s, s.info[n].last))
  <2>1. /\ u \in Resting /\ u.status # "wild"
        /\ Ok(u) => /\ Sought(u, n, f) /\ FrameRead(u, s, n, s.info[n].last)
                    /\ At("data", n, s.info[n].last) /\ file[s.info[n].last].num = f
    BY <1>2, RereadSought
  <2> HIDE DEF u
  <2>2. ASSUME Ok(u) PROVE Walk(u)
    <3>1. FrameRead(u, s, n, s.info[n].last)
      BY <2>1, <2>2
    <3>2. u.begun = s.begun /\ \A i \in Ids : SameAdded(u.info[i], s.info[i]) /\ u.temp[i] = s.temp[i]
      BY <3>1 DEF FrameRead, SameBut, SameNode, SameAdded
    <3> QED BY <2>1, <2>2, <3>2, RestWalks
  <2>3. t = u
    BY <1>2 DEF u
  <2> HIDE DEF t
  <2> QED BY <2>1, <2>2, <2>3 DEF t
<1>3. CASE CanSeekFast(s, n, f) /\ t = SeekFast(s, n, f)
  <2> DEFINE u == SeekFast(s, n, f)
  <2>1. /\ u \in Resting
        /\ Ok(u) => Sought(u, n, f) /\ FastRead(u, s, n, f)
        /\ u.status = "wild" => \E i \in Ids : s.temp[i] = Freed /\ ~s.info[i].generator
        /\ Ok(u) => /\ u.begun = s.begun
                    /\ \A i \in Ids : /\ SameAdded(u.info[i], s.info[i])
                                      /\ u.temp[i] = Freed => s.temp[i] = Freed
    BY <1>3, FastSought
  <2> HIDE DEF u
  <2>2. ASSUME Ok(u) PROVE Walk(u)
    BY <2>1, <2>2, RestWalks
  <2>3. ASSUME u.status = "wild", Quiet PROVE FALSE
    <3>1. s.begun
      <4>1. Len(s.waits) = 0 /\ s.begun \in BOOLEAN
        BY PlayerFields DEF Resting, States
      <4> QED BY <4>1 DEF Walk, Waiting
    <3> QED BY <2>1, <2>3, <3>1 DEF Walk, Alive
  <2>4. t = u
    BY <1>3 DEF u
  <2> HIDE DEF t
  <2> QED BY <2>1, <2>2, <2>3, <2>4 DEF t
<1>4. CASE f < cur /\ t = SeekBack(SeekLocations(s, n, f), n, f)
  <2> DEFINE a == SeekLocations(s, n, f)
             u == SeekBack(a, n, f)
  <2>1. /\ a \in Resting /\ SameRest(a, s) /\ a.info = s.info /\ a.shown = s.shown
        /\ \/ a = s
           \/ Locates(s, n, f) /\ \A i \in Ids : a.temp[i] = PlaceFor(s, n, f, i)
        /\ Locates(s, n, f) => \A i \in Ids : a.temp[i] = PlaceFor(s, n, f, i)
    BY Located
  <2>2. /\ Sent(s, n, f) \in Walks /\ Ok(Sent(s, n, f)) /\ Sent(s, n, f).begun = a.begun
        /\ Sent(s, n, f).info = a.info /\ Sent(s, n, f).temp = a.temp
    <3>1. Sent(s, n, f) \in Walks /\ Ok(Sent(s, n, f))
      BY FrameSent
    <3>2. Entered(Sent(s, n, f), a, [until |-> "frame", node |-> n, num |-> f])
      <4>1. n \in Nat /\ f \in Nat /\ "frame" \in {"ready", "first", "frame"} /\ a \in PlayerType
        BY <1>1, <2>1 DEF Ids, Resting, States
      <4> HIDE DEF a
      <4> QED BY <4>1, WaitEntered DEF Sent, a
    <3> QED BY <3>1, <3>2 DEF Entered, SameNodes
  <2> HIDE DEF a
  <2>3. Ok(a) /\ Asked(a, n, f) /\ f < a.info[n].cur
    BY <1>4, <2>1 DEF SameRest, Ok, Asked
  <2>4. /\ u \in Resting /\ u.status # "wild"
        /\ Ok(u) => Sought(u, n, f)
        /\ Ok(u) => /\ u.begun = a.begun
                    /\ \A i \in Ids : SameAdded(u.info[i], a.info[i]) /\ u.temp[i] = a.temp[i]
    BY <2>1, <2>3, BackSought
  <2> HIDE DEF u
  <2>5. ASSUME Ok(u) PROVE Walk(u)
    <3>1. Walk(a)
      <4>1. a.begun = s.begun /\ s.begun
        <5>1. Len(s.waits) = 0 /\ s.begun \in BOOLEAN
          BY PlayerFields DEF Resting, States
        <5> QED BY <2>1, <5>1 DEF Walk, Waiting, SameRest
      <4>2. Walk(Sent(s, n, f))
        BY <2>2 DEF Walks
      <4>3. a.waits = <<>> /\ Len(a.waits) = 0 /\ s.waits = <<>>
        BY <2>1 DEF Resting
      <4>4. Quiet => Alive(a)
        BY <2>2, <4>1, <4>2 DEF Walk, Alive
      <4>5. Waiting(a)
        BY <4>1, <4>3 DEF Waiting
      <4>6. Indexed(a)
        BY <2>1, <4>3 DEF Walk, Indexed
      <4> QED BY <4>4, <4>5, <4>6 DEF Walk
    <3> QED BY <2>1, <2>4, <2>5, <3>1, RestWalks
  <2>6. t = u
    BY <1>4 DEF u, a
  <2> HIDE DEF t
  <2> QED BY <2>4, <2>5, <2>6 DEF t
<1>5. CASE t = ProcessEachNodeLastData(Run(Sent(s, n, f)), n)
  <2> DEFINE c == Run(Sent(s, n, f))
             u == ProcessEachNodeLastData(c, n)
  <2>1. c \in Walks /\ c \in Resting
    <3>1. Sent(s, n, f) \in Walks
      BY FrameSent
    <3> QED BY <3>1, RunWalks
  <2> HIDE DEF c
  <2>2. /\ u \in Resting
        /\ Ok(u) => LastsKept(u, c)
        /\ u.status = "wild" => c.status = "wild"
        /\ Ok(u) /\ c.info[n].last # 0 =>
             /\ At("data", n, c.info[n].last)
             /\ u.shown[n].data = c.info[n].last /\ u.pos = c.info[n].last + 1
    BY <1>1, <2>1, AllShown
  <2> HIDE DEF u
  <2>3. ASSUME Ok(u) PROVE Walk(u)
    <3>1. LastsKept(u, c)
      BY <2>2, <2>3
    <3>2. Ok(c) /\ Walk(c)
      BY <2>1, <3>1 DEF LastsKept, Walks
    <3> QED BY <2>1, <2>2, <2>3, <3>1, <3>2, RestWalks DEF LastsKept
  <2>4. t = u
    BY <1>5 DEF u, c
  <2> HIDE DEF t
  <2> QED BY <2>1, <2>2, <2>3, <2>4 DEF Walks, t
<1>6. \/ f = cur /\ t = ProcessRecord(Placed(s, s.info[n].last))
      \/ f # cur /\ CanSeekFast(s, n, f) /\ t = SeekFast(s, n, f)
      \/ f < cur /\ t = SeekBack(SeekLocations(s, n, f), n, f)
      \/ f # cur /\ ~(f < cur) /\ t = ProcessEachNodeLastData(Run(Sent(s, n, f)), n)
  BY SeekCases
<1> HIDE DEF t, cur
<1> QED BY <1>2, <1>3, <1>4, <1>5, <1>6 DEF t

-----------------------------------------------------------------------------
(* What is kept by seeks *)

\* A node that is not valid, or has no data in the file, has no frame.
LEMMA NoFrameKept ==
  ASSUME FileOk, NEW s, Sound(s), NEW i \in Ids, NEW v, NEW p \in Nat \ {0}, DataKnown(i, v),
         \/ ~v.valid /\ v.last = 0
         \/ \A k \in 1..Len(file) : ~At("data", i, k)
  PROVE  NodeKept(i, v, p)
<1>1. v.last = 0
  <2>1. ASSUME \A k \in 1..Len(file) : ~At("data", i, k) PROVE v.last = 0
    <3>1. ~At("data", i, v.data.rec)
      BY <2>1 DEF At
    <3> QED BY <3>1 DEF DataKnown, NoUndo
  <2> QED BY <2>1
<1> QED BY <1>1 DEF NodeKept

\* Reading the current frame again, with nothing played since.
LEMMA RereadKept ==
  ASSUME FileOk, header # InvalidNodeID, NEW s \in Resting, Ok(s), Kept(s), NEW n, NEW f, Asked(s, n, f),
         f = s.info[n].cur, s.pos = s.info[n].last + 1,
         NEW t, t = ProcessRecord(Placed(s, s.info[n].last)), Ok(t)
  PROVE  Kept(t)
<1>1. LET u == ProcessRecord(Placed(s, s.info[n].last))
      IN  /\ u \in Resting /\ u.status # "wild"
          /\ Ok(u) => /\ Sought(u, n, f) /\ FrameRead(u, s, n, s.info[n].last)
                      /\ At("data", n, s.info[n].last) /\ file[s.info[n].last].num = f
  BY RereadSought
<1>2. FrameRead(t, s, n, s.info[n].last) /\ file[s.info[n].last].num = f
  BY <1>1
<1>3. /\ t.pos = s.pos /\ SameAdded(t.info[n], s.info[n])
      /\ t.info[n].cur = s.info[n].cur /\ t.info[n].last = s.info[n].last
      /\ \A i \in Ids \ {n} : t.info[i] = s.info[i]
  BY <1>2 DEF FrameRead, SameBut, SameNode
<1>4. ASSUME NEW i \in Ids PROVE NodeKept(i, t.info[i], t.pos)
  <2>1. NodeKept(i, s.info[i], s.pos)
    BY DEF Kept
  <2>2. /\ t.info[i].last = s.info[i].last /\ t.info[i].cur = s.info[i].cur
        /\ t.info[i].valid = s.info[i].valid
    BY <1>3 DEF SameAdded
  <2> QED BY <1>3, <2>1, <2>2 DEF NodeKept
<1> QED BY <1>4 DEF Kept

\* The frame of another node that a fast seek reads is its last up to the destination.
LEMMA LastUpTo ==
  ASSUME FileOk, NEW s, Sound(s), NEW i \in Ids, NEW p \in Nat, s.info[i].index # <<>>,
         NEW k \in 1..Len(file), At("data", i, k), k <= p
  PROVE  LET m == FrameAt(s, i, p)
         IN  /\ m \in 1..Len(s.info[i].index) /\ Entry(s, i, m).pos = s.info[i].index[m].pos
             /\ file[k].num <= m
<1> DEFINE ix == s.info[i].index
           K == {0} \cup {j \in DOMAIN ix : ix[j].pos <= p}
           m == FrameAt(s, i, p)
<1>1. ix \in Seq(EntryType) /\ IndexKnown(i, s.info[i])
  BY PlayerFields DEF Sound, Known
<1>2. IsIndexOf(file, ix, i) /\ Len(ix) \in Nat /\ DOMAIN ix = 1..Len(ix)
  BY <1>1 DEF IndexKnown
<1>3. PICK j \in DOMAIN ix : ix[j].pos = k /\ file[k].num = j
  BY <1>2 DEF IsIndexOf, At
<1> HIDE DEF ix
<1>4. K \in SUBSET (0..Len(ix)) /\ j \in K /\ K # {}
  BY <1>2, <1>3
<1>5. Max(K) \in K /\ \A y \in K : y <= Max(K)
  <2>1. 0 \in Int /\ Len(ix) \in Int
    BY <1>2
  <2> HIDE DEF K
  <2> QED BY <1>4, <2>1, MaxIs
<1>6. m = Max(K)
  BY DEF FrameAt, ix
<1> HIDE DEF K, m
<1>7. j <= m /\ m \in 0..Len(ix)
  BY <1>4, <1>5, <1>6
<1>8. m \in 1..Len(ix) /\ m # 0
  BY <1>2, <1>3, <1>7
<1>9. Entry(s, i, m).pos = s.info[i].index[m].pos
  BY <1>8 DEF Entry
<1> QED BY <1>3, <1>7, <1>8, <1>9 DEF m, ix

\* A fast seek leaves no node ahead of the destination or behind it.
LEMMA FastKept ==
  ASSUME FileOk, header # InvalidNodeID, NEW s \in Resting, Ok(s), Walk(s), Kept(s), NEW n, NEW f,
         Asked(s, n, f), CanSeekFast(s, n, f), NEW t \in Resting, FastRead(t, s, n, f),
         \A i \in Ids : SameAdded(t.info[i], s.info[i])
  PROVE  Kept(t)
<1> DEFINE dest == Destination(s, n, f)
<1>1. /\ n \in Ids /\ s \in PlayerType /\ Sound(s) /\ Sound(t) /\ s.waits = <<>>
  BY DEF Asked, Resting, States
<1>2. Locates(s, n, f) /\ \A i \in Others(s, n) : Seen(s, n, f, i)
  <2>1. \A i \in Others(s, n) : SameConfig(s, n, i, FrameAt(s, i, dest))
    BY DEF CanSeekFast, Destination
  <2> QED BY <2>1 DEF CanSeekFast, Locates, Seen, Destination
<1>3. At("data", n, dest) /\ PlaceFor(s, n, f, n) = dest
  BY <1>1, <1>2, PlaceForKnown
<1>4. dest \in Nat \ {0} /\ dest + 1 \in Nat \ {0} /\ dest \in 1..Len(file)
  BY <1>3, FramePlayable
<1>5. \A i \in Ids : i \in Others(s, n) <=> i # n /\ s.info[i].generator
  BY DEF Others
<1>6. t.pos = dest + 1
  BY DEF FastRead
<1>7. ASSUME NEW i \in Ids, NEW w, w = PlaceFor(s, n, f, i), w # Null
      PROVE  NodeKept(i, t.info[i], dest + 1)
  <2>1. /\ At("data", i, w) /\ w <= dest /\ s.info[i].valid
        /\ t.info[i].last = w /\ t.info[i].cur = file[w].num /\ t.info[i].valid = s.info[i].valid
    BY <1>7 DEF FastRead, SameAdded
  <2>2. w \in Nat \ {0} /\ w \in 1..Len(file) /\ file[w].num \in Nat
    BY <2>1, FramePlayable, FileFacts DEF At
  <2>3. ASSUME NEW k \in 1..Len(file), At("data", i, k), k <= dest PROVE file[k].num <= file[w].num
    <3>1. CASE i = n
      <4>1. w = dest
        BY <1>3, <1>7, <3>1
      <4>2. file[k].num \in Nat /\ k \in Nat
        BY FileFacts
      <4>3. k = w \/ k < w
        BY <1>4, <2>2, <2>3, <4>1, <4>2
      <4>4. k < w => file[k].num < file[w].num
        BY <2>1, <2>2, <2>3, FramesNumbered
      <4> QED BY <2>2, <4>2, <4>3, <4>4
    <3>2. CASE i # n
      <4>1. i \in Generators
        BY <2>1, CompleteFile
      <4>2. i \in Others(s, n)
        BY <1>1, <1>5, <2>1, <3>2, <4>1 DEF Sound, Known, AddedKnown
      <4> DEFINE m == FrameAt(s, i, dest)
      <4>3. s.info[i].index # <<>> /\ w = Entry(s, i, m).pos
        BY <1>2, <1>7, <3>2, <4>2 DEF PlaceFor
      <4>4. /\ m \in 1..Len(s.info[i].index) /\ Entry(s, i, m).pos = s.info[i].index[m].pos
            /\ file[k].num <= m
        BY <1>1, <1>4, <2>3, <4>3, LastUpTo
      <4> HIDE DEF m
      <4>5. file[w].num = m
        BY <1>1, <4>3, <4>4, EntryPlace
      <4> QED BY <4>4, <4>5
    <3> QED BY <3>1, <3>2
  <2>4. w < dest + 1
    BY <1>4, <2>1, <2>2
  <2>5. ASSUME NEW k \in 1..Len(file), k < dest + 1 PROVE k <= dest
    BY <1>4, <2>5, FileFacts
  <2> QED BY <2>1, <2>3, <2>4, <2>5 DEF NodeKept
<1>8. ASSUME NEW i \in Ids, PlaceFor(s, n, f, i) = Null
      PROVE  NodeKept(i, t.info[i], dest + 1)
  <2>1. t.info[i] = s.info[i] /\ DataKnown(i, s.info[i]) /\ AddedKnown(i, s.info[i])
    BY <1>1, <1>8 DEF FastRead, Sound, Known
  <2>2. i # n
    BY <1>3, <1>4, <1>8 DEF Null
  <2>3. NodeKept(i, s.info[i], s.pos)
    BY DEF Kept
  <2>4. CASE i \in Others(s, n)
    <3>1. s.info[i].index = <<>>
      <4> SUFFICES ASSUME s.info[i].index # <<>> PROVE FALSE
        OBVIOUS
      <4> DEFINE m == FrameAt(s, i, dest)
      <4>1. Entry(s, i, m).pos = Null
        BY <1>2, <1>8, <2>2, <2>4 DEF PlaceFor
      <4>2. m = 0 \/ m \in 1..Len(s.info[i].index)
        BY <1>1, FrameUpTo
      <4>3. CASE m = 0
        BY <4>1, <4>3 DEF Entry, Null
      <4>4. CASE m \in 1..Len(s.info[i].index)
        <5>1. At("data", i, s.info[i].index[m].pos)
          BY <1>1, <4>4, EntryPlace
        <5>2. m # 0
          BY <4>4
        <5> HIDE DEF m
        <5>3. s.info[i].index[m].pos = Null
          BY <4>1, <5>2 DEF Entry
        <5> QED BY <5>1, <5>3, FramePlayable DEF Null
      <4> QED BY <4>2, <4>3, <4>4
    <3>2. \A k \in 1..Len(file) : ~At("data", i, k)
      BY <1>1, <1>5, <2>4, <3>1 DEF Walk, Indexed
    <3> QED BY <1>1, <1>4, <2>1, <3>2, NoFrameKept
  <2>5. CASE i \notin Others(s, n)
    <3>1. ~s.info[i].generator
      BY <1>5, <2>2, <2>5
    <3>2. CASE ~s.info[i].valid
      BY <1>1, <1>4, <2>1, <2>3, <3>2, NoFrameKept DEF NodeKept
    <3>3. CASE s.info[i].valid
      <4>1. i \notin Generators
        BY <2>1, <3>1, <3>3 DEF AddedKnown
      <4>2. \A k \in 1..Len(file) : ~At("data", i, k)
        BY <4>1, CompleteFile
      <4> QED BY <1>1, <1>4, <2>1, <4>2, NoFrameKept
    <3> QED BY <3>2, <3>3
  <2> QED BY <2>4, <2>5
<1>9. \A i \in Ids : NodeKept(i, t.info[i], dest + 1)
  BY <1>7, <1>8
<1> QED BY <1>6, <1>9 DEF Kept

-----------------------------------------------------------------------------
(* Nodes that are undone *)

\* The last of the frames of node i up to place dest.
LastFrame(i, dest, k) ==
  /\ At("data", i, k) /\ k <= dest
  /\ \A j \in 1..Len(file) : At("data", i, j) /\ j <= dest => j <= k

\* Going back along an undo chain passes no frame up to the destination.
LEMMA ChainBack ==
  ASSUME FileOk, NEW i, NEW u \in Chain("data", i), NEW dest \in Nat,
         \A k \in 1..Len(file) : At("data", i, k) /\ k <= dest => k <= u.rec
  PROVE  LET v == UndoTo(u, dest)
         IN  /\ v \in Chain("data", i)
             /\ \A k \in 1..Len(file) : At("data", i, k) /\ k <= dest => k <= v.rec
<1> DEFINE Sts == {v \in Chain("data", i) :
                     \A k \in 1..Len(file) : At("data", i, k) /\ k <= dest => k <= v.rec}
<1>1. ASSUME NEW v \in Sts PROVE UndoOnce(v, dest) \in Sts
  <2> DEFINE w == file[v.rec].undo
  <2>0. v \in Chain("data", i)
    OBVIOUS
  <2>1. CASE v.rec <= dest \/ v.undo = 0
    BY <2>1 DEF UndoOnce
  <2>2. CASE ~(v.rec <= dest \/ v.undo = 0)
    <3>1. At("data", i, v.rec) /\ v.undo = w /\ v.rec \in 1..Len(file) /\ w # 0
      BY <2>0, <2>2 DEF Chain, At
    <3>2. IsLastRec(file, "data", i, v.rec, w) /\ Len(file) \in Nat /\ v.rec \in Nat
      BY <3>1, FileFacts DEF At
    <3>3. UndoOnce(v, dest) = [rec |-> w, undo |-> file[w].undo]
      BY <2>2, <3>1 DEF UndoOnce
    <3> HIDE DEF w, Sts
    <3>4. At("data", i, w) /\ w \in 1..Len(file)
      BY <3>1, <3>2 DEF IsLastRec, At
    <3>5. w \in Nat /\ file[w].undo \in Nat
      BY <3>2, <3>4, FileFacts
    <3>6. ASSUME NEW k \in 1..Len(file), At("data", i, k), k <= dest PROVE k <= w
      <4>1. k \in 1..(v.rec - 1)
        BY <2>2, <3>2, <3>6
      <4> QED BY <3>2, <3>6, <4>1 DEF IsLastRec, At
    <3>7. [rec |-> w, undo |-> file[w].undo] \in Sts
      BY <3>4, <3>5, <3>6 DEF Chain, UndoType, Sts
    <3> QED BY <3>3, <3>7
  <2> QED BY <2>1, <2>2
<1>2. u \in Sts
  OBVIOUS
<1> HIDE DEF Sts
<1>3. UndoTo(u, dest) \in Sts
  BY <1>1, <1>2, ChainFollowed
<1> QED BY <1>3 DEF Sts

\* A node of which a frame is undone has its last frame up to the destination, or none.
LEMMA DataBack ==
  ASSUME FileOk, NEW s \in Resting, NEW i \in Ids, s.info[i].data # NoUndo, NEW dest \in Nat,
         \A k \in 1..Len(file) : At("data", i, k) /\ k <= dest => k <= s.info[i].last,
         NEW t, t = UndoData(s, i, dest), Ok(t)
  PROVE  \/ t.info[i].last = 0 /\ t.info[i].cur = s.info[i].cur
         \/ LastFrame(i, dest, t.info[i].last) /\ t.info[i].cur = file[t.info[i].last].num
<1> DEFINE u == UndoTo(s.info[i].data, dest)
           k == u.rec
<1>1. DataKnown(i, s.info[i]) /\ s.info[i].data \in UndoType /\ s \in PlayerType
  BY PlayerFields DEF Resting, States, Sound, Known
<1>2. u \in Chain("data", i) /\ \A j \in 1..Len(file) : At("data", i, j) /\ j <= dest => j <= u.rec
  <2>1. s.info[i].data \in Chain("data", i)
    BY <1>1 DEF DataKnown, Chain
  <2>2. \A j \in 1..Len(file) : At("data", i, j) /\ j <= dest => j <= s.info[i].data.rec
    BY <1>1 DEF DataKnown
  <2> QED BY <2>1, <2>2, ChainBack
<1>3. t = IF u.rec <= dest THEN HandleNewData(s, file[u.rec], u.rec, FALSE) ELSE Emptied(s, i)
  BY DEF UndoData, Emptied
<1>4. At("data", i, k) /\ \A j \in 1..Len(file) : At("data", i, j) /\ j <= dest => j <= k
  BY <1>2 DEF Chain
<1> HIDE DEF u
<1>5. CASE k <= dest
  <2>1. t = HandleNewData(s, file[k], k, FALSE)
    BY <1>3, <1>5
  <2> HIDE DEF k
  <2>2. file[k].num <= s.info[i].frames
    <3>1. file[k].node = i /\ file[k].num \in Nat /\ s.info[i].frames \in Nat
      BY <1>1, <1>4, FileFacts, PlayerFields DEF At
    <3>2. ~(file[k].num > s.info[i].frames)
      <4> SUFFICES ASSUME file[k].num > s.info[i].frames PROVE FALSE
        OBVIOUS
      <4>1. t = Fail(s)
        BY <2>1, <3>1 DEF HandleNewData
      <4> QED BY <1>1, <4>1, Failed DEF Ok
    <3> QED BY <3>1, <3>2
  <2> DEFINE h == HandleNewData(s, file[k], k, FALSE)
  <2>3. /\ h \in Resting /\ Undone(h, s, i)
        /\ file[k].num <= s.info[i].frames =>
             h.status = s.status /\ h.info[i].last = k /\ h.info[i].cur = file[k].num
    BY <1>4, FrameHandled
  <2> HIDE DEF h
  <2>4. t.info[i].last = k /\ t.info[i].cur = file[k].num
    BY <2>1, <2>2, <2>3 DEF h
  <2> QED BY <1>4, <1>5, <2>4 DEF LastFrame
<1>6. CASE ~(k <= dest)
  <2>1. t = Emptied(s, i)
    BY <1>3, <1>6
  <2> DEFINE h == Emptied(s, i)
  <2>2. h \in Resting /\ Undone(h, s, i) /\ h.info[i].last = 0 /\ h.info[i].cur = s.info[i].cur
    BY EmptiedRests
  <2> HIDE DEF h
  <2> QED BY <2>1, <2>2 DEF h
<1> QED BY <1>5, <1>6

\* What UndoNode does to the frames of node i, and of no other.
LEMMA FramesBack ==
  ASSUME FileOk, NEW s \in Resting, NEW n \in Ids, NEW i \in Ids, NEW dest \in Nat, NEW start,
         i \in Others(s, n) /\ InBetween(s.info[i].data, dest, start) =>
           \A k \in 1..Len(file) : At("data", i, k) /\ k <= dest => k <= s.info[i].last,
         NEW t, t = UndoNode(s, n, i, dest, start), Ok(t)
  PROVE  /\ \A j \in Ids \ {i} : SameData(t.info[j], s.info[j])
         /\ \/ /\ ~(i \in Others(s, n) /\ InBetween(s.info[i].data, dest, start))
               /\ SameData(t.info[i], s.info[i])
            \/ /\ i \in Others(s, n) /\ InBetween(s.info[i].data, dest, start)
               /\ \/ t.info[i].last = 0 /\ t.info[i].cur = s.info[i].cur
                  \/ LastFrame(i, dest, t.info[i].last) /\ t.info[i].cur = file[t.info[i].last].num
<1> DEFINE p == IF InBetween(s.info[i].prop, dest, start) THEN UndoProp(s, i, dest) ELSE s
<1>1. t = IF i \in Others(s, n) /\ InBetween(p.info[i].data, dest, start)
          THEN UndoData(p, i, dest) ELSE p
  BY DEF UndoNode
<1>2. /\ p \in Resting /\ SameData(p.info[i], s.info[i])
      /\ \A j \in Ids \ {i} : SameData(p.info[j], s.info[j])
  <2>1. CASE InBetween(s.info[i].prop, dest, start)
    <3>1. s.info[i].prop # NoUndo
      BY <2>1 DEF InBetween, NoUndo
    <3>2. LET q == UndoProp(s, i, dest)
          IN  q \in Resting /\ Undone(q, s, i) /\ SameData(q.info[i], s.info[i])
      BY <3>1, PropUndone
    <3>3. p = UndoProp(s, i, dest)
      BY <2>1
    <3> HIDE DEF p
    <3>4. p \in Resting /\ Undone(p, s, i) /\ SameData(p.info[i], s.info[i])
      BY <3>2, <3>3
    <3> QED BY <3>4 DEF Undone, SameBut, SameNode, SameData
  <2>2. CASE ~InBetween(s.info[i].prop, dest, start)
    <3>1. p = s
      BY <2>2
    <3> HIDE DEF p
    <3> QED BY <3>1 DEF SameData
  <2> QED BY <2>1, <2>2
<1> HIDE DEF p
<1>3. p.info[i].data = s.info[i].data /\ p.info[i].last = s.info[i].last /\ p.info[i].cur = s.info[i].cur
  BY <1>2 DEF SameData
<1>4. CASE i \in Others(s, n) /\ InBetween(s.info[i].data, dest, start)
  <2>1. t = UndoData(p, i, dest)
    BY <1>1, <1>3, <1>4
  <2>2. p.info[i].data # NoUndo
    BY <1>3, <1>4 DEF InBetween, NoUndo
  <2>3. \/ t.info[i].last = 0 /\ t.info[i].cur = p.info[i].cur
        \/ LastFrame(i, dest, t.info[i].last) /\ t.info[i].cur = file[t.info[i].last].num
    <3>1. \A k \in 1..Len(file) : At("data", i, k) /\ k <= dest => k <= p.info[i].last
      BY <1>3, <1>4
    <3> QED BY <1>2, <2>1, <2>2, <3>1, DataBack
  <2> DEFINE h == UndoData(p, i, dest)
  <2>4. h \in Resting /\ Undone(h, p, i)
    BY <1>2, <2>2, DataUndone
  <2> HIDE DEF h
  <2>5. \A j \in Ids \ {i} : t.info[j] = p.info[j]
    BY <2>1, <2>4 DEF h, Undone, SameBut, SameNode
  <2> QED BY <1>2, <1>3, <1>4, <2>3, <2>5
<1>5. CASE ~(i \in Others(s, n) /\ InBetween(s.info[i].data, dest, start))
  <2>1. t = p
    BY <1>1, <1>3, <1>5
  <2> QED BY <1>2, <1>5, <2>1
<1> QED BY <1>4, <1>5

\* How far the undoing came: the nodes up to m are as they were at the destination.
BackTo(u, s, n, dest, m) ==
  /\ u.info[n].last = dest /\ u.info[n].cur = file[dest].num
  /\ \A i \in Ids \ {n} : IF i <= m THEN NodeKept(i, u.info[i], dest + 1)
                          ELSE SameData(u.info[i], s.info[i])

\* One more node is undone.
LEMMA BackMore ==
  ASSUME FileOk, header # InvalidNodeID, NEW s \in Resting, Kept(s), NEW n \in Ids,
         NEW dest \in Nat \ {0}, dest < s.pos, NEW i \in Ids,
         NEW u \in BackStates(s, n, dest), Ok(u) => BackTo(u, s, n, dest, i - 1),
         NEW v \in BackStates(s, n, dest), v = UndoNode(u, n, i, dest, s.pos), Ok(v)
  PROVE  BackTo(v, s, n, dest, i)
<1>1. /\ u \in Resting /\ s \in PlayerType /\ Sound(s) /\ s.pos \in Nat /\ Sound(v)
      /\ AllUndone(u, s) /\ AllUndone(v, s) /\ u.info[n].last = dest /\ v.info[n].last = dest
  BY PlayerFields DEF BackStates, Resting, States
<1>2. Ok(u) /\ BackTo(u, s, n, dest, i - 1)
  <2> DEFINE h == UndoNode(u, n, i, dest, s.pos)
  <2>1. h \in Resting /\ AllUndone(h, u) /\ h.info[n].last = u.info[n].last
    BY <1>1, NodeUndone
  <2> HIDE DEF h
  <2>2. v = h
    BY DEF h
  <2>3. v.status \in {u.status, "corrupt"}
    BY <2>1, <2>2 DEF AllUndone
  <2> QED BY <2>3 DEF Ok
<1>3. \A j \in Ids : /\ u.info[j].valid = s.info[j].valid /\ v.info[j].valid = s.info[j].valid
                     /\ u.info[j].generator = s.info[j].generator
  BY <1>1 DEF AllUndone, SameAdded
<1>4. \A j \in Ids : j \in Nat /\ ((j <= i <=> j <= i - 1 \/ j = i) /\ ~(i <= i - 1))
  BY DEF Ids
<1>5. i # n => SameData(u.info[i], s.info[i])
  BY <1>2, <1>4 DEF BackTo
<1>6. i \in Others(u, n) <=> i # n /\ s.info[i].generator
  BY <1>3 DEF Others
<1>7. NodeKept(i, s.info[i], s.pos) /\ DataKnown(i, s.info[i]) /\ AddedKnown(i, s.info[i])
  BY <1>1 DEF Kept, Sound, Known
<1>8. ASSUME s.info[i].valid, NEW k \in 1..Len(file), At("data", i, k), k <= dest
      PROVE  file[k].num <= s.info[i].cur /\ k < s.pos
  <2>1. k < s.pos
    BY <1>1, <1>8, FileFacts
  <2> QED BY <1>7, <1>8, <2>1 DEF NodeKept
<1>9. ASSUME i \in Others(u, n), InBetween(u.info[i].data, dest, s.pos)
      PROVE  \A k \in 1..Len(file) : At("data", i, k) /\ k <= dest => k <= u.info[i].last
  <2>1. i # n /\ s.info[i].valid /\ SameData(u.info[i], s.info[i])
    BY <1>5, <1>6, <1>7, <1>9 DEF AddedKnown
  <2>2. s.info[i].data # NoUndo
    BY <1>9, <2>1 DEF InBetween, NoUndo, SameData
  <2> DEFINE l == s.info[i].last
  <2>3. At("data", i, l) /\ s.info[i].cur = file[l].num /\ u.info[i].last = l
    BY <1>7, <2>1, <2>2 DEF DataKnown, SameData
  <2> HIDE DEF l
  <2>4. ASSUME NEW k \in 1..Len(file), At("data", i, k), k <= dest PROVE k <= l
    <3>1. file[k].num <= file[l].num /\ file[k].num \in Nat /\ file[l].num \in Nat
      BY <1>8, <2>1, <2>3, <2>4, FileFacts DEF At
    <3>2. ~(l < k)
      <4>1. l \in 1..Len(file)
        BY <2>3 DEF At
      <4>2. l < k => file[l].num < file[k].num
        BY <2>3, <2>4, <4>1, FramesNumbered
      <4> QED BY <3>1, <4>2
    <3> QED BY <2>3, <3>2, FileFacts DEF At
  <2> QED BY <2>3, <2>4
<1>10. /\ \A j \in Ids \ {i} : SameData(v.info[j], u.info[j])
       /\ \/ /\ ~(i \in Others(u, n) /\ InBetween(u.info[i].data, dest, s.pos))
             /\ SameData(v.info[i], u.info[i])
          \/ /\ i \in Others(u, n) /\ InBetween(u.info[i].data, dest, s.pos)
             /\ \/ v.info[i].last = 0 /\ v.info[i].cur = u.info[i].cur
                \/ LastFrame(i, dest, v.info[i].last) /\ v.info[i].cur = file[v.info[i].last].num
  BY <1>1, <1>9, FramesBack
<1>11. v.info[n].cur = file[dest].num
  <2>1. n \notin Others(u, n)
    BY DEF Others
  <2>2. SameData(v.info[n], u.info[n])
    BY <1>10, <2>1
  <2> QED BY <1>2, <2>2 DEF SameData, BackTo
<1>12. ASSUME NEW j \in Ids \ {n}, j # i
       PROVE  IF j <= i THEN NodeKept(j, v.info[j], dest + 1) ELSE SameData(v.info[j], s.info[j])
  <2>1. SameData(v.info[j], u.info[j])
    BY <1>10, <1>12
  <2>2. IF j <= i - 1 THEN NodeKept(j, u.info[j], dest + 1) ELSE SameData(u.info[j], s.info[j])
    BY <1>2 DEF BackTo
  <2>3. NodeKept(j, u.info[j], dest + 1) => NodeKept(j, v.info[j], dest + 1)
    BY <1>3, <2>1 DEF NodeKept, SameData
  <2>4. SameData(u.info[j], s.info[j]) => SameData(v.info[j], s.info[j])
    BY <2>1 DEF SameData
  <2> QED BY <1>4, <1>12, <2>2, <2>3, <2>4
<1>13. ASSUME NEW k \in 1..Len(file), k < dest + 1 PROVE k <= dest
  BY <1>13, FileFacts
<1>14. ASSUME i # n PROVE NodeKept(i, v.info[i], dest + 1)
  <2>0. SameData(u.info[i], s.info[i]) /\ v.info[i].valid = s.info[i].valid /\ DataKnown(i, v.info[i])
        /\ dest + 1 \in Nat \ {0}
    BY <1>1, <1>3, <1>5, <1>14 DEF Sound, Known
  <2>1. CASE ~s.info[i].generator
    <3>1. SameData(v.info[i], s.info[i])
      BY <1>6, <1>10, <2>0, <2>1 DEF SameData
    <3>2. CASE ~s.info[i].valid
      BY <1>1, <1>7, <2>0, <3>1, <3>2, NoFrameKept DEF NodeKept, SameData
    <3>3. CASE s.info[i].valid
      <4>1. i \notin Generators
        BY <1>7, <2>1, <3>3 DEF AddedKnown
      <4>2. \A k \in 1..Len(file) : ~At("data", i, k)
        BY <4>1, CompleteFile
      <4> QED BY <1>1, <2>0, <4>2, NoFrameKept
    <3> QED BY <3>2, <3>3
  <2>2. CASE s.info[i].generator /\ SameData(v.info[i], u.info[i])
             /\ ~InBetween(u.info[i].data, dest, s.pos)
    <3>1. /\ v.info[i].last = s.info[i].last /\ v.info[i].cur = s.info[i].cur
          /\ u.info[i].data.rec = s.info[i].last
      BY <1>7, <2>0, <2>2 DEF SameData, DataKnown
    <3>2. s.info[i].last < s.pos /\ s.info[i].last \in Nat
      BY <1>1, <1>7, PlayerFields DEF NodeKept
    <3>3. s.info[i].last < dest + 1
      BY <1>1, <2>2, <3>1, <3>2 DEF InBetween
    <3>4. s.info[i].valid
      BY <1>7, <2>2 DEF AddedKnown
    <3> QED BY <1>8, <1>13, <2>0, <3>1, <3>3, <3>4 DEF NodeKept
  <2>3. CASE s.info[i].generator /\ v.info[i].last = 0 /\ v.info[i].cur = u.info[i].cur
    <3>1. s.info[i].valid /\ v.info[i].cur = s.info[i].cur
      BY <1>7, <2>0, <2>3 DEF AddedKnown, SameData
    <3> QED BY <1>8, <1>13, <2>0, <2>3, <3>1 DEF NodeKept
  <2>4. CASE /\ s.info[i].generator
             /\ LastFrame(i, dest, v.info[i].last) /\ v.info[i].cur = file[v.info[i].last].num
    <3> DEFINE l == v.info[i].last
    <3>1. /\ At("data", i, l) /\ l <= dest /\ l \in 1..Len(file) /\ v.info[i].cur = file[l].num
          /\ \A j \in 1..Len(file) : At("data", i, j) /\ j <= dest => j <= l
      BY <2>4 DEF LastFrame, At
    <3> HIDE DEF l
    <3>2. ASSUME NEW k \in 1..Len(file), At("data", i, k), k < dest + 1 PROVE file[k].num <= file[l].num
      <4>1. k <= l /\ k \in Nat /\ l \in Nat /\ file[k].num \in Nat /\ file[l].num \in Nat
        BY <1>13, <3>1, <3>2, FileFacts
      <4>2. k < l => file[k].num < file[l].num
        BY <3>1, <3>2, FramesNumbered
      <4>3. k = l \/ k < l
        BY <4>1
      <4> QED BY <4>1, <4>2, <4>3
    <3>3. l < dest + 1
      BY <3>1, FileFacts
    <3>4. s.info[i].valid
      BY <1>7, <2>4 DEF AddedKnown
    <3> QED BY <2>0, <3>1, <3>2, <3>3, <3>4 DEF NodeKept, l
  <2> QED BY <1>6, <1>10, <1>14, <2>1, <2>2, <2>3, <2>4
<1>15. ASSUME NEW j \in Ids \ {n}
       PROVE  IF j <= i THEN NodeKept(j, v.info[j], dest + 1) ELSE SameData(v.info[j], s.info[j])
  <2>1. CASE j = i
    <3>1. i <= i
      BY <1>4
    <3> QED BY <1>14, <2>1, <3>1
  <2> QED BY <1>12, <2>1
<1> QED BY <1>1, <1>11, <1>15 DEF BackTo

\* Following the undo places of no frame finds none.
LEMMA NoFrameBefore ==
  ASSUME FileOk, NEW f \in Nat, NEW p, p = 0
  PROVE  FindFrame(p, f) = 0
<1> DEFINE Sts == {0}
<1>1. p \in Sts /\ \A q \in Sts : FrameBefore(q, f) \in Sts
  BY DEF FrameBefore
<1>2. PICK h \in [0..Len(file) -> Sts] :
        /\ h[0] = p /\ \A k \in 1..Len(file) : h[k] = FrameBefore(h[k - 1], f)
        /\ FindFrame(p, f) = h[Len(file)]
  <2> HIDE DEF Sts
  <2>1. p \in Sts /\ \A q \in Sts : FrameBefore(q, f) \in Sts
    BY <1>1
  <2>2. FrameChain(Sts, p, f)
    BY <2>1, FramesFollowed
  <2> QED BY <2>2 DEF FrameChain
<1>3. Len(file) \in 0..Len(file)
  BY FileFacts
<1> QED BY <1>2, <1>3

\* The frame to go back to is handled.
LEMMA BackStart ==
  ASSUME FileOk, NEW s \in Resting, NEW n \in Ids, NEW dest, At("data", n, dest),
         file[dest].num <= s.info[n].frames,
         NEW u, u = HandleNewData(s, file[dest], dest, FALSE)
  PROVE  BackTo(u, s, n, dest, 0)
<1> DEFINE a == HandleNewData(s, file[dest], dest, FALSE)
<1>1. /\ a \in Resting /\ Undone(a, s, n)
      /\ file[dest].num <= s.info[n].frames =>
           a.status = s.status /\ a.info[n].last = dest /\ a.info[n].cur = file[dest].num
  BY FrameHandled
<1> HIDE DEF a
<1>2. \A i \in Ids \ {n} : ~(i <= 0) /\ SameData(a.info[i], s.info[i])
  BY <1>1 DEF Undone, SameBut, SameNode, SameData, Ids
<1>3. BackTo(a, s, n, dest, 0)
  BY <1>1, <1>2 DEF BackTo
<1> QED BY <1>3 DEF a

\* After a seek back no node is ahead of the destination or behind it.
LEMMA BackKept ==
  ASSUME FileOk, header # InvalidNodeID, NEW s \in Resting, Ok(s), Kept(s), NEW n, NEW f, Asked(s, n, f),
         f < s.info[n].cur, NEW t, t = SeekBack(s, n, f), Ok(t)
  PROVE  Kept(t)
<1> DEFINE dest == FindFrame(s.info[n].data.undo, f)
<1>1. /\ n \in Ids /\ s.info[n].valid /\ s \in PlayerType /\ Sound(s) /\ DataKnown(n, s.info[n])
      /\ s.pos \in Nat /\ s.info[n].cur \in Nat /\ f \in Nat
  BY PlayerFields DEF Asked, Resting, States, Sound, Known
<1>2. dest # 0
  <2>1. dest = 0 => SeekBack(s, n, f).status = "corrupt"
    BY BackFails
  <2> QED BY <2>1 DEF Ok
<1>3. At("data", n, dest) /\ file[dest].num = f /\ f <= s.info[n].frames
  BY <1>2, BackFound
<1>4. dest \in Nat \ {0} /\ dest \in 1..Len(file)
  BY <1>3, FramePlayable
<1>5. dest < s.pos
  <2>1. s.info[n].data # NoUndo
    BY <1>1, <1>2, NoFrameBefore DEF NoUndo
  <2> DEFINE l == s.info[n].last
  <2>2. At("data", n, l) /\ s.info[n].cur = file[l].num
    BY <1>1, <2>1 DEF DataKnown
  <2>3. l < s.pos
    BY <1>1 DEF Kept, NodeKept
  <2> HIDE DEF dest, l
  <2>4. dest < l /\ l \in Nat
    <3>1. l \in 1..Len(file)
      BY <2>2 DEF At
    <3> QED BY <1>3, <1>4, <2>2, <3>1, FramesNumbered, FramePlayable
  <2> QED BY <1>1, <1>4, <2>3, <2>4
<1> DEFINE Sts == BackStates(s, n, dest)
<1>6. PICK h \in [0..MaxNodes -> Sts] :
        /\ UndoneInTurn(h, s, n, dest)
        /\ SeekBack(s, n, f) = ProcessEachNodeLastData(h[MaxNodes], n)
  <2>1. UndoingStays(BackStates(s, n, dest), s, n, dest)
    <3> HIDE DEF dest
    <3> QED BY <1>1, <1>3, BackStays
  <2>2. GoesBack(BackStates(s, n, dest), s, n, f, dest)
    BY <1>2, <2>1, NodesUndone
  <2> QED BY <2>2 DEF GoesBack
<1> HIDE DEF dest
<1>7. MaxNodes \in Nat
  BY RecorderAssumption
<1> DEFINE S == {m \in Nat : m <= MaxNodes => (Ok(h[m]) => BackTo(h[m], s, n, dest, m))}
<1>8. 0 \in S
  <2>1. h[0] = HandleNewData(s, file[dest], dest, FALSE)
    BY <1>6 DEF UndoneInTurn
  <2>2. file[dest].num <= s.info[n].frames
    BY <1>3
  <2> DEFINE a == h[0]
  <2>3. a = HandleNewData(s, file[dest], dest, FALSE)
    BY <2>1
  <2> HIDE DEF a
  <2>4. BackTo(a, s, n, dest, 0)
    BY <1>1, <1>3, <2>2, <2>3, BackStart
  <2> QED BY <2>4 DEF a
<1>9. ASSUME NEW m \in Nat, m \in S PROVE m + 1 \in S
  <2> SUFFICES ASSUME m + 1 <= MaxNodes, Ok(h[m + 1]) PROVE BackTo(h[m + 1], s, n, dest, m + 1)
    OBVIOUS
  <2>1. m \in 0..MaxNodes /\ m + 1 \in 1..MaxNodes /\ m + 1 \in 0..MaxNodes /\ (m + 1) - 1 = m /\ m + 1 \in Ids
    BY <1>7 DEF Ids
  <2> DEFINE i == m + 1
             u == h[m]
             v == h[m + 1]
  <2>2. v = UndoNode(u, n, i, dest, s.pos)
    BY <1>6, <2>1 DEF UndoneInTurn
  <2>3. u \in Sts /\ v \in Sts
    BY <1>6, <2>1
  <2>4. Ok(u) => BackTo(u, s, n, dest, i - 1)
    BY <1>7, <1>9, <2>1
  <2>5. i \in Ids /\ Ok(v)
    BY <2>1
  <2> HIDE DEF i, u, v
  <2>6. BackTo(v, s, n, dest, i)
    BY <1>1, <1>4, <1>5, <2>2, <2>3, <2>4, <2>5, BackMore
  <2> QED BY <2>6 DEF i, v
<1>10. \A m \in Nat : m \in S
  <2> HIDE DEF S
  <2> QED BY <1>8, <1>9, NatInductionSet
<1> DEFINE e == h[MaxNodes]
<1>11. e \in Sts /\ (Ok(e) => BackTo(e, s, n, dest, MaxNodes))
  <2>1. MaxNodes \in 0..MaxNodes /\ MaxNodes <= MaxNodes
    BY <1>7
  <2> QED BY <1>6, <1>7, <1>10, <2>1
<1>12. e \in Resting /\ AllUndone(e, s) /\ e.info[n].last = dest
  BY <1>11 DEF BackStates
<1>13. t = ProcessEachNodeLastData(e, n)
  BY <1>6
<1> HIDE DEF e
<1> DEFINE u == ProcessEachNodeLastData(e, n)
<1>14. /\ u \in Resting
       /\ Ok(u) => LastsKept(u, e)
       /\ u.status = "wild" => e.status = "wild"
       /\ Ok(u) /\ e.info[n].last # 0 =>
            /\ At("data", n, e.info[n].last)
            /\ u.shown[n].data = e.info[n].last /\ u.pos = e.info[n].last + 1
  BY <1>1, <1>12, AllShown
<1> HIDE DEF u
<1>15. t = u
  BY <1>13 DEF u
<1>16. LastsKept(t, e) /\ t.pos = dest + 1 /\ Ok(e) /\ BackTo(e, s, n, dest, MaxNodes)
  BY <1>4, <1>11, <1>12, <1>14, <1>15 DEF LastsKept
<1>17. ASSUME NEW i \in Ids PROVE NodeKept(i, t.info[i], dest + 1)
  <2>1. SameData(t.info[i], e.info[i]) /\ t.info[i].valid = e.info[i].valid /\ t.info[i].valid = s.info[i].valid
    BY <1>12, <1>16 DEF LastsKept, SameAdded, AllUndone
  <2>2. CASE i # n
    <3>1. NodeKept(i, e.info[i], dest + 1)
      BY <1>7, <1>16, <2>2 DEF BackTo, Ids
    <3> QED BY <2>1, <3>1 DEF NodeKept, SameData
  <2>3. CASE i = n
    <3>1. t.info[n].last = dest /\ t.info[n].cur = file[dest].num /\ t.info[n].valid
      BY <1>1, <1>16, <2>1, <2>3 DEF BackTo, SameData
    <3>2. ASSUME NEW k \in 1..Len(file), At("data", n, k), k < dest + 1 PROVE file[k].num <= file[dest].num
      <4>1. file[k].num \in Nat /\ file[dest].num \in Nat /\ k \in Nat
        BY <1>4, FileFacts
      <4>2. k < dest => file[k].num < file[dest].num
        BY <1>3, <1>4, <3>2, FramesNumbered
      <4>3. k = dest \/ k < dest
        BY <1>4, <3>2, <4>1
      <4> QED BY <4>1, <4>2, <4>3
    <3> QED BY <1>4, <2>3, <3>1, <3>2 DEF NodeKept
  <2> QED BY <2>2, <2>3
<1> QED BY <1>16, <1>17 DEF Kept
-----------------------------------------------------------------------------
(* The seek forward *)

\* The frame was handled last.
Reached(s, n, f) ==
  s.info[n].cur = f /\ s.info[n].last # 0 /\ s.pos = s.info[n].last + 1

\* The outermost loop looks for frame f of node n, which is not found before.
Sending(s, n, f) ==
  \/ s.waits = <<>> /\ Reached(s, n, f)
  \/ /\ Len(s.waits) \in Nat \ {0}
     /\ s.waits[Len(s.waits)] = [until |-> "frame", node |-> n, num |-> f]
     /\ \A j \in 1..(Len(s.waits) - 1) : s.waits[j].until # "frame"
     /\ s.info[n].cur < f \/ (Len(s.waits) = 1 /\ Reached(s, n, f))

\* Leaving a loop keeps it.
LEMMA SendingLeaves ==
  ASSUME NEW s \in States, NEW n \in Ids, NEW f \in Nat, NEW t, LoopLeft(t, s), Sending(s, n, f)
  PROVE  Sending(t, n, f)
<1> DEFINE L == Len(s.waits)
           M == Len(t.waits)
<1>1. /\ s.waits # <<>> /\ Over(s, s.waits[1]) /\ t.pos = s.pos /\ t \in PlayerType
      /\ L \in Nat \ {0} /\ M = L - 1 /\ \A j \in 1..(L - 1) : t.waits[j] = s.waits[j + 1]
  BY DEF LoopLeft
<1>2. SameData(t.info[n], s.info[n])
  BY DEF LoopLeft, SameData
<1>3. /\ s.waits[L] = [until |-> "frame", node |-> n, num |-> f]
      /\ \A j \in 1..(L - 1) : s.waits[j].until # "frame"
      /\ s.info[n].cur < f \/ (L = 1 /\ Reached(s, n, f))
  BY <1>1 DEF Sending
<1>4. s.info[n].cur \in Nat
  BY PlayerFields DEF States
<1> HIDE DEF L, M
<1>5. CASE L = 1
  <2>0. s.waits[1].until = "frame" /\ s.waits[1].node = n /\ s.waits[1].num = f
    BY <1>3, <1>5
  <2>1. s.info[n].cur >= f
    BY <1>1, <2>0 DEF Over
  <2>2. Reached(s, n, f)
    BY <1>3, <1>4, <2>1
  <2>3. t.waits = <<>>
    <3>1. M = 0
      BY <1>1, <1>5
    <3> QED BY <1>1, <3>1, WaitsLen DEF M
  <2> QED BY <1>1, <1>2, <2>2, <2>3 DEF Sending, Reached, SameData
<1>6. CASE L # 1
  <2>1. M \in Nat \ {0} /\ M \in 1..(L - 1) /\ M + 1 = L
    BY <1>1, <1>6
  <2>2. t.waits[M] = s.waits[L]
    BY <1>1, <2>1
  <2>3. ASSUME NEW j \in 1..(M - 1) PROVE t.waits[j].until # "frame"
    <3>1. j \in 1..(L - 1) /\ j + 1 \in 1..(L - 1)
      BY <1>1, <2>1
    <3> QED BY <1>1, <1>3, <3>1
  <2>4. t.info[n].cur < f
    BY <1>2, <1>3, <1>6 DEF SameData
  <2> QED BY <1>3, <2>1, <2>2, <2>3, <2>4 DEF Sending, M
<1> QED BY <1>5, <1>6

\* A frame is not handled while a loop waits for a node to be ready or for the first frame.
LEMMA NotAwaited ==
  ASSUME FileOk, header # InvalidNodeID, NEW s \in States, NEW t, Played(t, s), NotOver(s), Waiting(s),
         s.waits # <<>>, s.waits[1].until # "frame"
  PROVE  file[s.pos].type # "data"
<1>1. s \in PlayerType /\ 1 \in 1..Len(s.waits) /\ s.waits \in Seq(WaitType)
  <2>1. s \in PlayerType /\ s.waits \in Seq(WaitType)
    BY PlayerFields DEF States
  <2>2. Len(s.waits) # 0 /\ Len(s.waits) \in Nat
    BY <2>1, EmptySeq
  <2> QED BY <2>1, <2>2
<1>2. s.waits[1] \in WaitType
  BY <1>1
<1>3. s.waits[1].until \in {"ready", "first"}
  BY <1>2 DEF WaitType
<1>4. CASE s.waits[1].until = "ready"
  <2>1. PICK m \in Ids : PropPassed(t, s, m) \/ (ReadyPassed(t, s, m) /\ m = s.waits[1].node)
    BY <1>4, ReadyNext
  <2> QED BY <2>1 DEF PropPassed, ReadyPassed, PassedOf, Passed
<1>5. CASE s.waits[1].until = "first"
  <2>1. ~s.begun
    BY <1>5 DEF NotOver, Over
  <2>2. \A j \in 1..(s.pos - 1) : file[j].type # "begin"
    BY <2>1 DEF Waiting
  <2>3. s.pos \in 1..Len(file)
    BY PlayedPlace
  <2> QED BY <2>2, <2>3 DEF FileOk, FileShape, FramesBegin
<1> QED BY <1>3, <1>4, <1>5

\* Handling a record keeps it.
LEMMA SendingPlays ==
  ASSUME FileOk, header # InvalidNodeID, NEW s \in States, NEW t, Played(t, s), NotOver(s), Waiting(s),
         Kept(s), s.waits # <<>>, NEW n \in Ids, NEW f \in Nat \ {0}, Sending(s, n, f)
  PROVE  Sending(t, n, f)
<1> DEFINE L == Len(s.waits)
           p == s.pos
           w == [until |-> "frame", node |-> n, num |-> f]
<1>1. /\ L \in Nat \ {0} /\ s.waits[L] = w
      /\ \A j \in 1..(L - 1) : s.waits[j].until # "frame"
  BY DEF Sending
<1>2. s.info[n].cur < f
  <2>1. s.info[n].cur \in Nat
    BY PlayerFields DEF States
  <2>2. ASSUME L = 1, Reached(s, n, f) PROVE FALSE
    <3>1. s.waits[1] = w /\ s.info[n].cur = f
      BY <1>1, <2>2 DEF Reached
    <3> QED BY <3>1 DEF NotOver, Over
  <2> QED BY <2>2 DEF Sending
<1>3. p \in 1..Len(file) /\ p \in Nat
  BY PlayedPlace
<1> HIDE DEF L, w
<1>4. ASSUME t.waits = s.waits, t.info[n].cur < f PROVE Sending(t, n, f)
  BY <1>1, <1>4 DEF Sending, L, w
<1>5. ASSUME Len(t.waits) = L + 1, t.waits[1].until # "frame",
             \A j \in 1..L : t.waits[j + 1] = s.waits[j], t.info[n].cur < f
      PROVE  Sending(t, n, f)
  <2> DEFINE M == Len(t.waits)
  <2>1. M = L + 1 /\ M \in Nat \ {0} /\ L \in 1..L /\ M - 1 = L
    BY <1>1, <1>5
  <2>2. t.waits[M] = w
    BY <1>1, <1>5, <2>1
  <2>3. ASSUME NEW j \in 1..(M - 1) PROVE t.waits[j].until # "frame"
    <3>1. j = 1 \/ (j - 1 \in 1..(L - 1) /\ j - 1 \in 1..L /\ (j - 1) + 1 = j)
      BY <1>1, <2>1
    <3>2. CASE j = 1
      BY <1>5, <3>2
    <3>3. CASE j - 1 \in 1..(L - 1) /\ j - 1 \in 1..L /\ (j - 1) + 1 = j
      <4>1. t.waits[j] = s.waits[j - 1]
        BY <1>5, <3>3
      <4> QED BY <1>1, <3>3, <4>1
    <3> QED BY <3>1, <3>2, <3>3
  <2> HIDE DEF M
  <2> QED BY <1>5, <2>1, <2>2, <2>3 DEF Sending, M, w
<1>6. CASE TablePassed(t, s) \/ BeginPassed(t, s)
  BY <1>2, <1>4, <1>6 DEF TablePassed, BeginPassed, SameNodes
<1>7. CASE GoneBack(t, s)
  <2>1. t.info[n].cur = 0
    BY <1>7 DEF GoneBack, Blank
  <2> QED BY <1>5, <1>7, <2>1 DEF GoneBack, L
<1>8. ASSUME NEW m \in Ids, PropPassed(t, s, m) \/ ReadyPassed(t, s, m) PROVE Sending(t, n, f)
  <2>1. t.waits = s.waits /\ SameBut(t, s, m) /\ SameData(t.info[m], s.info[m])
    BY <1>8 DEF PropPassed, ReadyPassed, PassedOf
  <2>2. t.info[n].cur = s.info[n].cur
    BY <2>1 DEF SameBut, SameNode, SameData
  <2> QED BY <1>2, <1>4, <2>1, <2>2
<1>9. ASSUME NEW m \in Ids, RemovedPassed(t, s, m) PROVE Sending(t, n, f)
  <2>1. t.waits = s.waits /\ SameBut(t, s, m) /\ t.info[m] = Blank
    BY <1>9 DEF RemovedPassed, PassedOf
  <2>2. t.info[n].cur < f
    BY <1>2, <2>1 DEF SameBut, SameNode, Blank
  <2> QED BY <1>4, <2>1, <2>2
<1>10. ASSUME NEW m \in Ids, AddedPassed(t, s, m) PROVE Sending(t, n, f)
  <2>1. /\ SameBut(t, s, m) /\ SameData(t.info[m], s.info[m])
        /\ Len(t.waits) = L + 1 /\ t.waits[1].until = "ready"
        /\ \A j \in 1..L : t.waits[j + 1] = s.waits[j]
    BY <1>10 DEF AddedPassed, L
  <2>2. t.info[n].cur < f
    BY <1>2, <2>1 DEF SameBut, SameNode, SameData
  <2> QED BY <1>5, <2>1, <2>2
<1>11. ASSUME NEW m \in Ids, DataPassed(t, s, m) PROVE Sending(t, n, f)
  <2>1. /\ t.waits = s.waits /\ SameBut(t, s, m) /\ At("data", m, p) /\ s.info[m].valid
        /\ t.info[m].last = p /\ t.info[m].cur = file[p].num /\ t.pos = p + 1
    BY <1>3, <1>11 DEF DataPassed, PassedOf, Passed, At
  <2>2. CASE m # n
    BY <1>2, <1>4, <2>1, <2>2 DEF SameBut, SameNode
  <2>3. CASE m = n
    <3>1. file[p].num \in Nat /\ s.info[n].cur \in Nat
      BY <1>3, FileFacts, PlayerFields DEF States
    <3>2. file[p].num <= s.info[n].cur + 1
      <4>1. CASE file[p].undo = 0 /\ file[p].num = 1
        BY <3>1, <4>1
      <4>2. CASE /\ At("data", n, file[p].undo) /\ file[p].undo < p
                 /\ file[file[p].undo].num = file[p].num - 1
        <5> DEFINE q == file[p].undo
        <5>1. At("data", n, q) /\ q < p /\ q \in 1..Len(file) /\ file[q].num = file[p].num - 1
          BY <4>2 DEF At
        <5> HIDE DEF q
        <5>2. file[q].num <= s.info[n].cur
          BY <2>1, <2>3, <5>1 DEF Kept, NodeKept
        <5> QED BY <3>1, <5>1, <5>2
      <4> QED BY <1>3, <2>1, <2>3, <4>1, <4>2, FramesNumbered
    <3>3. CASE file[p].num < f
      BY <1>4, <2>1, <2>3, <3>3
    <3>4. CASE file[p].num = f
      <4>1. L = 1
        <5> SUFFICES ASSUME L # 1 PROVE FALSE
          OBVIOUS
        <5>1. 1 \in 1..(L - 1)
          BY <1>1
        <5>2. s.waits[1].until # "frame"
          BY <1>1, <5>1
        <5> QED BY <2>1, <5>2, NotAwaited DEF At
      <4>2. Reached(t, n, f)
        BY <1>3, <2>1, <2>3, <3>4 DEF Reached
      <4> QED BY <1>1, <2>1, <4>1, <4>2 DEF Sending, L, w
    <3> QED BY <1>2, <3>1, <3>2, <3>3, <3>4
  <2> QED BY <2>2, <2>3
<1> QED BY <1>6, <1>7, <1>8, <1>9, <1>10, <1>11 DEF Played

\* The states on the way to a frame.
Sends(n, f) == {u \in Keeps : Ok(u) => Sending(u, n, f)}

\* A turn stays on the way.
LEMMA SendingTurns ==
  ASSUME FileOk, header # InvalidNodeID, NEW n \in Ids, NEW f \in Nat \ {0}, NEW s \in Sends(n, f)
  PROVE  Turn(s) \in Sends(n, f)
<1>1. /\ s \in States /\ s \in Keeps /\ s \in Walks
      /\ Ok(s) => Walk(s) /\ Kept(s) /\ Sending(s, n, f)
  BY DEF Sends, Keeps, Walks
<1>2. CASE ~Ok(s) \/ s.waits = <<>>
  BY <1>2 DEF Turn
<1>3. CASE Ok(s) /\ s.waits # <<>>
  <2> DEFINE t == Turn(s)
  <2>1. t \in Keeps
    BY <1>1, TurnWalks
  <2>2. ASSUME NEW u, u = t, Ok(u) PROVE Sending(u, n, f)
    <3>1. LoopLeft(u, s) \/ Turned(u, s)
      BY <1>1, <1>3, <2>2, TurnPlays
    <3>2. CASE LoopLeft(u, s)
      BY <1>1, <1>3, <3>2, SendingLeaves
    <3>3. CASE Turned(u, s)
      <4>1. Played(u, s) /\ NotOver(s) /\ Waiting(s)
        BY <1>1, <1>3, <3>3 DEF Turned, NotOver, Walk
      <4> QED BY <1>1, <1>3, <4>1, SendingPlays
    <3> QED BY <3>1, <3>2, <3>3
  <2> HIDE DEF t
  <2>3. t \in Sends(n, f)
    BY <2>1, <2>2 DEF Sends
  <2> QED BY <2>3 DEF t
<1> QED BY <1>2, <1>3

\* The loop that looks for a frame comes to rest behind it.
LEMMA SendingEnds ==
  ASSUME FileOk, header # InvalidNodeID, NEW n \in Ids, NEW f \in Nat \ {0}, NEW s \in Sends(n, f),
         s.waits # <<>>, NEW t, t = Run(s), Ok(t)
  PROVE  t \in Keeps /\ t \in Resting /\ Reached(t, n, f)
<1>1. s \in Keeps /\ s \in Walks
  BY DEF Sends, Keeps
<1>2. t \in Keeps /\ t \in Resting
  BY <1>1, RunWalks
<1> DEFINE Sts == Sends(n, f)
<1>3. \A u \in Sts : Turn(u) \in Sts
  BY SendingTurns
<1>4. PICK h \in [0..Enough -> Sts] : Run(s) = Stopped(h[Enough])
  <2>1. s \in Sts
    OBVIOUS
  <2> HIDE DEF Sts
  <2> QED BY <1>3, <2>1, RunTurns
<1> DEFINE e == h[Enough]
<1>5. e \in Sts /\ e \in PlayerType
  <2>1. Enough \in 0..Enough
    BY FileFacts DEF Enough
  <2>2. e \in Sts
    BY <1>4, <2>1
  <2> QED BY <2>2 DEF Sends, Keeps, Walks, States
<1>6. t = Stopped(e)
  BY <1>4
<1> HIDE DEF e
<1> DEFINE z == Stopped(e)
<1>7. /\ SameNodes(z, e) /\ z.pos = e.pos
      /\ Ok(z) => Ok(e) /\ e.waits = <<>>
  BY <1>5, StoppedIs
<1>8. t = z
  BY <1>6
<1> HIDE DEF z
<1>9. SameNodes(t, e) /\ t.pos = e.pos /\ Ok(e) /\ e.waits = <<>>
  BY <1>7, <1>8
<1>10. Reached(e, n, f)
  <2>1. Sending(e, n, f)
    BY <1>5, <1>9 DEF Sends
  <2>2. ~(Len(e.waits) \in Nat \ {0})
    BY <1>9
  <2> QED BY <2>1, <2>2 DEF Sending
<1> QED BY <1>2, <1>9, <1>10 DEF Reached, SameNodes

\* Before it, the frame is ahead.
LEMMA SendingStarts ==
  ASSUME FileOk, header # InvalidNodeID, NEW s \in Resting, Ok(s), Walk(s), Kept(s), NEW n, NEW f,
         Asked(s, n, f), s.info[n].cur < f
  PROVE  Sent(s, n, f) \in Sends(n, f) /\ Sent(s, n, f).waits # <<>>
<1> DEFINE t == Sent(s, n, f)
<1>1. /\ t \in Walks /\ Ok(t) /\ (Kept(s) => t \in Keeps)
      /\ t.pos = s.pos /\ t.info = s.info /\ Len(t.waits) = 1
      /\ t.waits[1] = [until |-> "frame", node |-> n, num |-> f]
  BY FrameSent
<1> HIDE DEF t
<1>2. t \in States
  BY <1>1 DEF Walks
<1>3. Sending(t, n, f)
  <2> DEFINE L == Len(t.waits)
  <2>1. L = 1 /\ L \in Nat \ {0} /\ \A j \in 1..(L - 1) : FALSE
    BY <1>1
  <2>2. t.waits[L] = [until |-> "frame", node |-> n, num |-> f]
    BY <1>1, <2>1
  <2> HIDE DEF L
  <2>3. t.info[n].cur < f
    BY <1>1
  <2> QED BY <2>1, <2>2, <2>3 DEF Sending, L
<1>4. t.waits # <<>>
  BY <1>1, <1>2, WaitsLen
<1> QED BY <1>1, <1>3, <1>4 DEF Sends, t

\* A seek forward shows the frame that was asked for.
LEMMA ForwardSought ==
  ASSUME FileOk, header # InvalidNodeID, NEW s \in Resting, Ok(s), Walk(s), Kept(s), NEW n, NEW f,
         Asked(s, n, f), s.info[n].cur < f,
         NEW t, t = ProcessEachNodeLastData(Run(Sent(s, n, f)), n), Ok(t)
  PROVE  Sought(t, n, f) /\ Kept(t)
<1> DEFINE b == Sent(s, n, f)
           c == Run(b)
           u == ProcessEachNodeLastData(c, n)
<1>1. n \in Ids /\ f \in Nat \ {0}
  <2>1. s.info[n].cur \in Nat
    BY PlayerFields DEF Asked, Resting, States
  <2> QED BY <2>1 DEF Asked
<1>2. b \in Sends(n, f) /\ b.waits # <<>>
  BY SendingStarts
<1>3. c \in Resting
  <2> HIDE DEF b
  <2>1. b \in Walks
    BY <1>2 DEF Sends, Keeps
  <2> QED BY <2>1, RunWalks
<1> HIDE DEF b
<1>4. Ok(c) => c \in Keeps /\ Reached(c, n, f)
  BY <1>1, <1>2, SendingEnds
<1> HIDE DEF c
<1>5. /\ u \in Resting
      /\ Ok(u) => LastsKept(u, c)
      /\ u.status = "wild" => c.status = "wild"
      /\ Ok(u) /\ c.info[n].last # 0 =>
           /\ At("data", n, c.info[n].last)
           /\ u.shown[n].data = c.info[n].last /\ u.pos = c.info[n].last + 1
  BY <1>1, <1>3, AllShown
<1>6. t = u
  BY DEF u, c, b
<1> HIDE DEF u
<1>7. LastsKept(t, c) /\ Ok(c)
  BY <1>5, <1>6 DEF LastsKept
<1>8. Kept(c) /\ c.info[n].cur = f /\ c.info[n].last # 0 /\ c.pos = c.info[n].last + 1
  BY <1>4, <1>7 DEF Keeps, Reached
<1>9. /\ At("data", n, c.info[n].last)
      /\ t.shown[n].data = c.info[n].last /\ t.pos = c.info[n].last + 1
  BY <1>5, <1>6, <1>8
<1>10. file[c.info[n].last].num = f
  <2>1. DataKnown(n, c.info[n])
    BY <1>1, <1>3 DEF Resting, States, Sound, Known
  <2>2. c.info[n].data # NoUndo
    BY <1>8, <2>1 DEF DataKnown, NoUndo
  <2> QED BY <1>8, <2>1, <2>2 DEF DataKnown
<1>11. ASSUME NEW i \in Ids PROVE NodeKept(i, t.info[i], t.pos)
  <2>1. NodeKept(i, c.info[i], c.pos)
    BY <1>8 DEF Kept
  <2>2. /\ t.info[i].last = c.info[i].last /\ t.info[i].cur = c.info[i].cur
        /\ t.info[i].valid = c.info[i].valid
    BY <1>7 DEF LastsKept, SameAdded, SameData
  <2> QED BY <1>8, <1>9, <2>1, <2>2 DEF NodeKept
<1> QED BY <1>9, <1>10, <1>11 DEF Sought, Kept

\* A seek that succeeds shows the frame that was asked for, and no node is taken apart,
\* unless the current frame is read again after more was played.
LEMMA SeekKeeps ==
  ASSUME FileOk, header # InvalidNodeID, NEW s \in Resting, Ok(s), Walk(s), Kept(s), NEW n, NEW f,
         Asked(s, n, f), NEW t, t = SeekTo(s, n, f), Ok(t)
  PROVE  /\ Sought(t, n, f)
         /\ ~(f = s.info[n].cur /\ s.pos # s.info[n].last + 1) => Kept(t)
<1> DEFINE cur == s.info[n].cur
<1>1. cur \in Nat /\ f \in Nat
  BY PlayerFields DEF Asked, Resting, States
<1>2. CASE f = cur /\ t = ProcessRecord(Placed(s, s.info[n].last))
  <2>1. LET u == ProcessRecord(Placed(s, s.info[n].last))
        IN  /\ u \in Resting /\ u.status # "wild"
            /\ Ok(u) => /\ Sought(u, n, f) /\ FrameRead(u, s, n, s.info[n].last)
                        /\ At("data", n, s.info[n].last) /\ file[s.info[n].last].num = f
    BY <1>2, RereadSought
  <2>2. Sought(t, n, f)
    BY <1>2, <2>1
  <2>3. s.pos = s.info[n].last + 1 => Kept(t)
    BY <1>2, RereadKept
  <2> QED BY <1>2, <2>2, <2>3
<1>3. CASE f # cur /\ CanSeekFast(s, n, f) /\ t = SeekFast(s, n, f)
  <2> DEFINE u == SeekFast(s, n, f)
  <2>1. /\ u \in Resting
        /\ Ok(u) => Sought(u, n, f) /\ FastRead(u, s, n, f)
        /\ u.status = "wild" => \E i \in Ids : s.temp[i] = Freed /\ ~s.info[i].generator
        /\ Ok(u) => /\ u.begun = s.begun
                    /\ \A i \in Ids : /\ SameAdded(u.info[i], s.info[i])
                                      /\ u.temp[i] = Freed => s.temp[i] = Freed
    BY <1>3, FastSought
  <2>2. t = u
    BY <1>3
  <2> HIDE DEF u
  <2>3. /\ t \in Resting /\ Sought(t, n, f) /\ FastRead(t, s, n, f)
        /\ \A i \in Ids : SameAdded(t.info[i], s.info[i])
    BY <2>1, <2>2
  <2>4. Kept(t)
    BY <1>3, <2>3, FastKept
  <2> QED BY <2>3, <2>4
<1>4. CASE f < cur /\ t = SeekBack(SeekLocations(s, n, f), n, f)
  <2> DEFINE a == SeekLocations(s, n, f)
             u == SeekBack(a, n, f)
  <2>1. /\ a \in Resting /\ SameRest(a, s) /\ a.info = s.info /\ a.shown = s.shown
        /\ \/ a = s
           \/ Locates(s, n, f) /\ \A i \in Ids : a.temp[i] = PlaceFor(s, n, f, i)
        /\ Locates(s, n, f) => \A i \in Ids : a.temp[i] = PlaceFor(s, n, f, i)
    BY Located
  <2> HIDE DEF a
  <2>2. Ok(a) /\ Asked(a, n, f) /\ f < a.info[n].cur /\ Kept(a)
    BY <1>4, <2>1 DEF SameRest, Ok, Asked, Kept
  <2>3. /\ u \in Resting /\ u.status # "wild"
        /\ Ok(u) => Sought(u, n, f)
        /\ Ok(u) => /\ u.begun = a.begun
                    /\ \A i \in Ids : SameAdded(u.info[i], a.info[i]) /\ u.temp[i] = a.temp[i]
    BY <2>1, <2>2, BackSought
  <2>4. Ok(u) => Kept(u)
    BY <2>1, <2>2, BackKept
  <2>5. t = u
    BY <1>4 DEF u, a
  <2> HIDE DEF u
  <2> QED BY <2>3, <2>4, <2>5
<1>5. CASE f # cur /\ ~(f < cur) /\ t = ProcessEachNodeLastData(Run(Sent(s, n, f)), n)
  <2>1. cur < f
    BY <1>1, <1>5
  <2> QED BY <1>5, <2>1, ForwardSought
<1>6. \/ f = cur /\ t = ProcessRecord(Placed(s, s.info[n].last))
      \/ f # cur /\ CanSeekFast(s, n, f) /\ t = SeekFast(s, n, f)
      \/ f < cur /\ t = SeekBack(SeekLocations(s, n, f), n, f)
      \/ f # cur /\ ~(f < cur) /\ t = ProcessEachNodeLastData(Run(Sent(s, n, f)), n)
  BY SeekCases
<1> QED BY <1>2, <1>3, <1>4, <1>5, <1>6

-----------------------------------------------------------------------------
(* The behaviours of the player *)

\* What holds between two calls: a player that was opened is at rest, in a file
\* that is not written any more; it plays only a complete file, and then it has
\* followed a pointer into a freed table only if a node is added or removed
\* between the first frame and the end. No node is taken apart before a seek
\* does that the code does not account for.
PlayerInv ==
  /\ FileOk /\ seeks \in 0..MaxSeeks /\ spoiled \in BOOLEAN
  /\ \/ player = NewPlayer
     \/ /\ stage \in {"done", "crashed"} /\ player \in Resting
        /\ Ok(player) => header # InvalidNodeID /\ Walk(player)
        /\ player.status = "wild" => ~Quiet
        /\ Ok(player) /\ ~spoiled => Kept(player)

\* What is said of a state and the file stays while nothing is written.
LEMMA FileSame ==
  ASSUME UNCHANGED recorderVars
  PROVE  /\ \A s : (s \in Resting)' <=> s \in Resting
         /\ \A s : (Walk(s))' <=> Walk(s)
         /\ \A s : (Kept(s))' <=> Kept(s)
         /\ Quiet' <=> Quiet
<1>1. file' = file /\ header' = header
  BY DEF recorderVars
<1>2. Quiet' <=> Quiet
  BY <1>1 DEF Quiet
<1>3. ASSUME NEW s PROVE (s \in Resting)' <=> s \in Resting
  BY <1>1 DEF Resting, States, Sound, BeforeEnd, Ok, Known, DataKnown, PropKnown, IndexKnown, AddedKnown,
                TempKnown, WaitKnown, At, IsIndexOf
<1>4. ASSUME NEW s PROVE (Walk(s))' <=> Walk(s)
  BY <1>1, <1>2 DEF Walk, Waiting, Indexed, Alive, At
<1>5. ASSUME NEW s PROVE (Kept(s))' <=> Kept(s)
  BY <1>1 DEF Kept, NodeKept, At
<1> QED BY <1>2, <1>3, <1>4, <1>5

\* Nothing is recorded and played at first.
LEMMA PlayerStarts == Init => PlayerInv
<1> SUFFICES ASSUME Init PROVE PlayerInv
  OBVIOUS
<1>1. RecorderInv
  BY RecorderStarts DEF Init
<1>2. /\ Len(file) = 0 /\ numNodes = 0 /\ DOMAIN recorded = {} /\ announcing = 0
      /\ stage = "recording" /\ header = InvalidNodeID /\ 0 <= MaxNodes
  BY RecorderAssumption DEF Init, RecorderInit
<1>3. FileShape
  <2>1. \A k \in 1..Len(file) : FALSE
    BY <1>2
  <2> QED BY <1>2, <2>1 DEF FileShape, NodesAdded, EndLast, RemovedLast, FramesBegin, ReadySaid, HeaderRight
<1>4. seeks \in 0..MaxSeeks /\ spoiled \in BOOLEAN /\ player = NewPlayer
  <2>1. player = NewPlayer /\ seeks = 0 /\ spoiled = FALSE
    BY DEF Init, PlayerInit
  <2>2. 0 \in 0..MaxSeeks
    BY PlayerAssumption
  <2> QED BY <2>1, <2>2
<1> QED BY <1>1, <1>3, <1>4 DEF PlayerInv, FileOk

\* Every step keeps it.
LEMMA PlayerStep == PlayerInv /\ [Next]_vars => PlayerInv'
<1> SUFFICES ASSUME PlayerInv, [Next]_vars PROVE PlayerInv'
  OBVIOUS
<1>1. FileOk /\ seeks \in 0..MaxSeeks /\ spoiled \in BOOLEAN
  BY DEF PlayerInv
<1>2. ASSUME [RecorderNext]_recorderVars PROVE FileOk'
  BY <1>1, <1>2, RecorderStep, ShapeStep DEF FileOk
<1>3. ASSUME UNCHANGED recorderVars
      PROVE  FileOk' /\ UNCHANGED <<stage, header>>
  BY <1>2, <1>3 DEF recorderVars
<1>4. header \in Int
  BY <1>1 DEF FileOk, RecorderInv, RecorderTypes, FileShape, HeaderRight, InvalidNodeID
<1>5. ASSUME UNCHANGED recorderVars, seeks' \in 0..MaxSeeks, spoiled' \in BOOLEAN,
             stage \in {"done", "crashed"}, player' \in Resting,
             Ok(player') => header # InvalidNodeID /\ Walk(player'),
             player'.status = "wild" => ~Quiet,
             Ok(player') /\ ~spoiled' => Kept(player')
      PROVE  PlayerInv'
  <2>1. (player \in Resting)'
    BY <1>5, FileSame
  <2>2. Walk(player') => Walk(player)'
    BY <1>5, FileSame
  <2>3. Quiet' <=> Quiet
    BY <1>5, FileSame
  <2>4. UNCHANGED <<stage, header>>
    BY <1>3, <1>5
  <2>5. Ok(player)' => header' # InvalidNodeID /\ Walk(player)'
    BY <1>5, <2>2, <2>4 DEF Ok, InvalidNodeID
  <2>6. (player.status = "wild")' => ~Quiet'
    BY <1>5, <2>3
  <2>7. (Kept(player))' <=> Kept(player')
    BY <1>5, FileSame
  <2>8. Ok(player)' /\ ~spoiled' => (Kept(player))'
    BY <1>5, <2>7 DEF Ok
  <2> QED BY <1>3, <1>5, <2>1, <2>4, <2>5, <2>6, <2>8 DEF PlayerInv
<1>6. CASE RecorderNext /\ UNCHANGED <<player, seeks, spoiled>>
  <2>1. stage \in {"recording", "finalizing"}
    BY <1>6 DEF RecorderNext, OnNodeAdded, OnNodePropChanged, OnNodeStateReady, OnNodeNewData, OnNodeRemoved,
                FinalizeNode, FinalizeEnd, FinalizeHeader, Crash
  <2>2. player = NewPlayer
    BY <2>1 DEF PlayerInv
  <2>3. player' = NewPlayer
    BY <1>6, <2>2
  <2>4. NewPlayer' = NewPlayer
    BY DEF NewPlayer
  <2> QED BY <1>1, <1>2, <1>6, <2>3, <2>4 DEF PlayerInv
<1>7. CASE OpenStream
  <2>1. PICK r \in Repeats :
          player' = ProcessUntilFirstData([player EXCEPT !.status = "ok", !.repeat = r,
                                                         !.pos = 1, !.maxID = header])
    BY <1>7 DEF OpenStream
  <2>2. player.status = "new" /\ stage \in {"done", "crashed"} /\ UNCHANGED <<recorderVars, seeks, spoiled>>
    BY <1>7 DEF OpenStream
  <2>3. player = NewPlayer
    <3>1. player \notin Resting
      BY <2>2, PlayerFields DEF Resting, States
    <3> QED BY <3>1 DEF PlayerInv
  <2> DEFINE t == ProcessUntilFirstData(Opened(r))
  <2>4. player' = t /\ r \in BOOLEAN
    BY <2>1, <2>3, PlayerAssumption DEF Opened
  <2>5. CASE header = InvalidNodeID
    <3>1. t \in Resting /\ ~Ok(t) /\ t.status # "wild"
      BY <1>1, <2>4, <2>5, OpenRefuses
    <3> HIDE DEF t
    <3> QED BY <1>1, <1>5, <2>2, <2>4, <3>1
  <2>6. CASE header # InvalidNodeID
    <3>1. t \in Resting /\ t \in Keeps
      BY <1>1, <1>4, <2>4, <2>6, OpenWalks
    <3> HIDE DEF t
    <3>2. t.status # "wild" /\ (Ok(t) => Walk(t) /\ Kept(t))
      BY <3>1 DEF Keeps, Walks
    <3> QED BY <1>1, <1>5, <2>2, <2>4, <2>6, <3>1, <3>2
  <2> QED BY <2>5, <2>6
<1>8. ASSUME Ok(player)
      PROVE  /\ player \in Resting /\ player.waits = <<>> /\ player \in States /\ Walk(player)
             /\ header # InvalidNodeID /\ stage \in {"done", "crashed"}
             /\ ~spoiled => Kept(player)
  <2>1. player # NewPlayer
    BY <1>8 DEF Ok, NewPlayer
  <2> QED BY <1>8, <2>1 DEF PlayerInv, Resting
<1>9. CASE ReadNext
  <2> DEFINE t == ProcessRecord(player)
  <2>1. Ok(player) /\ player' = t /\ UNCHANGED <<recorderVars, seeks, spoiled>>
    BY <1>9 DEF ReadNext
  <2>2. player \in Walks
    BY <1>8, <2>1 DEF Walks, Ok
  <2>3. t \in Walks /\ t \in Resting /\ (player \in Keeps => t \in Keeps)
    BY <1>1, <1>8, <2>1, <2>2, ReadWalks
  <2> HIDE DEF t
  <2>4. t.status # "wild" /\ (Ok(t) => Walk(t)) /\ (Ok(t) /\ ~spoiled => Kept(t))
    BY <1>8, <2>1, <2>2, <2>3 DEF Keeps, Walks
  <2>5. spoiled' = spoiled
    BY <2>1
  <2> QED BY <1>1, <1>5, <1>8, <2>1, <2>3, <2>4, <2>5
<1>10. ASSUME NEW n \in Ids, NEW f \in 0..MaxEvents, SeekToFrame(n, f) PROVE PlayerInv'
  <2> DEFINE t == SeekTo(player, n, f)
  <2>1. /\ Ok(player) /\ player' = t /\ UNCHANGED recorderVars
        /\ seeks < MaxSeeks /\ seeks' = seeks + 1
    BY <1>10 DEF SeekToFrame
  <2>2. spoiled' \in BOOLEAN
    BY <1>10 DEF SeekToFrame
  <2>6. ~spoiled' => ~spoiled /\ ~(f = player.info[n].cur /\ player.pos # player.info[n].last + 1)
    BY <1>10 DEF SeekToFrame, Spoils
  <2>3. seeks' \in 0..MaxSeeks
    BY <1>1, <2>1, PlayerAssumption
  <2>4. Asked(player, n, f)
    BY <1>10, RecorderAssumption DEF SeekToFrame, Asked
  <2>5. t \in Resting /\ (t.status = "wild" => ~Quiet) /\ (Ok(t) => Walk(t))
    BY <1>1, <1>8, <2>1, <2>4, SeekWalks
  <2>7. ASSUME Ok(t), ~spoiled' PROVE Kept(t)
    BY <1>1, <1>8, <2>1, <2>4, <2>6, <2>7, SeekKeeps
  <2> HIDE DEF t
  <2> QED BY <1>5, <1>8, <2>1, <2>2, <2>3, <2>5, <2>7
<1>11. CASE UNCHANGED vars
  <2>1. UNCHANGED <<recorderVars, player, seeks, spoiled>>
    BY <1>11 DEF vars
  <2>2. CASE player = NewPlayer
    <3>1. NewPlayer' = NewPlayer
      BY DEF NewPlayer
    <3> QED BY <1>1, <1>3, <2>1, <2>2, <3>1 DEF PlayerInv
  <2>3. CASE player # NewPlayer
    <3>1. /\ stage \in {"done", "crashed"} /\ player' \in Resting
          /\ Ok(player') => header # InvalidNodeID /\ Walk(player')
          /\ player'.status = "wild" => ~Quiet
          /\ Ok(player') /\ ~spoiled' => Kept(player')
      BY <2>1, <2>3 DEF PlayerInv
    <3> QED BY <1>1, <1>5, <2>1, <3>1
  <2> QED BY <2>2, <2>3
<1> QED BY <1>6, <1>7, <1>9, <1>10, <1>11 DEF Next

-----------------------------------------------------------------------------
(* Theorems *)

\* The invariant.
LEMMA PlayerAlways == Spec => []PlayerInv
<1>1. Init => PlayerInv
  BY PlayerStarts
<1>2. PlayerInv /\ [Next]_vars => PlayerInv'
  BY PlayerStep
<1> QED BY <1>1, <1>2, PTL DEF Spec

\* The file the player is given is exact.
THEOREM PlayedExact == Spec => []FileExact
<1>1. PlayerInv => FileExact
  BY ExactFile DEF PlayerInv, FileOk
<1> QED BY <1>1, PlayerAlways, PTL

\* The types, and that no node is ahead of its frames.
THEOREM PlayerTyped == Spec => []TypeOK
<1>1. PlayerInv => TypeOK
  <2> SUFFICES ASSUME PlayerInv PROVE TypeOK
    OBVIOUS
  <2>1. /\ FileOk /\ seeks \in 0..MaxSeeks /\ spoiled \in BOOLEAN /\ MaxNodes \in Nat
        /\ Len(file) \in Nat
    BY FileFacts, RecorderAssumption DEF PlayerInv
  <2>2. /\ numNodes \in Nat /\ numNodes <= MaxNodes /\ header \in -1..MaxNodes
        /\ DOMAIN recorded \subseteq 1..numNodes /\ announcing \in DOMAIN recorded \cup {0}
        /\ configID \in Nat /\ stage \in {"recording", "finalizing", "done", "crashed"}
    BY <2>1 DEF FileOk, RecorderInv, RecorderTypes, FileShape, HeaderRight, NodesAdded, InvalidNodeID
  <2>3. CASE player = NewPlayer
    <3>1. /\ player.status = "new" /\ player.waits = <<>> /\ player.pos = 0 /\ player.maxID = 0
          /\ \A n \in Ids : player.info[n] = Blank /\ player.temp[n] = Null /\ player.shown[n] = Nothing
      BY <2>3 DEF NewPlayer
    <3>2. \A n \in Ids : /\ player.info[n].cur = 0 /\ player.info[n].last = 0 /\ player.info[n].frames = 0
                         /\ player.shown[n].data = 0 /\ player.shown[n].prop = 0
      BY <3>1 DEF Blank, Nothing
    <3> QED BY <2>1, <2>2, <3>1, <3>2 DEF TypeOK, Places
  <2>4. CASE player \in Resting
    <3>1. player \in PlayerType /\ Sound(player) /\ player.waits = <<>>
      BY <2>4 DEF Resting, States
    <3>2. /\ player.status \in {"ok", "eof", "corrupt", "wild", "endless"}
          /\ player.maxID = header /\ player.pos \in 0..(Len(file) + 1)
      BY <3>1, PlayerFields DEF Sound
    <3>3. ASSUME NEW n \in Ids
          PROVE  /\ player.info[n].cur \in 0..player.info[n].frames /\ player.info[n].last \in Places
                 /\ player.temp[n] \in Places \cup {Null, Freed}
                 /\ player.shown[n].data \in Places /\ player.shown[n].prop \in Places
      <4>1. /\ player.info[n].cur \in Nat /\ player.info[n].frames \in Nat
            /\ player.info[n].cur <= player.info[n].frames
        BY <3>1, PlayerFields DEF Sound, Known, AddedKnown
      <4>2. player.info[n].last \in 0..Len(file)
        BY <2>1, <3>1 DEF Sound, Known, DataKnown, NoUndo, At
      <4>3. player.temp[n] \in Places \cup {Null, Freed}
        BY <2>1, <3>1 DEF Sound, Known, TempKnown, At, Places
      <4> QED BY <3>1, <4>1, <4>2, <4>3 DEF Sound, Places
    <3> QED BY <2>1, <2>2, <3>1, <3>2, <3>3 DEF TypeOK
  <2> QED BY <2>3, <2>4 DEF PlayerInv
<1> QED BY <1>1, PlayerAlways, PTL

\* A file whose recorder died before FinalizeStream rewrote the header is never
\* played: the header is right only when everything else is written, and with the
\* number of nodes that it has before, HandleRecord refuses every record.
THEOREM Refused == Spec => []UnfinishedRefused
<1>1. ASSUME PlayerInv, Ok(player) PROVE stage = "done"
  <2>1. player # NewPlayer
    BY <1>1 DEF Ok, NewPlayer
  <2>2. header # InvalidNodeID
    BY <1>1, <2>1 DEF PlayerInv
  <2> QED BY <1>1, <2>2 DEF PlayerInv, FileOk, RecorderInv, TablesKept
<1>2. PlayerInv => UnfinishedRefused
  BY <1>1 DEF UnfinishedRefused
<1> QED BY <1>2, PlayerAlways, PTL

\* A fast seek follows a pointer into a freed table only in a file that adds or
\* removes a node between the first frame and the end.
THEOREM TablesAlive == Spec => []IndexAlive
<1>1. ASSUME PlayerInv, player.status = "wild" PROVE ~Quiet
  <2>1. player # NewPlayer
    BY <1>1 DEF NewPlayer
  <2> QED BY <1>1, <2>1 DEF PlayerInv
<1>2. PlayerInv => IndexAlive
  BY <1>1 DEF IndexAlive, Quiet
<1> QED BY <1>2, PlayerAlways, PTL

\* A seek that succeeds shows the frame that was asked for, and playing goes on behind
\* it, however it was found: handled again, through the tables, by undoing what
\* was played, or by handling what comes before it.
THEOREM SeekShown == Spec => SoughtShown
<1> DEFINE A == \A n \in Ids, f \in 1..MaxEvents :
                  SeekToFrame(n, f) /\ ~spoiled /\ Ok(player') =>
                    LET d == file[player'.shown[n].data]
                    IN  d.type = "data" /\ d.node = n /\ d.num = f /\ player'.pos = player'.shown[n].data + 1
<1>1. PlayerInv => A
  <2> SUFFICES ASSUME PlayerInv, NEW n \in Ids, NEW f \in 1..MaxEvents,
                      SeekToFrame(n, f), ~spoiled, Ok(player')
               PROVE  LET d == file[player'.shown[n].data]
                      IN  /\ d.type = "data" /\ d.node = n /\ d.num = f
                          /\ player'.pos = player'.shown[n].data + 1
    OBVIOUS
  <2>1. Ok(player) /\ player' = SeekTo(player, n, f)
    BY DEF SeekToFrame
  <2>2. player # NewPlayer
    BY <2>1 DEF Ok, NewPlayer
  <2>3. /\ FileOk /\ header # InvalidNodeID /\ player \in Resting
        /\ Walk(player) /\ Kept(player)
    BY <2>1, <2>2 DEF PlayerInv
  <2>4. Asked(player, n, f)
    BY RecorderAssumption DEF SeekToFrame, Asked
  <2> DEFINE t == player'
  <2>5. Sought(t, n, f)
    BY <2>1, <2>3, <2>4, SeekKeeps
  <2> QED BY <2>5 DEF Sought, At
<1>2. PlayerInv /\ [Next]_vars => [A]_vars
  BY <1>1
<1>3. SoughtShown <=> [][A]_vars
  BY DEF SoughtShown
<1> QED BY <1>2, <1>3, PlayerAlways, PTL DEF Spec
=============================================================================
